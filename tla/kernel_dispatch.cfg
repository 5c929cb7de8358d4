SPECIFICATION Spec
CONSTANTS
  w1 = w1
  w2 = w2
  logger = logger
  boot = boot
  agent = agent
  timer = timer
  NoOne = NoOne
  Worker = {w1, w2}
  Poster = {timer}
  Service = {logger, boot}
  Boot <- MCBoot
  Weight <- MCWeight
  Killable = {boot}
  MaxMsg = 4
  MaxAbort = 0
INVARIANTS
  TypeOK
  NoConcurrentDispatch
  NoStrandedQueue
  RequestAccounted
  InOrder
