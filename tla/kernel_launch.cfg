SPECIFICATION FairSpec
CONSTANTS
  w1 = w1
  w2 = w2
  logger = logger
  boot = boot
  agent = agent
  timer = timer
  NoOne = NoOne
  Worker = {w1, w2}
  Poster = {}
  Service = {logger, boot, agent}
  Boot <- MCBoot
  Weight <- MCWeight
  Killable = {agent}
  MaxMsg = 2
  MaxAbort = 1
INVARIANTS
  OneOwner
  NoDanglingContext
  NoDanglingQueue
  DeletedOnce
  InitBeforeDispatch
  FullInv
PROPERTIES
  ImplementsMailbox
  NodeStops
  RequestSettled
  RetiredIsFreed
