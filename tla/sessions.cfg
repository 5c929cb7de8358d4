SPECIFICATION FairSpec
CONSTANTS
  a = a
  b = b
  Service = {a, b}
  Timer = Timer
  Named = {b}
  First = {a}
  Batch = FALSE
  MaxSession = 3
  MaxFork = 1
  MaxWake = 1
INVARIANTS
  TypeOK
  CallAccounted
  ResumedOnce
PROPERTY ExitIsNoticed
CHECK_DEADLOCK FALSE
