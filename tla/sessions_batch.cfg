SPECIFICATION Spec
CONSTANTS
  a = a
  b = b
  Service = {a, b}
  Timer = Timer
  Named = {b}
  First = {a}
  Batch = TRUE
  MaxSession = 4
  MaxFork = 2
  MaxWake = 0
INVARIANT CallAccounted
CHECK_DEADLOCK FALSE
