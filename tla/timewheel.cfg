SPECIFICATION Spec
CONSTANTS
  a = a
  b = b
  N = 3
  Interval = 2
  Start = 0
  Name = {a, b}
  Reach = 3
  MaxTimer = 3
  MaxTime = 8
  MaxRaise = 1
SYMMETRY Names
INVARIANTS
  TypeOK
  NotEarly
  NotLate
  OncePerFailure
  PendingIsInOneSlot
  CancelReaches
