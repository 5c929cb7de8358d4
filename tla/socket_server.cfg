SPECIFICATION MCSpec
CONSTANTS
  c1 = c1
  c2 = c2
  Caller = {c1, c2}
  NoOne = NoOne
  NSlot = 2
  Units = 2
  MaxId = 4
  MaxSend = 3
  MaxCall = 3
  MaxBatch = 1
SYMMETRY Callers
INVARIANTS
  TypeOK
  WireWhole
  SendOrder
  SendingCounted
  ToldOnce
CHECK_DEADLOCK FALSE
