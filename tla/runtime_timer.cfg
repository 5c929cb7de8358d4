SPECIFICATION Spec
CONSTANTS
  t1 = t1
  t2 = t2
  t3 = t3
  Timer = {t1, t2, t3}
  Near = 2
  Level = 2
  Levels = 3
  Unit <- MCUnit
  MaxDelay = 7
  MaxDiff = 2
SYMMETRY Symmetry
INVARIANTS
  TypeOK
  OnTime
  InOrder
