SPECIFICATION Spec
CONSTANTS
  c1 = c1
  c2 = c2
  Conn = {c1, c2}
  Exit = Exit
  NoOne = NoOne
  MaxFrame = 1
INVARIANT EndedIsForgotten
