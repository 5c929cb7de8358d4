SPECIFICATION BeatSpec
CONSTANTS
  c1 = c1
  c2 = c2
  Conn = {c1}
  Exit = Exit
  NoOne = NoOne
  MaxFrame = 1
PROPERTY SilentIsClosed
