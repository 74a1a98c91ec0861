SPECIFICATION Spec
CONSTANTS
  w1 = w1
  r1 = r1
  r2 = r2
  Writers = {w1}
  Readers = {r1}
  NoThread = NoThread
  Size = 2
  W = 4
  MaxLen = 3
  MaxBytes = 6
INVARIANT GetReturnsItsLength
