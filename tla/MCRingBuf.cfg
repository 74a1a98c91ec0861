SPECIFICATION Spec
CONSTANTS
  w1 = w1
  r1 = r1
  r2 = r2
  Writers = {w1}
  Readers = {r1, r2}
  NoThread = NoThread
  Size = 4
  W = 8
  MaxLen = 5
  MaxBytes = 9
SYMMETRY Symmetry
INVARIANTS RingInv AvailableIsThere
PROPERTY FifoSpec
