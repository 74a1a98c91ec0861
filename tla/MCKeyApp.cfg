CONSTANTS
  Codes = {A, B, C, D}
  NoCode = NoCode
  MAX_KEYS = 3
  Gap = 1
  Long = 2
  MaxClicks = 2
  MaxLock = 4
SPECIFICATION Spec
SYMMETRY Sym
INVARIANTS SlotsFollowKeys  ChordOver WaitingClickIsFirst
PROPERTIES NamesKeysDown ClicksArePresses
