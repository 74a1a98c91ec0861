CONSTANTS
  Letters = {a, b}
  NL = NL
  Buf = 4
  MaxText = 6
  MaxPattern = 4
  MaxFile = 6
  MaxWord = 3
  Opening = {open1, open2}
  Closing = {close1}
  Others = {a}
  MIN_STACK_SIZE = 3
  Allocated = 2
  MaxCode = 6
  Units = {65, 128, 233, 2047, 2048, 55357, 65535}
  Bytes = {65, 137, 169, 195, 226, 240, 255}
  MaxUnits = 3
  MaxBytes = 4
  Signatures <- SignaturesNamed
  Sizes = {1, 2}
SPECIFICATION Spec
INVARIANTS KmpFinds WgrepPrints  TextConverts 
CHECK_DEADLOCK FALSE
