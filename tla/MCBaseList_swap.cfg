CONSTANTS
  Nodes = {n1, n2, n3}
  head = head
  Data = {0}
SPECIFICATION SwapSpec
INVARIANTS SwapExchanges
