CONSTANTS
  Nodes = {n1, n2, n3}
  head = head
  Data = {0, 1}
  Items = {i1, i2, i3, i4}
  list = list
  NULL = NULL
SPECIFICATION ListsSpec
INVARIANTS RingInv ReadsFollowTheList
PROPERTIES DequeSpec LoopsEnd
