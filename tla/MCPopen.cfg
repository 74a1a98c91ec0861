CONSTANTS
  Pids = {p1, p2}
  Fds = {3, 4, 5, 6}
  None = None
SPECIFICATION FairSpec
INVARIANTS ChildrenAreRemembered TableMatchesStreams
PROPERTIES PcloseReturns
CHECK_DEADLOCK FALSE
