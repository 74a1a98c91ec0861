SPECIFICATION Spec
CONSTANTS
  c1 = c1
  c2 = c2
  c3 = c3
  Calls = {c1, c2}
  ReqCmds = {INIT, OPEN}
  RegCmds = {UNSOL}
  None = None
  Wild = Wild
  Backlog = 2
  MayCall = {"sync", "async", "register"}
  TestBuild = FALSE
  AnswerBits = {TRUE, FALSE}
  MaxReports = 2
SYMMETRY Symmetry
INVARIANTS TypeOK ClientInv      ReplyIsForTheCommand PendingMatchesList ServerMemorySafe
