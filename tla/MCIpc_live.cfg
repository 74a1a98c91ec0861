SPECIFICATION FairSpec
CONSTANTS
  c1 = c1
  c2 = c2
  c3 = c3
  Calls = {c1, c2}
  ReqCmds = {INIT}
  RegCmds = {UNSOL}
  None = None
  Wild = Wild
  Backlog = 1
  MayCall = {"sync", "async", "register"}
  TestBuild = FALSE
  AnswerBits = {TRUE}
  MaxReports = 1
PROPERTIES CallsReturn RequestsAreSettled
