SPECIFICATION Spec
CONSTANTS
  c1 = c1
  c2 = c2
  c3 = c3
  Calls = {c1}
  ReqCmds = {INIT}
  RegCmds = {UNSOL}
  None = None
  Wild = Wild
  Backlog = 2
  MayCall = {"sync", "async", "register"}
  TestBuild = FALSE
  AnswerBits = {TRUE}
  MaxReports = 1
INVARIANT RegistrationsStay
