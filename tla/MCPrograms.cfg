CONSTANTS
  Tids = {t1, t2, t3}
  NoTid = NoTid
  MaxRuns = 2
  Conns = {c1, c2, c3}
  Descrs = {4, 5}
  NoConn = NoConn
  MaxEvents = 2
  Suns = {1, 2}
  Indexes = {0}
  Nobody = Nobody
  QueueLen = 1
  MaxSends = 3
SPECIFICATION FairSpec
INVARIANTS NothingIsLeft OnlyLeftoversIntrude TablesAgree
PROPERTIES FunctionsReturn  PlayerReturns 
CHECK_DEADLOCK FALSE
