CONSTANTS
  Conns = {c1, c2}
  NoConn = NoConn
  Requests <- RequestsUpTo1
  NoReq = 0
  BufCap = 1
  MaxStarts = 2
  MaxCycle = 0
  AcceptMayFail = FALSE
  Bridges = {b1}
SPECIFICATION FairSpec
INVARIANTS
  DaemonOwnsItsEnds
  BridgeOwnsItsEnds
PROPERTIES
  EveryCallReturns
  BridgeRecovers
