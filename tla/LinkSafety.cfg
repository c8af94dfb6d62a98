CONSTANTS
  Conns = {c1, c2}
  NoConn = NoConn
  Requests <- RequestsUpTo2
  NoReq = 0
  BufCap = 2
  MaxStarts = 1
  MaxCycle = 2
  AcceptMayFail = TRUE
  Bridges = {b1}
SYMMETRY ConnSymmetry
SPECIFICATION Spec
INVARIANTS
  TypeOK
  ConnectedIffSocket
  RefusedIsNeverSignalled
  WrongResponseNeedsLostCall
  ReaderEndsByCutAnswer
PROPERTIES
  SnapshotsNeverGoBack
  SignalledOnce
  KillServiceSpec
