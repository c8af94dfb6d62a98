CONSTANTS
  Conns = {c1, c2}
  NoConn = NoConn
  Requests <- RequestsUpTo2
  NoReq = 0
  BufCap = 1
  MaxStarts = 1
  MaxCycle = 0
  AcceptMayFail = FALSE
  Bridges = {b1}
SYMMETRY ConnSymmetry
SPECIFICATION Spec
INVARIANTS
  SuccessMeansSignalSent
