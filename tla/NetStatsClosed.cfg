CONSTANTS
  Pids = {p1, p2}
  NoPid = NoPid
  Socks = {s1, s2}
  MaxClock = 2
  MaxBytes = 2
SYMMETRY Symmetry
SPECIFICATION Spec
INVARIANTS
  OutgoingTraffic
