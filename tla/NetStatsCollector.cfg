CONSTANTS
  Pids = {p1, p2}
  NoPid = NoPid
  Socks = {s1, s2}
  EbpfPids = {q1}
  Protocols = {tcp, udp}
  Directions = {tx, rx}
  MapSize = 2
  MaxClock = 3
  MaxBytes = 2
  MaxTraffic = 3
SYMMETRY Symmetry
SPECIFICATION Spec
INVARIANTS
  TypeOK
  SamplesOfLastSeen
  ReportsOnlyTraffic
  EveryByteAccountedFor
  ClockRaises
