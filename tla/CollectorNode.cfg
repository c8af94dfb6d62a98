CONSTANTS
  Ttl = 1
  MaxClock = 3
  Dirs <- TwoDirs
  Preferred <- OneName
  Names = {"coretemp", "nvme"}
  NoSensor = NoSensor
  Unavailable = Unavailable
  Requests = {r1, r2}
  NoReq = NoReq
SYMMETRY Symmetry
SPECIFICATION Spec
INVARIANTS
  TypeOK
PROPERTIES
  AddressesAreRecent
  KillServiceSpec
