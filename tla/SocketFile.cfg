CONSTANTS
  Daemons = {d1, d2}
  Service = d1
  NoFile = NoFile
  MaxCrashes = 2
SPECIFICATION FairSpec
INVARIANTS
  UpIsReachable
PROPERTIES
  ServiceComesBack
