CONSTANTS
  Pids <- ThreePids
  Interval = 2
  MaxEvents = 3
SPECIFICATION FairSpec
INVARIANTS
  TypeOK
  CachesAreBounded
  OldFiguresNeedTakeover
  CountedTwiceOnlyIfSmaller
PROPERTIES
  EveryRosProcessReported
