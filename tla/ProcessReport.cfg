CONSTANTS
  Pids <- ThreePids
  Worlds <- Trees
  Quiet <- Alone
  Programs <- Started
  MaxEvents = 2
SPECIFICATION Spec
INVARIANTS
  TypeOK
  
  EveryNodeIsShown
  NameIsNoInterpreter
  RosProcessIsNamed
  CycleNeedsReuse
