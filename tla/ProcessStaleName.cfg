CONSTANTS
  Pids <- TwoPids
  Interval = 2
  MaxEvents = 4
SPECIFICATION Spec
INVARIANTS
  NameIsOfProcess
