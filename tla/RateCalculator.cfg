CONSTANTS
  Keys = {k1, k2}
  MaxClock = 2
  MaxMoved = 3
SYMMETRY KeySymmetry
SPECIFICATION Spec
INVARIANTS
  TypeOK
  NeverOverReports
  LosesNothing
