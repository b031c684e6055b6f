SPECIFICATION Spec
CONSTANTS
  Phones = {p1, p2, p3}
  Durations = {1, 2}
  DefaultTtl = 1
  MaxTtl = 1
  MaxTime = 2
  MaxCodes = 2
  MaxGrants = 3
SYMMETRY Symmetry
INVARIANTS
  PairingsArePaidFor
  OneCodeOnePhone
  ForgetSticks
PROPERTIES
  OnlyTheCodeOnScreen
