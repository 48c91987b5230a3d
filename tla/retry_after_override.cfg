SPECIFICATION Spec
CONSTANTS
  Call = {c1, c2, c3}
  Rules <- WindowTwoLimitsRules
  TokenUnit = 3
  MaxTime = 3
  MaxResends = 0
SYMMETRY CallSymmetry
INVARIANT RetryAfterExact
CHECK_DEADLOCK FALSE
