SPECIFICATION Spec
CONSTANTS
  Call = {c1, c2}
  Rules <- WindowRules
  TokenUnit = 3
  MaxTime = 3
  MaxResends = 0
SYMMETRY CallSymmetry
INVARIANT ResetIsFull
CHECK_DEADLOCK FALSE
