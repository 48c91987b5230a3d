SPECIFICATION Spec
CONSTANTS
  Call = {c1, c2, c3}
  Rules <- WindowTwoLengthsRules
  TokenUnit = 4
  MaxTime = 4
  MaxResends = 0
SYMMETRY CallSymmetry
INVARIANT LogIsExact
CHECK_DEADLOCK FALSE
