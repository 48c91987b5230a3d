SPECIFICATION Spec
CONSTANTS
  Call = {c1, c2, c3}
  Rules <- OverrideRules
  TokenUnit = 2
  MaxTime = 5
  MaxResends = 1
SYMMETRY CallSymmetry
INVARIANTS NoOverAdmit LogIsExact SpendBound RemainingIsHonest
CHECK_DEADLOCK FALSE
