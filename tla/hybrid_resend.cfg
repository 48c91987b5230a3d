SPECIFICATION Spec
CONSTANTS
  Call = {c1, c2}
  Rules <- HybridRules
  TokenUnit = 3
  MaxTime = 3
  MaxResends = 1
SYMMETRY CallSymmetry
INVARIANT HalvesInSync
CHECK_DEADLOCK FALSE
