SPECIFICATION Spec
CONSTANTS
  Call = {c1, c2, c3}
  Rules <- HybridRules
  TokenUnit = 3
  MaxTime = 7
  MaxResends = 1
SYMMETRY CallSymmetry
INVARIANTS TypeOK RetryAfterExact
PROPERTIES ImplementsWindow ImplementsBucket
CHECK_DEADLOCK FALSE
