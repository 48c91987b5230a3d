SPECIFICATION Spec
CONSTANTS
  AlphaNum = 3
  AlphaDen = 10
  ZThreshold = 3
  MinSamples = 2
  Rates = {1, 2, 3, 5, 8, 13}
  MaxCount = 4
  MaxRestarts = 1
INVARIANTS BaselineIsWeighted HigherIsWorse SteadyIsOrganic
CHECK_DEADLOCK FALSE
