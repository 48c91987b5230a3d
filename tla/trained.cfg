SPECIFICATION Spec
CONSTANTS
  AlphaNum = 3
  AlphaDen = 10
  ZThreshold = 3
  MinSamples = 2
  Rates = {1, 2, 3, 5, 8, 13}
  MaxCount = 4
  MaxRestarts = 0
INVARIANT NeverTrained
CHECK_DEADLOCK FALSE
