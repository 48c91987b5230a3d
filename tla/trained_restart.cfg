SPECIFICATION Spec
CONSTANTS
  AlphaNum = 3
  AlphaDen = 10
  ZThreshold = 3
  MinSamples = 2
  Rates = {1, 13}
  MaxCount = 4
  MaxRestarts = 1
INVARIANT NeverTrained
CHECK_DEADLOCK FALSE
