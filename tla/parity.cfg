SPECIFICATION Spec
CONSTANTS
  Rules <- MixedRules
  TokenUnit = 3
  MaxTime = 9
  MaxCalls = 5
INVARIANT RepliesAgree
CHECK_DEADLOCK FALSE
