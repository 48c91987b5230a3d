SPECIFICATION Spec
CONSTANTS
  Rules <- TwoLengthsRules
  TokenUnit = 4
  MaxTime = 6
  MaxCalls = 4
INVARIANT RepliesAgree
CHECK_DEADLOCK FALSE
