SPECIFICATION FairSpec
CONSTANTS
  BaseLimit = 4
  RouteLimits = {4}
  Node = {n1}
  MinSamples = 1
  AuditMax = 1
  ManualLimits = {20}
  Clears = TRUE
  Faults = TRUE
  CalmRate = 1
  Rates = {4, 15}
  MaxReplies = 1
INVARIANT InForceBounded
PROPERTIES CalmLifts TakesEffect
