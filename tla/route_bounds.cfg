SPECIFICATION Spec
CONSTANTS
  BaseLimit = 4
  RouteLimits = {1, 4}
  Node = {n1}
  MinSamples = 1
  AuditMax = 1
  ManualLimits = {}
  Clears = FALSE
  Faults = FALSE
  CalmRate = 1
  Rates = {1, 4}
  MaxReplies = 1
INVARIANT InForceBounded
