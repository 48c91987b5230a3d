SPECIFICATION FairSpec
CONSTANTS
  BaseLimit = 12
  RouteLimits = {4}
  Node = {}
  MinSamples = 1
  AuditMax = 1
  ManualLimits = {}
  Clears = FALSE
  Faults = FALSE
  CalmRate = 1
  Rates = {1, 12, 50}
  MaxReplies = 1
PROPERTY CalmReturnsToBase
