SPECIFICATION FairSpec
CONSTANTS
  BaseLimit = 4
  RouteLimits = {4}
  Node = {}
  MinSamples = 1
  AuditMax = 2
  ManualLimits = {1, 5}
  Clears = FALSE
  Faults = FALSE
  CalmRate = 1
  Rates = {1, 4}
  MaxReplies = 1
PROPERTY AuditedFromIsTrue
