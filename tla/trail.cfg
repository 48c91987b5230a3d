SPECIFICATION Spec
CONSTANTS
  BaseLimit = 5
  RouteLimits = {5}
  Node = {}
  MinSamples = 1
  AuditMax = 4
  ManualLimits = {1, 25}
  Clears = FALSE
  Faults = TRUE
  CalmRate = 1
  Rates = {4, 23}
  MaxReplies = 1
INVARIANTS TypeOK MovesAsSaid TrailJoins
