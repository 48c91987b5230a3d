SPECIFICATION Spec
CONSTANTS
  FailureThreshold = 2
  CooldownMs = 2
  MaxAwaiting = 3
  BadRules = TRUE
INVARIANT DegradesOnlyForRedis
