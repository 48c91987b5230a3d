SPECIFICATION FairSpec
CONSTANTS
  FailureThreshold = 2
  CooldownMs = 2
  MaxAwaiting = 3
  BadRules = FALSE
PROPERTY OpenLastsCooldown
