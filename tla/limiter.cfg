SPECIFICATION FairSpec
CONSTANTS
  FailureThreshold = 2
  CooldownMs = 2
  MaxAwaiting = 3
  BadRules = TRUE
INVARIANTS TypeOK StaysAway TrialIsOut
PROPERTIES OpensAtThreshold Recovers
