SPECIFICATION FairSpec
CONSTANTS
  Node = {n1}
  Redis = redis
  Request = {q1}
  FleetRule <- OnePerTwo
  FailModes = {"open"}
  Links = {"silent"}
  TokenUnit = 2
  FailureThreshold = 1
  CooldownMs = 1
  MaxTime = 1
  MaxFaults = 0
PROPERTY EveryRequestDecided
CHECK_DEADLOCK FALSE
