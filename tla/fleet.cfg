SPECIFICATION Spec
CONSTANTS
  Node = {n1, n2}
  Redis = redis
  Request = {q1, q2, q3}
  FleetRule <- OnePerTwo
  FailModes = {"open", "closed"}
  Links = {"up", "down"}
  TokenUnit = 2
  FailureThreshold = 1
  CooldownMs = 2
  MaxTime = 3
  MaxFaults = 1
SYMMETRY FleetSymmetry
INVARIANTS TypeOK LimitPerAuthority ClosedIsGlobal
PROPERTY DegradedOnlyInOutage
CHECK_DEADLOCK FALSE
