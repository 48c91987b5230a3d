SPECIFICATION FairSpec
CONSTANTS
  Client = {c1, c2}
  RecentMax = 2
  MaxEvents = 3
  Lane <- TwoLanes
  EveryMs <- Intervals
  MaxMs = 2
  ForceMs = 2
INVARIANTS TypeOK CaughtUp TimerIffClients AutoStopsOnTime BackstopHolds QuietBeforeQuit
PROPERTIES Delivered ShutdownEnds
CHECK_DEADLOCK FALSE
