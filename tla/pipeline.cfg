SPECIFICATION FairSpec
CONSTANTS
  Batch = 2
  MaxLen = 2
  Prompt = FALSE
  MaxEvents = 2
  MaxBucket = 2
  MaxFaults = 2
INVARIANTS TypeOK CountedOnce
PROPERTIES LostByFaultsOnly NothingSlips
