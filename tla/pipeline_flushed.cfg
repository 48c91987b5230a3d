SPECIFICATION FairSpec
CONSTANTS
  Batch = 2
  MaxLen = 3
  Prompt = FALSE
  MaxEvents = 1
  MaxBucket = 2
  MaxFaults = 1
PROPERTY HeldIsProcessed
