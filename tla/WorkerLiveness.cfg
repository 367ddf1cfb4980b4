\* Every row is decided in the end, whatever the gateway answers and beside
\* a row (j3) whose document is invalid.
CONSTANTS
  j1 = j1
  j2 = j2
  j3 = j3
  None = None
  Job = {j1, j2, j3}
  ValidJob = {j1, j2}
  WordBits = 8
  Policy <- TwoAttempts
  JitterHash <- ZeroHash
  FailureThreshold = 2
  OpenSeconds = 2
  MinInterval = 1
  MaxBatchSize = 2
  CounterMax = 3
  Replies <- Counting
  MaxOffered = 2
  MaxNow = 8
  MaxLatency = 0
  MaxCrashes = 0
  MaxUnrecorded = 0
  DrainMayLag = FALSE
SPECIFICATION FairSpec
PROPERTIES EveryRowIsDecided
\* The drain goes idle when every row is decided.
CHECK_DEADLOCK FALSE
