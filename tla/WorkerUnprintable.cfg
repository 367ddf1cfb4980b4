\* The documented attempt limit, against errors whose message a dead-letter record refuses.
CONSTANTS
  j1 = j1
  j2 = j2
  j3 = j3
  None = None
  Job = {j1, j2}
  ValidJob = {j1, j2}
  WordBits = 8
  Policy <- TwoAttempts
  JitterHash <- ZeroHash
  FailureThreshold = 2
  OpenSeconds = 1
  MinInterval = 0
  MaxBatchSize = 1
  CounterMax = 3
  Replies <- BlankErrors
  MaxOffered = 2
  MaxNow = 8
  MaxLatency = 0
  MaxCrashes = 0
  MaxUnrecorded = 3
  DrainMayLag = TRUE
SPECIFICATION Spec
INVARIANTS AttemptsAreBounded
CHECK_DEADLOCK FALSE
