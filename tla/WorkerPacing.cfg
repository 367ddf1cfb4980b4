\* Breaker, spacing and retry delays over many batches: slow calls and
\* half-open probes.
CONSTANTS
  j1 = j1
  j2 = j2
  j3 = j3
  None = None
  Job = {j1, j2}
  ValidJob = {j1, j2}
  WordBits = 8
  Policy <- ThreeAttempts
  JitterHash <- ZeroHash
  FailureThreshold = 2
  OpenSeconds = 3
  MinInterval = 2
  MaxBatchSize = 2
  CounterMax = 3
  Replies <- Counting
  MaxOffered = 2
  MaxNow = 8
  MaxLatency = 1
  MaxCrashes = 0
  MaxUnrecorded = 0
  DrainMayLag = TRUE
SPECIFICATION Spec
SYMMETRY Symmetry
PROPERTIES BreakerHolds CallsAreSpaced RetryWaits
\* The drain goes idle when every row is decided and the clock has stopped.
CHECK_DEADLOCK FALSE
