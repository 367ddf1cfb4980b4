\* Crashes, dropped batches and unprintable errors: what the table, the worker and the gateway agree on.
CONSTANTS
  j1 = j1
  j2 = j2
  j3 = j3
  None = None
  Job = {j1, j2}
  ValidJob = {j1, j2}
  WordBits = 8
  Policy <- TwoAttempts
  JitterHash <- ZeroHash
  FailureThreshold = 2
  OpenSeconds = 1
  MinInterval = 0
  MaxBatchSize = 2
  CounterMax = 3
  Replies <- AllSorts
  MaxOffered = 2
  MaxNow = 2
  MaxLatency = 1
  MaxCrashes = 1
  MaxUnrecorded = 1
  DrainMayLag = TRUE
SPECIFICATION Spec
SYMMETRY Symmetry
INVARIANTS TypeOK AttemptBudget DeadLetterIsEarned
PROPERTIES NoResubmission ImplementsDelivery
\* The drain goes idle when every row is decided and the clock has stopped.
CHECK_DEADLOCK FALSE
