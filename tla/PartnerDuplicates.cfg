\* The partner access point as the gateway: a lost answer and the worker's retry.
SPECIFICATION PartnerSpec
CONSTANTS
  j1 = j1
  j2 = j2
  j3 = j3
  Job <- OneJob
  None = None
  Policy <- TwoAttempts
  JitterHash <- ZeroHash
  WordBits = 8
  FailureThreshold = 2
  OpenSeconds = 1
  MinInterval = 0
  MaxBatchSize = 1
  CounterMax = 3
  ValidJob <- OneJob
  Replies <- PartnerReplies
  MaxOffered = 1
  MaxNow = 4
  MaxLatency = 1
  MaxCrashes = 0
  MaxUnrecorded = 0
  DrainMayLag = TRUE
  Serialisable <- OneJob
  Recognises = FALSE
INVARIANT OneSubmissionPerKey
CHECK_DEADLOCK FALSE
