\* Four attempts, whose backoff saturates, against everything the transport and the receiver do.
SPECIFICATION FairSpec
CONSTANTS
  e1 = e1
  None = None
  Event <- OneEvent
  MaxAttempts = 4
  Base = 1
  Factor = 2
  MaxBackoff = 3
  WordMax = 3
  ReplayWindow = 1
  MaxNow = 3
  MaxDuplicates = 1
  MaxFailures = 2
INVARIANTS TypeOK HandledOnce DeliveredIsTaken
PROPERTIES BackoffGrows EveryDeliveryEnds
CHECK_DEADLOCK FALSE
