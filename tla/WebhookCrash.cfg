\* A receiver that fails once between verify and the side effect.
SPECIFICATION Spec
CONSTANTS
  e1 = e1
  None = None
  Event <- OneEvent
  MaxAttempts = 2
  Base = 1
  Factor = 2
  MaxBackoff = 3
  WordMax = 3
  ReplayWindow = 1
  MaxNow = 3
  MaxDuplicates = 1
  MaxFailures = 1
INVARIANT AtLeastOnce
CHECK_DEADLOCK FALSE
