\* Two clients of one tenant walk the audit log through its rate limit, beside
\* events of another tenant.
CONSTANTS
  c1 = c1
  c2 = c2
  tA = tA
  tB = tB
  None = None
  Tenant = {tA, tB}
  Client = {c1, c2}
  Capacity = 1
  TokenParts = 5
  RefillParts = 3
  Rounding = 1
  WaitMax = 9
  MaxRoundings = 1
  HeaderTicks = 2
  Event <- MCEvent
  DefaultSize = 1
  MaxSize = 2
  Owner <- MCOwner
  Filter <- MCFilter
  MaxNow = 10
  MaxLag = 1
SPECIFICATION ApiFairSpec
INVARIANTS ApiTypeOK RateHolds WalkMissesNothing RepeatsComeFromLateEvents
PROPERTIES RetryAfterSuffices WalksEnd
CHECK_DEADLOCK FALSE
