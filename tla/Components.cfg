\* The lifecycle, the acknowledgement stream, the rule-pack registry, the SMP
\* cache, the outbox tables and the retry schedule, one at a time.
CONSTANTS
  \* TransmissionLifecycle
  None = None
  SubState <- MCSubState
  Rules <- MCRules
  Start <- MCStart
  \* AckStream
  s1 = s1
  tA = tA
  tB = tB
  AckEvent <- MCAckEvent
  Subscriber = {s1}
  TenantOf <- MCTenantOf
  BatchLimit = 2
  MaxDrops = 2
  \* RegistryReload
  w = w
  r1 = r1
  File = {1, 2}
  Absent = Absent
  Malformed = Malformed
  Version = {"v1"}
  Caller = {r1}
  Watcher = w
  MaxEdits = 2
  \* SmpCache
  k1 = k1
  k2 = k2
  Looker = {k1, k2}
  Ttl = 2
  Nothing = Nothing
  MaxTime = 5
  MaxAccess = 1
  \* OutboxTables
  d1 = d1
  Document = {d1}
  NoRow = NoRow
  RowAttempts = 2
  MaxReplays = 2
  MaxUnwritten = 1
  \* RetrySchedule
  WordBits = 8
  Policies <- EdgePolicies
  Hashes <- EdgeHashes
SPECIFICATION ComponentsSpec
INVARIANTS TypeOK ComponentsTypeOK HistoryIsAPath EntriesAreLimited OnceAndInOrder OnlyLateEventsAreSkipped HitsAreRecent EveryDocumentIsSomewhere CallsPerReplay
PROPERTIES LifecycleReachesArchive ReceiptsAreFinal RetriesBackOff PublishedIsReceived WholeReadings EditsAreRead StopEnds
CHECK_DEADLOCK FALSE
