---------------------------- MODULE ComponentProofs ----------------------------
(***************************************************************************)
(* Theorems about the outbox tables, the SMP cache, the retry schedule and *)
(* the rule-pack registry, and about the composition of the components     *)
(* that MCComponents checks.                                               *)
(***************************************************************************)
EXTENDS MCComponents, RetryPolicyProofs, LifecycleProofs, TLAPS

-----------------------------------------------------------------------------
(***************************************************************************)
(* The outbox tables.  Every step is about one document, so the inductive  *)
(* invariant is a conjunction over documents: where a document is, what it *)
(* was charged, and that one with a recorded receipt keeps its row.        *)
(***************************************************************************)
HasRow(d) == live[d] # NoRow

\* The calls that the replays of a document and its present row account for.
Bought(d) == IF HasRow(d) THEN RowAttempts * replays[d] + live[d].attempts
             ELSE RowAttempts * (1 + replays[d])

Located(d) ==
  /\ d \notin known =>
       /\ ~HasRow(d) /\ d \notin dead /\ d \notin settled
       /\ submitted[d] = 0 /\ replays[d] = 0
  /\ d \in known => HasRow(d) \/ d \in dead
  /\ HasRow(d) /\ d \in dead => replays[d] > 0
  /\ replays[d] > 0 => d \in dead
  /\ HasRow(d) => live[d].attempts < RowAttempts
  /\ d \in settled =>
       HasRow(d) /\ live[d].state \in {"sent", "rejected", "delivered"}

Charged(d) ==
  submitted[d] <= Bought(d) + (IF d \in settled THEN 1 ELSE 0) + unwritten[d]

DocumentInv(d) == Located(d) /\ Charged(d)

TablesInv == TablesTypeOK /\ \A d \in Document : DocumentInv(d)

\* The budget of one more replay.
LEMMA OneMoreBudget ==
  ASSUME NEW a \in Nat, NEW b \in Nat
  PROVE  /\ a * b \in Nat /\ a * (1 + b) \in Nat
         /\ a * (1 + b) = a * b + a
         /\ a * (b + 1) = a * b + a
BY SMT

\* What a step of one document leaves to the others.
Untouched(e) ==
  /\ live'[e] = live[e] /\ submitted'[e] = submitted[e]
  /\ replays'[e] = replays[e] /\ unwritten'[e] = unwritten[e]
  /\ (e \in dead') = (e \in dead) /\ (e \in known') = (e \in known)
  /\ (e \in settled') = (e \in settled)

\* A step of one document keeps what holds of the others.
LEMMA OthersKeepTheirs ==
  ASSUME NEW e \in Document, DocumentInv(e), Untouched(e)
  PROVE  DocumentInv(e)'
BY DEF DocumentInv, Located, Charged, Untouched, HasRow, Bought

\* What the drain makes of a due row keeps the invariant.
LEMMA DrainKeepsTablesInv ==
  ASSUME TablesInv, NEW d \in Document, Drain(d)
  PROVE  TablesInv'
<1> USE TablesAssumption DEF TablesAssumption
<1>1. /\ RowAttempts \in Nat /\ replays[d] \in Nat /\ unwritten[d] \in Nat
      /\ submitted[d] \in Nat /\ DocumentInv(d) /\ HasRow(d) /\ live[d] \in LiveRow
      /\ live[d].state = "reserved" /\ d \notin settled /\ d \in known
      /\ submitted[d] <= RowAttempts * replays[d] + live[d].attempts + unwritten[d]
      /\ live[d].attempts \in Nat
  BY DEF Drain, Settle, Reschedule, MoveToDeadLetter, WriteNothing, Call, Due,
         TablesInv, TablesTypeOK, DocumentInv, Located, Charged, HasRow, Bought, LiveRow
<1>2. /\ RowAttempts * replays[d] \in Nat
      /\ RowAttempts * (1 + replays[d]) = RowAttempts * replays[d] + RowAttempts
  BY <1>1, OneMoreBudget
<1>3. \A e \in Document \ {d} : Untouched(e)
  BY DEF Drain, Settle, Reschedule, MoveToDeadLetter, WriteNothing, Call, Due,
         Untouched, TablesInv, TablesTypeOK
<1>4. \A e \in Document \ {d} : DocumentInv(e)'
  BY <1>3, OthersKeepTheirs DEF TablesInv
<1>5. CASE \E state \in {"sent", "rejected", "delivered"} : Settle(d, state)
  <2> PICK state \in {"sent", "rejected", "delivered"} : Settle(d, state)
    BY <1>5
  <2>1. TablesTypeOK'
    BY <1>1 DEF Settle, Call, TablesInv, TablesTypeOK, LiveRow, LiveState
  <2>0. /\ live'[d] = [live[d] EXCEPT !.state = state]
        /\ live'[d] \in LiveRow
        /\ replays' = replays /\ submitted'[d] = submitted[d] + 1
    BY <1>1 DEF Settle, Call, TablesInv, TablesTypeOK, LiveRow, LiveState
  <2>2. /\ HasRow(d)' /\ live'[d].state = state
        /\ live'[d].attempts = live[d].attempts
        /\ Bought(d)' = RowAttempts * replays[d] + live[d].attempts
        /\ submitted'[d] = submitted[d] + 1 /\ d \in settled'
    BY <1>1, <2>0 DEF Settle, TablesInv, LiveRow, HasRow, Bought
  <2>3. Located(d)'
    BY <1>1, <2>2 DEF Settle, Call, DocumentInv, Located
  <2>4. Charged(d)'
    BY <1>1, <1>2, <2>2 DEF Settle, Call, Charged
  <2> QED
    BY <1>4, <2>1, <2>3, <2>4 DEF TablesInv, DocumentInv
<1>6. CASE Reschedule(d)
  <2>1. TablesTypeOK'
    BY <1>1, <1>6 DEF Reschedule, LastAttempt, Call, TablesInv, TablesTypeOK, LiveRow
  <2>2. /\ HasRow(d)' /\ live'[d].attempts = live[d].attempts + 1
        /\ Bought(d)' = RowAttempts * replays[d] + live[d].attempts + 1
        /\ submitted'[d] = submitted[d] + 1
        /\ live[d].attempts + 1 < RowAttempts
    BY <1>1, <1>2, <1>6, <2>1
       DEF Reschedule, LastAttempt, Call, TablesInv, TablesTypeOK, LiveRow, HasRow, Bought
  <2>3. Located(d)'
    BY <1>1, <1>6, <2>2 DEF Reschedule, DocumentInv, Located
  <2>4. Charged(d)'
    BY <1>1, <1>2, <1>6, <2>2 DEF Reschedule, Charged
  <2> QED
    BY <1>4, <2>1, <2>3, <2>4 DEF TablesInv, DocumentInv
<1>7. CASE MoveToDeadLetter(d)
  <2>1. TablesTypeOK'
    BY <1>1, <1>7 DEF MoveToDeadLetter, Call, TablesInv, TablesTypeOK
  <2>2. /\ ~HasRow(d)' /\ d \in dead' /\ replays[d] = 0
        /\ Bought(d)' = RowAttempts * (1 + replays[d])
        /\ submitted'[d] = submitted[d] + 1
        /\ live[d].attempts < RowAttempts
    BY <1>1, <1>7 DEF MoveToDeadLetter, Call, TablesInv, TablesTypeOK, HasRow,
                      Bought, DocumentInv, Located, Charged
  <2>3. Located(d)'
    BY <1>1, <1>7, <2>2 DEF MoveToDeadLetter, DocumentInv, Located
  <2>4. Charged(d)'
    BY <1>1, <1>2, <1>7, <2>2 DEF MoveToDeadLetter, Charged
  <2> QED
    BY <1>4, <2>1, <2>3, <2>4 DEF TablesInv, DocumentInv
<1>8. CASE WriteNothing(d)
  <2>1. TablesTypeOK'
    BY <1>1, <1>8 DEF WriteNothing, Call, TablesInv, TablesTypeOK
  <2>2. /\ HasRow(d)' /\ live'[d] = live[d]
        /\ Bought(d)' = RowAttempts * replays[d] + live[d].attempts
        /\ submitted'[d] = submitted[d] + 1 /\ unwritten'[d] = unwritten[d] + 1
    BY <1>1, <1>8 DEF WriteNothing, Call, TablesInv, TablesTypeOK, HasRow, Bought
  <2>3. Located(d)'
    BY <1>1, <1>8, <2>2 DEF WriteNothing, DocumentInv, Located
  <2>4. Charged(d)'
    BY <1>1, <1>2, <1>8, <2>2 DEF WriteNothing, Charged
  <2> QED
    BY <1>4, <2>1, <2>3, <2>4 DEF TablesInv, DocumentInv
<1> QED
  BY <1>5, <1>6, <1>7, <1>8 DEF Drain

\* A replay keeps the invariant.
LEMMA ReplayKeepsTablesInv ==
  ASSUME TablesInv, NEW d \in Document, Replay(d)
  PROVE  TablesInv'
<1> USE TablesAssumption DEF TablesAssumption
<1>1. /\ RowAttempts \in Nat /\ replays[d] \in Nat /\ unwritten[d] \in Nat
      /\ submitted[d] \in Nat /\ DocumentInv(d) /\ d \in known
  BY DEF TablesInv, TablesTypeOK, Replay, DocumentInv, Located, Charged
<1>2. /\ RowAttempts * replays[d] \in Nat
      /\ RowAttempts * (1 + replays[d]) = RowAttempts * replays[d] + RowAttempts
      /\ RowAttempts * (replays[d] + 1) = RowAttempts * replays[d] + RowAttempts
  BY <1>1, OneMoreBudget
<1>3. \A e \in Document \ {d} : DocumentInv(e)'
  <2> TAKE e \in Document \ {d}
  <2>1. Untouched(e)
    BY DEF Replay, Insert, DeadAfterReplay, Untouched, TablesInv, TablesTypeOK
  <2> QED
    BY <2>1, OthersKeepTheirs DEF TablesInv
<1>4. TablesTypeOK'
  BY DEF Replay, Insert, DeadAfterReplay, TablesInv, TablesTypeOK, LiveRow, LiveState
<1>5. DocumentInv(d)'
  BY <1>1, <1>2 DEF Replay, Insert, DeadAfterReplay, LiveRowExists, TablesInv,
       TablesTypeOK, LiveRow, LiveState, DocumentInv, Located, Charged, HasRow, Bought
<1> QED
  BY <1>3, <1>4, <1>5 DEF TablesInv

\* Every reachable state of the tables is well typed, and every document is
\* where its history says.
LEMMA TablesInvariant == TablesSpec => []TablesInv
<1> USE TablesAssumption DEF TablesAssumption
<1>1. TablesInit => TablesInv
  <2> SUFFICES ASSUME TablesInit PROVE TablesInv
    OBVIOUS
  <2>1. TablesTypeOK
    BY DEF TablesInit, TablesTypeOK
  <2>2. ASSUME NEW d \in Document PROVE DocumentInv(d)
    BY <2>2, OneMoreBudget DEF TablesInit, DocumentInv, Located, Charged, HasRow, Bought
  <2> QED
    BY <2>1, <2>2 DEF TablesInv
<1>2. TablesInv /\ [TablesNext]_tableVars => TablesInv'
  <2> SUFFICES ASSUME TablesInv, [TablesNext]_tableVars PROVE TablesInv'
    OBVIOUS
  <2>1. ASSUME NEW d \in Document, Enqueue(d) PROVE TablesInv'
    <3>1. TablesTypeOK'
      BY <2>1 DEF Enqueue, Insert, TablesInv, TablesTypeOK, LiveRow, LiveState
    <3>2. RowAttempts * 0 = 0
      BY SMT
    <3>3. DocumentInv(d)'
      BY <2>1, <3>2 DEF Enqueue, Insert, TablesInv, TablesTypeOK, LiveRow, LiveState,
                        DocumentInv, Located, Charged, HasRow, Bought
    <3>4. \A e \in Document \ {d} : Untouched(e)
      BY <2>1 DEF Enqueue, Insert, Untouched, TablesInv, TablesTypeOK
    <3> QED
      BY <3>1, <3>3, <3>4, OthersKeepTheirs DEF TablesInv
  <2>2. ASSUME NEW d \in Document, Drain(d) PROVE TablesInv'
    BY <2>2, DrainKeepsTablesInv
  <2>3. ASSUME NEW d \in Document, Replay(d) PROVE TablesInv'
    BY <2>3, ReplayKeepsTablesInv
  <2>4. ASSUME NEW d \in Document, Promote(d) PROVE TablesInv'
    <3>1. TablesTypeOK'
      BY <2>4 DEF Promote, TablesInv, TablesTypeOK, LiveRow, LiveState
    <3>2. DocumentInv(d)'
      BY <2>4 DEF Promote, TablesInv, TablesTypeOK, LiveRow, LiveState,
                  DocumentInv, Located, Charged, HasRow, Bought
    <3>3. \A e \in Document \ {d} : Untouched(e)
      BY <2>4 DEF Promote, Untouched, TablesInv, TablesTypeOK
    <3> QED
      BY <3>1, <3>2, <3>3, OthersKeepTheirs DEF TablesInv
  <2>5. CASE UNCHANGED tableVars
    BY <2>5 DEF tableVars, TablesInv, TablesTypeOK, DocumentInv, Located, Charged, HasRow, Bought
  <2> QED
    BY <2>1, <2>2, <2>3, <2>4, <2>5 DEF TablesNext
<1> QED
  BY <1>1, <1>2, PTL DEF TablesSpec

(***************************************************************************)
(* No document is lost between the tables, in whatever order enqueues,     *)
(* drains, moves and replays come.                                         *)
(***************************************************************************)
THEOREM DocumentsAreKept == TablesSpec => []EveryDocumentIsSomewhere
<1>1. TablesInv => EveryDocumentIsSomewhere
  BY DEF TablesInv, TablesTypeOK, DocumentInv, Located, HasRow, EveryDocumentIsSomewhere
<1> QED
  BY <1>1, TablesInvariant, PTL

(***************************************************************************)
(* The calls made for a document are paid for by its replays and by its    *)
(* unwritten outcomes, for every budget and number of replays.             *)
(***************************************************************************)
THEOREM CallsArePaid == TablesSpec => []CallsPerReplay
<1> USE TablesAssumption DEF TablesAssumption
<1>1. TablesInv => CallsPerReplay
  <2> SUFFICES ASSUME TablesInv, NEW d \in Document
               PROVE  submitted[d] <= RowAttempts * (1 + replays[d]) + unwritten[d]
    BY DEF CallsPerReplay
  <2>1. /\ RowAttempts \in Nat \ {0} /\ replays[d] \in Nat /\ unwritten[d] \in Nat
        /\ submitted[d] \in Nat /\ Located(d) /\ Charged(d)
        /\ HasRow(d) => live[d].attempts \in Nat
    BY DEF TablesInv, TablesTypeOK, LiveRow, DocumentInv, HasRow
  <2>2. /\ RowAttempts * replays[d] \in Nat
        /\ RowAttempts * (1 + replays[d]) = RowAttempts * replays[d] + RowAttempts
    BY <2>1, OneMoreBudget
  <2>3. CASE HasRow(d)
    <3>1. /\ Bought(d) = RowAttempts * replays[d] + live[d].attempts
          /\ live[d].attempts < RowAttempts
      BY <2>1, <2>3 DEF Located, Bought
    <3> QED
      BY <2>1, <2>2, <2>3, <3>1 DEF Charged
  <2>4. CASE ~HasRow(d)
    BY <2>1, <2>2, <2>4 DEF Charged, Located, Bought
  <2> QED
    BY <2>3, <2>4
<1> QED
  BY <1>1, TablesInvariant, PTL

(***************************************************************************)
(* A document whose receipt was recorded is never submitted again: its row *)
(* stays where the worker does not take it, and no draft is put in its     *)
(* place.  Nothing is said of a receipt that was lost with its outcome.    *)
(***************************************************************************)
THEOREM RecordedReceiptsAreFinal == TablesSpec => ReceiptsAreFinal
<1>1. TablesInv /\ [TablesNext]_tableVars =>
        [\A d \in settled : submitted'[d] = submitted[d]]_tableVars
  <2> SUFFICES ASSUME TablesInv, TablesNext, NEW e \in settled
               PROVE  submitted'[e] = submitted[e]
    OBVIOUS
  <2>1. e \in Document /\ ~Due(e) /\ e \in known
    BY DEF TablesInv, TablesTypeOK, DocumentInv, Located, HasRow, Due
  <2>2. ASSUME NEW d \in Document, Drain(d) PROVE submitted'[e] = submitted[e]
    BY <2>1, <2>2 DEF Drain, Settle, Reschedule, MoveToDeadLetter, WriteNothing,
                      Call, TablesInv, TablesTypeOK
  <2> QED
    BY <2>1, <2>2 DEF TablesNext, Enqueue, Replay, Promote
<1> QED
  BY <1>1, TablesInvariant, PTL DEF TablesSpec, ReceiptsAreFinal

-----------------------------------------------------------------------------
(***************************************************************************)
(* The SMP cache.  An answer on its way was true when it was fetched, and  *)
(* an entry expires no later than the time to live, and the delay of the   *)
(* slowest answer, after its access point was given up.                    *)
(***************************************************************************)
FetchedWasTrue ==
  \A l \in Looker : stage[l] = "fetched" =>
    /\ answer[l] \in 0 .. MaxAccess /\ answer[l] <= access
    /\ fetchedAt[l] <= time
    /\ leftAt[answer[l]] # Nothing => fetchedAt[l] <= leftAt[answer[l]]

EntryExpires ==
  entry # Nothing =>
    /\ entry.value <= access
    /\ entry.expiresAt <= time + Ttl
    /\ leftAt[entry.value] # Nothing =>
         entry.expiresAt <= leftAt[entry.value] + Ttl + slowest

OnlyFormerAreLeft ==
  \A n \in 0 .. MaxAccess : leftAt[n] # Nothing => n < access /\ leftAt[n] <= time

CacheInv == CacheTypeOK /\ FetchedWasTrue /\ EntryExpires /\ OnlyFormerAreLeft

\* The cache and the answers on their way are well typed and not too old.
LEMMA CacheInvariant == CacheSpec => []CacheInv
<1> USE CacheAssumption DEF CacheAssumption
<1>1. CacheInit => CacheInv
  BY DEF CacheInit, CacheInv, CacheTypeOK, FetchedWasTrue, EntryExpires, OnlyFormerAreLeft
<1>2. CacheInv /\ [CacheNext]_cacheVars => CacheInv'
  <2> SUFFICES ASSUME CacheInv, [CacheNext]_cacheVars PROVE CacheInv'
    OBVIOUS
  <2> USE DEF CacheInv
  <2>1. CASE Move
    <3>1. CacheTypeOK'
      BY <2>1 DEF Move, CacheTypeOK
    <3>2. FetchedWasTrue'
      BY <2>1 DEF Move, CacheTypeOK, FetchedWasTrue, OnlyFormerAreLeft
    <3>3. EntryExpires'
      BY <2>1 DEF Move, CacheTypeOK, EntryExpires, OnlyFormerAreLeft
    <3>4. OnlyFormerAreLeft'
      BY <2>1 DEF Move, CacheTypeOK, OnlyFormerAreLeft
    <3> QED
      BY <3>1, <3>2, <3>3, <3>4
  <2>2. CASE CacheTick
    <3>1. CacheTypeOK'
      BY <2>2 DEF CacheTick, CacheTypeOK
    <3>2. FetchedWasTrue'
      BY <2>2 DEF CacheTick, CacheTypeOK, FetchedWasTrue
    <3>3. OnlyFormerAreLeft'
      BY <2>2 DEF CacheTick, CacheTypeOK, OnlyFormerAreLeft
    <3>4. EntryExpires'
      <4> SUFFICES ASSUME entry # Nothing
                   PROVE  /\ entry.value <= access /\ entry.expiresAt <= time + 1 + Ttl
                          /\ leftAt[entry.value] # Nothing =>
                               entry.expiresAt <= leftAt[entry.value] + Ttl + slowest
        BY <2>2 DEF CacheTick, EntryExpires
      <4>1. entry.expiresAt \in Nat /\ time \in Nat /\ Ttl \in Nat
        BY DEF CacheTypeOK
      <4> QED
        BY <4>1 DEF EntryExpires
    <3> QED
      BY <3>1, <3>2, <3>3, <3>4
  <2>3. ASSUME NEW l \in Looker, Hit(l) PROVE CacheInv'
    BY <2>3 DEF Hit, Dead, CacheTypeOK, FetchedWasTrue, EntryExpires,
                OnlyFormerAreLeft
  <2>4. ASSUME NEW l \in Looker, Miss(l) PROVE CacheInv'
    BY <2>4 DEF Miss, CacheTypeOK, FetchedWasTrue, EntryExpires, OnlyFormerAreLeft
  <2>5. ASSUME NEW l \in Looker, Fetch(l) PROVE CacheInv'
    BY <2>5 DEF Fetch, CacheTypeOK, FetchedWasTrue, EntryExpires, OnlyFormerAreLeft
  <2>6. ASSUME NEW l \in Looker, FailFetch(l) PROVE CacheInv'
    BY <2>6 DEF FailFetch, CacheTypeOK, FetchedWasTrue, EntryExpires, OnlyFormerAreLeft
  <2>7. ASSUME NEW l \in Looker, Put(l) PROVE CacheInv'
    <3> DEFINE age == time - fetchedAt[l]
    <3>1. /\ fetchedAt[l] \in Nat /\ fetchedAt[l] <= time /\ age \in 0 .. MaxTime
          /\ slowest' \in 0 .. MaxTime /\ age <= slowest' /\ slowest <= slowest'
          /\ answer[l] \in 0 .. MaxAccess /\ answer[l] <= access
      BY <2>7 DEF Put, CacheTypeOK, FetchedWasTrue
    <3>2. CacheTypeOK'
      BY <2>7, <3>1 DEF Put, CacheTypeOK
    <3>3. FetchedWasTrue' /\ OnlyFormerAreLeft'
      BY <2>7 DEF Put, CacheTypeOK, FetchedWasTrue, OnlyFormerAreLeft
    <3>4. EntryExpires'
      BY <2>7, <3>1 DEF Put, CacheTypeOK, FetchedWasTrue, EntryExpires
    <3> QED
      BY <3>2, <3>3, <3>4
  <2>8. CASE UNCHANGED cacheVars
    BY <2>8 DEF cacheVars, CacheTypeOK, FetchedWasTrue, EntryExpires, OnlyFormerAreLeft
  <2> QED
    BY <2>1, <2>2, <2>3, <2>4, <2>5, <2>6, <2>7, <2>8 DEF CacheNext
<1> QED
  BY <1>1, <1>2, PTL DEF CacheSpec

(***************************************************************************)
(* A hit is out of date by the time to live and the slowest put at most,   *)
(* for any number of threads and moves.                                    *)
(***************************************************************************)
THEOREM HitsStayRecent == CacheSpec => []HitsAreRecent
<1> USE CacheAssumption DEF CacheAssumption
<1>1. CacheInv => HitsAreRecent
  BY DEF CacheInv, CacheTypeOK, EntryExpires, OnlyFormerAreLeft, HitsAreRecent, Dead
<1> QED
  BY <1>1, CacheInvariant, PTL

-----------------------------------------------------------------------------
(***************************************************************************)
(* The retry schedule.  A delay exceeds the exponential delay of its       *)
(* attempt by at most that delay, which is what the next attempt adds,     *)
(* and every saturation that cuts the next one has cut this one before.    *)
(***************************************************************************)
\* The jitter at most doubles a delay.
LEMMA JitterCapBounds ==
  ASSUME NEW p, ValidPolicy(p), NEW n, RetryExists(p, n)
  PROVE  JitterCap(p, n) \in Nat /\ JitterCap(p, n) <= ExponentialDelay(p, n)
<1> DEFINE e == ExponentialDelay(p, n)
           percent == p.jitterPercent
<1>1. e \in Nat /\ percent \in 0 .. 100
  BY ExponentialDelayBounds, UMaxIsPositive DEF ValidPolicy, Word
<1> HIDE DEF e, percent
<1>2. e * percent \in Nat /\ e * percent <= 100 * e
  BY <1>1
<1>3. SaturatingMul(e, percent) \in Nat /\ SaturatingMul(e, percent) <= 100 * e
  BY <1>1, <1>2, UMaxIsPositive DEF SaturatingMul, SmallerOf
<1>4. JitterCap(p, n) = SaturatingMul(e, percent) \div 100
  BY DEF JitterCap, e, percent
<1>5. SaturatingMul(e, percent) \div 100 \in Nat
      /\ SaturatingMul(e, percent) \div 100 <= e
  BY <1>1, <1>3
<1> QED
  BY <1>4, <1>5 DEF e

\* A delay is at least the exponential delay of its attempt, at most twice it.
LEMMA DelayIsSpread ==
  ASSUME NEW p, ValidPolicy(p), NEW n, RetryExists(p, n), NEW h \in Nat
  PROVE  LET d == DelayForAttempt(p, n, h) e == ExponentialDelay(p, n) IN
           d \in Nat /\ e <= d /\ d <= 2 * e /\ d <= p.maxDelay
<1> DEFINE e == ExponentialDelay(p, n)
           cap == JitterCap(p, n)
           jitter == DeterministicJitter(h, cap)
           d == DelayForAttempt(p, n, h)
<1>1. e \in Nat /\ p.maxDelay \in 0 .. UMax /\ e <= p.maxDelay
  BY ExponentialDelayBounds, UMaxIsPositive DEF ValidPolicy, Word
<1>2. cap \in Nat /\ cap <= e
  BY JitterCapBounds
<1>3. jitter \in 0 .. cap
  BY <1>2, JitterIsBounded
<1>4. d = IF cap = 0 THEN e ELSE SmallerOf(SaturatingAdd(e, jitter), p.maxDelay)
  BY DEF DelayForAttempt
<1> HIDE DEF e, cap, jitter, d
<1>5. d \in Nat /\ e <= d /\ d <= 2 * e /\ d <= p.maxDelay
  BY <1>1, <1>2, <1>3, <1>4, UMaxIsPositive DEF SaturatingAdd, SmallerOf
<1> QED
  BY <1>5 DEF d, e

\* Until the multiplier reaches its last bit, whatever is at most twice this
\* exponential delay and within the maximum is at most the next.
LEMMA NextDoubles ==
  ASSUME NEW p, ValidPolicy(p), NEW n \in Nat \ {0}, n < WordBits,
         NEW d \in Nat, d <= 2 * ExponentialDelay(p, n), d <= p.maxDelay
  PROVE  d <= ExponentialDelay(p, n + 1)
<1> DEFINE m == 2^(n - 1)
           x == p.baseDelay * m
<1>1. WordBits \in Nat /\ p.baseDelay \in Nat /\ p.maxDelay \in 0 .. UMax
  BY UMaxIsPositive, WordAssumption DEF ValidPolicy, Word
<1>2. Multiplier(n) = m /\ m \in Nat
  <2>1. SmallerOf(n - 1, WordBits - 1) = n - 1
    BY <1>1 DEF SmallerOf
  <2> QED
    BY <2>1, MultiplierIsPositive DEF Multiplier
<1>3. Multiplier(n + 1) = 2 * m
  <2>1. SmallerOf(n + 1 - 1, WordBits - 1) = n /\ n \in 1 .. WordBits - 1
    BY <1>1 DEF SmallerOf
  <2>2. 2^n = 2 * m
    BY <2>1, ScheduleAssumption
  <2> QED
    BY <2>1, <2>2 DEF Multiplier
<1> HIDE DEF m
<1>4. x \in Nat /\ p.baseDelay * (2 * m) = 2 * x
  BY <1>1, <1>2
<1>5. /\ ExponentialDelay(p, n) = SmallerOf(SmallerOf(x, UMax), p.maxDelay)
      /\ ExponentialDelay(p, n + 1) = SmallerOf(SmallerOf(2 * x, UMax), p.maxDelay)
  BY <1>2, <1>3, <1>4 DEF ExponentialDelay, SaturatingMul
<1> HIDE DEF x
<1> QED
  BY <1>1, <1>4, <1>5, UMaxIsPositive DEF SmallerOf

\* What the schedule remembers of its last failure.
ScheduleInv ==
  /\ policy \in Policies /\ failed \in Nat /\ givenUp \in BOOLEAN
  /\ failed = 0 => delay = 0
  /\ failed > 0 /\ ~givenUp =>
       /\ RetryExists(policy, failed)
       /\ \E h \in Hashes : delay = DelayForAttempt(policy, failed, h)

LEMMA ScheduleInvariant == ScheduleSpec => []ScheduleInv
<1>1. ScheduleInit => ScheduleInv
  <2>1. 0 \in Nat /\ ~(0 > 0)
    OBVIOUS
  <2> QED
    BY <2>1, Zenon DEF ScheduleInit, ScheduleInv
<1>2. ScheduleInv /\ [RecordFailure]_scheduleVars => ScheduleInv'
  <2> SUFFICES ASSUME ScheduleInv, [RecordFailure]_scheduleVars PROVE ScheduleInv'
    OBVIOUS
  <2>1. CASE RecordFailure
    <3>1. /\ policy' \in Policies /\ failed' = failed + 1 /\ failed' \in Nat
          /\ failed' # 0 /\ policy' = policy
      BY <2>1 DEF RecordFailure, ScheduleInv
    <3>2. CASE RetryExists(policy, failed')
      <4>1. /\ \E h \in Hashes : delay' = DelayForAttempt(policy, failed', h)
            /\ givenUp' = givenUp
        BY <2>1, <3>2 DEF RecordFailure
      <4> QED
        BY <3>1, <3>2, <4>1, Zenon DEF ScheduleInv
    <3>3. CASE ~RetryExists(policy, failed')
      <4>1. givenUp' = TRUE
        BY <2>1, <3>3 DEF RecordFailure
      <4> QED
        BY <3>1, <4>1, Zenon DEF ScheduleInv
    <3> QED
      BY <3>2, <3>3
  <2>2. CASE UNCHANGED scheduleVars
    BY <2>2 DEF scheduleVars, ScheduleInv
  <2> QED
    BY <2>1, <2>2
<1> QED
  BY <1>1, <1>2, PTL DEF ScheduleSpec

(***************************************************************************)
(* Retries stay in the policy's bounds and back off, for every width of    *)
(* the words, every policy RetryPolicy::new accepts and every jitter.      *)
(***************************************************************************)
THEOREM SchedulesBackOff == ScheduleSpec => RetriesBackOff
<1> DEFINE Backs ==
      ~givenUp' =>
        /\ policy.baseDelay <= delay' /\ delay' <= policy.maxDelay
        /\ failed < WordBits => delay <= delay'
<1>1. ScheduleInv /\ [RecordFailure]_scheduleVars => [Backs]_scheduleVars
  <2> SUFFICES ASSUME ScheduleInv, RecordFailure, ~givenUp'
               PROVE  /\ policy.baseDelay <= delay' /\ delay' <= policy.maxDelay
                      /\ failed < WordBits => delay <= delay'
    BY DEF scheduleVars
  <2>1. /\ ValidPolicy(policy) /\ failed \in Nat /\ Hashes \subseteq Nat
        /\ policy.baseDelay \in Nat /\ policy.maxDelay \in Nat
    BY ScheduleAssumption, UMaxIsPositive DEF ScheduleInv, ValidPolicy, Word
  <2>2. RetryExists(policy, failed + 1)
    BY DEF RecordFailure
  <2>3. PICK h \in Hashes : delay' = DelayForAttempt(policy, failed + 1, h)
    BY <2>2 DEF RecordFailure
  <2>4. delay' \in policy.baseDelay .. policy.maxDelay
    BY <2>1, <2>2, <2>3, DelayBounds
  <2>5. CASE failed = 0
    BY <2>1, <2>4, <2>5 DEF ScheduleInv
  <2>6. CASE failed > 0
    <3>1. /\ RetryExists(policy, failed)
          /\ \E g \in Hashes : delay = DelayForAttempt(policy, failed, g)
      BY <2>6 DEF RecordFailure, ScheduleInv
    <3>2. /\ delay \in Nat /\ delay <= 2 * ExponentialDelay(policy, failed)
          /\ delay <= policy.maxDelay
      BY <2>1, <3>1, DelayIsSpread
    <3>3. ExponentialDelay(policy, failed + 1) <= delay'
      BY <2>1, <2>2, <2>3, DelayIsSpread
    <3>4. ExponentialDelay(policy, failed + 1) \in Nat
      BY <2>1, <2>2, ExponentialDelayBounds
    <3>5. failed < WordBits => delay <= ExponentialDelay(policy, failed + 1)
      BY <2>1, <2>6, <3>2, NextDoubles
    <3> QED
      BY <2>1, <2>4, <3>2, <3>3, <3>4, <3>5
  <2> QED
    BY <2>1, <2>5, <2>6
<1> QED
  BY <1>1, ScheduleInvariant, PTL DEF ScheduleSpec, RetriesBackOff

\* An attempt is recorded only while the budget lasts.
ScheduleTypeInv ==
  ScheduleTypeOK /\ (~givenUp => failed < policy.maxAttempts)

LEMMA ScheduleTypeInvariant == ScheduleSpec => []ScheduleTypeInv
<1>1. ScheduleInit => ScheduleTypeInv
  <2> SUFFICES ASSUME ScheduleInit PROVE ScheduleTypeInv
    OBVIOUS
  <2>1. /\ policy \in Policies /\ policy.maxAttempts \in Nat \ {0} /\ failed = 0
        /\ givenUp \in BOOLEAN
    BY ScheduleAssumption DEF ScheduleInit, ValidPolicy
  <2>2. failed \in 0 .. policy.maxAttempts /\ failed < policy.maxAttempts
    BY <2>1
  <2>3. delay \in Word
    BY UMaxIsPositive DEF ScheduleInit, Word
  <2> QED
    BY <2>1, <2>2, <2>3, Zenon DEF ScheduleTypeInv, ScheduleTypeOK
<1>2. ScheduleTypeInv /\ [RecordFailure]_scheduleVars => ScheduleTypeInv'
  <2> SUFFICES ASSUME ScheduleTypeInv, [RecordFailure]_scheduleVars
               PROVE  ScheduleTypeInv'
    OBVIOUS
  <2>1. CASE RecordFailure
    <3>1. /\ policy \in Policies /\ ValidPolicy(policy) /\ policy' = policy
          /\ failed \in Nat /\ failed' = failed + 1 /\ policy.maxAttempts \in Nat
          /\ failed < policy.maxAttempts /\ givenUp \in BOOLEAN /\ delay \in Word
      <4>1. ~givenUp /\ failed' = failed + 1 /\ policy' = policy
        BY <2>1 DEF RecordFailure
      <4>2. failed < policy.maxAttempts /\ ScheduleTypeOK
        BY <4>1 DEF ScheduleTypeInv
      <4>3. policy \in Policies /\ failed \in 0 .. policy.maxAttempts
        BY <4>2 DEF ScheduleTypeOK
      <4>4. givenUp \in BOOLEAN /\ delay \in Word
        BY <4>2 DEF ScheduleTypeOK
      <4>5. ValidPolicy(policy) /\ policy.maxAttempts \in Nat
        BY <4>3, ScheduleAssumption DEF ValidPolicy
      <4>6. failed \in Nat
        BY <4>3, <4>5
      <4> QED
        BY <4>1, <4>2, <4>3, <4>4, <4>5, <4>6
    <3>2. failed' \in 0 .. policy'.maxAttempts
      BY <3>1
    <3>3. CASE RetryExists(policy, failed')
      <4>1. PICK h \in Hashes : delay' = DelayForAttempt(policy, failed', h)
        BY <2>1, <3>3 DEF RecordFailure
      <4>2. h \in Nat /\ policy.baseDelay \in Nat /\ policy.maxDelay \in 0 .. UMax
        BY <3>1, ScheduleAssumption, UMaxIsPositive DEF ValidPolicy, Word
      <4>3. DelayForAttempt(policy, failed', h) \in policy.baseDelay .. policy.maxDelay
        BY <3>1, <3>3, <4>2, DelayBounds
      <4>4. delay' \in Word
        BY <4>1, <4>2, <4>3, UMaxIsPositive DEF Word
      <4>5. failed' < policy'.maxAttempts
        BY <3>1, <3>3 DEF RetryExists
      <4>6. givenUp' = givenUp
        BY <2>1, <3>3 DEF RecordFailure
      <4> QED
        BY <3>1, <3>2, <4>4, <4>5, <4>6, Zenon DEF ScheduleTypeInv, ScheduleTypeOK
    <3>4. CASE ~RetryExists(policy, failed')
      <4>1. givenUp' = TRUE /\ delay' = delay
        BY <2>1, <3>4 DEF RecordFailure
      <4> QED
        BY <3>1, <3>2, <4>1, Zenon DEF ScheduleTypeInv, ScheduleTypeOK
    <3> QED
      BY <3>3, <3>4
  <2>2. CASE UNCHANGED scheduleVars
    BY <2>2 DEF scheduleVars, ScheduleTypeInv, ScheduleTypeOK
  <2> QED
    BY <2>1, <2>2
<1> QED
  BY <1>1, <1>2, PTL DEF ScheduleSpec

-----------------------------------------------------------------------------
(***************************************************************************)
(* The rule-pack registry.  What a thread has read of a file, or missed in *)
(* the listing, was true of it at some moment since the listing began; and *)
(* a thread that does not read has nothing of a reading left.              *)
(***************************************************************************)
ReadingInv(t) ==
  IF phase[t] = "reading"
  THEN /\ \A f \in File : directory[f] \in had[t][f]
       /\ \A f \in unlisted[t] : reading[t][f] = Absent
       /\ \A f \in File \ (unlisted[t] \union todo[t]) : reading[t][f] \in had[t][f]
  ELSE reading[t] = Empty /\ unlisted[t] = {} /\ todo[t] = {}

NotAhead ==
  /\ \A t \in Thread : listedAt[t] <= edits
  /\ unread <= edits /\ storedAt <= newest /\ newest <= edits /\ unannounced <= edits

\* The watcher alone never shows an older reading after a newer one.
Latest ==
  Caller = {} =>
    /\ newest <= storedAt
    /\ phase[Watcher] = "reading" => newest <= listedAt[Watcher]

ReloadInv ==
  /\ ReloadTypeOK /\ NotAhead /\ Latest
  /\ \A t \in Thread : ReadingInv(t)

\* The numbers and functions of the invariant.
LEMMA ReloadFacts ==
  ASSUME ReloadInv
  PROVE  /\ MaxEdits \in Nat /\ edits \in Nat /\ edits <= MaxEdits
         /\ {unread, storedAt, newest, unannounced} \subseteq Nat
         /\ \A t \in Thread : listedAt[t] \in Nat /\ listedAt[t] <= edits
         /\ Watcher \in Thread /\ Empty \in Registry
         /\ Unseen \in [File -> SUBSET Content]
BY ReloadAssumption DEF ReloadAssumption, ReloadInv, ReloadTypeOK, NotAhead, Thread,
                        Empty, Unseen, Registry

\* An edit adds to what its file had, for the threads that read.
LEMMA EditKeepsReloadInv ==
  ASSUME ReloadInv, NEW f \in File, NEW content \in Content, Edit(f, content)
  PROVE  ReloadInv'
<1>0. /\ MaxEdits \in Nat /\ edits \in Nat /\ edits < MaxEdits /\ edits' = edits + 1
      /\ {unread, storedAt, newest, unannounced} \subseteq Nat
      /\ \A t \in Thread : listedAt[t] \in Nat /\ listedAt[t] <= edits
      /\ unread <= edits /\ storedAt <= newest /\ newest <= edits /\ unannounced <= edits
  BY ReloadFacts DEF ReloadInv, NotAhead, Edit
<1>1. /\ directory' = [directory EXCEPT ![f] = content]
      /\ had' = [t \in Thread |-> IF phase[t] = "reading"
                                  THEN [had[t] EXCEPT ![f] = @ \union {content}]
                                  ELSE had[t]]
      /\ UNCHANGED <<registry, pending, phase, unlisted, todo, reading, stopping,
                     listedAt, storedAt, newest, failedAt>>
      /\ unread' \in {unread, unread + 1} /\ unannounced' \in {unannounced, edits'}
  BY DEF Edit, readingVars
<1>2. /\ unread' \in 0 .. MaxEdits /\ unannounced' \in 0 .. MaxEdits
      /\ edits' \in 0 .. MaxEdits
      /\ unread' <= edits' /\ unannounced' <= edits' /\ newest <= edits'
      /\ \A t \in Thread : listedAt[t] <= edits'
  BY <1>0, <1>1
<1>3. ReloadTypeOK'
  <2>1. had' \in [Thread -> [File -> SUBSET Content]]
    BY <1>1 DEF ReloadInv, ReloadTypeOK
  <2> QED
    BY <1>1, <1>2, <2>1 DEF ReloadInv, ReloadTypeOK
<1>4. NotAhead' /\ Latest'
  BY <1>0, <1>1, <1>2 DEF ReloadInv, NotAhead, Latest
<1>5. ASSUME NEW t \in Thread PROVE ReadingInv(t)'
  <2>1. CASE phase[t] = "reading"
    <3>1. /\ \A g \in File : had'[t][g] = IF g = f THEN had[t][g] \union {content}
                                          ELSE had[t][g]
          /\ \A g \in File : directory'[g] = IF g = f THEN content ELSE directory[g]
      BY <1>1, <2>1 DEF ReloadInv, ReloadTypeOK
    <3>2. /\ \A g \in File : directory[g] \in had[t][g]
          /\ \A g \in unlisted[t] : reading[t][g] = Absent
          /\ \A g \in File \ (unlisted[t] \union todo[t]) : reading[t][g] \in had[t][g]
      BY <2>1 DEF ReloadInv, ReadingInv
    <3>3. /\ \A g \in File : directory'[g] \in had'[t][g]
          /\ \A g \in File \ (unlisted[t] \union todo[t]) : reading[t][g] \in had'[t][g]
      BY <3>1, <3>2
    <3> QED
      BY <1>1, <2>1, <3>2, <3>3 DEF ReadingInv
  <2>2. CASE phase[t] # "reading"
    BY <1>1, <2>2 DEF ReloadInv, ReadingInv
  <2> QED
    BY <2>1, <2>2
<1> QED
  BY <1>3, <1>4, <1>5 DEF ReloadInv

\* A thread whose reading a step leaves alone.
Unread(u) ==
  /\ phase'[u] = "reading" <=> phase[u] = "reading"
  /\ unlisted'[u] = unlisted[u] /\ todo'[u] = todo[u] /\ reading'[u] = reading[u]
  /\ had'[u] = had[u]

LEMMA OthersReadOn ==
  ASSUME NEW u \in Thread, ReadingInv(u), Unread(u), directory' = directory
  PROVE  ReadingInv(u)'
BY DEF ReadingInv, Unread

\* Steps that touch neither the directory, a reading nor the registry.
LEMMA ReadingsRest ==
  ASSUME ReloadInv, ReloadTypeOK', unread' <= unread,
         UNCHANGED <<directory, registry, unlisted, todo, reading, edits, unannounced,
                     readingHistory>>,
         \A t \in Thread : phase'[t] = "reading" <=> phase[t] = "reading"
  PROVE  ReloadInv'
<1>1. unread' <= edits
  <2>1. unread' \in Nat /\ unread \in Nat /\ edits \in Nat /\ unread <= edits
    BY ReloadFacts DEF ReloadInv, NotAhead, ReloadTypeOK
  <2> QED
    BY <2>1
<1>2. NotAhead' /\ Latest'
  BY <1>1, ReloadFacts DEF ReloadInv, NotAhead, Latest, readingHistory
<1>3. ASSUME NEW t \in Thread PROVE ReadingInv(t)'
  BY OthersReadOn DEF ReloadInv, Unread, readingHistory
<1> QED
  BY <1>2, <1>3 DEF ReloadInv

\* A thread begins to list the directory.
LEMMA ListKeepsReloadInv ==
  ASSUME ReloadInv, NEW t \in Thread, List(t), pending' \in BOOLEAN
  PROVE  ReloadInv'
<1>0. /\ ReloadTypeOK /\ edits \in 0 .. MaxEdits /\ edits \in Nat /\ newest <= edits
      /\ Watcher \in Thread /\ reading[t] = Empty
  BY ReloadFacts DEF ReloadInv, ReloadTypeOK, NotAhead, List, ReadingInv
<1>1. /\ phase[t] = "idle" /\ phase' = [phase EXCEPT ![t] = "reading"]
      /\ unlisted' = [unlisted EXCEPT ![t] = File]
      /\ listedAt' = [listedAt EXCEPT ![t] = edits]
      /\ had' = [had EXCEPT ![t] = [f \in File |-> {directory[f]}]]
      /\ UNCHANGED <<directory, registry, unread, todo, reading, stopping, edits,
                     unannounced, storedAt, newest, failedAt>>
  BY DEF List
<1>2. ReloadTypeOK'
  <2>1. [f \in File |-> {directory[f]}] \in [File -> SUBSET Content]
    BY <1>0 DEF ReloadTypeOK
  <2> QED
    BY <1>0, <1>1, <2>1 DEF ReloadTypeOK
<1>3. /\ phase'[t] = "reading" /\ unlisted'[t] = File /\ listedAt'[t] = edits
      /\ had'[t] = [f \in File |-> {directory[f]}]
      /\ \A u \in Thread \ {t} : Unread(u) /\ listedAt'[u] = listedAt[u]
      /\ \A u \in Thread \ {t} : phase'[u] = phase[u]
  BY <1>0, <1>1 DEF ReloadTypeOK, Unread
<1>4. ASSUME NEW u \in Thread PROVE ReadingInv(u)'
  <2>1. CASE u = t
    BY <1>0, <1>1, <1>3, <2>1 DEF ReadingInv, Empty
  <2>2. CASE u # t
    BY <1>1, <1>3, <2>2, OthersReadOn DEF ReloadInv
  <2> QED
    BY <2>1, <2>2
<1>5. NotAhead' /\ Latest'
  BY <1>0, <1>1, <1>3 DEF ReloadInv, NotAhead, Latest
<1> QED
  BY <1>2, <1>4, <1>5 DEF ReloadInv

\* A thread looks at an entry: what is absent is missed for good.
LEMMA LookKeepsReloadInv ==
  ASSUME ReloadInv, NEW t \in Thread, Look(t)
  PROVE  ReloadInv'
<1>0. ReloadTypeOK
  BY DEF ReloadInv
<1>1. PICK f \in unlisted[t] :
        /\ unlisted' = [unlisted EXCEPT ![t] = @ \ {f}]
        /\ todo' = IF directory[f] = Absent THEN todo
                   ELSE [todo EXCEPT ![t] = @ \union {f}]
        /\ UNCHANGED <<directory, registry, unread, pending, phase, reading, stopping,
                       edits, unannounced, readingHistory>>
  BY DEF Look
<1>2. /\ f \in File /\ phase[t] = "reading"
      /\ unlisted'[t] = unlisted[t] \ {f}
      /\ todo'[t] = IF directory[f] = Absent THEN todo[t] ELSE todo[t] \union {f}
      /\ \A u \in Thread \ {t} : Unread(u)
  BY <1>0, <1>1 DEF ReloadTypeOK, ReloadInv, ReadingInv, Unread, readingHistory
<1>3. ReloadTypeOK'
  BY <1>0, <1>1, <1>2 DEF ReloadTypeOK, readingHistory
<1>4. ASSUME NEW u \in Thread PROVE ReadingInv(u)'
  <2>1. CASE u = t
    BY <1>1, <1>2, <2>1 DEF ReloadInv, ReadingInv, readingHistory
  <2>2. CASE u # t
    BY <1>1, <1>2, <2>2, OthersReadOn DEF ReloadInv
  <2> QED
    BY <2>1, <2>2
<1> QED
  BY <1>1, <1>3, <1>4 DEF ReloadInv, NotAhead, Latest, readingHistory

\* A turn of the watcher or of a caller ends.
LEMMA TurnEnds ==
  ASSUME NEW t \in Thread
  PROVE  Turned(t) \in {"idle", "ended"}
BY DEF Turned, AfterTurn

\* A reading that is over leaves the other ones alone.
LEMMA ReadingEnds ==
  ASSUME ReloadInv, NEW t \in Thread, Forget(t), NEW next \in {"idle", "ended"},
         phase' = [phase EXCEPT ![t] = next],
         unlisted' = [unlisted EXCEPT ![t] = {}], todo' = [todo EXCEPT ![t] = {}],
         directory' = directory, edits' = edits
  PROVE  /\ phase' \in [Thread -> {"none", "idle", "reading", "ended"}]
         /\ unlisted' \in [Thread -> SUBSET File] /\ todo' \in [Thread -> SUBSET File]
         /\ reading' \in [Thread -> Registry] /\ listedAt' \in [Thread -> 0 .. MaxEdits]
         /\ had' \in [Thread -> [File -> SUBSET Content]]
         /\ \A u \in Thread : ReadingInv(u)' /\ listedAt'[u] <= edits'
         /\ phase'[t] # "reading"
<1>0. ReloadTypeOK
  BY DEF ReloadInv
<1>1. /\ reading' = [reading EXCEPT ![t] = Empty]
      /\ listedAt' = [listedAt EXCEPT ![t] = 0]
      /\ had' = [had EXCEPT ![t] = Unseen]
  BY DEF Forget
<1>2. /\ phase'[t] # "reading" /\ unlisted'[t] = {} /\ todo'[t] = {}
      /\ reading'[t] = Empty /\ listedAt'[t] = 0
      /\ \A u \in Thread \ {t} : Unread(u) /\ listedAt'[u] = listedAt[u]
  BY <1>0, <1>1 DEF ReloadTypeOK, Unread
<1>3. ASSUME NEW u \in Thread PROVE ReadingInv(u)' /\ listedAt'[u] <= edits'
  <2>1. CASE u = t
    BY <1>2, <2>1, ReloadFacts DEF ReadingInv
  <2>2. CASE u # t
    BY <1>2, <2>2, OthersReadOn, ReloadFacts DEF ReloadInv
  <2> QED
    BY <2>1, <2>2
<1>4. /\ reading' \in [Thread -> Registry] /\ listedAt' \in [Thread -> 0 .. MaxEdits]
      /\ had' \in [Thread -> [File -> SUBSET Content]]
  BY <1>0, <1>1, ReloadFacts DEF ReloadTypeOK
<1>5. /\ phase' \in [Thread -> {"none", "idle", "reading", "ended"}]
      /\ unlisted' \in [Thread -> SUBSET File] /\ todo' \in [Thread -> SUBSET File]
  BY <1>0 DEF ReloadTypeOK
<1> QED
  BY <1>2, <1>3, <1>4, <1>5

\* A failure ends a reading and changes nothing else.
LEMMA FailKeepsReloadInv ==
  ASSUME ReloadInv, NEW t \in Thread, Fail(t)
  PROVE  ReloadInv'
<1>0. ReloadTypeOK
  BY DEF ReloadInv
<1>1. AfterRejection(t) \in {"idle", "ended"}
  BY TurnEnds DEF AfterRejection
<1>2. /\ phase' = [phase EXCEPT ![t] = AfterRejection(t)]
      /\ unlisted' = [unlisted EXCEPT ![t] = {}] /\ todo' = [todo EXCEPT ![t] = {}]
      /\ failedAt' \in {failedAt, listedAt[t]}
      /\ UNCHANGED <<directory, registry, unread, pending, stopping, edits,
                     unannounced, storedAt, newest>>
  BY DEF Fail
<1>3. Forget(t)
  <2>1. phase'[t] # "reading"
    BY <1>0, <1>1, <1>2 DEF ReloadTypeOK
  <2> QED
    BY <2>1 DEF Fail
<1>4. /\ phase' \in [Thread -> {"none", "idle", "reading", "ended"}]
      /\ unlisted' \in [Thread -> SUBSET File] /\ todo' \in [Thread -> SUBSET File]
      /\ reading' \in [Thread -> Registry] /\ listedAt' \in [Thread -> 0 .. MaxEdits]
      /\ had' \in [Thread -> [File -> SUBSET Content]]
      /\ \A u \in Thread : ReadingInv(u)' /\ listedAt'[u] <= edits'
      /\ phase'[t] # "reading"
  BY <1>1, <1>2, <1>3, ReadingEnds
<1>5. ReloadTypeOK'
  BY <1>0, <1>2, <1>4 DEF ReloadTypeOK
<1>6. Latest'
  <2>1. Caller = {} => t = Watcher
    BY DEF Thread
  <2> QED
    BY <1>2, <1>4, <2>1 DEF ReloadInv, Latest
<1> QED
  BY <1>2, <1>4, <1>5, <1>6 DEF ReloadInv, NotAhead

\* A thread reads its next file, or gives up.
LEMMA ReadFileKeepsReloadInv ==
  ASSUME ReloadInv, NEW t \in Thread, ReadFile(t)
  PROVE  ReloadInv'
<1>0. ReloadTypeOK
  BY DEF ReloadInv
<1>1. PICK f \in todo[t] :
        /\ unlisted[t] = {}
        /\ IF Rejected(directory[f]) THEN Fail(t)
           ELSE /\ todo' = [todo EXCEPT ![t] = @ \ {f}]
                /\ reading' = [reading EXCEPT ![t][f] = directory[f]]
                /\ UNCHANGED <<directory, registry, unread, pending, phase, unlisted,
                               stopping, edits, unannounced, readingHistory>>
  BY DEF ReadFile
<1>2. f \in File /\ todo[t] \subseteq File /\ reading[t] \in Registry /\ phase[t] = "reading"
  BY <1>0 DEF ReloadTypeOK, ReloadInv, ReadingInv
<1>3. CASE Rejected(directory[f])
  BY <1>1, <1>3, FailKeepsReloadInv DEF Fail
<1>4. CASE ~Rejected(directory[f])
  <2>1. directory[f] \in Version
    BY <1>0, <1>2, <1>4 DEF Rejected, ReloadTypeOK, Content
  <2>2. [reading[t] EXCEPT ![f] = directory[f]] \in Registry
    BY <1>2, <2>1 DEF Registry
  <2>3. /\ todo'[t] = todo[t] \ {f}
        /\ reading'[t] = [reading[t] EXCEPT ![f] = directory[f]]
        /\ \A u \in Thread \ {t} : Unread(u)
    BY <1>0, <1>1, <1>4 DEF ReloadTypeOK, Unread, readingHistory
  <2>4. ReloadTypeOK'
    <3>1. todo' \in [Thread -> SUBSET File]
      BY <1>0, <1>1, <1>4 DEF ReloadTypeOK
    <3>2. reading' = [reading EXCEPT ![t] = [reading[t] EXCEPT ![f] = directory[f]]]
      BY <1>1, <1>4
    <3>3. reading' \in [Thread -> Registry]
      BY <1>0, <2>2, <3>2 DEF ReloadTypeOK
    <3> QED
      BY <1>0, <1>1, <1>4, <3>1, <3>3 DEF ReloadTypeOK, readingHistory
  <2>5. ASSUME NEW u \in Thread PROVE ReadingInv(u)'
    <3>1. CASE u = t
      <4>1. \A g \in File : reading'[t][g] = IF g = f THEN directory[f] ELSE reading[t][g]
        BY <1>2, <2>3 DEF Registry
      <4>2. /\ \A g \in File : directory[g] \in had[t][g]
            /\ \A g \in File \ todo[t] : reading[t][g] \in had[t][g]
        BY <1>1, <1>2 DEF ReloadInv, ReadingInv
      <4>3. /\ phase' = phase /\ unlisted'[t] = {} /\ had' = had /\ directory' = directory
        BY <1>1, <1>4 DEF readingHistory
      <4>4. \A g \in File \ todo'[t] : reading'[t][g] \in had[t][g]
        BY <2>3, <4>1, <4>2
      <4> QED
        BY <1>2, <3>1, <4>2, <4>3, <4>4 DEF ReadingInv
    <3>2. CASE u # t
      BY <1>1, <1>4, <2>3, <3>2, OthersReadOn DEF ReloadInv
    <3> QED
      BY <3>1, <3>2
  <2>6. NotAhead' /\ Latest'
    BY <1>1, <1>4 DEF ReloadInv, NotAhead, Latest, readingHistory
  <2> QED
    BY <2>4, <2>5, <2>6 DEF ReloadInv
<1> QED
  BY <1>3, <1>4

\* What was read becomes the registry.
LEMMA StoreKeepsReloadInv ==
  ASSUME ReloadInv, NEW t \in Thread, Store(t)
  PROVE  ReloadInv'
<1>0. /\ ReloadTypeOK /\ reading[t] \in Registry /\ Turned(t) \in {"idle", "ended"}
      /\ listedAt[t] \in Nat /\ listedAt[t] <= edits /\ edits \in Nat /\ newest \in Nat
      /\ listedAt[t] \in 0 .. MaxEdits /\ newest \in 0 .. MaxEdits
  BY ReloadFacts, TurnEnds DEF ReloadInv, ReloadTypeOK
<1>1. /\ phase[t] = "reading" /\ unlisted[t] = {} /\ todo[t] = {}
      /\ registry' = reading[t] /\ Forget(t)
      /\ phase' = [phase EXCEPT ![t] = Turned(t)]
      /\ storedAt' = listedAt[t] /\ newest' = Larger2(newest, listedAt[t])
      /\ UNCHANGED <<directory, unread, pending, unlisted, todo, stopping, edits,
                     unannounced, failedAt>>
  BY DEF Store
<1>2. unlisted' = [unlisted EXCEPT ![t] = {}] /\ todo' = [todo EXCEPT ![t] = {}]
  BY <1>0, <1>1 DEF ReloadTypeOK
<1>3. /\ phase' \in [Thread -> {"none", "idle", "reading", "ended"}]
      /\ unlisted' \in [Thread -> SUBSET File] /\ todo' \in [Thread -> SUBSET File]
      /\ reading' \in [Thread -> Registry] /\ listedAt' \in [Thread -> 0 .. MaxEdits]
      /\ had' \in [Thread -> [File -> SUBSET Content]]
      /\ \A u \in Thread : ReadingInv(u)' /\ listedAt'[u] <= edits'
      /\ phase'[t] # "reading"
  BY <1>0, <1>1, <1>2, ReadingEnds
<1>4. ReloadTypeOK'
  <2>1. newest' \in 0 .. MaxEdits
    BY <1>0, <1>1 DEF Larger2
  <2> QED
    BY <1>0, <1>1, <1>3, <2>1 DEF ReloadTypeOK
<1>5. NotAhead'
  <2>1. storedAt' <= newest' /\ newest' <= edits
    BY <1>0, <1>1 DEF ReloadInv, NotAhead, Larger2
  <2> QED
    BY <1>1, <1>3, <2>1 DEF ReloadInv, NotAhead
<1>6. Latest'
  <2> SUFFICES ASSUME Caller = {}
               PROVE  /\ newest' <= storedAt'
                      /\ phase'[Watcher] = "reading" => newest' <= listedAt'[Watcher]
    BY DEF Latest
  <2>1. t = Watcher /\ newest <= listedAt[t]
    BY <1>1 DEF ReloadInv, Latest, Thread
  <2> QED
    BY <1>0, <1>1, <1>3, <2>1 DEF Larger2
<1> QED
  BY <1>3, <1>4, <1>5, <1>6 DEF ReloadInv

\* Every reachable state of the registry satisfies its invariant.
LEMMA ReloadInvariant == ReloadSpec => []ReloadInv
<1>1. ReloadInit => ReloadInv
  <2> SUFFICES ASSUME ReloadInit PROVE ReloadInv
    OBVIOUS
  <2>1. ReloadTypeOK
    <3>1. registry \in Registry /\ directory \in [File -> Content] /\ Empty \in Registry
      BY DEF ReloadInit, Registry, Content, Empty
    <3>2. 0 \in 0 .. MaxEdits /\ Unseen \in [File -> SUBSET Content]
      BY ReloadAssumption DEF ReloadAssumption, Unseen
    <3> QED
      BY <3>1, <3>2 DEF ReloadInit, ReloadTypeOK
  <2>2. ASSUME NEW t \in Thread PROVE ReadingInv(t)
    BY DEF ReloadInit, ReadingInv
  <2> QED
    BY <2>1, <2>2, ReloadAssumption
    DEF ReloadAssumption, ReloadInit, ReloadInv, NotAhead, Latest, Thread
<1>2. ReloadInv /\ [ReloadNext]_reloadVars => ReloadInv'
  <2> SUFFICES ASSUME ReloadInv, [ReloadNext]_reloadVars PROVE ReloadInv'
    OBVIOUS
  <2>0. ReloadTypeOK /\ Watcher \in Thread
    BY ReloadFacts DEF ReloadInv
  <2>1. ASSUME NEW f \in File, NEW content \in Content, Edit(f, content)
        PROVE  ReloadInv'
    BY <2>1, EditKeepsReloadInv
  <2>2. CASE SpawnWatcher
    <3>1. phase' = [phase EXCEPT ![Watcher] = "idle"]
      BY <2>2 DEF SpawnWatcher
    <3>2. ReloadTypeOK'
      BY <2>0, <2>2, <3>1 DEF ReloadTypeOK, SpawnWatcher, readingHistory
    <3>3. unread' <= unread
      BY <2>2, ReloadFacts DEF SpawnWatcher
    <3> QED
      BY <2>0, <2>2, <3>1, <3>2, <3>3, ReadingsRest DEF ReloadTypeOK, SpawnWatcher
  <2>3. CASE ReceiveEvent \/ WakeUp
    <3>1. /\ phase' = [phase EXCEPT ![Watcher] = AfterTurn(FALSE)]
          /\ AfterTurn(FALSE) \in {"idle", "ended"}
      BY <2>3 DEF ReceiveEvent, WakeUp, AfterTurn
    <3>2. unread' \in 0 .. MaxEdits /\ unread' <= unread
      <4>1. unread \in 0 .. MaxEdits /\ MaxEdits \in Nat
        BY <2>0, ReloadFacts DEF ReloadTypeOK
      <4>2. unread' = unread \/ (unread > 0 /\ unread' = unread - 1)
        BY <2>3 DEF ReceiveEvent, WakeUp
      <4> QED
        BY <4>1, <4>2
    <3>3. ReloadTypeOK'
      BY <2>0, <2>3, <3>1, <3>2 DEF ReloadTypeOK, ReceiveEvent, WakeUp, readingHistory
    <3> QED
      BY <2>0, <2>3, <3>1, <3>2, <3>3, ReadingsRest DEF ReloadTypeOK, ReceiveEvent, WakeUp
  <2>4. CASE DebouncePasses
    BY <2>0, <2>4, ListKeepsReloadInv DEF DebouncePasses
  <2>5. CASE Stop
    <3>1. ReloadTypeOK' /\ unread' <= unread
      BY <2>0, <2>5, ReloadFacts DEF ReloadTypeOK, Stop, readingVars, readingHistory
    <3> QED
      BY <2>5, <3>1, ReadingsRest DEF Stop, readingVars
  <2>6. ASSUME NEW t \in Caller, ReloadNow(t) PROVE ReloadInv'
    <3>1. t \in Thread /\ List(t) /\ pending' \in BOOLEAN
      BY <2>0, <2>6 DEF ReloadNow, Thread, ReloadTypeOK
    <3> QED
      BY <3>1, ListKeepsReloadInv
  <2>7. ASSUME NEW t \in Thread, ReadingProgress(t) PROVE ReloadInv'
    BY <2>7, LookKeepsReloadInv, ReadFileKeepsReloadInv, StoreKeepsReloadInv
    DEF ReadingProgress
  <2>8. ASSUME NEW t \in Thread, FailReading(t) PROVE ReloadInv'
    BY <2>8, FailKeepsReloadInv DEF FailReading, Fail
  <2>9. CASE UNCHANGED reloadVars
    <3>1. ReloadTypeOK' /\ unread' <= unread
      BY <2>0, <2>9, ReloadFacts DEF reloadVars, readingVars, readingHistory, ReloadTypeOK
    <3> QED
      BY <2>9, <3>1, ReadingsRest DEF reloadVars, readingVars
  <2> QED
    BY <2>1, <2>2, <2>3, <2>4, <2>5, <2>6, <2>7, <2>8, <2>9 DEF ReloadNext
<1> QED
  BY <1>1, <1>2, PTL DEF ReloadSpec

(***************************************************************************)
(* The types of the registry, its watcher and its callers.                 *)
(***************************************************************************)
THEOREM ReloadTypeCorrect == ReloadSpec => []ReloadTypeOK
<1>1. ReloadInv => ReloadTypeOK
  BY DEF ReloadInv
<1> QED
  BY <1>1, ReloadInvariant, PTL

(***************************************************************************)
(* A registry that is stored was read, file by file, since its listing     *)
(* began, for any number of files, versions and threads that read at the   *)
(* same time.                                                              *)
(***************************************************************************)
THEOREM RegistriesAreWhole == ReloadSpec => WholeReadings
<1>1. ReloadInv /\ [ReloadNext]_reloadVars =>
        [registry' # registry =>
           \E t \in Thread : /\ phase[t] = "reading" /\ phase'[t] # "reading"
                             /\ \A f \in File : registry'[f] \in had[t][f]]_reloadVars
  <2> SUFFICES ASSUME ReloadInv, ReloadNext, registry' # registry
               PROVE  \E t \in Thread : /\ phase[t] = "reading" /\ phase'[t] # "reading"
                                     /\ \A f \in File : registry'[f] \in had[t][f]
    BY DEF reloadVars
  <2>1. PICK t \in Thread : Store(t)
    BY DEF ReloadNext, Edit, SpawnWatcher, ReceiveEvent, WakeUp, DebouncePasses, Stop,
           ReloadNow, List, ReadingProgress, Look, ReadFile, FailReading, Fail
  <2>2. \A f \in File : registry'[f] \in had[t][f]
    BY <2>1 DEF Store, ReloadInv, ReadingInv
  <2>3. phase[t] = "reading" /\ phase'[t] # "reading"
    BY <2>1 DEF Store, Turned, AfterTurn, ReloadInv, ReloadTypeOK
  <2> QED
    BY <2>2, <2>3
<1> QED
  BY <1>1, ReloadInvariant, PTL DEF ReloadSpec, WholeReadings

(***************************************************************************)
(* A reading of an older directory takes the place of a newer one only     *)
(* where somebody calls reload_now beside the watcher (112-116).           *)
(***************************************************************************)
OvertakenByCallers == storedAt < newest => Caller # {}

THEOREM OnlyCallersOvertake == ReloadSpec => []OvertakenByCallers
<1>1. ReloadInv => OvertakenByCallers
  <2> SUFFICES ASSUME ReloadInv, storedAt < newest, Caller = {} PROVE FALSE
    BY DEF OvertakenByCallers
  <2>1. storedAt \in Nat /\ newest \in Nat
    BY ReloadFacts
  <2> QED
    BY <2>1 DEF ReloadInv, Latest
<1> QED
  BY <1>1, ReloadInvariant, PTL

-----------------------------------------------------------------------------
(***************************************************************************)
(* The composition that the runs check: a behaviour of the components side *)
(* by side is a behaviour of each of them, so that what was proved of one  *)
(* alone holds of it there.                                                *)
(***************************************************************************)
THEOREM ComponentsRunOnTheirOwn ==
  ComponentsSpec =>
    Spec /\ AckSpec /\ ReloadSpec /\ CacheSpec /\ TablesSpec /\ ScheduleSpec
<1>1. ComponentsInit =>
        Init /\ AckInit /\ ReloadInit /\ CacheInit /\ TablesInit /\ ScheduleInit
  BY DEF ComponentsInit
<1>2. [ComponentsNext]_componentVars => [Next]_vars
  BY DEF ComponentsNext, componentVars
<1>3. [ComponentsNext]_componentVars => [AckNext]_ackVars
  BY DEF ComponentsNext, componentVars
<1>4. [ComponentsNext]_componentVars => [ReloadNext]_reloadVars
  BY DEF ComponentsNext, componentVars
<1>5. [ComponentsNext]_componentVars => [CacheNext]_cacheVars
  BY DEF ComponentsNext, componentVars
<1>6. [ComponentsNext]_componentVars => [TablesNext]_tableVars
  BY DEF ComponentsNext, componentVars
<1>7. [ComponentsNext]_componentVars => [RecordFailure]_scheduleVars
  BY DEF ComponentsNext, componentVars
<1>8. ComponentsSpec => ComponentsInit /\ [][ComponentsNext]_componentVars
  BY PTL DEF ComponentsSpec
<1>9. ComponentsSpec => Spec
  BY <1>1, <1>2, <1>8, PTL DEF Spec
<1>10. ComponentsSpec => AckSpec
  BY <1>1, <1>3, <1>8, PTL DEF AckSpec
<1>11. ComponentsSpec => ReloadSpec
  BY <1>1, <1>4, <1>8, PTL DEF ReloadSpec
<1>12. ComponentsSpec => CacheSpec
  BY <1>1, <1>5, <1>8, PTL DEF CacheSpec
<1>13. ComponentsSpec => TablesSpec
  BY <1>1, <1>6, <1>8, PTL DEF TablesSpec
<1>14. ComponentsSpec => ScheduleSpec
  BY <1>1, <1>7, <1>8, PTL DEF ScheduleSpec
<1> QED
  BY <1>9, <1>10, <1>11, <1>12, <1>13, <1>14

(***************************************************************************)
(* The types of the five components that are checked by this run only.     *)
(***************************************************************************)
THEOREM ComponentsTypeCorrect == ComponentsSpec => []ComponentsTypeOK
<1>1. CacheInv => CacheTypeOK
  BY DEF CacheInv
<1>2. TablesInv => TablesTypeOK
  BY DEF TablesInv
<1>3. ScheduleTypeInv => ScheduleTypeOK
  BY DEF ScheduleTypeInv
<1>4. AckTypeOK /\ ReloadTypeOK /\ CacheTypeOK /\ TablesTypeOK /\ ScheduleTypeOK
        => ComponentsTypeOK
  BY DEF ComponentsTypeOK
<1> QED
  BY <1>1, <1>2, <1>3, <1>4, ComponentsRunOnTheirOwn, AckTypeCorrect,
     ReloadTypeCorrect, CacheInvariant, TablesInvariant, ScheduleTypeInvariant, PTL
=============================================================================
