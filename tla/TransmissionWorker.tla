-------------------------- MODULE TransmissionWorker --------------------------
(***************************************************************************)
(* The transmission worker of crates/reconcile: one worker drains the      *)
(* outbox table of one gateway through a GatewayAdapter.  process_once and *)
(* process_batch (worker.rs) and the retry bookkeeping of the envelope     *)
(* (outbox.rs) are modelled step by step: each early return of             *)
(* process_once is an action, and adapter.submit, the only await, splits   *)
(* the call in two.                                                        *)
(*                                                                         *)
(* Around them stands what the crate leaves to its callers and only        *)
(* describes: the drain that loads due rows, hands them to process_batch   *)
(* with one reading of the clock and writes the outcomes back when the     *)
(* batch returns; the gateway; the clock; the process, which may crash;    *)
(* and a caller that may drop the batch future while it awaits.            *)
(***************************************************************************)
EXTENDS Naturals, Sequences, RetryPolicy

CONSTANTS
  Job,               \* the outbox rows
  None,              \* the absent Option
  Policy,            \* the RetryPolicy of the rows
  JitterHash,        \* JitterHash[j][n]: hash of (idempotency key of j, n)
  FailureThreshold,  \* CircuitBreakerPolicy::failure_threshold
  OpenSeconds,       \* CircuitBreakerPolicy::open_seconds
  MinInterval,       \* GatewayRateLimit::min_interval_seconds, 0 = no spacing
  MaxBatchSize,      \* TransmissionWorkerConfig::max_batch_size
  CounterMax,        \* where consecutive_circuit_failures saturates (u16::MAX)
  ValidJob,          \* rows whose document SubmitRequest::new accepts
  Replies,           \* the answers the gateway adapter gives
  \* Bounds of the model.
  MaxOffered,        \* rows a drain offers to one batch
  MaxNow,            \* the clock stops here
  MaxLatency,        \* seconds a batch may spend awaiting the gateway
  MaxCrashes,        \* crashes and dropped batches
  MaxUnrecorded,     \* dead letters whose record is refused
  DrainMayLag        \* may time pass while a valid row is due and no batch runs

OutboxState ==
  {"draft", "validated", "signed", "reserved", "sent", "delivered",
   "acknowledged", "rejected", "archived", "dead_letter"}

GatewayStatus == {"accepted", "pending", "rejected", "cancelled", "corrected"}

GatewayErrorKind ==
  {"auth_failure", "rate_limited", "malformed_receipt", "gateway_maintenance",
   "certificate_rejected", "duplicate_submission", "timeout",
   "network_failure", "rejected", "not_found", "invalid_request",
   "unsupported_operation", "partner_error", "unexpected_response"}

\* counts_toward_circuit_breaker
CircuitKinds ==
  {"gateway_maintenance", "timeout", "network_failure", "partner_error",
   "unexpected_response"}

\* is_retryable_gateway_error
RetryableKinds == CircuitKinds \union {"rate_limited"}

Receipt == [ok : {TRUE}, status : GatewayStatus]

\* hint is retry_after_seconds.unwrap_or(0); textOk says whether validate_text
\* accepts the message, which GatewayError::new does not check.
Failure == [ok : {FALSE}, kind : GatewayErrorKind, hint : Nat, textOk : BOOLEAN]

\* What the constructors of GatewayRateLimit, CircuitBreakerPolicy and
\* TransmissionWorkerConfig accept.
ValidConfig ==
  /\ FailureThreshold \in Nat \ {0} /\ OpenSeconds \in Nat \ {0}
  /\ MinInterval \in Nat
  /\ MaxBatchSize \in Nat \ {0}

ASSUME WorkerAssumption ==
  /\ None \notin Nat /\ None \notin Job
  /\ ValidPolicy(Policy)
  /\ JitterHash \in [Job -> [1 .. Policy.maxAttempts -> Nat]]
  /\ ValidConfig
  /\ CounterMax \in Nat /\ FailureThreshold <= CounterMax
  /\ ValidJob \subseteq Job
  /\ Replies \subseteq Receipt \union Failure
  /\ {MaxOffered, MaxNow, MaxLatency, MaxCrashes, MaxUnrecorded} \subseteq Nat
  /\ DrainMayLag \in BOOLEAN

VARIABLES
  now,           \* the real clock
  \* The outbox table: state, attempt_count and next_attempt_at of each row.
  row,
  \* TransmissionWorker.
  lastAttempt,   \* last_attempt_started_at_seconds
  failures,      \* consecutive_circuit_failures
  openUntil,     \* circuit_open_until_seconds
  \* The process_batch call under way.
  batchNow,      \* its now_seconds
  queue,         \* selected jobs not yet processed
  calling,       \* the job whose adapter.submit is awaited
  results,       \* outcomes collected so far, returned when the batch ends
  \* The gateway.
  arrived,       \* the awaited job once its document reached the gateway
  taken,         \* jobs whose document ever reached the gateway
  \* Bounded counters of the environment.
  crashes, unrecorded,
  \* History, read by properties only.
  calls,         \* adapter calls made for each job
  lost,          \* of these, calls whose outcome no one recorded
  receipted,     \* jobs whose receipt this process has seen or recorded
  refused,       \* jobs that met an error the worker does not retry
  streak,        \* counted failures since the last receipt or start
  failedCallAt,  \* batchNow of the last counted failure
  lastCallAt,    \* real time of the last adapter call of this process
  holdUntil      \* per job: earliest time its last recorded failure allows

worker  == <<lastAttempt, failures, openUntil>>
batch   == <<batchNow, queue, calling, results>>
gateway == <<arrived, taken>>
budget  == <<crashes, unrecorded>>
history == <<calls, lost, receipted, refused, streak, failedCallAt, lastCallAt,
             holdUntil>>
vars == <<now, row, worker, batch, gateway, budget, history>>

Outcome == {"submitted", "retry_scheduled", "dead_lettered", "rate_limited",
            "circuit_open", "error"}

Row    == [state : OutboxState, attempts : Nat, due : Nat]
Result == [job : Job, outcome : Outcome, state : OutboxState, attempts : Nat,
           after : Nat]

TypeOK ==
  /\ now \in Nat
  /\ row \in [Job -> Row]
  /\ lastAttempt \in Nat \union {None}
  /\ failures \in 0 .. CounterMax
  /\ openUntil \in Nat \union {None}
  /\ batchNow \in Nat
  /\ queue \in Seq(Job)
  /\ calling \in Job \union {None}
  /\ results \in Seq(Result)
  /\ arrived \in Job \union {None}
  /\ taken \subseteq Job
  /\ crashes \in Nat /\ unrecorded \in Nat
  /\ calls \in [Job -> Nat] /\ lost \in [Job -> Nat]
  /\ receipted \subseteq Job /\ refused \subseteq Job
  /\ streak \in 0 .. CounterMax
  /\ failedCallAt \in Nat
  /\ lastCallAt \in Nat \union {None}
  /\ holdUntil \in [Job -> Nat]

\* OutboxEnvelope::new
NewEnvelope == [state |-> "reserved", attempts |-> 0, due |-> 0]

Init ==
  /\ now = 0
  /\ row = [j \in Job |-> NewEnvelope]
  /\ lastAttempt = None /\ failures = 0 /\ openUntil = None
  /\ batchNow = 0 /\ queue = <<>> /\ calling = None /\ results = <<>>
  /\ arrived = None /\ taken = {}
  /\ crashes = 0 /\ unrecorded = 0
  /\ calls = [j \in Job |-> 0] /\ lost = [j \in Job |-> 0]
  /\ receipted = {} /\ refused = {}
  /\ streak = 0 /\ failedCallAt = 0 /\ lastCallAt = None
  /\ holdUntil = [j \in Job |-> 0]

-----------------------------------------------------------------------------
(***************************************************************************)
(* The drain opens a batch: it reads the clock once and offers distinct    *)
(* rows whose next_attempt_at has passed, in any state, for process_once   *)
(* is the one that refuses a row that is not reserved.                     *)
(***************************************************************************)
Idle == queue = <<>> /\ calling = None /\ results = <<>>

Offers ==
  {s \in UNION {[1 .. n -> Job] : n \in 1 .. MaxOffered} :
     /\ \A i, k \in DOMAIN s : s[i] = s[k] => i = k
     /\ \A i \in DOMAIN s : row[s[i]].due <= now}

\* jobs.into_iter().take(max_batch_size)
Selected(s) == SubSeq(s, 1, SmallerOf(Len(s), MaxBatchSize))

StartBatch(s) ==
  /\ Idle
  /\ s \in Offers
  /\ queue' = Selected(s)
  /\ batchNow' = now
  /\ UNCHANGED <<now, row, worker, calling, results, gateway, budget, history>>

-----------------------------------------------------------------------------
(***************************************************************************)
(* process_once up to the await.                                           *)
(***************************************************************************)
Current == Head(queue)

\* The head of the queue is processed with an outcome that leaves the
\* envelope as it was.
Refuse(outcome, after) ==
  /\ results' = Append(results, [job |-> Current, outcome |-> outcome,
                                 state |-> row[Current].state,
                                 attempts |-> row[Current].attempts,
                                 after |-> after])
  /\ queue' = Tail(queue)
  /\ UNCHANGED <<now, row, batchNow, calling, gateway, budget, history>>

Processing == calling = None /\ queue # <<>>

\* Mutants of the next definitions: the worker forgets to check the state, an
\* open circuit never expires, the spacing is one second short.
ReadyInAnyState == Processing
CircuitNeverExpires == openUntil # None
LimitedOneSecondShort == /\ MinInterval # 0
                         /\ lastAttempt # None
                         /\ batchNow + 1 < lastAttempt + MinInterval

Ready == Processing /\ row[Current].state = "reserved"
CircuitOpen == openUntil # None /\ batchNow < openUntil
Limited == /\ MinInterval # 0
           /\ lastAttempt # None
           /\ batchNow < lastAttempt + MinInterval

RefuseNotReady ==
  /\ Processing /\ row[Current].state # "reserved"
  /\ Refuse("error", 0)
  /\ UNCHANGED worker

RefuseCircuitOpen ==
  /\ Ready /\ CircuitOpen
  /\ Refuse("circuit_open", openUntil - batchNow)
  /\ UNCHANGED worker

\* An expired deadline is cleared on the way to the rate limit; the failure
\* counter is not.
RefuseRateLimited ==
  /\ Ready /\ ~CircuitOpen /\ Limited
  /\ openUntil' = None
  /\ Refuse("rate_limited", lastAttempt + MinInterval - batchNow)
  /\ UNCHANGED <<lastAttempt, failures>>

RefuseInvalidRequest ==
  /\ Ready /\ ~CircuitOpen /\ ~Limited
  /\ Current \notin ValidJob
  /\ openUntil' = None
  /\ Refuse("error", 0)
  /\ UNCHANGED <<lastAttempt, failures>>

BeginSubmit ==
  /\ Ready /\ ~CircuitOpen /\ ~Limited
  /\ Current \in ValidJob
  /\ openUntil' = None
  /\ lastAttempt' = batchNow
  /\ calling' = Current
  /\ queue' = Tail(queue)
  /\ arrived' = None
  /\ calls' = [calls EXCEPT ![Current] = @ + 1]
  /\ lastCallAt' = now
  /\ UNCHANGED <<now, row, failures, batchNow, results, taken, budget, lost,
                 receipted, refused, streak, failedCallAt, holdUntil>>

\* The gateway takes the document of the awaited call.
GatewayTakes ==
  /\ calling # None /\ arrived = None
  /\ arrived' = calling
  /\ taken' = taken \union {calling}
  /\ UNCHANGED <<now, row, worker, batch, budget, history>>

-----------------------------------------------------------------------------
(***************************************************************************)
(* process_once after the await.                                           *)
(***************************************************************************)
\* Mutants: a pending receipt leaves the row reserved; the budget is tested
\* with > or one attempt early; the counter does not saturate; a circuit past
\* the threshold is not opened again; the gateway's hint is dropped.
PendingStaysReserved(status) ==
  CASE status = "pending"  -> "reserved"
    [] status = "rejected" -> "rejected"
    [] OTHER               -> "delivered"
ExhaustedLate(attempts)  == attempts > Policy.maxAttempts
ExhaustedEarly(attempts) == attempts + 1 >= Policy.maxAttempts
CircuitFailuresUnbounded(kind) ==
  IF kind \in CircuitKinds THEN failures + 1 ELSE failures
OpensOnlyAtThreshold(kind) ==
  /\ failures' = IF kind \in CircuitKinds THEN SmallerOf(failures + 1, CounterMax)
                                         ELSE failures
  /\ openUntil' = IF kind \in CircuitKinds /\ failures' = FailureThreshold
                  THEN batchNow + OpenSeconds
                  ELSE openUntil
  /\ UNCHANGED lastAttempt
RetryAfterPolicyOnly(attempts, hint) ==
  DelayForAttempt(Policy, attempts, JitterHash[calling][attempts])

\* outbox_state_for_receipt
OutboxStateForReceipt(status) ==
  CASE status = "pending"  -> "sent"
    [] status = "rejected" -> "rejected"
    [] OTHER               -> "delivered"

Exhausted(attempts) == attempts >= Policy.maxAttempts

\* The attempt_count record_failed_attempt leaves; the row is dead-lettered
\* exactly when that count exhausts the budget.
RecordFailedAttempt(attempts) ==
  IF Exhausted(attempts) THEN attempts ELSE attempts + 1

\* record_circuit_failure
CircuitFailures(kind) ==
  IF kind \in CircuitKinds THEN SmallerOf(failures + 1, CounterMax) ELSE failures

RecordCircuitFailure(kind) ==
  /\ failures' = CircuitFailures(kind)
  /\ openUntil' = IF kind \in CircuitKinds /\ failures' >= FailureThreshold
                  THEN batchNow + OpenSeconds
                  ELSE openUntil
  /\ UNCHANGED lastAttempt

\* The delay of a retry: the policy's, or the gateway's when it asks for more.
RetryAfter(attempts, hint) ==
  LargerOf(DelayForAttempt(Policy, attempts, JitterHash[calling][attempts]), hint)

\* The awaited call returns with an outcome for its job.
Conclude(outcome, state, attempts, after) ==
  /\ results' = Append(results, [job |-> calling, outcome |-> outcome,
                                 state |-> state, attempts |-> attempts,
                                 after |-> after])
  /\ calling' = None
  /\ arrived' = None
  /\ UNCHANGED <<now, row, batchNow, queue, taken, crashes, calls, lastCallAt>>

ReceiveReceipt(r) ==
  /\ calling # None /\ r.ok /\ arrived = calling
  /\ failures' = 0 /\ openUntil' = None
  /\ Conclude("submitted", OutboxStateForReceipt(r.status),
              row[calling].attempts, 0)
  /\ receipted' = receipted \union {calling}
  /\ streak' = 0
  /\ UNCHANGED <<lastAttempt, unrecorded, lost, refused, failedCallAt, holdUntil>>

CountFailure(kind) ==
  IF kind \in CircuitKinds
  THEN /\ streak' = SmallerOf(streak + 1, CounterMax)
       /\ failedCallAt' = batchNow
  ELSE UNCHANGED <<streak, failedCallAt>>

ScheduleRetry(r) ==
  LET n == RecordFailedAttempt(row[calling].attempts) IN
  /\ calling # None /\ ~r.ok
  /\ r.kind \in RetryableKinds /\ ~Exhausted(n)
  /\ RecordCircuitFailure(r.kind)
  /\ Conclude("retry_scheduled", "reserved", n, RetryAfter(n, r.hint))
  /\ CountFailure(r.kind)
  /\ holdUntil' = [holdUntil EXCEPT ![calling] =
                     now + LargerOf(r.hint, Policy.baseDelay)]
  /\ UNCHANGED <<unrecorded, lost, receipted, refused>>

\* Either the budget is exhausted or the error is not retryable.
EndsInDeadLetter(r) ==
  /\ ~r.ok
  /\ \/ r.kind \notin RetryableKinds
     \/ Exhausted(RecordFailedAttempt(row[calling].attempts))

NoteRefusal(kind) ==
  refused' = IF kind \in RetryableKinds THEN refused
                                        ELSE refused \union {calling}

DeadLetter(r) ==
  /\ calling # None /\ EndsInDeadLetter(r) /\ r.textOk
  /\ RecordCircuitFailure(r.kind)
  /\ Conclude("dead_lettered", "dead_letter",
              RecordFailedAttempt(row[calling].attempts), 0)
  /\ CountFailure(r.kind)
  /\ NoteRefusal(r.kind)
  /\ UNCHANGED <<unrecorded, lost, receipted, holdUntil>>

\* to_dead_letter refuses a blank message or one with a control character:
\* process_once returns Err and the envelope it had advanced is dropped.
FailToDeadLetter(r) ==
  /\ calling # None /\ EndsInDeadLetter(r) /\ ~r.textOk
  /\ unrecorded < MaxUnrecorded
  /\ unrecorded' = unrecorded + 1
  /\ RecordCircuitFailure(r.kind)
  /\ Conclude("error", row[calling].state, row[calling].attempts, 0)
  /\ CountFailure(r.kind)
  /\ NoteRefusal(r.kind)
  /\ lost' = [lost EXCEPT ![calling] = @ + 1]
  /\ UNCHANGED <<receipted, holdUntil>>

-----------------------------------------------------------------------------
(***************************************************************************)
(* The batch has returned: the drain writes its outcomes, one row at a     *)
(* time.  An error changes nothing; a refusal or a retry moves             *)
(* next_attempt_at.                                                        *)
(***************************************************************************)
Persist ==
  LET r == Head(results) IN
  /\ queue = <<>> /\ calling = None /\ results # <<>>
  /\ row' = IF r.outcome = "error" THEN row
            ELSE [row EXCEPT ![r.job] = [state |-> r.state,
                                         attempts |-> r.attempts,
                                         due |-> now + r.after]]
  /\ results' = Tail(results)
  /\ UNCHANGED <<now, worker, batchNow, queue, calling, gateway, budget, history>>

\* The jobs this batch has called the gateway for and not yet written back.
ResultsSet == {results[i] : i \in DOMAIN results}
Unwritten ==
  {r.job : r \in {x \in ResultsSet :
             x.outcome \in {"submitted", "retry_scheduled", "dead_lettered"}}}
  \union {j \in Job : j = calling}

DropBatch ==
  /\ crashes < MaxCrashes
  /\ crashes' = crashes + 1
  /\ queue' = <<>> /\ calling' = None /\ results' = <<>> /\ arrived' = None
  /\ lost' = [j \in Job |-> IF j \in Unwritten THEN lost[j] + 1 ELSE lost[j]]
  /\ receipted' = receipted \ Unwritten
  /\ holdUntil' = [j \in Job |-> IF j \in Unwritten THEN 0 ELSE holdUntil[j]]
  /\ UNCHANGED <<now, row, batchNow, taken, unrecorded, calls, refused>>

\* The process dies and starts again with a new worker.
Crash ==
  /\ DropBatch
  /\ lastAttempt' = None /\ failures' = 0 /\ openUntil' = None
  /\ streak' = 0 /\ failedCallAt' = 0 /\ lastCallAt' = None

\* The caller drops the batch future while it awaits the gateway: the worker
\* keeps what it had recorded before the await.
Cancel ==
  /\ calling # None
  /\ DropBatch
  /\ UNCHANGED <<worker, streak, failedCallAt, lastCallAt>>

\* Time passes while the gateway is awaited, up to MaxLatency, or between
\* batches.
Tick ==
  /\ now < MaxNow
  /\ IF calling # None
     THEN now < batchNow + MaxLatency
     ELSE /\ Idle
          /\ DrainMayLag \/ \A j \in ValidJob : row[j].state = "reserved" => row[j].due > now
  /\ now' = now + 1
  /\ UNCHANGED <<row, worker, batch, gateway, budget, history>>

-----------------------------------------------------------------------------
ProcessOnce ==
  \/ RefuseNotReady
  \/ RefuseCircuitOpen
  \/ RefuseRateLimited
  \/ RefuseInvalidRequest
  \/ BeginSubmit

SubmitReturns ==
  \E r \in Replies : \/ ReceiveReceipt(r)
                     \/ ScheduleRetry(r)
                     \/ DeadLetter(r)
                     \/ FailToDeadLetter(r)

Next ==
  \/ \E s \in Offers : StartBatch(s)
  \/ ProcessOnce
  \/ GatewayTakes
  \/ SubmitReturns
  \/ Persist
  \/ Crash
  \/ Cancel
  \/ Tick

Spec == Init /\ [][Next]_vars

\* The caller polls the batch to its end and writes its outcomes, the gateway
\* call returns (adapters bound it by a timeout), the clock runs, and a drain
\* that keeps running offers each due row first again and again.
OfferFirst(j) ==
  /\ row[j].state = "reserved"
  /\ \E s \in Offers : s[1] = j /\ StartBatch(s)

Fairness ==
  /\ WF_vars(ProcessOnce)
  /\ WF_vars(SubmitReturns)
  /\ WF_vars(Persist)
  /\ SF_vars(Tick)
  /\ \A j \in Job : SF_vars(OfferFirst(j))

FairSpec == Spec /\ Fairness
-----------------------------------------------------------------------------
(***************************************************************************)
(* Properties.                                                             *)
(***************************************************************************)
BeginsCall == calling = None /\ calling' # None

\* The breaker holds: once failure_threshold failures that count have come in
\* with no receipt between them, the gateway is not called with a clock
\* reading inside open_seconds of the last of them, whatever batches, uncounted
\* errors and half-open probes come in between (process_once, 493-512, and
\* record_circuit_failure, 666-676).
BreakerHolds ==
  [][BeginsCall /\ streak >= FailureThreshold
       => batchNow >= failedCallAt + OpenSeconds]_vars

\* Why it holds: the counter and the streak agree, and the deadline an open
\* circuit carries is the one its last counted failure set, until a batch
\* that began past it clears it.
BreakerInv ==
  /\ failedCallAt <= batchNow /\ batchNow <= now
  /\ streak = failures
  /\ streak >= FailureThreshold
       => \/ openUntil = failedCallAt + OpenSeconds
          \/ openUntil = None /\ batchNow >= failedCallAt + OpenSeconds

\* Spacing: two adapter calls of one process are at least
\* min_interval_seconds apart in real time, though every job of a batch is
\* processed with the clock reading the batch began with and calls take time
\* (rate_limit_delay, 594-602).
CallsAreSpaced ==
  [][BeginsCall /\ lastCallAt # None => now >= lastCallAt + MinInterval]_vars

\* Why it holds: with spacing on, the first call of a batch leaves a time
\* that refuses the others, so a batch calls only at the moment it began.
SpacingInv ==
  /\ lastCallAt # None => lastCallAt <= now
  /\ MinInterval # 0 =>
       /\ lastCallAt = lastAttempt
       /\ calling # None => lastAttempt = batchNow
       /\ queue # <<>> => now = batchNow \/ lastAttempt = batchNow

\* No resubmission: a job whose receipt this process has collected, or the
\* table has recorded, is never submitted again, even if a later job of the
\* same batch fails (process_batch, 555-580).
NoResubmission == [][BeginsCall => calling' \notin receipted]_vars

\* Why it holds: a job is in at most one place of the batch; what the batch
\* collected still fits the row; a receipt is in the table or in the batch.
InOnePlace ==
  /\ \A i, k \in DOMAIN queue : queue[i] = queue[k] => i = k
  /\ \A i, k \in DOMAIN results : results[i].job = results[k].job => i = k
  /\ \A i \in DOMAIN queue : queue[i] # calling
  /\ \A i \in DOMAIN results : results[i].job # calling
  /\ \A i \in DOMAIN queue, k \in DOMAIN results : queue[i] # results[k].job

FitsItsRow(r) ==
  r.outcome # "error" =>
    /\ row[r.job].state = "reserved"
    /\ \/ r.state \in {"reserved", "dead_letter"}
       \/ r.state \in {"sent", "delivered", "rejected"} /\ r.job \in taken
    /\ r.outcome = "submitted" => r.state # "reserved"

ReceiptKept(j) ==
  \/ row[j].state # "reserved"
  \/ \E i \in DOMAIN results : results[i].job = j /\ results[i].outcome = "submitted"

BatchInv ==
  /\ InOnePlace
  /\ calling # None => row[calling].state = "reserved"
  /\ arrived # None => arrived = calling /\ arrived \in taken
  /\ \A i \in DOMAIN results : FitsItsRow(results[i])
  /\ \A j \in receipted : ReceiptKept(j)

\* The retry waits: after a failure whose outcome was recorded the job is not
\* submitted again before the policy's base delay and the gateway's own
\* retry_after have passed (handle_gateway_error, 612-614).
RetryWaits == [][BeginsCall => now >= holdUntil[calling']]_vars

\* The budget: a job costs the gateway max_attempts calls, plus one for each
\* call whose outcome was dropped by a crash or refused by the dead letter
\* (record_failed_attempt, 529-545).
AttemptBudget == \A j \in Job : calls[j] <= Policy.maxAttempts + lost[j]

\* The worker, its drain and a gateway that may lose answers implement
\* at-least-once delivery (outbox_state_for_receipt, 719-727, with
\* process_ready_state, 582-592): a row is settled once, shown as sent or
\* delivered only if its document reached the gateway, and not submitted again.
Delivery == INSTANCE AtLeastOnceDelivery
              WITH status <- [j \in Job |-> row[j].state], reached <- taken

ImplementsDelivery == Delivery!Spec

\* A row goes to the dead letter only after max_attempts calls or on an error
\* that must not be retried (handle_gateway_error, 604-640).
DeadLetterIsEarned ==
  \A j \in Job : row[j].state = "dead_letter"
                   => j \in refused \/ calls[j] >= Policy.maxAttempts

\* No row is stranded: with a gateway that may fail for ever, every row with a
\* valid document is in the end sent, delivered, rejected or dead-lettered,
\* also beside rows that are refused each time they are offered (the drain
\* loop around process_batch).
EveryRowIsDecided == \A j \in ValidJob : <>(row[j].state # "reserved")

\* The doc comment of RetryPolicy::max_attempts (outbox.rs:245): "Maximum
\* number of attempts before the envelope moves to dead letter".  A process
\* that never crashes makes at most that many calls for a job.
AttemptsAreBounded ==
  crashes = 0 => \A j \in Job : calls[j] <= Policy.maxAttempts
=============================================================================
