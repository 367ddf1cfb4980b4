---------------------------- MODULE RetrySchedule ----------------------------
(***************************************************************************)
(* The retries of one outbox envelope (crates/reconcile/src/outbox.rs):    *)
(* a failed attempt is recorded and gives the delay to the next one, or    *)
(* uses up the budget.  The envelope's policy and the hash behind its      *)
(* jitter are arbitrary, so that shift, product and spread reach the ends  *)
(* of their words, which the seconds of TransmissionWorker never do.       *)
(***************************************************************************)
EXTENDS RetryPolicy

CONSTANTS
  Policies,  \* retry policies of envelopes
  Hashes     \* values of the BLAKE3 word behind the jitter

ASSUME ScheduleAssumption ==
  /\ \A p \in Policies : ValidPolicy(p)
  /\ Hashes \subseteq Word
  /\ \A e \in 1 .. WordBits - 1 : 2^e = 2 * 2^(e - 1)   \* what 2^e means

VARIABLES
  policy,   \* OutboxEnvelope::retry_policy
  failed,   \* attempt_count
  givenUp,  \* the state is DeadLetter
  delay     \* the last RetryAfterSeconds, 0 for none

scheduleVars == <<policy, failed, givenUp, delay>>

ScheduleTypeOK ==
  /\ policy \in Policies /\ failed \in 0 .. policy.maxAttempts
  /\ givenUp \in BOOLEAN /\ delay \in Word

ScheduleInit == policy \in Policies /\ failed = 0 /\ givenUp = FALSE /\ delay = 0

\* record_failed_attempt; on an envelope without budget it changes nothing more.
RecordFailure ==
  /\ ~givenUp
  /\ failed' = failed + 1
  /\ IF RetryExists(policy, failed')
     THEN /\ \E h \in Hashes : delay' = DelayForAttempt(policy, failed', h)
          /\ UNCHANGED givenUp
     ELSE givenUp' = TRUE /\ UNCHANGED delay
  /\ UNCHANGED policy

ScheduleSpec == ScheduleInit /\ [][RecordFailure]_scheduleVars

-----------------------------------------------------------------------------
(***************************************************************************)
(* Every delay lies between the base delay and the maximum, and none is    *)
(* shorter than the one before it, whatever their jitter: the spread is at *)
(* most what the next doubling adds.  The second holds until the           *)
(* multiplier reaches the last bit of its word; from then on only the      *)
(* jitter moves the delay (delay_for_attempt, 356-393).                    *)
(***************************************************************************)
RetriesBackOff ==
  [][~givenUp' =>
       /\ policy.baseDelay <= delay' /\ delay' <= policy.maxDelay
       /\ failed < WordBits => delay <= delay']_scheduleVars
=============================================================================
