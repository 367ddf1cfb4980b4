--------------------------- MODULE WebhookDelivery ---------------------------
(***************************************************************************)
(* Webhooks of crates/reconcile, both ends (webhook.rs): the dispatcher's  *)
(* delivery loop with its retries and backoff, and the receiver that       *)
(* passes each request through WebhookVerifier::verify before it runs the  *)
(* side effect.  Between them a transport that loses, delays and           *)
(* duplicates requests and loses replies; the receiver's process may       *)
(* restart, with or without its event-id ledger.                           *)
(*                                                                         *)
(* Signatures are genuine: a request carries the time it was signed, and   *)
(* every retry is signed anew.                                             *)
(***************************************************************************)
EXTENDS Naturals, FiniteSetsExt

CONSTANTS
  Event,          \* event ids, each driven by one call of deliver
  None,           \* no reply yet
  MaxAttempts,    \* WebhookRetryPolicy::max_attempts
  Base, Factor,   \* the first backoff and its growth
  MaxBackoff,     \* the ceiling of a backoff
  WordMax,        \* where factor.saturating_pow saturates (u32::MAX)
  ReplayWindow,   \* REPLAY_WINDOW_SECONDS
  \* Bounds of the model.
  MaxNow,         \* the clock stops here unless a sender sleeps
  MaxDuplicates,  \* requests the transport delivers twice
  MaxFailures     \* side effects that fail, and restarts of the receiver

\* A usable policy: its fields are public and unchecked.
WebhookRetryPolicy ==
  /\ MaxAttempts \in Nat \ {0} /\ Base \in Nat /\ Factor \in Nat \ {0}
  /\ MaxBackoff \in Nat

Reply == {"success", "client_error", "server_error"}

ASSUME WebhookAssumption ==
  /\ None \notin Reply
  /\ WebhookRetryPolicy /\ WordMax \in Nat \ {0} /\ ReplayWindow \in Nat
  /\ {MaxNow, MaxDuplicates, MaxFailures} \subseteq Nat

\* What a power is, for the provers.
ASSUME PowerAssumption ==
  \A n \in 0 .. MaxAttempts : Factor ^ n \in Nat /\ Factor ^ (n + 1) = Factor * Factor ^ n

VARIABLES
  now,
  \* WebhookDispatcher::deliver, per event.
  phase, attempts, wake,
  reply,       \* the answer to the current attempt
  lastBackoff, \* the pause before the last retry (read by a property only)
  \* The transport.
  requests,    \* on their way: [event, attempt, signed]
  duplicates,
  \* The receiver.
  ledger,      \* EventIdLedger::seen
  handling,    \* requests verified, their side effect still to run
  handled,     \* how often the side effect of each event ran
  failures,
  ledgerLosses \* restarts that lost the ledger (read by a property only)

sender   == <<phase, attempts, wake, reply, lastBackoff>>
receiver == <<ledger, handling, handled, failures, ledgerLosses>>
vars     == <<now, sender, requests, duplicates, receiver>>

Outcome == {"delivered", "permanent_failure", "exhausted"}
Request == [event : Event, attempt : 1 .. MaxAttempts, signed : Nat]

TypeOK ==
  /\ now \in Nat
  /\ phase \in [Event -> {"ready", "awaiting", "sleeping"} \union Outcome]
  /\ attempts \in [Event -> 0 .. MaxAttempts]
  /\ wake \in [Event -> Nat]
  /\ reply \in [Event -> Reply \union {None}]
  /\ lastBackoff \in [Event -> Nat]
  /\ requests \subseteq Request /\ handling \subseteq Request
  /\ ledger \subseteq Event
  /\ handled \in [Event -> Nat]
  /\ duplicates \in Nat /\ failures \in Nat /\ ledgerLosses \in Nat

Init ==
  /\ now = 0
  /\ phase = [e \in Event |-> "ready"]
  /\ attempts = [e \in Event |-> 0] /\ wake = attempts /\ lastBackoff = attempts
  /\ reply = [e \in Event |-> None]
  /\ requests = {} /\ duplicates = 0
  /\ ledger = {} /\ handling = {} /\ failures = 0 /\ ledgerLosses = 0
  /\ handled = [e \in Event |-> 0]

-----------------------------------------------------------------------------
(***************************************************************************)
(* WebhookDispatcher::deliver.                                             *)
(***************************************************************************)
\* Mutants: the growth wraps around; one attempt too many; an attempt that gets
\* no answer is awaited for ever.
BackoffWraps(n) == Min({Base * ((Factor ^ n) % (WordMax + 1)), MaxBackoff})
ExhaustedLate(n) == n > MaxAttempts

\* WebhookRetryPolicy::backoff_for
BackoffFor(n) == Min({Base * Min({Factor ^ n, WordMax}), MaxBackoff})

Exhausted(n) == n >= MaxAttempts

\* WebhookSigner::sign: every attempt is signed anew.
Sign(e, attempt) == [event |-> e, attempt |-> attempt, signed |-> now]

Send(e) ==
  /\ phase[e] = "ready"
  /\ attempts' = [attempts EXCEPT ![e] = @ + 1]
  /\ requests' = requests \union {Sign(e, attempts[e] + 1)}
  /\ phase' = [phase EXCEPT ![e] = "awaiting"]
  /\ reply' = [reply EXCEPT ![e] = None]
  /\ UNCHANGED <<now, wake, lastBackoff, duplicates, receiver>>

Return(e, outcome) ==
  /\ phase' = [phase EXCEPT ![e] = outcome]
  /\ UNCHANGED <<now, attempts, wake, reply, lastBackoff, requests, duplicates,
                 receiver>>

RetryOrGiveUp(e) ==
  IF Exhausted(attempts[e])
  THEN Return(e, "exhausted")
  ELSE LET pause == BackoffFor(attempts[e] - 1) IN
       /\ phase' = [phase EXCEPT ![e] = "sleeping"]
       /\ wake' = [wake EXCEPT ![e] = now + pause]
       /\ lastBackoff' = [lastBackoff EXCEPT ![e] = pause]
       /\ UNCHANGED <<now, attempts, reply, requests, duplicates, receiver>>

Replied(e) ==
  /\ phase[e] = "awaiting"
  /\ \/ reply[e] = "success" /\ Return(e, "delivered")
     \/ reply[e] = "client_error" /\ Return(e, "permanent_failure")
     \/ reply[e] = "server_error" /\ RetryOrGiveUp(e)

WaitsForAnswer(e) ==
  /\ phase[e] = "awaiting" /\ reply[e] # None
  /\ RetryOrGiveUp(e)

\* The transport gives up on the attempt, answered or not.
TimesOut(e) ==
  /\ phase[e] = "awaiting"
  /\ RetryOrGiveUp(e)

WakeUp(e) ==
  /\ phase[e] = "sleeping" /\ now >= wake[e]
  /\ phase' = [phase EXCEPT ![e] = "ready"]
  /\ UNCHANGED <<now, attempts, wake, reply, lastBackoff, requests, duplicates,
                 receiver>>

-----------------------------------------------------------------------------
(***************************************************************************)
(* The transport and the receiver.  A reply reaches a sender that still    *)
(* waits for the attempt it answers.                                       *)
(***************************************************************************)
Answer(q, code) ==
  IF phase[q.event] = "awaiting" /\ attempts[q.event] = q.attempt /\ reply[q.event] = None
  THEN [reply EXCEPT ![q.event] = code]
  ELSE reply

Distance(a, b) == IF a > b THEN a - b ELSE b - a

\* EventIdLedger: record returns TRUE for an id it has not seen.
Fresh(e) == e \notin ledger
Record(e) == ledger \union {e}

\* Mutants: an event is recorded before the window is checked; only the side
\* effect records it.
VerifyRecordsFirst(q) ==
  IF Distance(now, q.signed) > ReplayWindow
  THEN [result |-> "replay_window_exceeded", ledger |-> Record(q.event)]
  ELSE [result |-> IF Fresh(q.event) THEN "ok" ELSE "duplicate_event",
        ledger |-> Record(q.event)]
VerifyOnlyLooks(q) ==
  [result |-> IF Distance(now, q.signed) > ReplayWindow THEN "replay_window_exceeded"
              ELSE IF handled[q.event] > 0 THEN "duplicate_event" ELSE "ok",
   ledger |-> Record(q.event)]

\* WebhookVerifier::verify: what it returns, and the ledger it leaves.
Verify(q) ==
  IF Distance(now, q.signed) > ReplayWindow
  THEN [result |-> "replay_window_exceeded", ledger |-> ledger]
  ELSE [result |-> IF Fresh(q.event) THEN "ok" ELSE "duplicate_event",
        ledger |-> Record(q.event)]

\* The receiver answers a duplicate with 200, as the error's hint asks, and a
\* request outside the window with a client error.
Receive(q, keep) ==
  /\ q \in requests
  /\ keep => duplicates < MaxDuplicates
  /\ requests' = IF keep THEN requests ELSE requests \ {q}
  /\ duplicates' = IF keep THEN duplicates + 1 ELSE duplicates
  /\ LET v == Verify(q) IN
       /\ ledger' = v.ledger
       /\ handling' = IF v.result = "ok" THEN handling \union {q} ELSE handling
       /\ reply' = CASE v.result = "ok" -> reply
                     [] v.result = "duplicate_event" -> Answer(q, "success")
                     [] OTHER -> Answer(q, "client_error")
  /\ UNCHANGED <<now, phase, attempts, wake, lastBackoff, handled, failures,
                 ledgerLosses>>

Lose(q) ==
  /\ q \in requests
  /\ requests' = requests \ {q}
  /\ UNCHANGED <<now, sender, duplicates, receiver>>

Handle(q) ==
  /\ q \in handling
  /\ handling' = handling \ {q}
  /\ handled' = [handled EXCEPT ![q.event] = @ + 1]
  /\ reply' = Answer(q, "success")
  /\ UNCHANGED <<now, phase, attempts, wake, lastBackoff, requests, duplicates,
                 ledger, failures, ledgerLosses>>

\* The side effect fails and leaves nothing behind; the receiver says so.
HandlerFails(q) ==
  /\ q \in handling /\ failures < MaxFailures
  /\ failures' = failures + 1
  /\ handling' = handling \ {q}
  /\ reply' = Answer(q, "server_error")
  /\ UNCHANGED <<now, phase, attempts, wake, lastBackoff, requests, duplicates,
                 ledger, handled, ledgerLosses>>

\* The ledger the crate ships lives in memory; the receiver may keep its own.
Restart ==
  /\ failures < MaxFailures
  /\ failures' = failures + 1
  /\ handling' = {}
  /\ \/ UNCHANGED <<ledger, ledgerLosses>>
     \/ ledger' = {} /\ ledgerLosses' = ledgerLosses + 1
  /\ UNCHANGED <<now, sender, requests, duplicates, handled>>

Tick ==
  /\ now < MaxNow \/ \E e \in Event : phase[e] = "sleeping" /\ now < wake[e]
  /\ now' = now + 1
  /\ UNCHANGED <<sender, requests, duplicates, receiver>>

Deliver(e) == Send(e) \/ Replied(e) \/ TimesOut(e) \/ WakeUp(e)

Next ==
  \/ \E e \in Event : Deliver(e)
  \/ \E q \in requests : Lose(q) \/ \E keep \in BOOLEAN : Receive(q, keep)
  \/ \E q \in handling : Handle(q) \/ HandlerFails(q)
  \/ Restart \/ Tick

Spec == Init /\ [][Next]_vars

\* deliver runs on, its transport returns, and time passes.
FairSpec == Spec /\ WF_vars(Tick) /\ \A e \in Event : WF_vars(Deliver(e))

-----------------------------------------------------------------------------
(***************************************************************************)
(* A retried or duplicated POST does not fire the side effect twice while  *)
(* the ledger lives (webhook.rs:18-20), and each restart that loses the    *)
(* ledger costs at most one more run.                                      *)
(***************************************************************************)
HandledOnce == \A e \in Event : handled[e] <= 1 + ledgerLosses

(***************************************************************************)
(* With a receiver that neither fails nor restarts, an event reported as   *)
(* delivered has run its side effect or is about to: no request that was   *)
(* turned away leaves a mark that lets a later one pass for a duplicate    *)
(* (the order of the checks in verify).                                    *)
(***************************************************************************)
Taken(e) == handled[e] > 0 \/ \E q \in handling : q.event = e

DeliveredIsTaken ==
  failures = 0 => \A e \in Event : phase[e] = "delivered" => Taken(e)

(***************************************************************************)
(* The same for a receiver that may fail: what the module's documentation  *)
(* says of dispatcher and verifier, at-least-once (webhook.rs:4), with     *)
(* DuplicateEvent meaning "was already processed" (webhook.rs:172).        *)
(***************************************************************************)
AtLeastOnce == \A e \in Event : phase[e] = "delivered" => Taken(e)

(***************************************************************************)
(* The pause before a retry never shrinks and never passes the ceiling,    *)
(* also where the power saturates (backoff_for).                           *)
(***************************************************************************)
BackoffGrows ==
  [][\A e \in Event : /\ lastBackoff'[e] >= lastBackoff[e]
                      /\ lastBackoff'[e] <= MaxBackoff]_vars

(***************************************************************************)
(* deliver returns an outcome for every event, whatever the transport and  *)
(* the receiver do.                                                        *)
(***************************************************************************)
EveryDeliveryEnds == \A e \in Event : <>(phase[e] \in Outcome)
=============================================================================
