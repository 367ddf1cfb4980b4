----------------------------- MODULE WebhookProofs -----------------------------
(***************************************************************************)
(* Theorems about webhook delivery, for any number of events, retries,     *)
(* duplicates, failures and restarts: first of the dispatcher and its      *)
(* pauses, then of the receiver.                                           *)
(***************************************************************************)
EXTENDS WebhookDelivery, TLAPS

-----------------------------------------------------------------------------
(***************************************************************************)
(* The dispatcher.                                                         *)
(***************************************************************************)
\* The smaller of two numbers.
LEMMA MinOfTwo ==
  ASSUME NEW a \in Nat, NEW b \in Nat
  PROVE  Min({a, b}) \in Nat /\ Min({a, b}) <= a /\ Min({a, b}) <= b
         /\ Min({a, b}) \in {a, b}
<1>1. \E x \in {a, b} : \A y \in {a, b} : x =< y
  OBVIOUS
<1> QED
  BY <1>1 DEF Min

\* A product grows with its second factor.
LEMMA ProductGrows ==
  ASSUME NEW a \in Nat, NEW b \in Nat, NEW c \in Nat, b <= c
  PROVE  a * b \in Nat /\ a * b <= a * c
BY SMT

\* A pause is a number below the ceiling and not above the next pause, also
\* where the power or the product passes its limit.
LEMMA BackoffBounds ==
  ASSUME NEW n \in 0 .. MaxAttempts
  PROVE  /\ BackoffFor(n) \in Nat /\ BackoffFor(n) <= MaxBackoff
         /\ n + 1 \in 0 .. MaxAttempts => BackoffFor(n) <= BackoffFor(n + 1)
<1> DEFINE growth(k) == Min({Factor ^ k, WordMax})
<1>0. /\ Base \in Nat /\ MaxBackoff \in Nat /\ WordMax \in Nat /\ Factor \in Nat \ {0}
      /\ MaxAttempts \in Nat
  BY WebhookAssumption DEF WebhookAssumption, WebhookRetryPolicy
<1>1. \A k \in 0 .. MaxAttempts :
        /\ growth(k) \in Nat /\ Base * growth(k) \in Nat
        /\ BackoffFor(k) \in Nat /\ BackoffFor(k) <= MaxBackoff
        /\ BackoffFor(k) <= Base * growth(k)
        /\ BackoffFor(k) \in {Base * growth(k), MaxBackoff}
  <2> TAKE k \in 0 .. MaxAttempts
  <2>1. Factor ^ k \in Nat
    BY PowerAssumption
  <2>2. growth(k) \in Nat
    BY <1>0, <2>1, MinOfTwo
  <2>3. Base * growth(k) \in Nat
    BY <1>0, <2>2, ProductGrows
  <2> QED
    BY <1>0, <2>2, <2>3, MinOfTwo DEF BackoffFor
<1>2. ASSUME n + 1 \in 0 .. MaxAttempts PROVE BackoffFor(n) <= BackoffFor(n + 1)
  <2>1. /\ Factor ^ n \in Nat /\ Factor ^ (n + 1) \in Nat
        /\ Factor ^ (n + 1) = Factor * Factor ^ n
    BY <1>2, PowerAssumption
  <2>2. \A x \in Nat, f \in Nat \ {0} : x <= f * x
    BY SMT
  <2>3. Factor ^ n <= Factor ^ (n + 1)
    BY <1>0, <2>1, <2>2
  <2>4. growth(n) <= growth(n + 1)
    BY <1>0, <2>1, <2>3, MinOfTwo
  <2>5. Base * growth(n) <= Base * growth(n + 1)
    BY <1>0, <1>1, <1>2, <2>4, ProductGrows
  <2> HIDE DEF growth
  <2> QED
    BY <1>0, <1>1, <1>2, <2>5
<1> QED
  BY <1>1, <1>2

(***************************************************************************)
(* A sender that may send again has attempts left, one that waits for an   *)
(* answer has sent, and its last pause is not above the one it would take  *)
(* now.                                                                    *)
(***************************************************************************)
SenderInv ==
  /\ TypeOK
  /\ \A e \in Event :
       /\ phase[e] \in {"ready", "sleeping"} => attempts[e] < MaxAttempts
       /\ phase[e] = "awaiting" => attempts[e] > 0
       /\ lastBackoff[e] <= IF attempts[e] = 0 THEN 0 ELSE BackoffFor(attempts[e] - 1)

\* What every step does to the pauses.
PausesGrow ==
  \A e \in Event : lastBackoff'[e] >= lastBackoff[e] /\ lastBackoff'[e] <= MaxBackoff

LEMMA PauseIsBelowCeiling ==
  ASSUME SenderInv, NEW e \in Event
  PROVE  lastBackoff[e] \in Nat /\ lastBackoff[e] <= MaxBackoff
<1>1. /\ attempts[e] \in 0 .. MaxAttempts /\ lastBackoff[e] \in Nat
      /\ MaxAttempts \in Nat /\ MaxBackoff \in Nat
  BY WebhookAssumption DEF WebhookAssumption, WebhookRetryPolicy, SenderInv, TypeOK
<1>2. CASE attempts[e] = 0
  BY <1>1, <1>2 DEF SenderInv
<1>3. CASE attempts[e] # 0
  <2>1. attempts[e] - 1 \in 0 .. MaxAttempts
    BY <1>1, <1>3
  <2>2. BackoffFor(attempts[e] - 1) \in Nat /\ BackoffFor(attempts[e] - 1) <= MaxBackoff
    BY <2>1, BackoffBounds
  <2>3. lastBackoff[e] <= BackoffFor(attempts[e] - 1)
    BY <1>3 DEF SenderInv
  <2> QED
    BY <1>1, <2>2, <2>3
<1> QED
  BY <1>2, <1>3

\* Steps that leave phases, attempts and pauses alone.
LEMMA SenderRests ==
  ASSUME SenderInv, TypeOK', UNCHANGED <<phase, attempts, lastBackoff>>
  PROVE  SenderInv' /\ PausesGrow
<1>1. \A e \in Event : lastBackoff[e] \in Nat /\ lastBackoff[e] <= MaxBackoff
  BY PauseIsBelowCeiling
<1> QED
  BY <1>1 DEF SenderInv, PausesGrow

\* An answer is a reply of the sender's.
LEMMA AnswerType ==
  ASSUME TypeOK, NEW q \in requests \union handling, NEW code \in Reply
  PROVE  Answer(q, code) \in [Event -> Reply \union {None}]
BY DEF TypeOK, Answer

\* The first attempt or the next.
LEMMA SendKeepsSenderInv ==
  ASSUME SenderInv, NEW e \in Event, Send(e)
  PROVE  SenderInv' /\ PausesGrow
<1> DEFINE a == attempts[e]
<1>0. /\ TypeOK /\ phase[e] = "ready" /\ a \in Nat /\ a < MaxAttempts
      /\ MaxAttempts \in Nat /\ now \in Nat /\ lastBackoff' = lastBackoff
  BY WebhookAssumption DEF WebhookAssumption, WebhookRetryPolicy, SenderInv, TypeOK, Send
<1>1. TypeOK'
  <2>1. Sign(e, attempts[e] + 1) \in Request
    BY <1>0 DEF Sign, Request
  <2>2. attempts' \in [Event -> 0 .. MaxAttempts]
    BY <1>0 DEF Send, TypeOK
  <2> QED
    BY <1>0, <2>1, <2>2, WebhookAssumption
    DEF WebhookAssumption, Reply, Send, TypeOK, receiver, Outcome
<1>2. /\ a + 1 \in 0 .. MaxAttempts /\ attempts'[e] = a + 1 /\ phase'[e] = "awaiting"
      /\ \A f \in Event \ {e} : attempts'[f] = attempts[f] /\ phase'[f] = phase[f]
  BY <1>0 DEF Send, TypeOK
<1>3. lastBackoff'[e] <= BackoffFor(a)
  <2>1. lastBackoff[e] \in Nat /\ lastBackoff[e] <= MaxBackoff /\ BackoffFor(a) \in Nat
    BY <1>0, PauseIsBelowCeiling, BackoffBounds
  <2>2. CASE a = 0
    BY <1>0, <2>1, <2>2 DEF SenderInv
  <2>3. CASE a # 0
    <3>1. a - 1 \in 0 .. MaxAttempts /\ (a - 1) + 1 = a /\ a \in 0 .. MaxAttempts
      BY <1>0, <2>3
    <3>2. BackoffFor(a - 1) \in Nat /\ BackoffFor(a - 1) <= BackoffFor(a)
      BY <3>1, BackoffBounds
    <3>3. lastBackoff[e] <= BackoffFor(a - 1)
      BY <2>3 DEF SenderInv
    <3> QED
      BY <1>0, <2>1, <3>2, <3>3
  <2> QED
    BY <2>2, <2>3
<1>4. \A f \in Event :
        lastBackoff'[f] <= IF attempts'[f] = 0 THEN 0 ELSE BackoffFor(attempts'[f] - 1)
  <2> TAKE f \in Event
  <2>1. CASE f = e
    <3>1. (a + 1) - 1 = a /\ a + 1 # 0
      BY <1>0
    <3> QED
      BY <1>2, <1>3, <2>1, <3>1
  <2>2. CASE f # e
    BY <1>0, <1>2, <2>2 DEF SenderInv
  <2> QED
    BY <2>1, <2>2
<1>5. \A f \in Event : /\ phase'[f] \in {"ready", "sleeping"} => attempts'[f] < MaxAttempts
                       /\ phase'[f] = "awaiting" => attempts'[f] > 0
  BY <1>0, <1>2 DEF SenderInv
<1>6. \A f \in Event : lastBackoff[f] \in Nat /\ lastBackoff[f] <= MaxBackoff
  BY PauseIsBelowCeiling
<1>7. PausesGrow
  BY <1>0, <1>6 DEF PausesGrow
<1>8. SenderInv'
  BY <1>1, <1>4, <1>5 DEF SenderInv
<1> QED
  BY <1>7, <1>8

\* An attempt ended: with an outcome, or with a pause that is not shorter.
LEMMA ReturnKeepsSenderInv ==
  ASSUME SenderInv, NEW e \in Event, NEW outcome \in Outcome, Return(e, outcome)
  PROVE  SenderInv' /\ PausesGrow
<1>1. TypeOK'
  BY DEF SenderInv, TypeOK, Return, receiver
<1>2. /\ attempts' = attempts /\ lastBackoff' = lastBackoff
      /\ \A f \in Event : phase'[f] = phase[f] \/ phase'[f] \in Outcome
  BY DEF SenderInv, TypeOK, Return
<1>3. \A f \in Event : lastBackoff[f] \in Nat /\ lastBackoff[f] <= MaxBackoff
  BY PauseIsBelowCeiling
<1> QED
  BY <1>1, <1>2, <1>3 DEF SenderInv, PausesGrow, Outcome

LEMMA RetryKeepsSenderInv ==
  ASSUME SenderInv, NEW e \in Event, phase[e] = "awaiting", RetryOrGiveUp(e)
  PROVE  SenderInv' /\ PausesGrow
<1>1. CASE Exhausted(attempts[e])
  BY <1>1, ReturnKeepsSenderInv DEF RetryOrGiveUp, Outcome
<1>2. CASE ~Exhausted(attempts[e])
  <2> DEFINE pause == BackoffFor(attempts[e] - 1)
  <2>1. /\ TypeOK /\ MaxAttempts \in Nat /\ attempts[e] \in Nat /\ now \in Nat
        /\ attempts[e] > 0 /\ attempts[e] < MaxAttempts
        /\ lastBackoff[e] <= BackoffFor(attempts[e] - 1)
    BY <1>2, WebhookAssumption
    DEF WebhookAssumption, WebhookRetryPolicy, SenderInv, TypeOK, Exhausted
  <2>2. attempts[e] - 1 \in 0 .. MaxAttempts
    BY <2>1
  <2>3. pause \in Nat /\ pause <= MaxBackoff
    BY <2>2, BackoffBounds
  <2>4. /\ phase' = [phase EXCEPT ![e] = "sleeping"]
        /\ wake' = [wake EXCEPT ![e] = now + pause]
        /\ lastBackoff' = [lastBackoff EXCEPT ![e] = pause]
        /\ UNCHANGED <<now, attempts, reply, requests, duplicates, receiver>>
    BY <1>2 DEF RetryOrGiveUp
  <2> HIDE DEF pause
  <2>5. TypeOK'
    <3>1. now + pause \in Nat
      BY <2>1, <2>3
    <3> QED
      BY <2>1, <2>3, <2>4, <3>1 DEF TypeOK, receiver
  <2>6. /\ lastBackoff'[e] = pause /\ phase'[e] = "sleeping" /\ attempts' = attempts
        /\ \A f \in Event \ {e} : lastBackoff'[f] = lastBackoff[f] /\ phase'[f] = phase[f]
    BY <2>1, <2>4 DEF TypeOK
  <2>7. \A f \in Event :
          lastBackoff'[f] <= IF attempts[f] = 0 THEN 0 ELSE BackoffFor(attempts[f] - 1)
    <3> TAKE f \in Event
    <3>1. CASE f = e
      BY <2>1, <2>3, <2>6, <3>1 DEF pause
    <3>2. CASE f # e
      BY <2>6, <3>2 DEF SenderInv
    <3> QED
      BY <3>1, <3>2
  <2>8. PausesGrow
    <3>1. \A f \in Event : lastBackoff[f] \in Nat /\ lastBackoff[f] <= MaxBackoff
      BY PauseIsBelowCeiling
    <3>2. lastBackoff[e] <= pause
      BY <2>1 DEF pause
    <3> QED
      BY <2>3, <2>6, <3>1, <3>2 DEF PausesGrow
  <2>9. SenderInv'
    BY <2>1, <2>5, <2>6, <2>7 DEF SenderInv
  <2> QED
    BY <2>8, <2>9
<1> QED
  BY <1>1, <1>2

LEMMA DeliverKeepsSenderInv ==
  ASSUME SenderInv, NEW e \in Event, Deliver(e)
  PROVE  SenderInv' /\ PausesGrow
<1>1. CASE Send(e)
  BY <1>1, SendKeepsSenderInv
<1>2. CASE Replied(e)
  BY <1>2, ReturnKeepsSenderInv, RetryKeepsSenderInv DEF Replied, Outcome
<1>3. CASE TimesOut(e)
  BY <1>3, RetryKeepsSenderInv DEF TimesOut
<1>4. CASE WakeUp(e)
  <2>1. TypeOK'
    BY <1>4 DEF SenderInv, TypeOK, WakeUp, receiver
  <2>2. /\ attempts' = attempts /\ lastBackoff' = lastBackoff /\ phase[e] = "sleeping"
        /\ phase'[e] = "ready" /\ \A f \in Event \ {e} : phase'[f] = phase[f]
    BY <1>4 DEF SenderInv, TypeOK, WakeUp
  <2>3. \A f \in Event : lastBackoff[f] \in Nat /\ lastBackoff[f] <= MaxBackoff
    BY PauseIsBelowCeiling
  <2> QED
    BY <2>1, <2>2, <2>3 DEF SenderInv, PausesGrow
<1> QED
  BY <1>1, <1>2, <1>3, <1>4 DEF Deliver

\* Every step of the transport, the receiver and the clock keeps the types.
LEMMA ReceiveKeepsType ==
  ASSUME TypeOK, NEW q \in requests, NEW keep \in BOOLEAN, Receive(q, keep)
  PROVE  TypeOK'
<1> DEFINE v == Verify(q)
<1>1. q \in Request /\ q.event \in Event
  BY DEF TypeOK, Request
<1>2. /\ ledger' = v.ledger /\ v.ledger \subseteq Event
      /\ handling' = IF v.result = "ok" THEN handling \union {q} ELSE handling
      /\ reply' = CASE v.result = "ok" -> reply
                    [] v.result = "duplicate_event" -> Answer(q, "success")
                    [] OTHER -> Answer(q, "client_error")
  BY <1>1 DEF Receive, Verify, Record, TypeOK
<1> HIDE DEF v
<1>3. reply' \in [Event -> Reply \union {None}]
  BY <1>2, AnswerType DEF TypeOK, Reply
<1> QED
  BY <1>1, <1>2, <1>3 DEF TypeOK, Receive

LEMMA HandlerKeepsType ==
  ASSUME TypeOK, NEW q \in handling, Handle(q) \/ HandlerFails(q)
  PROVE  TypeOK'
<1>1. q.event \in Event /\ reply' \in [Event -> Reply \union {None}]
  BY AnswerType DEF TypeOK, Request, Reply, Handle, HandlerFails
<1>2. handled' \in [Event -> Nat] /\ failures' \in Nat
  BY <1>1 DEF TypeOK, Handle, HandlerFails
<1> QED
  BY <1>1, <1>2 DEF TypeOK, Handle, HandlerFails

LEMMA SenderStep == SenderInv /\ [Next]_vars => SenderInv' /\ PausesGrow
<1> SUFFICES ASSUME SenderInv, [Next]_vars PROVE SenderInv' /\ PausesGrow
  OBVIOUS
<1>0. TypeOK
  BY DEF SenderInv
<1>1. ASSUME NEW e \in Event, Deliver(e) PROVE SenderInv' /\ PausesGrow
  BY <1>1, DeliverKeepsSenderInv
<1>2. ASSUME NEW q \in requests, Lose(q) PROVE SenderInv' /\ PausesGrow
  <2>1. TypeOK' /\ UNCHANGED <<phase, attempts, lastBackoff>>
    BY <1>0, <1>2 DEF TypeOK, Lose, sender, receiver
  <2> QED
    BY <2>1, SenderRests
<1>3. ASSUME NEW q \in requests, NEW keep \in BOOLEAN, Receive(q, keep)
      PROVE  SenderInv' /\ PausesGrow
  BY <1>0, <1>3, ReceiveKeepsType, SenderRests DEF Receive
<1>4. ASSUME NEW q \in handling, Handle(q) \/ HandlerFails(q)
      PROVE  SenderInv' /\ PausesGrow
  BY <1>0, <1>4, HandlerKeepsType, SenderRests DEF Handle, HandlerFails
<1>5. CASE Restart
  <2>1. TypeOK' /\ UNCHANGED <<phase, attempts, lastBackoff>>
    BY <1>0, <1>5 DEF TypeOK, Restart, sender
  <2> QED
    BY <2>1, SenderRests
<1>6. CASE Tick
  <2>1. TypeOK' /\ UNCHANGED <<phase, attempts, lastBackoff>>
    BY <1>0, <1>6 DEF TypeOK, Tick, sender, receiver
  <2> QED
    BY <2>1, SenderRests
<1>7. CASE UNCHANGED vars
  <2>1. TypeOK' /\ UNCHANGED <<phase, attempts, lastBackoff>>
    BY <1>0, <1>7 DEF TypeOK, vars, sender, receiver
  <2> QED
    BY <2>1, SenderRests
<1> QED
  BY <1>1, <1>2, <1>3, <1>4, <1>5, <1>6, <1>7 DEF Next

\* Every reachable state of the dispatcher satisfies its invariant.
LEMMA SenderInvariant == Spec => []SenderInv
<1>1. Init => SenderInv
  <2> SUFFICES ASSUME Init PROVE SenderInv
    OBVIOUS
  <2>1. TypeOK
    BY WebhookAssumption DEF WebhookAssumption, WebhookRetryPolicy, Init, TypeOK
  <2> QED
    BY <2>1, WebhookAssumption
    DEF WebhookAssumption, WebhookRetryPolicy, Init, SenderInv
<1> QED
  BY <1>1, SenderStep, PTL DEF Spec

(***************************************************************************)
(* Every variable keeps its type; in particular no event is sent more than *)
(* MaxAttempts times, however its attempts end.                            *)
(***************************************************************************)
THEOREM WebhookTypeCorrect == Spec => []TypeOK
<1>1. SenderInv => TypeOK
  BY DEF SenderInv
<1> QED
  BY <1>1, SenderInvariant, PTL

(***************************************************************************)
(* The pauses of a delivery never shrink and stay below the ceiling, for   *)
(* every policy, also one whose powers and products pass it.               *)
(***************************************************************************)
THEOREM PausesNeverShrink == Spec => BackoffGrows
<1>1. SenderInv /\ [Next]_vars =>
        [\A e \in Event : /\ lastBackoff'[e] >= lastBackoff[e]
                          /\ lastBackoff'[e] <= MaxBackoff]_vars
  BY SenderStep DEF PausesGrow
<1> QED
  BY <1>1, SenderInvariant, PTL DEF Spec, BackoffGrows

-----------------------------------------------------------------------------
(***************************************************************************)
(* The receiver.                                                           *)
(***************************************************************************)

\* The part of the type invariant that the receiver depends on.
ReceiverTypeOK ==
  /\ phase \in [Event -> {"ready", "awaiting", "sleeping"} \union Outcome]
  /\ reply \in [Event -> Reply \union {None}]
  /\ \A q \in requests \union handling : q.event \in Event
  /\ ledger \subseteq Event
  /\ handled \in [Event -> Nat]
  /\ failures \in Nat /\ ledgerLosses \in Nat

(***************************************************************************)
(* An event whose side effect is still to run is in the ledger, by one     *)
(* request, and was handled only before the ledger was lost: this is what  *)
(* keeps a second request of it out while the first is at work.            *)
(***************************************************************************)
OneAtWork ==
  /\ \A e \in Event : handled[e] <= ledgerLosses + (IF e \in ledger THEN 1 ELSE 0)
  /\ \A q \in handling : q.event \in ledger /\ handled[q.event] <= ledgerLosses
  /\ \A q, r \in handling : q.event = r.event => q = r

(***************************************************************************)
(* While nothing failed, an event in the ledger is taken, and so is one    *)
(* whose sender was told so or believes it.                                *)
(***************************************************************************)
LedgerIsTrue ==
  failures = 0 => \A e \in Event :
    \/ Taken(e)
    \/ e \notin ledger /\ reply[e] # "success" /\ phase[e] # "delivered"

ReceiverInv == ReceiverTypeOK /\ OneAtWork /\ LedgerIsTrue

\* Steps of the sender and the transport that leave the receiver alone.
LEMMA ReceiverRests ==
  ASSUME ReceiverInv, UNCHANGED receiver,
         phase' \in [Event -> {"ready", "awaiting", "sleeping"} \union Outcome],
         reply' \in [Event -> Reply \union {None}],
         \A q \in requests' : q.event \in Event,
         \A e \in Event : /\ reply'[e] = "success" => reply[e] = "success"
                          /\ phase'[e] = "delivered" =>
                               phase[e] = "delivered" \/ reply[e] = "success"
  PROVE  ReceiverInv'
<1>1. ReceiverTypeOK'
  BY DEF ReceiverInv, ReceiverTypeOK, receiver
<1>2. OneAtWork'
  BY DEF ReceiverInv, OneAtWork, receiver
<1>3. LedgerIsTrue'
  BY DEF ReceiverInv, LedgerIsTrue, Taken, receiver
<1> QED
  BY <1>1, <1>2, <1>3 DEF ReceiverInv

\* An answer says success only of the event it answers.
LEMMA Answers ==
  ASSUME ReceiverTypeOK, NEW q \in requests \union handling, NEW code \in Reply
  PROVE  /\ Answer(q, code) \in [Event -> Reply \union {None}]
         /\ \A e \in Event : Answer(q, code)[e] = "success" =>
              reply[e] = "success" \/ (e = q.event /\ code = "success")
BY DEF ReceiverTypeOK, Answer

\* The sender's loop.
LEMMA DeliverKeepsInv ==
  ASSUME ReceiverInv, NEW e \in Event, Deliver(e)
  PROVE  ReceiverInv'
<1>0. ReceiverTypeOK
  BY DEF ReceiverInv
<1>1. CASE Send(e)
  <2>1. \A q \in requests' : q.event \in Event
    BY <1>0, <1>1 DEF Send, Sign, ReceiverTypeOK
  <2>2. /\ phase' \in [Event -> {"ready", "awaiting", "sleeping"} \union Outcome]
        /\ reply' \in [Event -> Reply \union {None}]
        /\ \A f \in Event : /\ reply'[f] = "success" => reply[f] = "success"
                            /\ phase'[f] = "delivered" => phase[f] = "delivered"
    BY <1>0, <1>1, WebhookAssumption DEF WebhookAssumption, Reply, Send, ReceiverTypeOK
  <2> QED
    BY <1>1, <2>1, <2>2, ReceiverRests DEF Send
<1>2. ASSUME RetryOrGiveUp(e) PROVE ReceiverInv'
  <2>1. /\ phase' \in [Event -> {"ready", "awaiting", "sleeping"} \union Outcome]
        /\ reply' = reply /\ requests' = requests /\ UNCHANGED receiver
        /\ \A f \in Event : phase'[f] = "delivered" => phase[f] = "delivered"
    BY <1>0, <1>2 DEF RetryOrGiveUp, Return, ReceiverTypeOK, Outcome
  <2> QED
    BY <1>0, <2>1, ReceiverRests DEF ReceiverTypeOK
<1>3. CASE Replied(e)
  <2>1. CASE reply[e] = "success" /\ Return(e, "delivered")
    <3>1. /\ phase' \in [Event -> {"ready", "awaiting", "sleeping"} \union Outcome]
          /\ reply' = reply /\ requests' = requests /\ UNCHANGED receiver
          /\ \A f \in Event : phase'[f] = "delivered" =>
               phase[f] = "delivered" \/ reply[f] = "success"
      BY <1>0, <2>1 DEF Return, ReceiverTypeOK, Outcome
    <3> QED
      BY <1>0, <3>1, ReceiverRests DEF ReceiverTypeOK
  <2>2. CASE Return(e, "permanent_failure")
    <3>1. /\ phase' \in [Event -> {"ready", "awaiting", "sleeping"} \union Outcome]
          /\ reply' = reply /\ requests' = requests /\ UNCHANGED receiver
          /\ \A f \in Event : phase'[f] = "delivered" => phase[f] = "delivered"
      BY <1>0, <2>2 DEF Return, ReceiverTypeOK, Outcome
    <3> QED
      BY <1>0, <3>1, ReceiverRests DEF ReceiverTypeOK
  <2> QED
    BY <1>2, <1>3, <2>1, <2>2 DEF Replied
<1>4. CASE TimesOut(e)
  BY <1>2, <1>4 DEF TimesOut
<1>5. CASE WakeUp(e)
  <2>1. /\ phase' \in [Event -> {"ready", "awaiting", "sleeping"} \union Outcome]
        /\ reply' = reply /\ requests' = requests /\ UNCHANGED receiver
        /\ \A f \in Event : phase'[f] = "delivered" => phase[f] = "delivered"
    BY <1>0, <1>5 DEF WakeUp, ReceiverTypeOK, Outcome
  <2> QED
    BY <1>0, <2>1, ReceiverRests DEF ReceiverTypeOK
<1> QED
  BY <1>1, <1>3, <1>4, <1>5 DEF Deliver

\* verify passes a request only if it adds its event to the ledger, and calls
\* one a duplicate only if the ledger holds it.
LEMMA ReceiveKeepsInv ==
  ASSUME ReceiverInv, NEW q \in requests, NEW keep \in BOOLEAN, Receive(q, keep)
  PROVE  ReceiverInv'
<1> DEFINE v == Verify(q)
<1>0. ReceiverTypeOK /\ q.event \in Event /\ requests' \subseteq requests
  BY DEF ReceiverInv, ReceiverTypeOK, Receive
<1>1. /\ v.result \in {"ok", "duplicate_event", "replay_window_exceeded"}
      /\ ledger' = v.ledger
      /\ v.result = "ok" => q.event \notin ledger /\ ledger' = ledger \union {q.event}
      /\ v.result = "duplicate_event" => q.event \in ledger /\ ledger' = ledger
      /\ v.result = "replay_window_exceeded" => ledger' = ledger
  BY DEF Receive, Verify, Fresh, Record
<1>2. /\ handling' = IF v.result = "ok" THEN handling \union {q} ELSE handling
      /\ reply' = CASE v.result = "ok" -> reply
                    [] v.result = "duplicate_event" -> Answer(q, "success")
                    [] OTHER -> Answer(q, "client_error")
      /\ phase' = phase /\ handled' = handled /\ failures' = failures
      /\ ledgerLosses' = ledgerLosses
  BY DEF Receive
<1> HIDE DEF v
<1>3. /\ reply' \in [Event -> Reply \union {None}]
      /\ \A e \in Event : reply'[e] = "success" =>
           \/ reply[e] = "success"
           \/ e = q.event /\ v.result = "duplicate_event"
  <2>1. CASE v.result = "ok"
    BY <1>0, <1>2, <2>1 DEF ReceiverTypeOK
  <2>2. CASE v.result = "duplicate_event"
    <3>1. reply' = Answer(q, "success") /\ "success" \in Reply
      BY <1>2, <2>2 DEF Reply
    <3> QED
      BY <1>0, <2>2, <3>1, Answers
  <2>3. CASE v.result = "replay_window_exceeded"
    <3>1. reply' = Answer(q, "client_error") /\ "client_error" \in Reply
      BY <1>2, <2>3 DEF Reply
    <3> QED
      BY <1>0, <3>1, Answers
  <2> QED
    BY <1>1, <2>1, <2>2, <2>3
<1>4. ReceiverTypeOK'
  BY <1>0, <1>1, <1>2, <1>3 DEF ReceiverTypeOK
<1>5. OneAtWork'
  <2>1. CASE v.result = "ok"
    <3>1. /\ ledger' = ledger \union {q.event} /\ q.event \notin ledger
          /\ handling' = handling \union {q} /\ handled[q.event] <= ledgerLosses
      BY <1>0, <1>1, <1>2, <2>1 DEF ReceiverInv, ReceiverTypeOK, OneAtWork
    <3> QED
      BY <1>0, <1>2, <3>1 DEF ReceiverInv, ReceiverTypeOK, OneAtWork
  <2>2. CASE v.result # "ok"
    BY <1>1, <1>2, <2>2 DEF ReceiverInv, OneAtWork
  <2> QED
    BY <2>1, <2>2
<1>6. LedgerIsTrue'
  <2> SUFFICES ASSUME failures = 0, NEW e \in Event
               PROVE  \/ Taken(e)'
                      \/ e \notin ledger' /\ reply'[e] # "success" /\ phase[e] # "delivered"
    BY <1>2 DEF LedgerIsTrue
  <2>1. Taken(e) => Taken(e)'
    BY <1>2 DEF Taken
  <2>2. v.result = "ok" => Taken(q.event)'
    BY <1>2 DEF Taken
  <2>3. \/ Taken(e)
        \/ e \notin ledger /\ reply[e] # "success" /\ phase[e] # "delivered"
    BY DEF ReceiverInv, LedgerIsTrue
  <2> QED
    BY <1>1, <1>3, <2>1, <2>2, <2>3
<1> QED
  BY <1>4, <1>5, <1>6 DEF ReceiverInv

\* The side effect of a request runs, or fails.
LEMMA SideEffectKeepsInv ==
  ASSUME ReceiverInv, NEW q \in handling, Handle(q) \/ HandlerFails(q)
  PROVE  ReceiverInv'
<1>0. /\ ReceiverTypeOK /\ q.event \in Event /\ phase' = phase /\ requests' = requests
      /\ ledger' = ledger /\ ledgerLosses' = ledgerLosses /\ handling' = handling \ {q}
  BY DEF ReceiverInv, ReceiverTypeOK, Handle, HandlerFails
<1>1. CASE Handle(q)
  <2>1. /\ handled' = [handled EXCEPT ![q.event] = @ + 1] /\ failures' = failures
        /\ reply' = Answer(q, "success") /\ "success" \in Reply
    BY <1>1 DEF Handle, Reply
  <2>2. /\ reply' \in [Event -> Reply \union {None}]
        /\ \A e \in Event : reply'[e] = "success" => reply[e] = "success" \/ e = q.event
    BY <1>0, <2>1, Answers
  <2>3. ReceiverTypeOK'
    BY <1>0, <2>1, <2>2 DEF ReceiverTypeOK
  <2>4. OneAtWork'
    <3>1. /\ handled[q.event] <= ledgerLosses /\ q.event \in ledger
          /\ \A r \in handling' : r.event # q.event
      BY <1>0 DEF ReceiverInv, OneAtWork
    <3> QED
      BY <1>0, <2>1, <3>1 DEF ReceiverInv, ReceiverTypeOK, OneAtWork
  <2>5. LedgerIsTrue'
    <3>1. Taken(q.event)' /\ \A e \in Event : Taken(e) => Taken(e)'
      <4>1. /\ handled'[q.event] > 0
            /\ \A e \in Event : handled[e] > 0 => handled'[e] > 0
        BY <1>0, <2>1 DEF ReceiverTypeOK
      <4>2. \A r \in handling : r = q \/ r \in handling'
        BY <1>0
      <4> QED
        BY <4>1, <4>2 DEF Taken
    <3> QED
      BY <1>0, <2>1, <2>2, <3>1 DEF ReceiverInv, LedgerIsTrue
  <2> QED
    BY <2>3, <2>4, <2>5 DEF ReceiverInv
<1>2. CASE HandlerFails(q)
  <2>1. /\ handled' = handled /\ failures' = failures + 1
        /\ reply' = Answer(q, "server_error") /\ "server_error" \in Reply
    BY <1>2 DEF HandlerFails, Reply
  <2>2. reply' \in [Event -> Reply \union {None}]
    BY <1>0, <2>1, Answers
  <2>3. ReceiverTypeOK' /\ failures' # 0
    BY <1>0, <2>1, <2>2 DEF ReceiverTypeOK
  <2>4. OneAtWork'
    BY <1>0, <2>1 DEF ReceiverInv, OneAtWork
  <2> QED
    BY <2>3, <2>4 DEF ReceiverInv, LedgerIsTrue
<1> QED
  BY <1>1, <1>2

\* Every reachable state of the receiver satisfies its invariant.
LEMMA ReceiverInvariant == Spec => []ReceiverInv
<1>1. Init => ReceiverInv
  <2> SUFFICES ASSUME Init PROVE ReceiverInv
    OBVIOUS
  <2>1. ReceiverTypeOK
    BY DEF Init, ReceiverTypeOK
  <2>2. OneAtWork /\ LedgerIsTrue
    BY WebhookAssumption DEF WebhookAssumption, Reply, Init, OneAtWork, LedgerIsTrue
  <2> QED
    BY <2>1, <2>2 DEF ReceiverInv
<1>2. ReceiverInv /\ [Next]_vars => ReceiverInv'
  <2> SUFFICES ASSUME ReceiverInv, [Next]_vars PROVE ReceiverInv'
    OBVIOUS
  <2>0. ReceiverTypeOK
    BY DEF ReceiverInv
  <2>1. ASSUME NEW e \in Event, Deliver(e) PROVE ReceiverInv'
    BY <2>1, DeliverKeepsInv
  <2>2. ASSUME NEW q \in requests, Lose(q) PROVE ReceiverInv'
    <3>1. /\ UNCHANGED receiver /\ phase' = phase /\ reply' = reply
          /\ requests' \subseteq requests
      BY <2>2 DEF Lose, sender
    <3> QED
      BY <2>0, <3>1, ReceiverRests DEF ReceiverTypeOK
  <2>3. ASSUME NEW q \in requests, NEW keep \in BOOLEAN, Receive(q, keep)
        PROVE  ReceiverInv'
    BY <2>3, ReceiveKeepsInv
  <2>4. ASSUME NEW q \in handling, Handle(q) \/ HandlerFails(q) PROVE ReceiverInv'
    BY <2>4, SideEffectKeepsInv
  <2>5. CASE Restart
    <3>1. ReceiverTypeOK' /\ failures' # 0
      BY <2>0, <2>5 DEF Restart, ReceiverTypeOK, sender
    <3>2. OneAtWork'
      <4>1. handling' = {} /\ handled' = handled
        BY <2>5 DEF Restart
      <4>2. CASE UNCHANGED <<ledger, ledgerLosses>>
        BY <4>1, <4>2 DEF ReceiverInv, OneAtWork
      <4>3. CASE ledger' = {} /\ ledgerLosses' = ledgerLosses + 1
        BY <2>0, <4>1, <4>3 DEF ReceiverInv, ReceiverTypeOK, OneAtWork
      <4> QED
        BY <2>5, <4>2, <4>3 DEF Restart
    <3> QED
      BY <3>1, <3>2 DEF ReceiverInv, LedgerIsTrue
  <2>6. CASE Tick
    <3>1. /\ UNCHANGED receiver /\ phase' = phase /\ reply' = reply /\ requests' = requests
      BY <2>6 DEF Tick, sender
    <3> QED
      BY <2>0, <3>1, ReceiverRests DEF ReceiverTypeOK
  <2>7. CASE UNCHANGED vars
    <3>1. /\ UNCHANGED receiver /\ phase' = phase /\ reply' = reply /\ requests' = requests
      BY <2>7 DEF vars, sender
    <3> QED
      BY <2>0, <3>1, ReceiverRests DEF ReceiverTypeOK
  <2> QED
    BY <2>1, <2>2, <2>3, <2>4, <2>5, <2>6, <2>7 DEF Next
<1> QED
  BY <1>1, <1>2, PTL DEF Spec

(***************************************************************************)
(* The side effect of an event runs once, and once more for every loss of  *)
(* the ledger at most.                                                     *)
(***************************************************************************)
THEOREM SideEffectsRunOnce == Spec => []HandledOnce
<1>1. ReceiverInv => HandledOnce
  BY DEF ReceiverInv, ReceiverTypeOK, OneAtWork, HandledOnce
<1> QED
  BY <1>1, ReceiverInvariant, PTL

(***************************************************************************)
(* While the receiver neither fails nor restarts, a delivered event is     *)
(* taken, whatever the transport loses, delays and duplicates.             *)
(***************************************************************************)
THEOREM DeliveredMeansTaken == Spec => []DeliveredIsTaken
<1>1. ReceiverInv => DeliveredIsTaken
  BY DEF ReceiverInv, LedgerIsTrue, DeliveredIsTaken
<1> QED
  BY <1>1, ReceiverInvariant, PTL
=============================================================================
