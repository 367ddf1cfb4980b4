----------------------- MODULE TransmissionWorkerProofs -----------------------
(***************************************************************************)
(* Theorems of the transmission worker, for every set of rows, policy,     *)
(* breaker, spacing, batch size and set of gateway answers.                *)
(***************************************************************************)
EXTENDS TransmissionWorker, RetryPolicyProofs

USE DEF ValidConfig

\* take(max_batch_size) of an offer is a sequence of jobs.
LEMMA SelectedIsSeq ==
  ASSUME NEW s \in Offers
  PROVE  Selected(s) \in Seq(Job)
<1>1. s \in Seq(Job)
  BY DEF Offers
<1>2. SmallerOf(Len(s), MaxBatchSize) \in 0 .. Len(s)
  BY <1>1, WorkerAssumption DEF SmallerOf
<1> QED
  BY <1>1, <1>2 DEF Selected

\* The delay of a retry is a number of seconds, no less than the base delay
\* nor than what the gateway asks for.
LEMMA RetryAfterBounds ==
  ASSUME calling \in Job, NEW n \in 1 .. Policy.maxAttempts - 1, NEW hint \in Nat
  PROVE  /\ RetryAfter(n, hint) \in Nat
         /\ RetryAfter(n, hint) >= Policy.baseDelay
         /\ RetryAfter(n, hint) >= hint
<1> DEFINE d == DelayForAttempt(Policy, n, JitterHash[calling][n])
<1>1. ValidPolicy(Policy) /\ RetryExists(Policy, n)
  BY WorkerAssumption DEF RetryExists
<1>2. JitterHash[calling][n] \in Nat
  <2>1. Policy.maxAttempts \in Nat
    BY <1>1 DEF ValidPolicy
  <2> QED
    BY <2>1, WorkerAssumption
<1>3. d \in Policy.baseDelay .. Policy.maxDelay
  BY <1>1, <1>2, DelayBounds
<1>4. Policy.baseDelay \in Nat /\ Policy.maxDelay \in Nat
  BY <1>1, UMaxIsPositive DEF ValidPolicy, Word
<1>5. d \in Nat /\ d >= Policy.baseDelay
  BY <1>3, <1>4
<1> HIDE DEF d
<1>6. RetryAfter(n, hint) = LargerOf(d, hint)
  BY DEF RetryAfter, d
<1> QED
  BY <1>4, <1>5, <1>6 DEF LargerOf

-----------------------------------------------------------------------------
\* The answers of the gateway have the shape of receipts or of failures.
LEMMA ReplyShape ==
  ASSUME NEW r \in Replies
  PROVE  \/ r.ok /\ r.status \in GatewayStatus
         \/ ~r.ok /\ r.kind \in GatewayErrorKind /\ r.hint \in Nat
BY WorkerAssumption DEF Receipt, Failure

\* TypeOK is inductive as it stands.
LEMMA TypeInit == Init => TypeOK
<1> SUFFICES ASSUME Init PROVE TypeOK
  OBVIOUS
<1>1. CounterMax \in Nat
  BY WorkerAssumption
<1>2. row \in [Job -> Row]
  BY DEF Init, NewEnvelope, Row, OutboxState
<1>3. calls \in [Job -> Nat] /\ lost \in [Job -> Nat] /\ holdUntil \in [Job -> Nat]
  BY DEF Init
<1>4. queue \in Seq(Job) /\ results \in Seq(Result)
  BY DEF Init
<1> QED
  BY <1>1, <1>2, <1>3, <1>4 DEF Init, TypeOK

\* Every outcome appended to a batch is a well-formed result.
LEMMA RefuseType ==
  ASSUME TypeOK, Ready \/ RefuseNotReady,
         NEW outcome \in Outcome, NEW after \in Nat, Refuse(outcome, after)
  PROVE  results' \in Seq(Result) /\ queue' \in Seq(Job)
<1>1. Current \in Job /\ Tail(queue) \in Seq(Job)
  BY DEF TypeOK, Ready, Processing, RefuseNotReady, Current
<1>2. row[Current].state \in OutboxState /\ row[Current].attempts \in Nat
  BY <1>1 DEF TypeOK, Row
<1> QED
  BY <1>1, <1>2 DEF Refuse, Result, TypeOK

LEMMA ConcludeType ==
  ASSUME TypeOK, calling \in Job,
         NEW outcome \in Outcome, NEW state \in OutboxState,
         NEW attempts \in Nat, NEW after \in Nat,
         Conclude(outcome, state, attempts, after)
  PROVE  results' \in Seq(Result)
BY DEF Conclude, Result, TypeOK

\* The attempt_count of a failed call is a number, and within the budget of
\* retries when it leaves one.
LEMMA RecordedAttempts ==
  ASSUME TypeOK, calling \in Job
  PROVE  LET n == RecordFailedAttempt(row[calling].attempts)
         IN /\ n \in Nat
            /\ ~Exhausted(n) => n \in 1 .. Policy.maxAttempts - 1
<1>1. row[calling].attempts \in Nat
  BY DEF TypeOK, Row
<1>2. Policy.maxAttempts \in Nat
  BY WorkerAssumption DEF ValidPolicy
<1> QED
  BY <1>1, <1>2 DEF RecordFailedAttempt, Exhausted

\* The breaker's bookkeeping keeps its types.
LEMMA CircuitType ==
  ASSUME TypeOK, NEW kind, RecordCircuitFailure(kind), CountFailure(kind)
  PROVE  /\ failures' \in 0 .. CounterMax
         /\ openUntil' \in Nat \union {None}
         /\ lastAttempt' = lastAttempt
         /\ streak' \in 0 .. CounterMax
         /\ failedCallAt' \in Nat
<1>1. CounterMax \in Nat /\ OpenSeconds \in Nat
  BY WorkerAssumption
<1>2. failures' \in 0 .. CounterMax
  BY <1>1 DEF TypeOK, RecordCircuitFailure, CircuitFailures, SmallerOf
<1>3. openUntil' \in Nat \union {None}
  BY <1>1 DEF TypeOK, RecordCircuitFailure
<1>4. streak' \in 0 .. CounterMax /\ failedCallAt' \in Nat
  BY <1>1 DEF TypeOK, CountFailure, SmallerOf
<1> QED
  BY <1>2, <1>3, <1>4 DEF RecordCircuitFailure

LEMMA TypeStep == TypeOK /\ [Next]_vars => TypeOK'
<1> SUFFICES ASSUME TypeOK, [Next]_vars PROVE TypeOK'
  OBVIOUS
<1>a. calling # None => calling \in Job
  BY DEF TypeOK
<1>1. ASSUME NEW s \in Offers, StartBatch(s) PROVE TypeOK'
  BY <1>1, SelectedIsSeq DEF TypeOK, StartBatch, worker, gateway, budget, history
<1>2. CASE RefuseNotReady
  <2>1. results' \in Seq(Result) /\ queue' \in Seq(Job)
    BY <1>2, RefuseType DEF RefuseNotReady, Outcome
  <2> QED
    BY <1>2, <2>1 DEF TypeOK, RefuseNotReady, Refuse, worker, gateway, budget, history
<1>3. CASE RefuseCircuitOpen
  <2>1. openUntil - batchNow \in Nat
    BY <1>3 DEF TypeOK, RefuseCircuitOpen, CircuitOpen
  <2>2. results' \in Seq(Result) /\ queue' \in Seq(Job)
    BY <1>3, <2>1, RefuseType DEF RefuseCircuitOpen, Outcome
  <2> QED
    BY <1>3, <2>2 DEF TypeOK, RefuseCircuitOpen, Refuse, worker, gateway, budget, history
<1>4. CASE RefuseRateLimited
  <2>1. lastAttempt + MinInterval - batchNow \in Nat
    <3>1. MinInterval \in Nat /\ batchNow \in Nat
      BY WorkerAssumption DEF TypeOK
    <3>2. lastAttempt \in Nat /\ batchNow < lastAttempt + MinInterval
      BY <1>4 DEF TypeOK, RefuseRateLimited, Limited
    <3> QED
      BY <3>1, <3>2
  <2>2. results' \in Seq(Result) /\ queue' \in Seq(Job)
    BY <1>4, <2>1, RefuseType DEF RefuseRateLimited, Outcome
  <2> QED
    BY <1>4, <2>2 DEF TypeOK, RefuseRateLimited, Refuse, gateway, budget, history
<1>5. CASE RefuseInvalidRequest
  <2>1. results' \in Seq(Result) /\ queue' \in Seq(Job)
    BY <1>5, RefuseType DEF RefuseInvalidRequest, Outcome
  <2> QED
    BY <1>5, <2>1 DEF TypeOK, RefuseInvalidRequest, Refuse, gateway, budget, history
<1>6. CASE BeginSubmit
  <2>1. Current \in Job /\ Tail(queue) \in Seq(Job)
    BY <1>6 DEF TypeOK, BeginSubmit, Ready, Processing, Current
  <2>2. calls' \in [Job -> Nat]
    <3>1. calls \in [Job -> Nat]
      BY DEF TypeOK
    <3>a. calls[Current] \in Nat
      BY <2>1, <3>1
    <3>b. calls[Current] + 1 \in Nat
      BY <3>a
    <3>2. calls' = [calls EXCEPT ![Current] = calls[Current] + 1]
      BY <1>6 DEF BeginSubmit
    <3> QED
      BY <3>1, <3>2, <3>b
  <2> QED
    BY <1>6, <2>1, <2>2 DEF TypeOK, BeginSubmit, budget
<1>7. CASE GatewayTakes
  BY <1>7, <1>a DEF TypeOK, GatewayTakes, worker, batch, budget, history
<1>8. ASSUME NEW r \in Replies, ReceiveReceipt(r) PROVE TypeOK'
  <2>1. OutboxStateForReceipt(r.status) \in OutboxState
    BY DEF OutboxStateForReceipt, OutboxState
  <2>2. row[calling].attempts \in Nat /\ calling \in Job
    BY <1>8, <1>a DEF TypeOK, Row, ReceiveReceipt
  <2>3. results' \in Seq(Result)
    BY <1>8, <2>1, <2>2, ConcludeType DEF ReceiveReceipt, Outcome
  <2>4. CounterMax \in Nat
    BY WorkerAssumption
  <2> QED
    BY <1>8, <2>2, <2>3, <2>4 DEF TypeOK, ReceiveReceipt, Conclude
<1>9. ASSUME NEW r \in Replies, ScheduleRetry(r) PROVE TypeOK'
  <2> DEFINE n == RecordFailedAttempt(row[calling].attempts)
  <2>1. calling \in Job /\ r.hint \in Nat
    BY <1>9, <1>a, ReplyShape DEF ScheduleRetry
  <2>2. n \in Nat /\ n \in 1 .. Policy.maxAttempts - 1
    BY <1>9, <2>1, RecordedAttempts DEF ScheduleRetry
  <2>3. RetryAfter(n, r.hint) \in Nat
    BY <2>1, <2>2, RetryAfterBounds
  <2>4. results' \in Seq(Result)
    BY <1>9, <2>1, <2>2, <2>3, ConcludeType DEF ScheduleRetry, Outcome, OutboxState
  <2>5. LargerOf(r.hint, Policy.baseDelay) \in Nat
    BY <2>1, WorkerAssumption, UMaxIsPositive DEF LargerOf, ValidPolicy, Word
  <2>6. holdUntil' \in [Job -> Nat]
    BY <1>9, <2>5 DEF ScheduleRetry, TypeOK
  <2> QED
    BY <1>9, <2>4, <2>6, CircuitType DEF TypeOK, ScheduleRetry, Conclude
<1>10. ASSUME NEW r \in Replies, DeadLetter(r) PROVE TypeOK'
  <2>1. calling \in Job
    BY <1>10, <1>a DEF DeadLetter
  <2>2. RecordFailedAttempt(row[calling].attempts) \in Nat
    BY <2>1, RecordedAttempts
  <2>3. results' \in Seq(Result)
    BY <1>10, <2>1, <2>2, ConcludeType DEF DeadLetter, Outcome, OutboxState
  <2> QED
    BY <1>10, <2>1, <2>3, CircuitType DEF TypeOK, DeadLetter, Conclude, NoteRefusal
<1>11. ASSUME NEW r \in Replies, FailToDeadLetter(r) PROVE TypeOK'
  <2>1. calling \in Job
    BY <1>11, <1>a DEF FailToDeadLetter
  <2>2. row[calling].attempts \in Nat /\ row[calling].state \in OutboxState
    BY <2>1 DEF TypeOK, Row
  <2>3. results' \in Seq(Result)
    BY <1>11, <2>1, <2>2, ConcludeType DEF FailToDeadLetter, Outcome
  <2>4. lost' \in [Job -> Nat]
    BY <1>11, <2>1 DEF TypeOK, FailToDeadLetter
  <2>5. /\ failures' \in 0 .. CounterMax /\ streak' \in 0 .. CounterMax
        /\ openUntil' \in Nat \union {None} /\ lastAttempt' = lastAttempt
        /\ failedCallAt' \in Nat
    BY <1>11, CircuitType DEF FailToDeadLetter
  <2>6. refused' \subseteq Job
    BY <1>11, <2>1 DEF TypeOK, FailToDeadLetter, NoteRefusal
  <2>7. unrecorded' \in Nat
    BY <1>11 DEF TypeOK, FailToDeadLetter
  <2> QED
    BY <1>11, <2>3, <2>4, <2>5, <2>6, <2>7 DEF TypeOK, FailToDeadLetter, Conclude
<1>12. CASE Persist
  <2>1. Head(results) \in Result /\ Tail(results) \in Seq(Result)
    BY <1>12 DEF TypeOK, Persist
  <2>2. row' \in [Job -> Row]
    <3> DEFINE r == Head(results)
               written == [state |-> r.state, attempts |-> r.attempts,
                           due |-> now + r.after]
    <3>1. written \in Row
      <4>1. r.state \in OutboxState /\ r.attempts \in Nat /\ r.after \in Nat
        BY <2>1 DEF Result
      <4>2. now + r.after \in Nat
        BY <4>1 DEF TypeOK
      <4> QED
        BY <4>1, <4>2 DEF Row
    <3>2. row' = row \/ row' = [row EXCEPT ![r.job] = written]
      BY <1>12 DEF Persist
    <3> HIDE DEF written
    <3> QED
      BY <3>1, <3>2 DEF TypeOK
  <2> QED
    BY <1>12, <2>1, <2>2 DEF TypeOK, Persist, worker, gateway, budget, history
<1>13. ASSUME DropBatch
       PROVE  /\ queue' \in Seq(Job) /\ results' \in Seq(Result)
              /\ calling' \in Job \union {None} /\ arrived' \in Job \union {None}
              /\ crashes' \in Nat /\ unrecorded' \in Nat
              /\ now' \in Nat /\ batchNow' \in Nat
              /\ row' \in [Job -> Row] /\ taken' \subseteq Job
              /\ calls' \in [Job -> Nat] /\ lost' \in [Job -> Nat]
              /\ receipted' \subseteq Job /\ refused' \subseteq Job
              /\ holdUntil' \in [Job -> Nat]
  <2>1. queue' \in Seq(Job) /\ results' \in Seq(Result)
    BY <1>13 DEF DropBatch
  <2>2. lost' \in [Job -> Nat]
    BY <1>13 DEF DropBatch, TypeOK
  <2>3. holdUntil' \in [Job -> Nat]
    BY <1>13 DEF DropBatch, TypeOK
  <2> QED
    BY <1>13, <2>1, <2>2, <2>3 DEF DropBatch, TypeOK
<1>14. CASE Crash
  <2>1. CounterMax \in Nat
    BY WorkerAssumption
  <2>2. /\ lastAttempt' \in Nat \union {None} /\ openUntil' \in Nat \union {None}
        /\ failures' \in 0 .. CounterMax /\ streak' \in 0 .. CounterMax
        /\ failedCallAt' \in Nat /\ lastCallAt' \in Nat \union {None}
    BY <1>14, <2>1 DEF Crash
  <2>3. DropBatch
    BY <1>14 DEF Crash
  <2> QED
    BY <1>13, <2>2, <2>3 DEF TypeOK
<1>15. CASE Cancel
  BY <1>15, <1>13 DEF TypeOK, Cancel, worker
<1>16. CASE Tick
  BY <1>16 DEF TypeOK, Tick, worker, batch, gateway, budget, history
<1>17. CASE UNCHANGED vars
  BY <1>17 DEF TypeOK, vars, worker, batch, gateway, budget, history
<1> QED
  BY <1>1, <1>2, <1>3, <1>4, <1>5, <1>6, <1>7, <1>8, <1>9, <1>10, <1>11, <1>12,
     <1>14, <1>15, <1>16, <1>17 DEF Next, ProcessOnce, SubmitReturns

\* Every reachable state is well typed.
THEOREM TypeCorrect == Spec => []TypeOK
  BY TypeInit, TypeStep, PTL DEF Spec
-----------------------------------------------------------------------------
(***************************************************************************)
(* The circuit breaker.                                                    *)
(***************************************************************************)
LEMMA BreakerInit == Init => BreakerInv
BY WorkerAssumption DEF Init, BreakerInv

\* A failed call keeps the breaker's invariant.
LEMMA BreakerFailure ==
  ASSUME TypeOK, BreakerInv, NEW kind, RecordCircuitFailure(kind),
         CountFailure(kind), now' = now, batchNow' = batchNow
  PROVE  BreakerInv'
<1> USE WorkerAssumption
<1>1. CASE kind \notin CircuitKinds
  BY <1>1 DEF TypeOK, BreakerInv, RecordCircuitFailure, CircuitFailures, CountFailure
<1>2. CASE kind \in CircuitKinds
  <2>1. failures' = SmallerOf(failures + 1, CounterMax) /\ streak' = failures'
    BY <1>2 DEF BreakerInv, RecordCircuitFailure, CircuitFailures, CountFailure
  <2>2. failedCallAt' = batchNow /\ batchNow \in Nat /\ batchNow <= now
    BY <1>2 DEF TypeOK, BreakerInv, CountFailure
  <2>3. streak' >= FailureThreshold => openUntil' = failedCallAt' + OpenSeconds
    BY <1>2, <2>1, <2>2 DEF RecordCircuitFailure
  <2>4. failedCallAt' <= batchNow' /\ batchNow' <= now'
    BY <2>2 DEF TypeOK
  <2> QED
    BY <2>1, <2>3, <2>4 DEF BreakerInv
<1> QED
  BY <1>1, <1>2

LEMMA BreakerStep == TypeOK /\ BreakerInv /\ [Next]_vars => BreakerInv'
<1> SUFFICES ASSUME TypeOK, BreakerInv, [Next]_vars PROVE BreakerInv'
  OBVIOUS
<1> USE WorkerAssumption
<1>1. ASSUME NEW s \in Offers, StartBatch(s) PROVE BreakerInv'
  <2>1. /\ UNCHANGED <<now, failures, openUntil, streak, failedCallAt>>
        /\ batchNow' = now
    BY <1>1 DEF StartBatch, worker, history
  <2>2. failedCallAt <= now /\ batchNow <= now
    BY DEF TypeOK, BreakerInv
  <2>3. batchNow >= failedCallAt + OpenSeconds => now >= failedCallAt + OpenSeconds
    BY <2>2 DEF TypeOK
  <2> QED
    BY <2>1, <2>2, <2>3 DEF TypeOK, BreakerInv
<1>2. CASE RefuseNotReady \/ RefuseCircuitOpen
  BY <1>2 DEF BreakerInv, RefuseNotReady, RefuseCircuitOpen, Refuse, worker, history
\* A passed gate clears a deadline only when the batch began past it.
<1>3. ASSUME ~CircuitOpen, openUntil' = None, failures' = failures,
             UNCHANGED <<now, batchNow, streak, failedCallAt>>
      PROVE  BreakerInv'
  BY <1>3 DEF TypeOK, BreakerInv, CircuitOpen
<1>4. CASE RefuseRateLimited \/ RefuseInvalidRequest
  BY <1>3, <1>4 DEF RefuseRateLimited, RefuseInvalidRequest, Refuse, history
<1>5. CASE BeginSubmit
  BY <1>3, <1>5 DEF BeginSubmit
<1>6. CASE GatewayTakes
  BY <1>6 DEF BreakerInv, GatewayTakes, worker, batch, history
<1>7. ASSUME NEW r \in Replies, ReceiveReceipt(r) PROVE BreakerInv'
  BY <1>7 DEF TypeOK, BreakerInv, ReceiveReceipt, Conclude
<1>8. ASSUME NEW r \in Replies,
             ScheduleRetry(r) \/ DeadLetter(r) \/ FailToDeadLetter(r)
      PROVE  BreakerInv'
  <2>1. RecordCircuitFailure(r.kind) /\ CountFailure(r.kind)
    BY <1>8 DEF ScheduleRetry, DeadLetter, FailToDeadLetter
  <2>2. now' = now /\ batchNow' = batchNow
    BY <1>8 DEF ScheduleRetry, DeadLetter, FailToDeadLetter, Conclude
  <2> QED
    BY <2>1, <2>2, BreakerFailure
<1>9. CASE Persist
  BY <1>9 DEF BreakerInv, Persist, worker, history
<1>10. CASE Crash
  BY <1>10 DEF TypeOK, BreakerInv, Crash, DropBatch
<1>11. CASE Cancel
  BY <1>11 DEF BreakerInv, Cancel, DropBatch, worker
<1>12. CASE Tick
  BY <1>12 DEF TypeOK, BreakerInv, Tick, worker, batch, history
<1>13. CASE UNCHANGED vars
  BY <1>13 DEF BreakerInv, vars, worker, batch, history
<1> QED
  BY <1>1, <1>2, <1>4, <1>5, <1>6, <1>7, <1>8, <1>9, <1>10, <1>11, <1>12, <1>13
  DEF Next, ProcessOnce, SubmitReturns

\* Only BeginSubmit begins a call.
LEMMA OnlyBeginSubmitCalls ==
  ASSUME TypeOK, [Next]_vars, BeginsCall
  PROVE  BeginSubmit
<1>1. ASSUME NEW s \in Offers, StartBatch(s) PROVE FALSE
  BY <1>1 DEF StartBatch, BeginsCall
<1>2. CASE RefuseNotReady \/ RefuseCircuitOpen \/ RefuseRateLimited \/ RefuseInvalidRequest
  BY <1>2 DEF RefuseNotReady, RefuseCircuitOpen, RefuseRateLimited,
     RefuseInvalidRequest, Refuse, BeginsCall
<1>3. CASE GatewayTakes
  BY <1>3 DEF GatewayTakes, batch, BeginsCall
<1>4. ASSUME NEW r \in Replies,
             \/ ReceiveReceipt(r) \/ ScheduleRetry(r)
             \/ DeadLetter(r) \/ FailToDeadLetter(r)
      PROVE  FALSE
  BY <1>4 DEF ReceiveReceipt, ScheduleRetry, DeadLetter, FailToDeadLetter, BeginsCall
<1>5. CASE Persist
  BY <1>5 DEF Persist, BeginsCall
<1>6. CASE Crash \/ Cancel
  BY <1>6 DEF Crash, Cancel, DropBatch, BeginsCall
<1>7. CASE Tick
  BY <1>7 DEF Tick, batch, BeginsCall
<1>8. CASE UNCHANGED vars
  BY <1>8 DEF vars, batch, BeginsCall
<1> QED
  BY <1>1, <1>2, <1>3, <1>4, <1>5, <1>6, <1>7, <1>8 DEF Next, ProcessOnce, SubmitReturns

\* Every call respects the open window of the last counted failure.
THEOREM BreakerCorrect == Spec => BreakerHolds
<1>1. ASSUME TypeOK, BreakerInv, [Next]_vars, BeginsCall,
             streak >= FailureThreshold
      PROVE  batchNow >= failedCallAt + OpenSeconds
  <2>1. BeginSubmit
    BY <1>1, OnlyBeginSubmitCalls
  <2>2. ~CircuitOpen
    BY <2>1 DEF BeginSubmit
  <2> QED
    BY <1>1, <2>2, WorkerAssumption DEF TypeOK, BreakerInv, CircuitOpen
<1>2. TypeOK /\ BreakerInv /\ [Next]_vars
        => [BeginsCall /\ streak >= FailureThreshold
              => batchNow >= failedCallAt + OpenSeconds]_vars
  BY <1>1
<1> QED
  BY <1>2, BreakerInit, BreakerStep, TypeCorrect, PTL DEF Spec, BreakerHolds

-----------------------------------------------------------------------------
(***************************************************************************)
(* Spacing.                                                                *)
(***************************************************************************)
LEMMA SpacingInit == Init => SpacingInv
BY DEF Init, SpacingInv

LEMMA SpacingStep ==
  TypeOK /\ BreakerInv /\ SpacingInv /\ [Next]_vars => SpacingInv'
<1> SUFFICES ASSUME TypeOK, BreakerInv, SpacingInv, [Next]_vars
             PROVE  SpacingInv'
  OBVIOUS
<1> USE WorkerAssumption
<1>1. ASSUME NEW s \in Offers, StartBatch(s) PROVE SpacingInv'
  BY <1>1 DEF TypeOK, BreakerInv, SpacingInv, StartBatch, Idle, worker, history
<1>2. ASSUME Processing, queue' = Tail(queue),
             UNCHANGED <<now, batchNow, calling, lastAttempt, lastCallAt>>
      PROVE  SpacingInv'
  BY <1>2 DEF SpacingInv, Processing
<1>3. CASE \/ RefuseNotReady \/ RefuseCircuitOpen
           \/ RefuseRateLimited \/ RefuseInvalidRequest
  BY <1>2, <1>3 DEF RefuseNotReady, RefuseCircuitOpen, RefuseRateLimited,
     RefuseInvalidRequest, Refuse, Ready, worker, history
<1>4. CASE BeginSubmit
  <2>1. queue # <<>> /\ ~Limited
    BY <1>4 DEF BeginSubmit, Ready, Processing
  <2>2. MinInterval # 0 => lastAttempt # batchNow
    <3>1. MinInterval \in Nat /\ None \notin Nat /\ batchNow \in Nat
      BY WorkerAssumption DEF TypeOK
    <3> QED
      BY <2>1, <3>1 DEF Limited
  <2>3. MinInterval # 0 => now = batchNow
    BY <2>1, <2>2 DEF SpacingInv
  <2> QED
    BY <1>4, <2>3 DEF TypeOK, SpacingInv, BeginSubmit
<1>5. CASE GatewayTakes
  BY <1>5 DEF SpacingInv, GatewayTakes, worker, batch, history
<1>6. ASSUME NEW r \in Replies,
             \/ ReceiveReceipt(r) \/ ScheduleRetry(r)
             \/ DeadLetter(r) \/ FailToDeadLetter(r)
      PROVE  SpacingInv'
  <2>1. UNCHANGED <<now, batchNow, queue, lastAttempt, lastCallAt>> /\ calling' = None
    BY <1>6 DEF ReceiveReceipt, ScheduleRetry, DeadLetter, FailToDeadLetter,
       Conclude, RecordCircuitFailure
  <2> QED
    BY <2>1 DEF SpacingInv
<1>7. CASE Persist
  BY <1>7 DEF SpacingInv, Persist, worker, history
<1>8. CASE Crash
  BY <1>8 DEF SpacingInv, Crash, DropBatch
<1>9. CASE Cancel
  BY <1>9 DEF SpacingInv, Cancel, DropBatch, worker
<1>10. CASE Tick
  <2>1. calling # None \/ queue = <<>>
    BY <1>10 DEF Tick, Idle
  <2>2. /\ UNCHANGED <<batchNow, queue, calling, lastAttempt, lastCallAt>>
        /\ now' = now + 1
    BY <1>10 DEF Tick, worker, batch, history
  <2>3. lastCallAt # None => lastCallAt <= now'
    BY <2>2 DEF TypeOK, SpacingInv
  <2> QED
    BY <2>1, <2>2, <2>3 DEF SpacingInv
<1>11. CASE UNCHANGED vars
  BY <1>11 DEF SpacingInv, vars, worker, batch, history
<1> QED
  BY <1>1, <1>3, <1>4, <1>5, <1>6, <1>7, <1>8, <1>9, <1>10, <1>11
  DEF Next, ProcessOnce, SubmitReturns

\* Two calls of one process are min_interval_seconds apart.
THEOREM SpacingCorrect == Spec => CallsAreSpaced
<1>1. ASSUME TypeOK, BreakerInv, SpacingInv, [Next]_vars, BeginsCall,
             lastCallAt # None
      PROVE  now >= lastCallAt + MinInterval
  <2>1. BeginSubmit
    BY <1>1, OnlyBeginSubmitCalls
  <2>2. ~Limited
    BY <2>1 DEF BeginSubmit
  <2>3. CASE MinInterval = 0
    BY <1>1, <2>3 DEF TypeOK, SpacingInv
  <2>4. CASE MinInterval # 0
    BY <1>1, <2>2, <2>4, WorkerAssumption
    DEF TypeOK, BreakerInv, SpacingInv, Limited
  <2> QED
    BY <2>3, <2>4
<1>2. TypeOK /\ BreakerInv /\ SpacingInv /\ [Next]_vars
        => [BeginsCall /\ lastCallAt # None => now >= lastCallAt + MinInterval]_vars
  BY <1>1
<1> QED
  BY <1>2, BreakerInit, BreakerStep, SpacingInit, SpacingStep, TypeCorrect, PTL
  DEF Spec, CallsAreSpaced
=============================================================================
