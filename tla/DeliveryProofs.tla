---------------------------- MODULE DeliveryProofs ----------------------------
(***************************************************************************)
(* A receipt is never thrown away: theorems on what a batch of the         *)
(* transmission worker holds, that a receipted job is not submitted again, *)
(* that the worker implements at-least-once delivery, and what becomes of  *)
(* its calls at the partner access point.                                  *)
(***************************************************************************)
EXTENDS TransmissionWorkerProofs, PartnerDelivery

USE DEF ValidConfig

LEMMA BatchInit == Init => BatchInv
BY DEF Init, NewEnvelope, BatchInv, InOnePlace

\* A batch opens on distinct rows.
LEMMA BatchStart ==
  ASSUME TypeOK, BatchInv, NEW s \in Offers, StartBatch(s)
  PROVE  BatchInv'
<1> DEFINE n == SmallerOf(Len(s), MaxBatchSize)
<1>1. s \in Seq(Job) /\ \A i, k \in DOMAIN s : s[i] = s[k] => i = k
  BY DEF Offers
<1>2. n \in 0 .. Len(s)
  BY <1>1, WorkerAssumption DEF SmallerOf
<1>3. queue' = SubSeq(s, 1, n)
  BY DEF StartBatch, Selected
<1> HIDE DEF n
<1>4. \A i \in DOMAIN queue' : i \in DOMAIN s /\ queue'[i] = s[i]
  BY <1>1, <1>2, <1>3
<1>5. \A i, k \in DOMAIN queue' : queue'[i] = queue'[k] => i = k
  BY <1>1, <1>4
<1>6. \A i \in DOMAIN queue' : queue'[i] # None
  BY <1>1, <1>4, WorkerAssumption
<1>7. /\ calling = None /\ results = <<>>
      /\ UNCHANGED <<row, calling, results, arrived, taken, receipted>>
  BY DEF StartBatch, Idle, gateway, history
<1> QED
  BY <1>5, <1>6, <1>7 DEF BatchInv, InOnePlace, FitsItsRow, ReceiptKept

\* An outcome appended for a job that leaves the queue or the gateway.
LEMMA BatchAppend ==
  ASSUME TypeOK, BatchInv,
         NEW j \in Job, NEW r \in Result, r.job = j,
         results' = Append(results, r),
         \A i \in DOMAIN results : results[i].job # j,
         FitsItsRow(r),
         UNCHANGED <<row, taken>>
  PROVE  /\ \A i, k \in DOMAIN results' : results'[i].job = results'[k].job => i = k
         /\ \A i \in DOMAIN results' :
              \/ i \in DOMAIN results /\ results'[i] = results[i]
              \/ results'[i] = r
         /\ \A i \in DOMAIN results' : FitsItsRow(results[i])'
         /\ \A i \in DOMAIN results : i \in DOMAIN results' /\ results'[i] = results[i]
         /\ \E i \in DOMAIN results' : results'[i] = r
<1>1. results \in Seq(Result)
  BY DEF TypeOK
<1>2. /\ Len(results') = Len(results) + 1
      /\ results'[Len(results) + 1] = r
      /\ \A i \in 1 .. Len(results) : results'[i] = results[i]
      /\ DOMAIN results' = 1 .. Len(results) + 1 /\ DOMAIN results = 1 .. Len(results)
  BY <1>1
<1>3. \A i \in DOMAIN results' :
        \/ i \in DOMAIN results /\ results'[i] = results[i]
        \/ i = Len(results) + 1 /\ results'[i] = r
  BY <1>1, <1>2
<1>4. \A i, k \in DOMAIN results' : results'[i].job = results'[k].job => i = k
  <2> SUFFICES ASSUME NEW i \in DOMAIN results', NEW k \in DOMAIN results',
                      results'[i].job = results'[k].job
               PROVE  i = k
    OBVIOUS
  <2>1. CASE i = Len(results) + 1 /\ k = Len(results) + 1
    BY <2>1
  <2>2. CASE i \in 1 .. Len(results) /\ k \in 1 .. Len(results)
    BY <1>2, <2>2 DEF BatchInv, InOnePlace
  <2>3. CASE i \in 1 .. Len(results) /\ k = Len(results) + 1
    BY <1>2, <2>3
  <2>4. CASE i = Len(results) + 1 /\ k \in 1 .. Len(results)
    BY <1>2, <2>4
  <2> QED
    BY <1>1, <1>2, <2>1, <2>2, <2>3, <2>4
<1>5. \A i \in DOMAIN results' : FitsItsRow(results[i])'
  BY <1>3 DEF BatchInv, FitsItsRow
<1> QED
  BY <1>1, <1>2, <1>3, <1>4, <1>5

\* The head of a queue is in it once.
LEMMA HeadLeavesQueue ==
  ASSUME TypeOK, BatchInv, queue # <<>>, queue' = Tail(queue)
  PROVE  /\ Current \in Job
         /\ \A i \in DOMAIN results : results[i].job # Current
         /\ \A i \in DOMAIN queue' : i + 1 \in DOMAIN queue /\ queue'[i] = queue[i + 1]
         /\ \A i \in DOMAIN queue' : queue'[i] # Current
         /\ \A i, k \in DOMAIN queue' : queue'[i] = queue'[k] => i = k
<1>1. queue \in Seq(Job)
  BY DEF TypeOK
<1>2. 1 \in DOMAIN queue /\ Current = queue[1] /\ Current \in Job
  BY <1>1 DEF Current
<1>3. \A i \in DOMAIN queue' :
        i \in Nat /\ i # 0 /\ i + 1 \in DOMAIN queue /\ queue'[i] = queue[i + 1]
  BY <1>1
<1>4. \A i \in DOMAIN queue' : queue'[i] # Current
  BY <1>2, <1>3 DEF BatchInv, InOnePlace
<1>5. \A i, k \in DOMAIN queue' : queue'[i] = queue'[k] => i = k
  BY <1>3 DEF BatchInv, InOnePlace
<1> QED
  BY <1>2, <1>3, <1>4, <1>5 DEF BatchInv, InOnePlace

\* A refusal moves the head of the queue to the results as it was.
LEMMA BatchRefuse ==
  ASSUME TypeOK, BatchInv, Processing,
         NEW outcome \in Outcome, NEW after \in Nat, Refuse(outcome, after),
         outcome = "error" \/ (Ready /\ outcome # "submitted")
  PROVE  BatchInv'
<1> DEFINE r == [job |-> Current, outcome |-> outcome, state |-> row[Current].state,
                 attempts |-> row[Current].attempts, after |-> after]
<1>1. /\ queue # <<>> /\ queue' = Tail(queue) /\ results' = Append(results, r)
      /\ UNCHANGED <<row, calling, arrived, taken, receipted>>
  BY DEF Processing, Refuse, gateway, history
<1>2. /\ Current \in Job
      /\ \A i \in DOMAIN results : results[i].job # Current
      /\ \A i \in DOMAIN queue' : i + 1 \in DOMAIN queue /\ queue'[i] = queue[i + 1]
      /\ \A i \in DOMAIN queue' : queue'[i] # Current
      /\ \A i, k \in DOMAIN queue' : queue'[i] = queue'[k] => i = k
  BY <1>1, HeadLeavesQueue
<1>3. row[Current] \in Row
  BY <1>2 DEF TypeOK
<1>4. r \in Result /\ r.job = Current
  BY <1>2, <1>3 DEF Row, Result
<1>5. FitsItsRow(r)
  BY <1>2 DEF FitsItsRow, Ready
<1>6. calling = None
  BY DEF Processing
<1> HIDE DEF r
<1>7. /\ \A i, k \in DOMAIN results' : results'[i].job = results'[k].job => i = k
      /\ \A i \in DOMAIN results' :
           \/ i \in DOMAIN results /\ results'[i] = results[i]
           \/ results'[i] = r
      /\ \A i \in DOMAIN results' : FitsItsRow(results[i])'
      /\ \A i \in DOMAIN results : i \in DOMAIN results' /\ results'[i] = results[i]
  BY <1>1, <1>2, <1>4, <1>5, BatchAppend
<1>8. InOnePlace'
  <2>1. \A i \in DOMAIN queue' : queue'[i] # calling'
    BY <1>1, <1>2 DEF BatchInv, InOnePlace
  <2>2. \A i \in DOMAIN results' : results'[i].job # calling'
    BY <1>1, <1>2, <1>4, <1>6, <1>7, WorkerAssumption DEF BatchInv, InOnePlace
  <2>3. \A i \in DOMAIN queue', k \in DOMAIN results' : queue'[i] # results'[k].job
    BY <1>2, <1>4, <1>7 DEF BatchInv, InOnePlace
  <2> QED
    BY <1>2, <1>7, <2>1, <2>2, <2>3 DEF InOnePlace
<1>9. \A j \in receipted' : ReceiptKept(j)'
  BY <1>1, <1>7 DEF BatchInv, ReceiptKept
<1> QED
  BY <1>1, <1>7, <1>8, <1>9 DEF BatchInv

\* The awaited call leaves its outcome in the results.
LEMMA BatchConclude ==
  ASSUME TypeOK, BatchInv, calling \in Job,
         NEW outcome \in Outcome, NEW state \in OutboxState,
         NEW attempts \in Nat, NEW after \in Nat,
         Conclude(outcome, state, attempts, after),
         \/ outcome = "error"
         \/ outcome # "submitted" /\ state \in {"reserved", "dead_letter"}
         \/ state \in {"sent", "delivered", "rejected"} /\ calling \in taken,
         \/ receipted' = receipted
         \/ outcome = "submitted" /\ receipted' = receipted \union {calling}
  PROVE  BatchInv'
<1> DEFINE r == [job |-> calling, outcome |-> outcome, state |-> state,
                 attempts |-> attempts, after |-> after]
<1>1. /\ results' = Append(results, r) /\ calling' = None /\ arrived' = None
      /\ UNCHANGED <<row, queue, taken>>
  BY DEF Conclude
<1>2. r \in Result /\ r.job = calling /\ r.outcome = outcome
  BY DEF Result
<1>3. row[calling].state = "reserved" /\ calling # None
  BY WorkerAssumption DEF BatchInv
<1>4. FitsItsRow(r)
  BY <1>3 DEF FitsItsRow
<1>5. \A i \in DOMAIN results : results[i].job # calling
  BY DEF BatchInv, InOnePlace
<1> HIDE DEF r
<1>6. /\ \A i, k \in DOMAIN results' : results'[i].job = results'[k].job => i = k
      /\ \A i \in DOMAIN results' :
           \/ i \in DOMAIN results /\ results'[i] = results[i]
           \/ results'[i] = r
      /\ \A i \in DOMAIN results' : FitsItsRow(results[i])'
      /\ \A i \in DOMAIN results : i \in DOMAIN results' /\ results'[i] = results[i]
      /\ \E i \in DOMAIN results' : results'[i] = r
  BY <1>1, <1>2, <1>4, <1>5, BatchAppend
<1>7. InOnePlace'
  <2>1. \A i \in DOMAIN queue' : queue'[i] # calling'
    <3>1. queue \in Seq(Job)
      BY DEF TypeOK
    <3> QED
      BY <1>1, <3>1, WorkerAssumption
  <2>2. \A i \in DOMAIN results' : results'[i].job # calling'
    <3>1. \A i \in DOMAIN results : results[i].job \in Job
      <4>1. \A i \in DOMAIN results : results[i] \in Result
        BY DEF TypeOK
      <4> QED
        BY <4>1 DEF Result
    <3> QED
      BY <1>1, <1>2, <1>6, <3>1, WorkerAssumption
  <2>3. \A i \in DOMAIN queue', k \in DOMAIN results' : queue'[i] # results'[k].job
    BY <1>1, <1>2, <1>6 DEF BatchInv, InOnePlace
  <2>4. \A i, k \in DOMAIN queue' : queue'[i] = queue'[k] => i = k
    BY <1>1 DEF BatchInv, InOnePlace
  <2> QED
    BY <1>6, <2>1, <2>2, <2>3, <2>4 DEF InOnePlace
<1>8. \A j \in receipted' : ReceiptKept(j)'
  <2>1. ASSUME NEW j \in receipted PROVE ReceiptKept(j)'
    BY <1>1, <1>6 DEF BatchInv, ReceiptKept
  <2>2. ASSUME NEW j, j = calling, outcome = "submitted" PROVE ReceiptKept(j)'
    BY <1>2, <1>6, <2>2 DEF ReceiptKept
  <2> QED
    BY <2>1, <2>2
<1> QED
  BY <1>1, <1>6, <1>7, <1>8 DEF BatchInv

\* The first outcome is written to its row; the others still fit theirs.
LEMMA BatchPersist ==
  ASSUME TypeOK, BatchInv, Persist
  PROVE  BatchInv'
<1> DEFINE r == Head(results)
<1>1. /\ results \in Seq(Result) /\ results # <<>> /\ results' = Tail(results)
      /\ calling = None /\ queue = <<>>
      /\ UNCHANGED <<queue, calling, arrived, taken, receipted>>
  BY DEF TypeOK, Persist, gateway, history
<1>2. 1 \in DOMAIN results /\ r = results[1] /\ r \in Result
  BY <1>1
<1>3. \A i \in DOMAIN results' :
        i \in Nat /\ i # 0 /\ i + 1 \in DOMAIN results /\ results'[i] = results[i + 1]
  BY <1>1
<1>4. \A i \in DOMAIN results : i # 1 => i - 1 \in DOMAIN results' /\ results'[i - 1] = results[i]
  BY <1>1
<1>5. \A i \in DOMAIN results' : results'[i].job # r.job
  BY <1>2, <1>3 DEF BatchInv, InOnePlace
<1>6. \A j : j # r.job => row'[j] = row[j]
  BY DEF Persist, TypeOK
<1>7. r.outcome = "error" => row' = row
  BY DEF Persist
<1>8. r.outcome # "error" => row'[r.job].state = r.state
  BY <1>2 DEF Persist, TypeOK, Result
<1>9. FitsItsRow(r)
  BY <1>2 DEF BatchInv
<1> HIDE DEF r
<1>10. InOnePlace'
  <2>1. \A i, k \in DOMAIN results' : results'[i].job = results'[k].job => i = k
    BY <1>3 DEF BatchInv, InOnePlace
  <2>2. \A i \in DOMAIN results' : results'[i].job # calling'
    BY <1>1, <1>3 DEF BatchInv, InOnePlace
  <2> QED
    BY <1>1, <2>1, <2>2 DEF InOnePlace
<1>11. ASSUME NEW i \in DOMAIN results' PROVE FitsItsRow(results[i])'
  <2>1. FitsItsRow(results[i + 1]) /\ results'[i] = results[i + 1]
    BY <1>3, <1>11 DEF BatchInv
  <2>2. row'[results'[i].job] = row[results'[i].job]
    BY <1>5, <1>6
  <2> QED
    BY <1>1, <2>1, <2>2 DEF FitsItsRow
<1>12. ASSUME NEW j \in receipted PROVE ReceiptKept(j)'
  <2>1. CASE row[j].state # "reserved"
    BY <1>6, <1>7, <1>9, <2>1 DEF FitsItsRow, ReceiptKept
  <2>2. ASSUME NEW i \in DOMAIN results, results[i].job = j,
               results[i].outcome = "submitted", i = 1
        PROVE  ReceiptKept(j)'
    BY <1>2, <1>8, <1>9, <2>2 DEF FitsItsRow, ReceiptKept
  <2>3. ASSUME NEW i \in DOMAIN results, results[i].job = j,
               results[i].outcome = "submitted", i # 1
        PROVE  ReceiptKept(j)'
    BY <1>4, <2>3 DEF ReceiptKept
  <2> QED
    BY <2>1, <2>2, <2>3 DEF BatchInv, ReceiptKept
<1> QED
  BY <1>1, <1>10, <1>11, <1>12 DEF BatchInv

\* A dropped batch keeps only the receipts the table has.
LEMMA BatchDrop ==
  ASSUME TypeOK, BatchInv, DropBatch
  PROVE  BatchInv'
<1>1. /\ queue' = <<>> /\ results' = <<>> /\ calling' = None /\ arrived' = None
      /\ row' = row /\ receipted' = receipted \ Unwritten
  BY DEF DropBatch
<1>2. ASSUME NEW j \in receipted' PROVE ReceiptKept(j)'
  <2>1. j \in receipted /\ j \notin Unwritten
    BY <1>1
  <2>2. \A i \in DOMAIN results : results[i].outcome = "submitted" => results[i].job # j
    BY <2>1 DEF Unwritten, ResultsSet
  <2> QED
    BY <1>1, <2>1, <2>2 DEF BatchInv, ReceiptKept
<1> QED
  BY <1>1, <1>2 DEF BatchInv, InOnePlace

\* A call begins with a job that leaves the queue.
LEMMA BatchBegin ==
  ASSUME TypeOK, BatchInv, BeginSubmit
  PROVE  BatchInv' /\ calling' \notin receipted
<1>1. /\ queue # <<>> /\ queue' = Tail(queue) /\ calling' = Current /\ arrived' = None
      /\ row[Current].state = "reserved"
      /\ UNCHANGED <<row, results, taken, receipted>>
  BY DEF BeginSubmit, Ready, Processing
<1>2. /\ Current \in Job
      /\ \A i \in DOMAIN results : results[i].job # Current
      /\ \A i \in DOMAIN queue' : i + 1 \in DOMAIN queue /\ queue'[i] = queue[i + 1]
      /\ \A i \in DOMAIN queue' : queue'[i] # Current
      /\ \A i, k \in DOMAIN queue' : queue'[i] = queue'[k] => i = k
  BY <1>1, HeadLeavesQueue
<1>3. InOnePlace'
  BY <1>1, <1>2 DEF BatchInv, InOnePlace
<1>4. calling' \notin receipted
  BY <1>1, <1>2 DEF BatchInv, ReceiptKept
<1> QED
  BY <1>1, <1>3, <1>4 DEF BatchInv, FitsItsRow, ReceiptKept

LEMMA BatchStep == TypeOK /\ BatchInv /\ [Next]_vars => BatchInv'
<1> SUFFICES ASSUME TypeOK, BatchInv, [Next]_vars PROVE BatchInv'
  OBVIOUS
<1>a. calling # None => calling \in Job
  BY DEF TypeOK
<1>1. ASSUME NEW s \in Offers, StartBatch(s) PROVE BatchInv'
  BY <1>1, BatchStart
<1>2. CASE RefuseNotReady
  BY <1>2, BatchRefuse DEF RefuseNotReady, Outcome
<1>3. CASE RefuseCircuitOpen
  <2>1. openUntil - batchNow \in Nat
    BY <1>3 DEF TypeOK, RefuseCircuitOpen, CircuitOpen
  <2> QED
    BY <1>3, <2>1, BatchRefuse DEF RefuseCircuitOpen, Ready, Outcome
<1>4. CASE RefuseRateLimited
  <2>1. lastAttempt + MinInterval - batchNow \in Nat
    <3>1. MinInterval \in Nat /\ batchNow \in Nat
      BY WorkerAssumption DEF TypeOK
    <3>2. lastAttempt \in Nat /\ batchNow < lastAttempt + MinInterval
      BY <1>4 DEF TypeOK, RefuseRateLimited, Limited
    <3> QED
      BY <3>1, <3>2
  <2> QED
    BY <1>4, <2>1, BatchRefuse DEF RefuseRateLimited, Ready, Outcome
<1>5. CASE RefuseInvalidRequest
  BY <1>5, BatchRefuse DEF RefuseInvalidRequest, Ready, Outcome
<1>6. CASE BeginSubmit
  BY <1>6, BatchBegin
<1>7. CASE GatewayTakes
  BY <1>7 DEF GatewayTakes, BatchInv, InOnePlace, FitsItsRow, ReceiptKept, batch, history
<1>8. ASSUME NEW r \in Replies, ReceiveReceipt(r) PROVE BatchInv'
  <2>1. calling \in Job /\ row[calling].attempts \in Nat
    BY <1>8, <1>a DEF ReceiveReceipt, TypeOK, Row
  <2>2. OutboxStateForReceipt(r.status) \in {"sent", "delivered", "rejected"}
    BY DEF OutboxStateForReceipt
  <2>3. OutboxStateForReceipt(r.status) \in OutboxState
    BY <2>2 DEF OutboxState
  <2>4. calling \in taken
    BY <1>8, <2>1, WorkerAssumption DEF ReceiveReceipt, BatchInv
  <2> QED
    BY <1>8, <2>1, <2>2, <2>3, <2>4, BatchConclude DEF ReceiveReceipt, Outcome
<1>9. ASSUME NEW r \in Replies, ScheduleRetry(r) PROVE BatchInv'
  <2> DEFINE n == RecordFailedAttempt(row[calling].attempts)
  <2>1. calling \in Job /\ r.hint \in Nat
    BY <1>9, <1>a, ReplyShape DEF ScheduleRetry
  <2>2. n \in Nat /\ n \in 1 .. Policy.maxAttempts - 1
    BY <1>9, <2>1, RecordedAttempts DEF ScheduleRetry
  <2>3. RetryAfter(n, r.hint) \in Nat
    BY <2>1, <2>2, RetryAfterBounds
  <2>4. Conclude("retry_scheduled", "reserved", n, RetryAfter(n, r.hint))
    BY <1>9 DEF ScheduleRetry
  <2>5. receipted' = receipted
    BY <1>9 DEF ScheduleRetry
  <2> HIDE DEF n
  <2> QED
    BY <2>1, <2>2, <2>3, <2>4, <2>5, BatchConclude DEF Outcome, OutboxState
<1>10. ASSUME NEW r \in Replies, DeadLetter(r) PROVE BatchInv'
  <2>1. calling \in Job
    BY <1>10, <1>a DEF DeadLetter
  <2>2. RecordFailedAttempt(row[calling].attempts) \in Nat
    BY <2>1, RecordedAttempts
  <2> QED
    BY <1>10, <2>1, <2>2, BatchConclude DEF DeadLetter, Outcome, OutboxState
<1>11. ASSUME NEW r \in Replies, FailToDeadLetter(r) PROVE BatchInv'
  <2>1. calling \in Job
    BY <1>11, <1>a DEF FailToDeadLetter
  <2>2. row[calling].attempts \in Nat /\ row[calling].state \in OutboxState
    BY <2>1 DEF TypeOK, Row
  <2> QED
    BY <1>11, <2>1, <2>2, BatchConclude DEF FailToDeadLetter, Outcome
<1>12. CASE Persist
  BY <1>12, BatchPersist
<1>13. CASE Crash \/ Cancel
  BY <1>13, BatchDrop DEF Crash, Cancel
<1>14. CASE Tick
  BY <1>14 DEF Tick, BatchInv, InOnePlace, FitsItsRow, ReceiptKept, batch, gateway, history
<1>15. CASE UNCHANGED vars
  BY <1>15 DEF vars, BatchInv, InOnePlace, FitsItsRow, ReceiptKept, batch, gateway, history
<1> QED
  BY <1>1, <1>2, <1>3, <1>4, <1>5, <1>6, <1>7, <1>8, <1>9, <1>10, <1>11, <1>12,
     <1>13, <1>14, <1>15 DEF Next, ProcessOnce, SubmitReturns

\* A job whose receipt this process collected, or the table recorded, is not
\* submitted again.
THEOREM ReceiptsAreKept == Spec => NoResubmission
<1>1. TypeOK /\ BatchInv /\ [Next]_vars
        => [BeginsCall => calling' \notin receipted]_vars
  BY OnlyBeginSubmitCalls, BatchBegin
<1> QED
  BY <1>1, BatchInit, BatchStep, TypeCorrect, PTL DEF Spec, NoResubmission
-----------------------------------------------------------------------------
(***************************************************************************)
(* The worker implements at-least-once delivery.                           *)
(***************************************************************************)
LEMMA DeliveryInit == Init => Delivery!Init
BY DEF Init, NewEnvelope, Delivery!Init

\* Writing an outcome settles its row, or leaves its state alone.
LEMMA PersistSettles ==
  ASSUME TypeOK, BatchInv, Persist
  PROVE  [Delivery!Next]_(Delivery!vars)
<1> DEFINE r == Head(results)
           status == [j \in Job |-> row[j].state]
<1>1. 1 \in DOMAIN results /\ r = results[1] /\ r \in Result
  BY DEF TypeOK, Persist
<1>2. FitsItsRow(r) /\ r.job \in Job
  BY <1>1 DEF BatchInv, Result
<1>3. \A j : j # r.job => row'[j] = row[j]
  BY DEF Persist, TypeOK
<1>4. CASE r.outcome = "error"
  BY <1>4 DEF Persist, gateway, Delivery!vars
<1>5. CASE r.outcome # "error"
  <2>1. row'[r.job].state = r.state
    BY <1>2, <1>5 DEF Persist, TypeOK
  <2>2. status' = [status EXCEPT ![r.job] = r.state]
    BY <1>2, <1>3, <2>1
  <2>3. status[r.job] = "reserved" /\ UNCHANGED taken
    BY <1>2, <1>5 DEF FitsItsRow, Persist, gateway
  <2>4. CASE r.state = "reserved"
    <3>1. status' = status
      BY <2>2, <2>3, <2>4
    <3> QED
      BY <2>3, <3>1 DEF Delivery!vars
  <2>5. CASE r.state # "reserved"
    <3>1. /\ r.state \in {"sent", "delivered", "rejected", "dead_letter"}
          /\ r.state \in {"sent", "delivered", "rejected"} => r.job \in taken
      BY <1>2, <1>5, <2>5 DEF FitsItsRow
    <3>2. PICK j \in Job, s \in {"sent", "delivered", "rejected", "dead_letter"} :
            j = r.job /\ s = r.state
      BY <1>2, <3>1
    <3>3. Delivery!Settle(j, s)
      BY <2>2, <2>3, <3>1, <3>2 DEF Delivery!Settle
    <3> QED
      BY <3>3 DEF Delivery!Next
  <2> QED
    BY <2>4, <2>5
<1> QED
  BY <1>4, <1>5

LEMMA DeliveryStep ==
  TypeOK /\ BatchInv /\ [Next]_vars => [Delivery!Next]_(Delivery!vars)
<1> SUFFICES ASSUME TypeOK, BatchInv, [Next]_vars
             PROVE  [Delivery!Next]_(Delivery!vars)
  OBVIOUS
\* Every other step leaves the table and the gateway's documents alone.
<1>1. ASSUME NEW s \in Offers, StartBatch(s) PROVE UNCHANGED <<row, taken>>
  BY <1>1 DEF StartBatch, gateway
<1>2. ASSUME ProcessOnce PROVE UNCHANGED <<row, taken>>
  BY <1>2 DEF ProcessOnce, RefuseNotReady, RefuseCircuitOpen, RefuseRateLimited,
     RefuseInvalidRequest, BeginSubmit, Refuse, gateway
<1>3. ASSUME SubmitReturns PROVE UNCHANGED <<row, taken>>
  BY <1>3 DEF SubmitReturns, ReceiveReceipt, ScheduleRetry, DeadLetter,
     FailToDeadLetter, Conclude
<1>4. ASSUME Crash \/ Cancel PROVE UNCHANGED <<row, taken>>
  BY <1>4 DEF Crash, Cancel, DropBatch
<1>5. ASSUME Tick \/ UNCHANGED vars PROVE UNCHANGED <<row, taken>>
  BY <1>5 DEF Tick, vars, gateway
<1>6. ASSUME UNCHANGED <<row, taken>> PROVE [Delivery!Next]_(Delivery!vars)
  BY <1>6 DEF Delivery!vars
<1>7. CASE GatewayTakes
  <2>1. calling \in Job /\ row[calling].state = "reserved"
    BY <1>7 DEF TypeOK, BatchInv, GatewayTakes
  <2>2. Delivery!Reach(calling)
    BY <1>7, <2>1 DEF GatewayTakes, Delivery!Reach
  <2> QED
    BY <2>1, <2>2 DEF Delivery!Next
<1>8. CASE Persist
  BY <1>8, PersistSettles
<1> QED
  BY <1>1, <1>2, <1>3, <1>4, <1>5, <1>6, <1>7, <1>8 DEF Next

\* Every behaviour of the worker, its drain and its gateway is one of
\* at-least-once delivery.
THEOREM WorkerImplementsDelivery == Spec => ImplementsDelivery
  BY DeliveryInit, DeliveryStep, BatchInit, BatchStep, TypeCorrect, PTL
  DEF Spec, ImplementsDelivery, Delivery!Spec
-----------------------------------------------------------------------------
(***************************************************************************)
(* What a row has cost: the calls made for it, the attempts it shows and   *)
(* the time before which it is not called again.                           *)
(***************************************************************************)
Called == {"submitted", "retry_scheduled", "dead_lettered"}

\* The batch called the gateway for j and has not written the outcome.
InFlight(j) ==
  \/ calling = j
  \/ \E i \in DOMAIN results : results[i].job = j /\ results[i].outcome \in Called

Rescheduled(j) ==
  \E i \in DOMAIN results :
    results[i].job = j /\ results[i].outcome = "retry_scheduled"

\* A reserved row shows every call of its job but the lost ones and the one in
\* flight, has attempts left, and is due no earlier than its last recorded
\* failure allows.
RowCharged(j) ==
  /\ calls[j] <= Policy.maxAttempts + lost[j]
  /\ row[j].attempts <= calls[j]
  /\ calling = j => row[j].attempts < calls[j]
  /\ row[j].state = "reserved" =>
       /\ row[j].attempts < Policy.maxAttempts
       /\ calls[j] <= row[j].attempts + lost[j] + 1
       /\ ~InFlight(j) => calls[j] <= row[j].attempts + lost[j]
       /\ ~Rescheduled(j) => holdUntil[j] <= row[j].due
  /\ row[j].state = "dead_letter"
       => j \in refused \/ calls[j] >= Policy.maxAttempts

\* So will the row an outcome is about to be written to.
ResultCharged(r) ==
  r.outcome # "error" =>
    /\ r.attempts <= calls[r.job]
    /\ r.state = "reserved" =>
         /\ r.attempts < Policy.maxAttempts
         /\ calls[r.job] <= r.attempts + lost[r.job]
         /\ holdUntil[r.job] <= now + r.after
    /\ r.state = "dead_letter"
         => r.job \in refused \/ calls[r.job] >= Policy.maxAttempts

QueueIsDue == \A i \in DOMAIN queue : row[queue[i]].due <= batchNow

ChargeInv ==
  /\ \A j \in Job : RowCharged(j)
  /\ \A i \in DOMAIN results : ResultCharged(results[i])
  /\ QueueIsDue

\* The counters of a row are numbers.
LEMMA RowNumbers ==
  ASSUME TypeOK, NEW j \in Job
  PROVE  /\ calls[j] \in Nat /\ lost[j] \in Nat /\ holdUntil[j] \in Nat
         /\ row[j].attempts \in Nat /\ row[j].due \in Nat
         /\ row[j] \in Row
BY DEF TypeOK, Row

LEMMA ResultNumbers ==
  ASSUME TypeOK, NEW i \in DOMAIN results
  PROVE  /\ results[i] \in Result /\ results[i].job \in Job
         /\ results[i].attempts \in Nat /\ results[i].after \in Nat
<1>1. results[i] \in Result
  BY DEF TypeOK
<1> QED
  BY <1>1 DEF Result

LEMMA BudgetIsPositive == Policy.maxAttempts \in Nat \ {0}
BY WorkerAssumption DEF ValidPolicy

LEMMA ChargeInit == Init => ChargeInv
<1> SUFFICES ASSUME Init PROVE ChargeInv
  OBVIOUS
<1>1. ASSUME NEW j \in Job PROVE RowCharged(j)
  BY <1>1, BudgetIsPositive, WorkerAssumption DEF Init, NewEnvelope, RowCharged
<1> QED
  BY <1>1 DEF Init, ChargeInv, QueueIsDue

\* A step that leaves the table and the batch alone, but for the queue it may
\* shorten, keeps the charges.
LEMMA ChargeFrame ==
  ASSUME TypeOK, ChargeInv, now' \in Nat, now <= now',
         UNCHANGED <<row, batchNow, queue, calling, results, calls, lost,
                     refused, holdUntil>>
  PROVE  ChargeInv'
<1>1. ASSUME NEW i \in DOMAIN results' PROVE ResultCharged(results[i])'
  <2>1. i \in DOMAIN results /\ ResultCharged(results[i])
    BY <1>1 DEF ChargeInv
  <2>2. results[i].job \in Job /\ results[i].after \in Nat
    BY <2>1, ResultNumbers
  <2>3. holdUntil[results[i].job] \in Nat /\ now \in Nat
    BY <2>2, RowNumbers DEF TypeOK
  <2> QED
    BY <2>1, <2>2, <2>3 DEF ResultCharged
<1>2. ASSUME NEW j \in Job PROVE RowCharged(j)'
  <2>1. InFlight(j)' <=> InFlight(j)
    BY DEF InFlight
  <2>2. Rescheduled(j)' <=> Rescheduled(j)
    BY DEF Rescheduled
  <2>3. RowCharged(j)
    BY DEF ChargeInv
  <2> HIDE DEF InFlight, Rescheduled
  <2> QED
    BY <2>1, <2>2, <2>3 DEF RowCharged
<1>3. QueueIsDue'
  BY DEF ChargeInv, QueueIsDue
<1> QED
  BY <1>1, <1>2, <1>3 DEF ChargeInv

LEMMA AppendShape ==
  ASSUME TypeOK, NEW r \in Result, results' = Append(results, r)
  PROVE  /\ \A i \in DOMAIN results : i \in DOMAIN results' /\ results'[i] = results[i]
         /\ \E i \in DOMAIN results' : results'[i] = r
         /\ \A i \in DOMAIN results' :
              \/ i \in DOMAIN results /\ results'[i] = results[i]
              \/ results'[i] = r
<1>1. results \in Seq(Result)
  BY DEF TypeOK
<1>2. Len(results) + 1 \in DOMAIN results' /\ results'[Len(results) + 1] = r
  BY <1>1
<1>3. \A i \in DOMAIN results : i \in DOMAIN results' /\ results'[i] = results[i]
  BY <1>1
<1>4. \A i \in DOMAIN results' : i \in DOMAIN results \/ i = Len(results) + 1
  BY <1>1
<1> QED
  BY <1>2, <1>3, <1>4

\* An outcome appended for a job changes neither what is in flight nor what is
\* rescheduled of the other jobs, and takes nothing away.
LEMMA ChargeAppend ==
  ASSUME TypeOK, NEW r \in Result, results' = Append(results, r),
         NEW j \in Job
  PROVE  /\ Rescheduled(j) => Rescheduled(j)'
         /\ InFlight(j) /\ calling' = calling => InFlight(j)'
         /\ InFlight(j) /\ calling # j => InFlight(j)'
         /\ r.job = j /\ r.outcome \in Called => InFlight(j)'
         /\ r.job = j /\ r.outcome = "retry_scheduled" => Rescheduled(j)'
BY AppendShape DEF InFlight, Rescheduled

LEMMA ChargeRefuse ==
  ASSUME TypeOK, TypeOK', BatchInv, BreakerInv, ChargeInv, Processing,
         NEW outcome \in Outcome, NEW after \in Nat, Refuse(outcome, after),
         outcome = "error" \/ Ready
  PROVE  ChargeInv'
<1> DEFINE r == [job |-> Current, outcome |-> outcome, state |-> row[Current].state,
                 attempts |-> row[Current].attempts, after |-> after]
<1>1. /\ queue # <<>> /\ queue' = Tail(queue) /\ results' = Append(results, r)
      /\ UNCHANGED <<now, row, batchNow, calling, calls, lost, refused, holdUntil>>
  BY DEF Processing, Refuse, history
<1>2. /\ Current \in Job /\ Current = queue[1] /\ 1 \in DOMAIN queue
      /\ \A i \in DOMAIN results : results[i].job # Current
      /\ \A i \in DOMAIN queue' : i + 1 \in DOMAIN queue /\ queue'[i] = queue[i + 1]
  <2>1. queue \in Seq(Job)
    BY DEF TypeOK
  <2> QED
    BY <1>1, <2>1, HeadLeavesQueue DEF Current
<1>3. r \in Result
  BY <1>2, RowNumbers DEF Row, Result
<1>4. calling = None /\ ~InFlight(Current) /\ ~Rescheduled(Current)
  BY <1>2, WorkerAssumption DEF Processing, InFlight, Rescheduled
<1>5. ASSUME NEW x, x = r PROVE ResultCharged(x)'
  <2>1. CASE outcome = "error"
    BY <1>5, <2>1 DEF ResultCharged
  <2>2. CASE outcome # "error"
    <3>1. row[Current].state = "reserved"
      BY <2>2 DEF Ready
    <3>2. RowCharged(Current)
      BY <1>2 DEF ChargeInv
    <3>3. row[Current].due <= batchNow /\ batchNow <= now
      BY <1>2 DEF ChargeInv, QueueIsDue, BreakerInv
    <3>4. now \in Nat /\ batchNow \in Nat
      BY DEF TypeOK
    <3>5. row[Current].due \in Nat /\ holdUntil[Current] \in Nat
      BY <1>2, RowNumbers
    <3>6. holdUntil[Current] <= row[Current].due
      BY <1>4, <3>1, <3>2 DEF RowCharged
    <3>7. holdUntil[Current] <= now + after
      BY <3>3, <3>4, <3>5, <3>6
    <3>8. /\ row[Current].attempts <= calls[Current]
          /\ row[Current].attempts < Policy.maxAttempts
          /\ calls[Current] <= row[Current].attempts + lost[Current]
      BY <1>4, <3>1, <3>2 DEF RowCharged
    <3>9. /\ x.job = Current /\ x.state = "reserved"
          /\ x.attempts = row[Current].attempts /\ x.after = after
      BY <1>5, <3>1
    <3> QED
      BY <1>1, <3>7, <3>8, <3>9 DEF ResultCharged
  <2> QED
    BY <2>1, <2>2
<1> HIDE DEF r
<1>6. ASSUME NEW i \in DOMAIN results' PROVE ResultCharged(results[i])'
  <2>1. \/ i \in DOMAIN results /\ results'[i] = results[i]
        \/ results'[i] = r
    BY <1>1, <1>3, AppendShape
  <2>2. CASE i \in DOMAIN results /\ results'[i] = results[i]
    <3>1. ResultCharged(results[i])
      BY <2>2 DEF ChargeInv
    <3> QED
      BY <1>1, <2>2, <3>1 DEF ResultCharged
  <2>3. CASE results'[i] = r
    BY <1>5, <2>3 DEF ResultCharged
  <2> QED
    BY <2>1, <2>2, <2>3
<1>7. ASSUME NEW j \in Job PROVE RowCharged(j)'
  <2>1. (Rescheduled(j) => Rescheduled(j)') /\ (InFlight(j) => InFlight(j)')
    BY <1>1, <1>3, ChargeAppend
  <2>2. RowCharged(j)
    BY DEF ChargeInv
  <2> QED
    BY <1>1, <2>1, <2>2 DEF RowCharged
<1>8. QueueIsDue'
  BY <1>1, <1>2 DEF ChargeInv, QueueIsDue
<1> QED
  BY <1>6, <1>7, <1>8 DEF ChargeInv

\* The awaited call comes back: its outcome accounts for the call, or the call
\* is one of the lost.
LEMMA ChargeConclude ==
  ASSUME TypeOK, TypeOK', BatchInv, ChargeInv, calling \in Job,
         NEW outcome \in Outcome, NEW state \in OutboxState,
         NEW attempts \in Nat, NEW after \in Nat,
         Conclude(outcome, state, attempts, after),
         \A j \in Job : j # calling => lost'[j] = lost[j] /\ holdUntil'[j] = holdUntil[j],
         \/ outcome \in Called /\ lost'[calling] = lost[calling]
         \/ lost'[calling] = lost[calling] + 1,
         holdUntil'[calling] = holdUntil[calling] \/ outcome = "retry_scheduled",
         refused \subseteq refused',
         outcome # "error" =>
           /\ attempts <= calls[calling]
           /\ state = "reserved" =>
                /\ attempts < Policy.maxAttempts
                /\ calls[calling] <= attempts + lost'[calling]
                /\ holdUntil'[calling] <= now + after
           /\ state = "dead_letter"
                => calling \in refused' \/ calls[calling] >= Policy.maxAttempts
  PROVE  ChargeInv'
<1> DEFINE r == [job |-> calling, outcome |-> outcome, state |-> state,
                 attempts |-> attempts, after |-> after]
<1>1. /\ results' = Append(results, r) /\ calling' = None
      /\ UNCHANGED <<now, row, batchNow, queue, calls>>
  BY DEF Conclude
<1>2. r \in Result /\ r.job = calling /\ r.outcome = outcome
  BY DEF Result
<1>3. \A i \in DOMAIN results : results[i].job # calling
  BY DEF BatchInv, InOnePlace
<1>4. ASSUME NEW x, x = r PROVE ResultCharged(x)'
  <2>1. /\ x.job = calling /\ x.outcome = outcome /\ x.state = state
        /\ x.attempts = attempts /\ x.after = after
    BY <1>4
  <2> QED
    BY <1>1, <2>1 DEF ResultCharged
<1> HIDE DEF r
<1>5. ASSUME NEW i \in DOMAIN results' PROVE ResultCharged(results[i])'
  <2>1. \/ i \in DOMAIN results /\ results'[i] = results[i]
        \/ results'[i] = r
    BY <1>1, <1>2, AppendShape
  <2>2. CASE i \in DOMAIN results /\ results'[i] = results[i]
    <3>1. ResultCharged(results[i]) /\ results[i].job # calling
      BY <1>3, <2>2 DEF ChargeInv
    <3>2. results[i].job \in Job
      BY <2>2, ResultNumbers
    <3> QED
      BY <1>1, <2>2, <3>1, <3>2 DEF ResultCharged
  <2>3. CASE results'[i] = r
    BY <1>4, <2>3 DEF ResultCharged
  <2> QED
    BY <2>1, <2>2, <2>3
<1>6. ASSUME NEW j \in Job, j # calling PROVE RowCharged(j)'
  <2>1. (Rescheduled(j) => Rescheduled(j)') /\ (InFlight(j) => InFlight(j)')
    BY <1>1, <1>2, <1>6, ChargeAppend
  <2>2. RowCharged(j) /\ j # calling'
    BY <1>1, WorkerAssumption DEF ChargeInv
  <2>3. /\ lost'[j] = lost[j] /\ holdUntil'[j] = holdUntil[j]
        /\ row'[j] = row[j] /\ calls'[j] = calls[j]
    BY <1>1, <1>6
  <2> QED
    BY <2>1, <2>2, <2>3 DEF RowCharged
<1>7. ASSUME NEW j \in Job, j = calling PROVE RowCharged(j)'
  <2>1. RowCharged(j) /\ j # calling'
    BY <1>1, WorkerAssumption DEF ChargeInv
  <2>2. /\ calls[j] \in Nat /\ lost[j] \in Nat /\ row[j].attempts \in Nat
        /\ Policy.maxAttempts \in Nat
    BY RowNumbers, BudgetIsPositive
  <2>3. lost'[j] = lost[j] \/ lost'[j] = lost[j] + 1
    BY <1>7
  <2>4. ~InFlight(j)' => lost'[j] = lost[j] + 1
    BY <1>1, <1>2, <1>7, ChargeAppend
  <2>5. outcome = "retry_scheduled" => Rescheduled(j)'
    BY <1>1, <1>2, <1>7, ChargeAppend
  <2>6. ~Rescheduled(j)
    BY <1>3, <1>7 DEF Rescheduled
  <2>7. row'[j] = row[j] /\ calls'[j] = calls[j]
    BY <1>1
  <2>8. calls'[j] <= Policy.maxAttempts + lost'[j]
    BY <2>1, <2>2, <2>3, <2>7 DEF RowCharged
  <2>9. ASSUME row[j].state = "reserved"
        PROVE  /\ row[j].attempts < Policy.maxAttempts
               /\ calls'[j] <= row[j].attempts + lost'[j] + 1
               /\ ~InFlight(j)' => calls'[j] <= row[j].attempts + lost'[j]
               /\ ~Rescheduled(j)' => holdUntil'[j] <= row[j].due
    <3>1. /\ row[j].attempts < Policy.maxAttempts
          /\ calls[j] <= row[j].attempts + lost[j] + 1
          /\ holdUntil[j] <= row[j].due
      BY <2>1, <2>6, <2>9 DEF RowCharged
    <3>2. ~InFlight(j)' => calls'[j] <= row[j].attempts + lost'[j]
      BY <2>2, <2>4, <2>7, <3>1
    <3>3. ~Rescheduled(j)' => holdUntil'[j] <= row[j].due
      BY <1>7, <2>5, <3>1
    <3>4. calls'[j] <= row[j].attempts + lost'[j] + 1
      BY <2>2, <2>3, <2>7, <3>1
    <3> QED
      BY <3>1, <3>2, <3>3, <3>4
  <2>10. row[j].state = "dead_letter" => j \in refused' \/ calls'[j] >= Policy.maxAttempts
    BY <2>1, <2>7 DEF RowCharged
  <2>11. row[j].attempts <= calls'[j]
    BY <2>1, <2>7 DEF RowCharged
  <2> QED
    BY <2>1, <2>7, <2>8, <2>9, <2>10, <2>11 DEF RowCharged
<1>8. QueueIsDue'
  BY <1>1 DEF ChargeInv, QueueIsDue
<1> QED
  BY <1>5, <1>6, <1>7, <1>8 DEF ChargeInv

\* The first outcome is written to its row, which then accounts for its calls.
LEMMA ChargePersist ==
  ASSUME TypeOK, TypeOK', BatchInv, ChargeInv, Persist
  PROVE  ChargeInv'
<1> DEFINE r == Head(results)
<1>1. /\ results \in Seq(Result) /\ results # <<>> /\ results' = Tail(results)
      /\ calling = None /\ queue = <<>>
      /\ UNCHANGED <<now, batchNow, queue, calling, calls, lost, refused, holdUntil>>
  BY DEF TypeOK, Persist, history
<1>2. 1 \in DOMAIN results /\ r = results[1] /\ r \in Result /\ r.job \in Job
  <2>1. 1 \in DOMAIN results /\ r = results[1]
    BY <1>1
  <2> QED
    BY <2>1, ResultNumbers
<1>3. \A i \in DOMAIN results' :
        i \in Nat /\ i # 0 /\ i + 1 \in DOMAIN results /\ results'[i] = results[i + 1]
  BY <1>1
<1>4. \A i \in DOMAIN results : i # 1 => i - 1 \in DOMAIN results' /\ results'[i - 1] = results[i]
  BY <1>1
<1>5. \A j \in Job : j # r.job => row'[j] = row[j]
  BY DEF Persist, TypeOK
<1>6. r.outcome = "error" => row' = row
  BY DEF Persist
<1>7. r.outcome # "error"
        => /\ row'[r.job].state = r.state /\ row'[r.job].attempts = r.attempts
           /\ row'[r.job].due = now + r.after
  BY <1>2 DEF Persist, TypeOK
<1>8. ResultCharged(r)
  BY <1>2 DEF ChargeInv
<1>9. \A i \in DOMAIN results : i # 1 => results[i].job # r.job
  BY <1>2 DEF BatchInv, InOnePlace
<1> HIDE DEF r
<1>10. ASSUME NEW i \in DOMAIN results' PROVE ResultCharged(results[i])'
  <2>1. results'[i] = results[i + 1] /\ ResultCharged(results[i + 1])
    BY <1>3, <1>10 DEF ChargeInv
  <2> QED
    BY <1>1, <2>1 DEF ResultCharged
\* Only the outcome written leaves what is in flight.
<1>11. ASSUME NEW j \in Job, j # r.job PROVE RowCharged(j)'
  <2>1. (Rescheduled(j) => Rescheduled(j)') /\ (InFlight(j) => InFlight(j)')
    BY <1>1, <1>2, <1>4, <1>11 DEF Rescheduled, InFlight
  <2>2. RowCharged(j) /\ row'[j] = row[j]
    BY <1>5, <1>11 DEF ChargeInv
  <2> QED
    BY <1>1, <2>1, <2>2 DEF RowCharged
<1>12. ASSUME NEW j \in Job, j = r.job, r.outcome = "error" PROVE RowCharged(j)'
  <2>1. ~InFlight(j) /\ ~Rescheduled(j)
    BY <1>1, <1>2, <1>9, <1>12, WorkerAssumption DEF InFlight, Rescheduled, Called
  <2>2. RowCharged(j) /\ row' = row
    BY <1>6, <1>12 DEF ChargeInv
  <2>3. UNCHANGED <<calling, calls, lost, refused, holdUntil>>
    BY <1>1
  <2> QED
    BY <2>1, <2>2, <2>3 DEF RowCharged
<1>13. ASSUME NEW j \in Job, j = r.job, r.outcome # "error" PROVE RowCharged(j)'
  <2>1. /\ row'[j].state = r.state /\ row'[j].attempts = r.attempts
        /\ row'[j].due = now + r.after
    BY <1>7, <1>13
  <2>2. RowCharged(j)
    BY DEF ChargeInv
  <2>3. /\ calls[j] <= Policy.maxAttempts + lost[j]
        /\ r.attempts <= calls[j]
        /\ r.state = "reserved" =>
             /\ r.attempts < Policy.maxAttempts
             /\ calls[j] <= r.attempts + lost[j]
             /\ holdUntil[j] <= now + r.after
        /\ r.state = "dead_letter" => j \in refused \/ calls[j] >= Policy.maxAttempts
    BY <1>8, <1>13, <2>2 DEF RowCharged, ResultCharged
  <2>4. r.attempts \in Nat /\ lost[j] \in Nat /\ calls[j] \in Nat
    BY <1>2, RowNumbers DEF Result
  <2>5. r.state = "reserved" => calls[j] <= r.attempts + lost[j] + 1
    BY <2>3, <2>4
  <2>6. calling' # j
    BY <1>1, WorkerAssumption
  <2>7. UNCHANGED <<calls, lost, refused, holdUntil>>
    BY <1>1
  <2> QED
    BY <2>1, <2>3, <2>5, <2>6, <2>7 DEF RowCharged
<1> QED
  BY <1>1, <1>10, <1>11, <1>12, <1>13 DEF ChargeInv, QueueIsDue

\* A dropped batch books the calls in flight as lost.
LEMMA ChargeDrop ==
  ASSUME TypeOK, TypeOK', ChargeInv, DropBatch
  PROVE  ChargeInv'
<1>1. /\ queue' = <<>> /\ results' = <<>> /\ calling' = None
      /\ UNCHANGED <<row, calls, refused>>
  BY DEF DropBatch
<1>2. ASSUME NEW j \in Job PROVE RowCharged(j)'
  <2>1. RowCharged(j) /\ j # calling'
    BY <1>1, WorkerAssumption DEF ChargeInv
  <2>2. InFlight(j) <=> j \in Unwritten
    BY DEF InFlight, Called, Unwritten, ResultsSet
  <2>3. Rescheduled(j) => InFlight(j)
    BY DEF InFlight, Rescheduled, Called
  <2>4. /\ lost'[j] = IF j \in Unwritten THEN lost[j] + 1 ELSE lost[j]
        /\ holdUntil'[j] = IF j \in Unwritten THEN 0 ELSE holdUntil[j]
    BY DEF DropBatch
  <2>5. /\ calls[j] \in Nat /\ lost[j] \in Nat /\ row[j].attempts \in Nat
        /\ row[j].due \in Nat /\ Policy.maxAttempts \in Nat
    BY RowNumbers, BudgetIsPositive
  <2>6. calls[j] <= Policy.maxAttempts + lost'[j]
    BY <2>1, <2>4, <2>5 DEF RowCharged
  <2>7. row[j].state = "reserved" =>
          /\ calls[j] <= row[j].attempts + lost'[j]
          /\ holdUntil'[j] <= row[j].due
    BY <2>1, <2>2, <2>3, <2>4, <2>5 DEF RowCharged
  <2>8. lost'[j] \in Nat
    BY <2>4, <2>5
  <2>9. row[j].state = "reserved" => calls[j] <= row[j].attempts + lost'[j] + 1
    BY <2>5, <2>7, <2>8
  <2> QED
    BY <1>1, <2>1, <2>6, <2>7, <2>9 DEF RowCharged
<1> QED
  BY <1>1, <1>2 DEF ChargeInv, QueueIsDue

\* A call begins for a row with attempts left whose time has come.
LEMMA ChargeBegin ==
  ASSUME TypeOK, TypeOK', BatchInv, BreakerInv, ChargeInv, BeginSubmit
  PROVE  /\ ChargeInv'
         /\ now >= holdUntil[calling']
<1>1. /\ queue # <<>> /\ queue' = Tail(queue) /\ calling' = Current /\ calling = None
      /\ row[Current].state = "reserved"
      /\ calls' = [calls EXCEPT ![Current] = @ + 1]
      /\ UNCHANGED <<now, row, batchNow, results, lost, refused, holdUntil>>
  BY DEF BeginSubmit, Ready, Processing
<1>2. /\ Current \in Job /\ Current = queue[1] /\ 1 \in DOMAIN queue
      /\ \A i \in DOMAIN results : results[i].job # Current
      /\ \A i \in DOMAIN queue' : i + 1 \in DOMAIN queue /\ queue'[i] = queue[i + 1]
  <2>1. queue \in Seq(Job)
    BY DEF TypeOK
  <2> QED
    BY <1>1, <2>1, HeadLeavesQueue DEF Current
<1>3. ~InFlight(Current) /\ ~Rescheduled(Current)
  BY <1>1, <1>2, WorkerAssumption DEF InFlight, Rescheduled
<1>4. PICK c \in Job : c = Current
  BY <1>2
<1>5. RowCharged(c)
  BY DEF ChargeInv
<1>6. /\ calls'[c] = calls[c] + 1
      /\ \A j \in Job : j # c => calls'[j] = calls[j]
  BY <1>1, <1>4 DEF TypeOK
<1>7. /\ calls[c] \in Nat /\ lost[c] \in Nat /\ row[c].attempts \in Nat
      /\ Policy.maxAttempts \in Nat
  BY RowNumbers, BudgetIsPositive
<1>8. ASSUME NEW i \in DOMAIN results' PROVE ResultCharged(results[i])'
  <2>1. ResultCharged(results[i]) /\ results[i].job # c /\ i \in DOMAIN results
    BY <1>1, <1>2, <1>4, <1>8 DEF ChargeInv
  <2>2. results[i].job \in Job
    BY <2>1, ResultNumbers
  <2> QED
    BY <1>1, <1>6, <2>1, <2>2 DEF ResultCharged
<1>9. ASSUME NEW j \in Job, j # c PROVE RowCharged(j)'
  <2>1. (Rescheduled(j) <=> Rescheduled(j)') /\ (InFlight(j) => InFlight(j)')
    BY <1>1, WorkerAssumption DEF Rescheduled, InFlight
  <2>2. RowCharged(j) /\ calls'[j] = calls[j] /\ calling' # j
    BY <1>1, <1>4, <1>6, <1>9 DEF ChargeInv
  <2> QED
    BY <1>1, <2>1, <2>2 DEF RowCharged
<1>10. ASSUME NEW j \in Job, j = c PROVE RowCharged(j)'
  <2>1. /\ row[j].state = "reserved" /\ row[j].attempts < Policy.maxAttempts
        /\ calls[j] <= row[j].attempts + lost[j] /\ row[j].attempts <= calls[j]
        /\ holdUntil[j] <= row[j].due
    BY <1>1, <1>3, <1>4, <1>5, <1>10 DEF RowCharged
  <2>2. InFlight(j)'
    BY <1>1, <1>4, <1>10 DEF InFlight
  <2>3. calls'[j] = calls[j] + 1
    BY <1>6, <1>10
  <2>4. /\ calls'[j] <= Policy.maxAttempts + lost[j]
        /\ calls'[j] <= row[j].attempts + lost[j] + 1
        /\ row[j].attempts < calls'[j] /\ row[j].attempts <= calls'[j]
    BY <1>7, <1>10, <2>1, <2>3
  <2> QED
    BY <1>1, <2>1, <2>2, <2>4 DEF RowCharged
<1>11. QueueIsDue'
  BY <1>1, <1>2 DEF ChargeInv, QueueIsDue
<1>12. now >= holdUntil[c]
  <2>1. holdUntil[c] <= row[c].due
    BY <1>1, <1>3, <1>4, <1>5 DEF RowCharged
  <2>2. row[c].due <= batchNow /\ batchNow <= now
    BY <1>2, <1>4 DEF ChargeInv, QueueIsDue, BreakerInv
  <2>3. now \in Nat /\ batchNow \in Nat
    BY DEF TypeOK
  <2> QED
    BY <2>1, <2>2, <2>3, RowNumbers
<1> QED
  BY <1>1, <1>4, <1>8, <1>9, <1>10, <1>11, <1>12 DEF ChargeInv

\* A batch opens on rows that are due.
LEMMA ChargeStart ==
  ASSUME TypeOK, ChargeInv, NEW s \in Offers, StartBatch(s)
  PROVE  ChargeInv'
<1> DEFINE n == SmallerOf(Len(s), MaxBatchSize)
<1>1. s \in Seq(Job) /\ \A i \in DOMAIN s : row[s[i]].due <= now
  BY DEF Offers
<1>2. n \in 0 .. Len(s)
  BY <1>1, WorkerAssumption DEF SmallerOf
<1>3. queue' = SubSeq(s, 1, n) /\ batchNow' = now
  BY DEF StartBatch, Selected
<1> HIDE DEF n
<1>4. \A i \in DOMAIN queue' : i \in DOMAIN s /\ queue'[i] = s[i]
  BY <1>1, <1>2, <1>3
<1>5. UNCHANGED <<now, row, calling, results, calls, lost, refused, holdUntil>>
  BY DEF StartBatch, history
<1>6. QueueIsDue'
  BY <1>1, <1>3, <1>4, <1>5 DEF QueueIsDue
<1>7. ASSUME NEW j \in Job PROVE RowCharged(j)'
  <2>1. (Rescheduled(j) <=> Rescheduled(j)') /\ (InFlight(j) <=> InFlight(j)')
    BY <1>5 DEF Rescheduled, InFlight
  <2>2. RowCharged(j)
    BY DEF ChargeInv
  <2> QED
    BY <1>5, <2>1, <2>2 DEF RowCharged
<1> QED
  BY <1>5, <1>6, <1>7 DEF ChargeInv, ResultCharged

LEMMA ChargeStep ==
  TypeOK /\ BatchInv /\ BreakerInv /\ ChargeInv /\ [Next]_vars => ChargeInv'
<1> SUFFICES ASSUME TypeOK, BatchInv, BreakerInv, ChargeInv, [Next]_vars
             PROVE  ChargeInv'
  OBVIOUS
<1>a. TypeOK'
  BY TypeStep
<1>b. calling # None => calling \in Job /\ row[calling].state = "reserved"
  BY DEF TypeOK, BatchInv
\* A job that is being called has attempts left, and one call more than it shows.
<1>c. ASSUME calling # None
      PROVE  /\ calling \in Job
             /\ row[calling].attempts \in Nat /\ row[calling].attempts < Policy.maxAttempts
             /\ row[calling].attempts + 1 <= calls[calling]
             /\ calls[calling] <= row[calling].attempts + lost[calling] + 1
             /\ calls[calling] \in Nat /\ lost[calling] \in Nat
             /\ RecordFailedAttempt(row[calling].attempts) = row[calling].attempts + 1
             /\ Policy.maxAttempts \in Nat
  <2>1. calling \in Job /\ row[calling].state = "reserved" /\ RowCharged(calling)
    BY <1>b, <1>c DEF ChargeInv
  <2>2. /\ row[calling].attempts \in Nat /\ calls[calling] \in Nat
        /\ lost[calling] \in Nat /\ Policy.maxAttempts \in Nat
    BY <2>1, RowNumbers, BudgetIsPositive
  <2>3. /\ row[calling].attempts < Policy.maxAttempts
        /\ row[calling].attempts < calls[calling]
        /\ calls[calling] <= row[calling].attempts + lost[calling] + 1
    BY <2>1 DEF RowCharged
  <2> QED
    BY <2>1, <2>2, <2>3 DEF RecordFailedAttempt, Exhausted
<1>1. ASSUME NEW s \in Offers, StartBatch(s) PROVE ChargeInv'
  BY <1>1, ChargeStart
<1>2. CASE RefuseNotReady
  BY <1>2, <1>a, ChargeRefuse DEF RefuseNotReady, Outcome
<1>3. CASE RefuseCircuitOpen
  <2>1. openUntil - batchNow \in Nat
    BY <1>3 DEF TypeOK, RefuseCircuitOpen, CircuitOpen
  <2> QED
    BY <1>3, <1>a, <2>1, ChargeRefuse DEF RefuseCircuitOpen, Ready, Outcome
<1>4. CASE RefuseRateLimited
  <2>1. lastAttempt + MinInterval - batchNow \in Nat
    <3>1. MinInterval \in Nat /\ batchNow \in Nat
      BY WorkerAssumption DEF TypeOK
    <3>2. lastAttempt \in Nat /\ batchNow < lastAttempt + MinInterval
      BY <1>4 DEF TypeOK, RefuseRateLimited, Limited
    <3> QED
      BY <3>1, <3>2
  <2> QED
    BY <1>4, <1>a, <2>1, ChargeRefuse DEF RefuseRateLimited, Ready, Outcome
<1>5. CASE RefuseInvalidRequest
  BY <1>5, <1>a, ChargeRefuse DEF RefuseInvalidRequest, Ready, Outcome
<1>6. CASE BeginSubmit
  BY <1>6, <1>a, ChargeBegin
<1>7. CASE GatewayTakes
  <2>1. /\ now' \in Nat /\ now <= now'
        /\ UNCHANGED <<row, batchNow, queue, calling, results, calls, lost,
                       refused, holdUntil>>
    BY <1>7 DEF GatewayTakes, TypeOK, batch, history
  <2> QED
    BY <2>1, ChargeFrame
<1>8. ASSUME NEW r \in Replies, ReceiveReceipt(r) PROVE ChargeInv'
  <2>1. /\ calling # None
        /\ Conclude("submitted", OutboxStateForReceipt(r.status), row[calling].attempts, 0)
        /\ UNCHANGED <<lost, refused, holdUntil>>
    BY <1>8 DEF ReceiveReceipt
  <2>2. /\ OutboxStateForReceipt(r.status) \in {"sent", "delivered", "rejected"}
        /\ OutboxStateForReceipt(r.status) \in OutboxState
    BY DEF OutboxStateForReceipt, OutboxState
  <2>3. row[calling].attempts <= calls[calling]
    BY <1>c, <2>1
  <2> QED
    BY <1>a, <1>c, <2>1, <2>2, <2>3, ChargeConclude DEF Outcome, Called
<1>9. ASSUME NEW r \in Replies, ScheduleRetry(r) PROVE ChargeInv'
  <2> DEFINE n == row[calling].attempts + 1
             after == RetryAfter(n, r.hint)
  <2>1. calling \in Job /\ calling # None /\ r.hint \in Nat
    BY <1>9, <1>b, ReplyShape DEF ScheduleRetry
  <2>2. /\ n \in Nat /\ n <= calls[calling]
        /\ calls[calling] <= n + lost[calling]
        /\ RecordFailedAttempt(row[calling].attempts) = n
    BY <1>c, <2>1
  <2>3. n \in 1 .. Policy.maxAttempts - 1 /\ n < Policy.maxAttempts
    BY <1>9, <2>1, <2>2, RecordedAttempts, BudgetIsPositive DEF ScheduleRetry
  <2>4. after \in Nat /\ after >= Policy.baseDelay /\ after >= r.hint
    BY <2>1, <2>3, RetryAfterBounds
  <2>5. LargerOf(r.hint, Policy.baseDelay) <= after
    BY <2>4 DEF LargerOf
  <2>6. /\ Conclude("retry_scheduled", "reserved", n, after)
        /\ UNCHANGED <<lost, refused>>
        /\ holdUntil' = [holdUntil EXCEPT ![calling] = now + LargerOf(r.hint, Policy.baseDelay)]
    BY <1>9, <2>2 DEF ScheduleRetry
  <2>7. LargerOf(r.hint, Policy.baseDelay) \in Nat
    BY <2>1, WorkerAssumption, UMaxIsPositive DEF LargerOf, ValidPolicy, Word
  <2> HIDE DEF n, after
  <2>8. /\ holdUntil'[calling] = now + LargerOf(r.hint, Policy.baseDelay)
        /\ \A j \in Job : j # calling => holdUntil'[j] = holdUntil[j]
    BY <2>1, <2>6 DEF TypeOK
  <2>9. holdUntil'[calling] <= now + after
    <3>1. now \in Nat
      BY DEF TypeOK
    <3> QED
      BY <2>4, <2>5, <2>7, <2>8, <3>1
  <2>10. /\ calling \in Job /\ n \in Nat /\ after \in Nat
         /\ Conclude("retry_scheduled", "reserved", n, after)
         /\ UNCHANGED <<lost, refused>>
         /\ \A j \in Job : j # calling => holdUntil'[j] = holdUntil[j]
         /\ n <= calls[calling] /\ n < Policy.maxAttempts
         /\ calls[calling] <= n + lost[calling]
         /\ holdUntil'[calling] <= now + after
    BY <2>1, <2>2, <2>3, <2>4, <2>6, <2>8, <2>9
  <2> QED
    BY <1>a, <2>10, ChargeConclude DEF Outcome, OutboxState, Called
<1>10. ASSUME NEW r \in Replies, DeadLetter(r) PROVE ChargeInv'
  <2> DEFINE n == row[calling].attempts + 1
  <2>1. calling # None /\ EndsInDeadLetter(r) /\ NoteRefusal(r.kind)
    BY <1>10 DEF DeadLetter
  <2>2. /\ calling \in Job /\ n \in Nat /\ n <= calls[calling]
        /\ RecordFailedAttempt(row[calling].attempts) = n
    BY <1>c, <2>1
  <2>3. Conclude("dead_lettered", "dead_letter", n, 0) /\ UNCHANGED <<lost, holdUntil>>
    BY <1>10, <2>2 DEF DeadLetter
  <2>4. refused \subseteq refused'
    BY <2>1 DEF NoteRefusal
  <2>5. calling \in refused' \/ calls[calling] >= Policy.maxAttempts
    <3>1. CASE r.kind \notin RetryableKinds
      BY <2>1, <3>1 DEF NoteRefusal
    <3>2. CASE Exhausted(n)
      BY <1>c, <2>1, <2>2, <3>2 DEF Exhausted
    <3> QED
      BY <2>1, <2>2, <3>1, <3>2 DEF EndsInDeadLetter
  <2> HIDE DEF n
  <2> QED
    BY <1>a, <2>2, <2>3, <2>4, <2>5, ChargeConclude DEF Outcome, OutboxState, Called
<1>11. ASSUME NEW r \in Replies, FailToDeadLetter(r) PROVE ChargeInv'
  <2>1. /\ calling # None
        /\ Conclude("error", row[calling].state, row[calling].attempts, 0)
        /\ NoteRefusal(r.kind) /\ UNCHANGED holdUntil
        /\ lost' = [lost EXCEPT ![calling] = @ + 1]
    BY <1>11 DEF FailToDeadLetter
  <2>2. calling \in Job
    BY <1>c, <2>1
  <2>3. row[calling].attempts \in Nat /\ row[calling].state \in OutboxState
    BY <2>2 DEF TypeOK, Row
  <2>4. refused \subseteq refused'
    BY <2>1 DEF NoteRefusal
  <2>5. /\ lost'[calling] = lost[calling] + 1
        /\ \A j \in Job : j # calling => lost'[j] = lost[j]
    BY <2>1, <2>2 DEF TypeOK
  <2> QED
    BY <1>a, <2>1, <2>2, <2>3, <2>4, <2>5, ChargeConclude DEF Outcome
<1>12. CASE Persist
  BY <1>12, <1>a, ChargePersist
<1>13. CASE Crash \/ Cancel
  BY <1>13, <1>a, ChargeDrop DEF Crash, Cancel
<1>14. CASE Tick
  <2>1. /\ now' \in Nat /\ now <= now'
        /\ UNCHANGED <<row, batchNow, queue, calling, results, calls, lost,
                       refused, holdUntil>>
    BY <1>14 DEF Tick, TypeOK, batch, history
  <2> QED
    BY <2>1, ChargeFrame
<1>15. CASE UNCHANGED vars
  <2>1. /\ now' \in Nat /\ now <= now'
        /\ UNCHANGED <<row, batchNow, queue, calling, results, calls, lost,
                       refused, holdUntil>>
    BY <1>15 DEF vars, TypeOK, batch, history
  <2> QED
    BY <2>1, ChargeFrame
<1> QED
  BY <1>1, <1>2, <1>3, <1>4, <1>5, <1>6, <1>7, <1>8, <1>9, <1>10, <1>11, <1>12,
     <1>13, <1>14, <1>15 DEF Next, ProcessOnce, SubmitReturns

\* What follows from the charges.
LEMMA ChargesSuffice ==
  ChargeInv => AttemptBudget /\ DeadLetterIsEarned
BY DEF ChargeInv, RowCharged, AttemptBudget, DeadLetterIsEarned

\* A job costs the gateway max_attempts calls, plus one for each call whose
\* outcome was lost.
THEOREM AttemptsAreBudgeted == Spec => []AttemptBudget
  BY ChargeInit, ChargeStep, ChargesSuffice, BatchInit, BatchStep, BreakerInit,
     BreakerStep, TypeCorrect, PTL DEF Spec

\* A row goes to the dead letter after max_attempts calls or an error that must
\* not be retried.
THEOREM DeadLettersAreEarned == Spec => []DeadLetterIsEarned
  BY ChargeInit, ChargeStep, ChargesSuffice, BatchInit, BatchStep, BreakerInit,
     BreakerStep, TypeCorrect, PTL DEF Spec

\* No call begins before the delay of the job's last recorded failure.
THEOREM RetriesWait == Spec => RetryWaits
<1>1. TypeOK /\ BatchInv /\ BreakerInv /\ ChargeInv /\ [Next]_vars
        => [BeginsCall => now >= holdUntil[calling']]_vars
  BY TypeStep, OnlyBeginSubmitCalls, ChargeBegin
<1> QED
  BY <1>1, ChargeInit, ChargeStep, BatchInit, BatchStep, BreakerInit, BreakerStep,
     TypeCorrect, PTL DEF Spec, RetryWaits

-----------------------------------------------------------------------------
(***************************************************************************)
(* The worker with the partner access point as its gateway: it is the      *)
(* worker still, so everything above holds of it, and what the partner     *)
(* makes of its calls is bounded by their number.                          *)
(***************************************************************************)
LEMMA PartnerStep ==
  ASSUME PartnerReplies \subseteq Replies, [PartnerNext]_partnerVars
  PROVE  [Next]_vars
<1>1. CASE PartnerTakes
  BY <1>1 DEF PartnerTakes, Next
<1>2. CASE PartnerAnswers
  <2>1. PICK answer \in Answer :
          LET r == DecodeSubmitResponse(answer) IN
          ReceiveReceipt(r) \/ ScheduleRetry(r) \/ DeadLetter(r)
    BY <1>2 DEF PartnerAnswers
  <2>2. DecodeSubmitResponse(answer) \in Replies
    BY DEF PartnerReplies
  <2> QED
    BY <2>1, <2>2 DEF SubmitReturns, Next
<1>3. CASE \E s \in Offers : StartBatch(s)
  BY <1>3 DEF Next
<1>4. CASE ProcessOnce \/ Persist \/ Crash \/ Cancel \/ Tick
  BY <1>4 DEF Next
<1>5. CASE UNCHANGED partnerVars
  BY <1>5 DEF partnerVars
<1> QED
  BY <1>1, <1>2, <1>3, <1>4, <1>5 DEF PartnerNext

(***************************************************************************)
(* Whatever the partner answers and however it treats a document it has,   *)
(* the worker that calls it is the worker of TransmissionWorker.           *)
(***************************************************************************)
THEOREM PartnerWorkerIsWorker ==
  ASSUME PartnerReplies \subseteq Replies
  PROVE  PartnerSpec => Spec
<1>1. PartnerInit => Init
  BY DEF PartnerInit
<1>2. [PartnerNext]_partnerVars => [Next]_vars
  BY PartnerStep
<1> QED
  BY <1>1, <1>2, PTL DEF PartnerSpec, Spec

\* Every submission of the partner is paid by a call, and a call that has not
\* reached it pays for one more.
OnItsWay(j) == IF calling = j /\ arrived = None THEN 1 ELSE 0

SubmissionInv ==
  /\ submissions \in [Job -> Nat]
  /\ \A j \in Job : submissions[j] + OnItsWay(j) <= calls[j]
  /\ Recognises => \A j \in Job : submissions[j] <= 1

LEMMA SubmissionStep ==
  ASSUME TypeOK, SubmissionInv, [PartnerNext]_partnerVars
  PROVE  SubmissionInv'
<1>0. /\ calls \in [Job -> Nat] /\ submissions \in [Job -> Nat] /\ None \notin Job
      /\ \A j \in Job : submissions[j] + OnItsWay(j) <= calls[j]
      /\ \A j \in Job : OnItsWay(j) \in {0, 1}
      /\ Recognises => \A j \in Job : submissions[j] <= 1
  BY WorkerAssumption DEF WorkerAssumption, TypeOK, SubmissionInv, OnItsWay
<1>1. CASE PartnerTakes
  <2>1. /\ calling \in Job /\ arrived = None /\ arrived' = calling
        /\ calling' = calling /\ calls' = calls
        /\ submissions' = IF Known(calling) THEN submissions
                          ELSE [submissions EXCEPT ![calling] = @ + 1]
    BY <1>1 DEF TypeOK, PartnerTakes, GatewayTakes, batch, history
  <2>2. \A j \in Job : OnItsWay(j)' = 0
    BY <1>0, <2>1 DEF OnItsWay
  <2>3. OnItsWay(calling) = 1
    BY <2>1 DEF OnItsWay
  <2>4. \A j \in Job : submissions'[j] <= calls[j]
    BY <1>0, <2>1, <2>3
  <2>5. Recognises => \A j \in Job : submissions'[j] <= 1
    BY <1>0, <2>1 DEF Known
  <2> QED
    BY <1>0, <2>1, <2>2, <2>4, <2>5 DEF SubmissionInv
<1>2. CASE BeginSubmit /\ UNCHANGED submissions
  <2>1. /\ Current \in Job /\ calling = None /\ calling' = Current
        /\ calls' = [calls EXCEPT ![Current] = @ + 1]
    BY <1>2 DEF BeginSubmit, TypeOK, Current, Ready, Processing
  <2>2. \A j \in Job : OnItsWay(j) = 0 /\ (j # Current => OnItsWay(j)' = 0)
    BY <1>0, <2>1 DEF OnItsWay
  <2>3. ASSUME NEW j \in Job PROVE submissions[j] + OnItsWay(j)' <= calls'[j]
    <3>1. submissions[j] \in Nat /\ calls[j] \in Nat /\ submissions[j] <= calls[j]
      BY <1>0, <2>2
    <3>2. CASE j = Current
      <4>1. calls'[j] = calls[j] + 1
        BY <1>0, <2>1, <3>2
      <4>2. OnItsWay(j)' \in {0, 1}
        BY DEF OnItsWay
      <4> QED
        BY <3>1, <4>1, <4>2
    <3>3. CASE j # Current
      <4>1. calls'[j] = calls[j] /\ OnItsWay(j)' = 0
        BY <1>0, <2>1, <2>2, <3>3
      <4> QED
        BY <3>1, <4>1
    <3> QED
      BY <3>2, <3>3
  <2> QED
    BY <1>0, <1>2, <2>3 DEF SubmissionInv
<1>3. CASE /\ UNCHANGED <<submissions, calls>>
           /\ calling' = None \/ UNCHANGED <<calling, arrived>>
  <2>1. \A j \in Job : OnItsWay(j)' \in {0, OnItsWay(j)}
    BY <1>0, <1>3 DEF OnItsWay
  <2>2. \A j \in Job : submissions[j] + OnItsWay(j)' <= calls[j]
    BY <1>0, <2>1
  <2> QED
    BY <1>0, <1>3, <2>2 DEF SubmissionInv
<1>4. CASE PartnerAnswers
  BY <1>3, <1>4 DEF PartnerAnswers, ReceiveReceipt, ScheduleRetry, DeadLetter, Conclude
<1>5. CASE (\E s \in Offers : StartBatch(s)) /\ UNCHANGED submissions
  BY <1>3, <1>5 DEF StartBatch, gateway, history
<1>6. CASE /\ RefuseNotReady \/ RefuseCircuitOpen \/ RefuseRateLimited
                \/ RefuseInvalidRequest
           /\ UNCHANGED submissions
  BY <1>3, <1>6 DEF RefuseNotReady, RefuseCircuitOpen, RefuseRateLimited,
     RefuseInvalidRequest, Refuse, gateway, history
<1>7. CASE (Persist \/ Tick) /\ UNCHANGED submissions
  BY <1>3, <1>7 DEF Persist, Tick, batch, gateway, history
<1>8. CASE (Crash \/ Cancel) /\ UNCHANGED submissions
  BY <1>3, <1>8 DEF Crash, Cancel, DropBatch
<1>9. CASE UNCHANGED partnerVars
  BY <1>3, <1>9 DEF partnerVars, vars, batch, gateway, history
<1> QED
  BY <1>1, <1>2, <1>4, <1>5, <1>6, <1>7, <1>8, <1>9 DEF PartnerNext, ProcessOnce

(***************************************************************************)
(* A document becomes no more submissions at the partner than the budget   *)
(* allows calls, and one with a partner that recognises what it has.       *)
(***************************************************************************)
THEOREM DuplicatesAreBudgeted ==
  ASSUME PartnerReplies \subseteq Replies
  PROVE  PartnerSpec => []SubmissionsAreBudgeted
<1>1. PartnerSpec => [](TypeOK /\ AttemptBudget)
  BY PartnerWorkerIsWorker, TypeCorrect, AttemptsAreBudgeted, PTL
<1>2. PartnerInit => SubmissionInv
  BY WorkerAssumption DEF WorkerAssumption, PartnerInit, Init, SubmissionInv, OnItsWay
<1>3. TypeOK /\ SubmissionInv /\ [PartnerNext]_partnerVars => SubmissionInv'
  BY SubmissionStep
<1>4. PartnerSpec => []SubmissionInv
  BY <1>1, <1>2, <1>3, PTL DEF PartnerSpec
<1>5. TypeOK /\ AttemptBudget /\ SubmissionInv => SubmissionsAreBudgeted
  <2> SUFFICES ASSUME TypeOK, AttemptBudget, SubmissionInv
               PROVE  SubmissionsAreBudgeted
    OBVIOUS
  <2>1. ASSUME NEW j \in Job PROVE submissions[j] <= Policy.maxAttempts + lost[j]
    <3>1. /\ submissions[j] \in Nat /\ calls[j] \in Nat /\ lost[j] \in Nat
          /\ Policy.maxAttempts \in Nat
          /\ OnItsWay(j) \in {0, 1} /\ submissions[j] + OnItsWay(j) <= calls[j]
          /\ calls[j] <= Policy.maxAttempts + lost[j]
      BY WorkerAssumption DEF WorkerAssumption, ValidPolicy, TypeOK, AttemptBudget,
                              SubmissionInv, OnItsWay
    <3> QED
      BY <3>1
  <2> QED
    BY <2>1 DEF SubmissionInv, SubmissionsAreBudgeted, OneSubmissionPerKey
<1> QED
  BY <1>1, <1>4, <1>5, PTL
=============================================================================
