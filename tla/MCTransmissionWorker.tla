------------------------ MODULE MCTransmissionWorker ------------------------
(***************************************************************************)
(* Values of the constants of TransmissionWorker for TLC.                  *)
(***************************************************************************)
EXTENDS TransmissionWorker, TLC

CONSTANTS j1, j2, j3   \* model values: rows

Symmetry == Permutations({j1, j2})

\* Two attempts, delays of one second; three attempts, delays of 1 and 2.
TwoAttempts ==
  [maxAttempts |-> 2, baseDelay |-> 1, maxDelay |-> 1, jitterPercent |-> 0]
ThreeAttempts ==
  [maxAttempts |-> 3, baseDelay |-> 1, maxDelay |-> 2, jitterPercent |-> 100]

ZeroHash == [j \in Job |-> [n \in 1 .. Policy.maxAttempts |-> 0]]

PendingReceipt  == [ok |-> TRUE, status |-> "pending"]
RejectedReceipt == [ok |-> TRUE, status |-> "rejected"]
AcceptedReceipt == [ok |-> TRUE, status |-> "accepted"]
Error(kind, hint, textOk) ==
  [ok |-> FALSE, kind |-> kind, hint |-> hint, textOk |-> textOk]

\* One answer of each sort the worker tells apart.
AllSorts ==
  {PendingReceipt, RejectedReceipt,
   Error("timeout", 0, TRUE),                \* counts, retried
   Error("gateway_maintenance", 0, FALSE),   \* counts, retried, unprintable
   Error("rate_limited", 2, TRUE),           \* retried with a hint, not counted
   Error("auth_failure", 0, TRUE)}           \* neither

\* A receipt, and failures that count, that do not, and that ask for time.
Counting ==
  {AcceptedReceipt, Error("network_failure", 0, TRUE),
   Error("rate_limited", 2, TRUE)}

BlankErrors == {Error("gateway_maintenance", 0, FALSE)}
=============================================================================
