------------------------- MODULE AtLeastOnceDelivery -------------------------
(***************************************************************************)
(* What the outbox promises for each row, without the worker: the document *)
(* may reach the gateway any number of times while the row is reserved;    *)
(* the row is settled once, as sent, delivered or rejected only after the  *)
(* document did reach the gateway, and a settled row is neither reopened   *)
(* nor handed to the gateway again.                                        *)
(***************************************************************************)
CONSTANT Job

VARIABLES status,   \* the state column of each row
          reached   \* the jobs whose document ever reached the gateway

vars == <<status, reached>>

Init ==
  /\ status = [j \in Job |-> "reserved"]
  /\ reached = {}

Reach(j) ==
  /\ status[j] = "reserved"
  /\ reached' = reached \union {j}
  /\ UNCHANGED status

Settle(j, s) ==
  /\ status[j] = "reserved"
  /\ s \in {"sent", "delivered", "rejected"} => j \in reached
  /\ status' = [status EXCEPT ![j] = s]
  /\ UNCHANGED reached

Next ==
  \E j \in Job :
    \/ Reach(j)
    \/ \E s \in {"sent", "delivered", "rejected", "dead_letter"} : Settle(j, s)

Spec == Init /\ [][Next]_vars
=============================================================================
