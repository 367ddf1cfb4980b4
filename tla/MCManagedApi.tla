---------------------------- MODULE MCManagedApi ----------------------------
(***************************************************************************)
(* Values of the constants of ManagedApi for TLC.                          *)
(***************************************************************************)
EXTENDS ManagedApi, TLC

CONSTANTS c1, c2, tA, tB   \* model values: clients and tenants

MCOwner == [c \in Client |-> tA]

\* One client asks for the reads in too large pages, the other for all events
\* and leaves the size out.
MCFilter ==
  (c1 :> [kinds |-> {"read"}, since |-> 0, until |-> 9, size |-> 9])
  @@ (c2 :> [kinds |-> {"read", "denied"}, since |-> 0, until |-> 9, size |-> 0])

Logged(id, tenant, at) ==
  [id |-> id, tenant |-> tenant, kind |-> IF id = 2 THEN "denied" ELSE "read", at |-> at]

\* Three events of one tenant, appended in any order, and one of another.
MCEvent ==
  {Logged(1, tA, 1), Logged(2, tA, 2), Logged(3, tA, 3), Logged(4, tB, 1)}
=============================================================================
