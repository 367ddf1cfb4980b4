------------------------------ MODULE AckStream ------------------------------
(***************************************************************************)
(* The acknowledgement stream of crates/managed-api (sse_ack.rs): producers *)
(* publish events into a tenant's stream, connections send the events that *)
(* sort after a cursor, and a client that lost its connection comes back   *)
(* with the last id it saw.                                                *)
(*                                                                         *)
(* The HTTP layer that polls events_since for the live tail and the wire   *)
(* are external.  Ids are numbers; their order is that of the code's       *)
(* strings.  Published events may arrive in any order of their ids.        *)
(***************************************************************************)
EXTENDS Naturals, Sequences, FiniteSets

CONSTANTS
  AckEvent,    \* records [tenant, id]
  Subscriber,  \* clients
  TenantOf,    \* the tenant of each client's TenantRequestContext
  BatchLimit,  \* the limit the HTTP layer passes on, possibly 0
  \* Bounds of the model.
  MaxDrops     \* connections that break

ASSUME AckAssumption ==
  /\ \A e \in AckEvent : e.id \in Nat \ {0}
  /\ TenantOf \in [Subscriber -> {e.tenant : e \in AckEvent}]
  /\ BatchLimit \in Nat /\ MaxDrops \in Nat

VARIABLES
  stream,    \* InMemoryAckStream::events
  connected, \* the clients that hold a connection
  sent,      \* cursor of each connection: the last id it sent
  wire,      \* ids sent and not yet received
  drops,     \* connections that broke
  received,  \* the ids each client was given, oldest first
  \* History, read by properties only.
  published,  \* events whose publish returned Ok
  late       \* events published behind the cursor of a client

ackVars == <<stream, connected, sent, wire, drops, received, published, late>>

Id == {e.id : e \in AckEvent}

AckTypeOK ==
  /\ stream \subseteq AckEvent
  /\ connected \subseteq Subscriber
  /\ sent \in [Subscriber -> Id \union {0}]
  /\ wire \in [Subscriber -> Seq(Id)]
  /\ drops \in 0 .. MaxDrops
  /\ received \in [Subscriber -> Seq(Id)]
  /\ published \subseteq AckEvent
  /\ late \in [Subscriber -> SUBSET AckEvent]

AckInit ==
  /\ stream = {} /\ connected = {}
  /\ sent = [c \in Subscriber |-> 0]
  /\ wire = [c \in Subscriber |-> <<>>]
  /\ drops = 0
  /\ received = [c \in Subscriber |-> <<>>]
  /\ published = {}
  /\ late = [c \in Subscriber |-> {}]

-----------------------------------------------------------------------------
\* Mutants: ids are unique in the whole stream; the newest events win a place in
\* the batch; the cursor's own event is sent again.
PublishedOnceForAll(e) ==
  IF \E f \in stream : f.id = e.id THEN stream ELSE stream \union {e}
NewestOf(ids, n) == {i \in ids : Cardinality({k \in ids : k > i}) < n}
AfterOrAt(tenant, cursor) ==
  {e.id : e \in {f \in stream : f.tenant = tenant /\ f.id >= cursor}}

\* publish: idempotent on tenant and id.
Published(e) ==
  IF \E f \in stream : f.tenant = e.tenant /\ f.id = e.id
  THEN stream ELSE stream \union {e}

Limit == IF BatchLimit = 0 THEN 1 ELSE BatchLimit

\* The events of a tenant that sort strictly after a cursor, 0 for none.
After(tenant, cursor) ==
  {e.id : e \in {f \in stream : f.tenant = tenant /\ f.id > cursor}}

OldestOf(ids, n) == {i \in ids : Cardinality({k \in ids : k < i}) < n}

\* events_since
EventsSince(tenant, cursor) == OldestOf(After(tenant, cursor), Limit)

InOrder(ids) ==
  CHOOSE s \in [1 .. Cardinality(ids) -> ids] :
    \A i, k \in 1 .. Cardinality(ids) : i < k => s[i] < s[k]

\* What EventSource holds as lastEventId.
LastEventId(c) ==
  IF received[c] = <<>> THEN 0 ELSE received[c][Len(received[c])]

\* Where the next event for a client is looked for.
Cursor(c) == IF c \in connected THEN sent[c] ELSE LastEventId(c)

\* A producer publishes an event, perhaps one it published before.
Publish(e) ==
  /\ stream' = Published(e)
  /\ published' = published \union {e}
  /\ late' = [c \in Subscriber |->
                IF e \notin stream /\ e.tenant = TenantOf[c] /\ e.id <= Cursor(c)
                THEN late[c] \union {e} ELSE late[c]]
  /\ UNCHANGED <<connected, sent, wire, drops, received>>

\* validate_subscription and build_reconnect_payload's cursor: a tenant other
\* than the caller's is refused before the connection opens.
Connect(c, requested) ==
  /\ c \notin connected
  /\ requested = TenantOf[c]
  /\ connected' = connected \union {c}
  /\ sent' = [sent EXCEPT ![c] = LastEventId(c)]
  /\ UNCHANGED <<stream, wire, drops, received, published, late>>

\* The connection sends what the stream holds after its cursor.
SendBatch(c) ==
  LET batch == EventsSince(TenantOf[c], sent[c]) IN
  /\ c \in connected /\ batch # {}
  /\ wire' = [wire EXCEPT ![c] = @ \o InOrder(batch)]
  /\ sent' = [sent EXCEPT ![c] = CHOOSE i \in batch : \A k \in batch : k <= i]
  /\ UNCHANGED <<stream, connected, drops, received, published, late>>

Receive(c) ==
  /\ c \in connected /\ wire[c] # <<>>
  /\ received' = [received EXCEPT ![c] = Append(@, Head(wire[c]))]
  /\ wire' = [wire EXCEPT ![c] = Tail(@)]
  /\ UNCHANGED <<stream, connected, sent, drops, published, late>>

\* The connection breaks, and what was on the wire is gone.
Disconnect(c) ==
  /\ c \in connected /\ drops < MaxDrops
  /\ drops' = drops + 1
  /\ connected' = connected \ {c}
  /\ wire' = [wire EXCEPT ![c] = <<>>]
  /\ UNCHANGED <<stream, sent, received, published, late>>

AckNext ==
  \/ \E e \in AckEvent : Publish(e)
  \/ \E c \in Subscriber :
       \/ \E t \in {e.tenant : e \in AckEvent} : Connect(c, t)
       \/ SendBatch(c) \/ Receive(c) \/ Disconnect(c)

AckSpec == AckInit /\ [][AckNext]_ackVars

\* Clients reconnect, connections send and the wire delivers.
AckProgress(c) == Connect(c, TenantOf[c]) \/ SendBatch(c) \/ Receive(c)

AckFairSpec == AckSpec /\ \A c \in Subscriber : WF_ackVars(AckProgress(c))

-----------------------------------------------------------------------------
(***************************************************************************)
(* A client is given each event once and in the order of the ids, across   *)
(* batches, broken connections and replays (events_since, 215-243).        *)
(***************************************************************************)
OnceAndInOrder ==
  \A c \in Subscriber : \A i, k \in DOMAIN received[c] :
    i < k => received[c][i] < received[c][k]

(***************************************************************************)
(* An event a client was not given although it was given a later one came  *)
(* late: it was published when a later one was already sent.  Nothing else *)
(* is skipped, whichever connection broke with what on the wire            *)
(* (events_since, 232-238).                                                *)
(***************************************************************************)
OnlyLateEventsAreSkipped ==
  \A c \in Subscriber : \A e \in stream :
    e.tenant = TenantOf[c] /\ e.id < LastEventId(c)
      => \/ e.id \in {received[c][i] : i \in DOMAIN received[c]}
         \/ e \in late[c]

(***************************************************************************)
(* Every event whose publish returned Ok reaches every client of its       *)
(* tenant, unless it came late: no retry of a producer, other tenant's     *)
(* event with the same id, limit or broken connection loses it (publish,   *)
(* 198-213, and the limit, 240).                                           *)
(***************************************************************************)
PublishedIsReceived ==
  \A c \in Subscriber : \A e \in AckEvent :
    e \in published /\ e.tenant = TenantOf[c]
      ~> \/ e.id \in {received[c][i] : i \in DOMAIN received[c]}
         \/ e \in late[c]
=============================================================================
