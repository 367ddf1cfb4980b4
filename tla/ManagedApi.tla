----------------------------- MODULE ManagedApi -----------------------------
(***************************************************************************)
(* GET /v1/audit/events of services/managed-api-server: a request is       *)
(* authenticated, passes the rate limiter of its tenant and reads one page *)
(* of the audit log.  Its handler takes the limiter's lock and the log's   *)
(* one after the other, so requests interleave between them.               *)
(*                                                                         *)
(* Around it stand the producers of audit events and clients that walk     *)
(* the log from its first page to its last and heed Retry-After.           *)
(***************************************************************************)
EXTENDS RateLimiter, AuditLog

CONSTANTS
  Client,   \* each walks the log once, one request at a time
  Owner,    \* the tenant each client's API key resolves to
  Filter,   \* what each client asks for: [kinds, since, until, size]
  \* Bounds of the model.
  MaxNow,   \* the clock stops here
  MaxLag    \* ticks while a request could be sent or is under way

ASSUME ApiAssumption ==
  /\ Event \subseteq [id : Nat, tenant : Tenant, kind : STRING, at : Nat]
  /\ IsFiniteSet(Event)
  /\ DefaultSize \in Nat \ {0} /\ MaxSize \in Nat \ {0}
  /\ Owner \in [Client -> Tenant]
  /\ Filter \in [Client -> [kinds : SUBSET STRING, since : Nat, until : Nat,
                              size : Nat]]
  /\ MaxNow \in Nat /\ MaxLag \in Nat

VARIABLES
  phase,      \* where each client's request is
  reading,    \* the clock reading its handler made
  notBefore,  \* when the client may ask again
  cursor,     \* the next_cursor it holds, 0 for none
  lag,        \* ticks of MaxLag used up
  \* History, read by properties only.
  snapshot,   \* what the client's filter matched at its first page
  seen,       \* the events of the pages so far
  twice       \* events that were on two pages

apiVars == <<limiterVars, log, phase, reading, notBefore, cursor, lag,
             snapshot, seen, twice>>

Phase == {"idle", "timed", "served", "done"}

ApiTypeOK ==
  /\ LimiterTypeOK
  /\ log \subseteq Event
  /\ phase \in [Client -> Phase]
  /\ reading \in [Client -> Nat]
  /\ notBefore \in [Client -> Nat]
  /\ cursor \in [Client -> Nat]
  /\ lag \in Nat
  /\ snapshot \in [Client -> SUBSET Event]
  /\ seen \in [Client -> SUBSET Event]
  /\ twice \in [Client -> SUBSET Event]

ApiInit ==
  /\ LimiterInit
  /\ log = {}
  /\ phase = [c \in Client |-> "idle"]
  /\ reading = [c \in Client |-> 0]
  /\ notBefore = [c \in Client |-> 0]
  /\ cursor = [c \in Client |-> 0]
  /\ lag = 0
  /\ snapshot = [c \in Client |-> {}]
  /\ seen = [c \in Client |-> {}]
  /\ twice = [c \in Client |-> {}]

walkHistory == <<snapshot, seen, twice>>

-----------------------------------------------------------------------------
\* A producer appends an event, or one it had already appended again.
Append(e) ==
  /\ log' = Appended(e)
  /\ UNCHANGED <<limiterVars, phase, reading, notBefore, cursor, lag, walkHistory>>

\* authenticate, and the reading of the clock in take: the handler is on its
\* way to the bucket.
Arrive(c) ==
  /\ phase[c] = "idle" /\ notBefore[c] <= now
  /\ phase' = [phase EXCEPT ![c] = "timed"]
  /\ reading' = [reading EXCEPT ![c] = now]
  /\ UNCHANGED <<limiterVars, log, notBefore, cursor, lag, walkHistory>>

\* rate_limit_check: on to the log, or a 429 with its Retry-After.
CheckRate(c) ==
  \E e, w \in Errors :
    LET t == Owner[c]  level == Level(t, reading[c], e) IN
    /\ phase[c] = "timed"
    /\ Take(t, reading[c], e, w)
    /\ phase' = [phase EXCEPT ![c] = IF Grants(level) THEN "served" ELSE "idle"]
    /\ notBefore' =
         IF Grants(level) THEN notBefore
         ELSE [notBefore EXCEPT ![c] = now + RetryAfterHeader(RetryAfter(level, w))]
    /\ UNCHANGED <<log, reading, cursor, lag, walkHistory>>

Query(c) == [tenant |-> Owner[c], kinds |-> Filter[c].kinds,
             since |-> Filter[c].since, until |-> Filter[c].until,
             size |-> Clamped(Filter[c].size)]

\* handle_audit_query, and the client that reads the answer.
ReadPage(c) ==
  LET page == Page(Query(c), cursor[c]) IN
  /\ phase[c] = "served"
  /\ cursor' = [cursor EXCEPT ![c] = page.next]
  /\ phase' = [phase EXCEPT ![c] = IF page.next = 0 THEN "done" ELSE "idle"]
  /\ snapshot' = IF cursor[c] = 0
                 THEN [snapshot EXCEPT ![c] = Matching(Query(c))] ELSE snapshot
  /\ seen' = [seen EXCEPT ![c] = @ \union page.events]
  /\ twice' = [twice EXCEPT ![c] = @ \union (seen[c] \intersect page.events)]
  /\ UNCHANGED <<limiterVars, log, reading, notBefore, lag>>

\* Time passes when every client waits for its Retry-After, and for up to
\* MaxLag ticks beside requests that are or could be under way.
Tick ==
  /\ now < MaxNow
  /\ now' = now + 1
  /\ \/ /\ \A c \in Client : \/ phase[c] = "done"
                             \/ phase[c] = "idle" /\ now < notBefore[c]
        /\ UNCHANGED lag
     \/ lag < MaxLag /\ lag' = lag + 1
  /\ UNCHANGED <<bucket, limiterHistory, log, phase, reading, notBefore, cursor,
                 walkHistory>>

ApiNext ==
  \/ \E e \in Event : Append(e)
  \/ \E c \in Client : Arrive(c) \/ CheckRate(c) \/ ReadPage(c)
  \/ Tick

ApiSpec == ApiInit /\ [][ApiNext]_apiVars

\* Requests are sent and answered, and time passes.
ApiFairSpec ==
  /\ ApiSpec
  /\ \A c \in Client : WF_apiVars(Arrive(c) \/ CheckRate(c) \/ ReadPage(c))
  /\ WF_apiVars(Tick)

-----------------------------------------------------------------------------
(***************************************************************************)
(* A walk misses nothing that was there when it began, although events are *)
(* sorted in before, between and after the pages it has read, and although *)
(* its cursor is a mere offset: events only move away from it              *)
(* (InMemoryAuditStore::query, 282-320).                                   *)
(***************************************************************************)
WalkMissesNothing ==
  \A c \in Client : phase[c] = "done" => snapshot[c] \subseteq seen[c]

(***************************************************************************)
(* A page repeats an event only if an event that is no later was appended  *)
(* since the walk began: over a log that grows at its end every event is   *)
(* read once (the offset cursor, 309-320).                                 *)
(***************************************************************************)
RepeatsComeFromLateEvents ==
  \A c \in Client : \A e \in twice[c] :
    \E f \in Matching(Query(c)) \ snapshot[c] : f.at <= e.at

(***************************************************************************)
(* Every walk ends: refusals end when their Retry-After has passed, though *)
(* clients of one tenant compete for its tokens, and the pages end.        *)
(***************************************************************************)
WalksEnd == \A c \in Client : <>(phase[c] = "done")
=============================================================================
