------------------------------- MODULE SmpCache -------------------------------
(***************************************************************************)
(* PeppolClient::lookup of crates/peppol-smp-sml over its TtlCache: a      *)
(* lookup asks the cache under the lock, on a miss resolves and fetches    *)
(* without it, and puts the answer in the cache under the lock again with  *)
(* a fresh time to live.                                                   *)
(*                                                                         *)
(* One participant and document type: keys do not meet in the cache.  The  *)
(* SML and SMP directories and the clock are external.                     *)
(***************************************************************************)
EXTENDS Naturals

CONSTANTS
  Looker,    \* threads that share the client
  Ttl,       \* default_ttl, in ticks
  Nothing,   \* no entry, no answer
  \* Bounds of the model.
  MaxTime,   \* the clock stops here
  MaxAccess   \* changes of the participant's access point

ASSUME CacheAssumption ==
  {Ttl, MaxTime, MaxAccess} \subseteq Nat /\ Nothing \notin Nat

VARIABLES
  time,       \* Instant::now()
  access,     \* the access point registered now, by number
  entry,      \* the cache entry: [value, expiresAt]
  stage,      \* where each lookup is
  answer,     \* what its fetch returned, or its last answer
  \* History, read by properties only.
  leftAt,     \* when each former access point was given up
  fetchedAt,  \* when each lookup's answer was read from the directory
  slowest     \* longest time from a read of the directory to its put

cacheVars == <<time, access, entry, stage, answer, leftAt, fetchedAt, slowest>>

CacheTypeOK ==
  /\ time \in 0 .. MaxTime
  /\ access \in 0 .. MaxAccess
  /\ entry \in [value : 0 .. MaxAccess, expiresAt : Nat] \union {Nothing}
  /\ stage \in [Looker -> {"idle", "missed", "fetched"}]
  /\ answer \in [Looker -> 0 .. MaxAccess \union {Nothing}]
  /\ leftAt \in [0 .. MaxAccess -> 0 .. MaxTime \union {Nothing}]
  /\ fetchedAt \in [Looker -> 0 .. MaxTime]
  /\ slowest \in 0 .. MaxTime

CacheInit ==
  /\ time = 0 /\ access = 0 /\ entry = Nothing
  /\ stage = [l \in Looker |-> "idle"]
  /\ answer = [l \in Looker |-> Nothing]
  /\ leftAt = [n \in 0 .. MaxAccess |-> Nothing]
  /\ fetchedAt = [l \in Looker |-> 0]
  /\ slowest = 0

-----------------------------------------------------------------------------
\* Mutant: an entry lives one instant too long.
DiesLate == entry # Nothing => time > entry.expiresAt

\* TtlCache::get finds no entry, or one that has expired.
Dead == entry # Nothing => time >= entry.expiresAt

\* The participant moves to another access point.
Move ==
  /\ access < MaxAccess
  /\ access' = access + 1
  /\ leftAt' = [leftAt EXCEPT ![access] = time]
  /\ UNCHANGED <<time, entry, stage, answer, fetchedAt, slowest>>

Hit(l) ==
  /\ stage[l] = "idle" /\ ~Dead
  /\ answer' = [answer EXCEPT ![l] = entry.value]
  /\ UNCHANGED <<time, access, entry, stage, leftAt, fetchedAt, slowest>>

\* get removes an entry that has expired.
Miss(l) ==
  /\ stage[l] = "idle" /\ Dead
  /\ entry' = Nothing
  /\ stage' = [stage EXCEPT ![l] = "missed"]
  /\ UNCHANGED <<time, access, answer, leftAt, fetchedAt, slowest>>

\* resolve_smp and fetch_smp_metadata read the directory.
Fetch(l) ==
  /\ stage[l] = "missed"
  /\ stage' = [stage EXCEPT ![l] = "fetched"]
  /\ answer' = [answer EXCEPT ![l] = access]
  /\ fetchedAt' = [fetchedAt EXCEPT ![l] = time]
  /\ UNCHANGED <<time, access, entry, leftAt, slowest>>

\* One of them fails, or the answer does not parse: lookup returns the error.
FailFetch(l) ==
  /\ stage[l] = "missed"
  /\ stage' = [stage EXCEPT ![l] = "idle"]
  /\ answer' = [answer EXCEPT ![l] = Nothing]
  /\ UNCHANGED <<time, access, entry, leftAt, fetchedAt, slowest>>

\* TtlCache::insert, over whatever another lookup has put there meanwhile.
Put(l) ==
  LET age == time - fetchedAt[l] IN
  /\ stage[l] = "fetched"
  /\ stage' = [stage EXCEPT ![l] = "idle"]
  /\ entry' = [value |-> answer[l], expiresAt |-> time + Ttl]
  /\ slowest' = IF age > slowest THEN age ELSE slowest
  /\ UNCHANGED <<time, access, answer, leftAt, fetchedAt>>

CacheTick ==
  /\ time < MaxTime
  /\ time' = time + 1
  /\ UNCHANGED <<access, entry, stage, answer, leftAt, fetchedAt, slowest>>

CacheNext ==
  \/ Move \/ CacheTick
  \/ \E l \in Looker : Hit(l) \/ Miss(l) \/ Fetch(l) \/ FailFetch(l) \/ Put(l)

CacheSpec == CacheInit /\ [][CacheNext]_cacheVars

-----------------------------------------------------------------------------
(***************************************************************************)
(* The cache answers with an access point that was given up only within    *)
(* the time to live of that moment, and the time the slowest answer was on *)
(* its way to the cache: a late answer takes the place of a newer one with *)
(* a fresh time to live, but no sequence of puts and hits keeps an old one *)
(* alive for longer (lookup, 258-283, and TtlCache::get, 45-55).           *)
(***************************************************************************)
HitsAreRecent ==
  ~Dead /\ leftAt[entry.value] # Nothing
    => time < leftAt[entry.value] + Ttl + slowest
=============================================================================
