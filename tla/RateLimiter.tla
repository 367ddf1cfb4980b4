----------------------------- MODULE RateLimiter -----------------------------
(***************************************************************************)
(* TokenBucketRateLimiter of services/managed-api-server: one bucket per   *)
(* tenant (of one route), refilled by the clock readings its callers bring *)
(* along.  A caller reads the clock before it takes the lock, so readings  *)
(* may reach the bucket in another order than they were made.              *)
(*                                                                         *)
(* Levels are counted in parts of a token, so that the refill of one tick  *)
(* is whole.  The code computes in floating point numbers: a refill and a  *)
(* wait may come out wrong by a rounding.  The fields of a policy are      *)
(* public and unchecked: a bucket may hold no token, or never be refilled. *)
(***************************************************************************)
EXTENDS Integers

CONSTANTS
  Tenant,
  None,         \* the absent value
  Capacity,     \* RateLimitPolicy::capacity, in tokens
  TokenParts,   \* parts of one token
  RefillParts,  \* RateLimitPolicy::refill_per_second, in parts per tick
  Rounding,     \* parts by which a floating point result may be off
  WaitMax,      \* u32::MAX, where a wait saturates
  HeaderTicks,  \* ticks in the unit of the Retry-After header
  \* Bound of the model.
  MaxRoundings  \* results for each tenant that are off

Full == Capacity * TokenParts
BucketState == [tokens : 0 .. Full, lastRefill : Nat]
Promise == [until : Nat, rounded : Nat]

ASSUME LimiterAssumption ==
  /\ None \notin BucketState /\ None \notin Promise
  /\ {TokenParts, WaitMax, HeaderTicks} \subseteq Nat \ {0}
  /\ {Capacity, RefillParts, Rounding, MaxRoundings} \subseteq Nat

VARIABLES
  now,      \* the monotonic clock, in ticks (milliseconds of the code)
  bucket,   \* each tenant's BucketState, None before its first request
  \* History, read by properties only.
  granted,  \* tokens each tenant was granted
  opened,   \* the reading that created the bucket
  regained, \* ticks by which a reading was older than the one before it
  rounded,  \* results that were off
  promise   \* the earliest reading a refusal since the last grant promised,
            \* and what was rounded before

limiterHistory == <<granted, opened, regained, rounded, promise>>
limiterVars == <<now, bucket, limiterHistory>>

Lesser(a, b) == IF a <= b THEN a ELSE b
Larger(a, b) == IF a >= b THEN a ELSE b
CeilDiv(a, b) == (a + b - 1) \div b

LimiterTypeOK ==
  /\ now \in Nat
  /\ bucket \in [Tenant -> BucketState \union {None}]
  /\ granted \in [Tenant -> Nat]
  /\ opened \in [Tenant -> Nat]
  /\ regained \in [Tenant -> Nat]
  /\ rounded \in [Tenant -> 0 .. MaxRoundings]
  /\ promise \in [Tenant -> Promise \union {None}]

LimiterInit ==
  /\ now = 0
  /\ bucket = [t \in Tenant |-> None]
  /\ granted = [t \in Tenant |-> 0]
  /\ opened = [t \in Tenant |-> 0]
  /\ regained = [t \in Tenant |-> 0]
  /\ rounded = [t \in Tenant |-> 0]
  /\ promise = [t \in Tenant |-> None]

-----------------------------------------------------------------------------
\* Mutants: the bucket is not capped; a refusal adds the refill but leaves the
\* old refill time; the wait is rounded down; the readings are subtracted the
\* wrong way round.
Uncapped(b, at, e) ==
  b.tokens + (IF at >= b.lastRefill THEN at - b.lastRefill ELSE 0) * RefillParts + e
RefillTimeOfGrants(b, at, level) ==
  IF level >= TokenParts THEN [tokens |-> level - TokenParts, lastRefill |-> at]
                         ELSE [tokens |-> level, lastRefill |-> b.lastRefill]
WaitRoundedDown(level, e) ==
  Lesser(WaitMax, Larger(1, (TokenParts - level) \div RefillParts))
ElapsedBackwards(since, at) == IF at <= since THEN since - at ELSE 0

\* entry(key).or_insert: the bucket as a reading finds it.
Found(t, at) ==
  IF bucket[t] = None THEN [tokens |-> Full, lastRefill |-> at] ELSE bucket[t]

\* checked_duration_since(..).unwrap_or(ZERO)
Elapsed(since, at) == IF at >= since THEN at - since ELSE 0

\* The sum, off by e, which never falls below what was there.
Refilled(b, at, e) ==
  Lesser(Full, Larger(b.tokens,
                      b.tokens + Elapsed(b.lastRefill, at) * RefillParts + e))

Grants(level) == level >= TokenParts

\* What a take leaves, and it leaves its own reading even if that is older.
Touched(b, at, level) ==
  [tokens |-> IF Grants(level) THEN level - TokenParts ELSE level,
   lastRefill |-> at]

\* retry_after_ms: a quotient off by e is rounded up and cast to a u32, and so
\* is the infinite one where nothing is refilled.
RetryAfter(level, e) ==
  IF RefillParts = 0 THEN WaitMax
  ELSE Lesser(WaitMax,
              Larger(1, CeilDiv(Larger(0, TokenParts - level + e), RefillParts)))

\* The Retry-After header of ApiError::into_response, back in ticks.
RetryAfterHeader(wait) == HeaderTicks * Larger(1, CeilDiv(wait, HeaderTicks))

Level(t, at, e) == Refilled(Found(t, at), at, e)

Errors == -Rounding .. Rounding
Off(e) == IF e = 0 THEN 0 ELSE 1

\* What an addition of nothing, and a wait that is not asked for, cannot be off.
Roundable(t, at, e, w) ==
  /\ e # 0 => Elapsed(Found(t, at).lastRefill, at) * RefillParts > 0
  /\ w # 0 => ~Grants(Level(t, at, e))
  /\ rounded[t] + Off(e) + Off(w) <= MaxRoundings

\* A wait that saturates is no promise.
Promising(old, at, wait, before) ==
  IF wait < WaitMax /\ (old # None => at + wait < old.until)
  THEN [until |-> at + wait, rounded |-> before] ELSE old

\* take_at, under the lock, with the reading at; its refill is off by e and its
\* wait by w.
Take(t, at, e, w) ==
  LET b == Found(t, at)  level == Level(t, at, e) IN
  /\ Roundable(t, at, e, w)
  /\ bucket' = [bucket EXCEPT ![t] = Touched(b, at, level)]
  /\ opened' = IF bucket[t] = None THEN [opened EXCEPT ![t] = at] ELSE opened
  /\ regained' = [regained EXCEPT ![t] = @ + Elapsed(at, b.lastRefill)]
  /\ granted' = IF Grants(level) THEN [granted EXCEPT ![t] = @ + 1] ELSE granted
  /\ rounded' = [rounded EXCEPT ![t] = @ + Off(e) + Off(w)]
  /\ promise' = [promise EXCEPT ![t] =
                   IF Grants(level) THEN None
                   ELSE Promising(@, at, RetryAfter(level, w), rounded[t] + Off(e))]
  /\ UNCHANGED now

-----------------------------------------------------------------------------
(***************************************************************************)
(* A tenant is granted at most the burst and the refill of the time since  *)
(* its first request.  The excess is what roundings add and what unordered *)
(* readings give back: every tick by which one was older than the one      *)
(* before it is refilled again, and nothing else is (take_at, 136-145).    *)
(***************************************************************************)
RateHolds ==
  \A t \in Tenant :
    granted[t] * TokenParts
      <= Full + (now - opened[t] + regained[t]) * RefillParts + rounded[t] * Rounding

(***************************************************************************)
(* A refused caller that comes back after its retry_after_ms is served,    *)
(* unless another request of its tenant was served meanwhile, or lacks no  *)
(* more of a token than was lost by rounding since it was told: refusals,  *)
(* also those with older readings, do not put it off further (take_at,     *)
(* 136-155).  A bucket without room for a token, and a wait that reached   *)
(* u32::MAX, promise nothing.                                              *)
(***************************************************************************)
RetryAfterSuffices ==
  [][\A t \in Tenant :
       /\ bucket'[t] # bucket[t] /\ promise[t] # None /\ Capacity > 0
       /\ bucket'[t].lastRefill >= promise[t].until
       => \/ granted'[t] = granted[t] + 1
          \/ TokenParts <= bucket'[t].tokens
                             + (rounded'[t] - promise[t].rounded) * Rounding]_limiterVars
=============================================================================
