--------------------------- MODULE ManagedApiProofs ---------------------------
(***************************************************************************)
(* Theorems about the rate limiter and the audit log of the managed API,   *)
(* for any number of tenants, clients and events, any policy and pages of  *)
(* any size.                                                               *)
(***************************************************************************)
EXTENDS ManagedApi, FiniteSetTheorems, TLAPS

-----------------------------------------------------------------------------
(***************************************************************************)
(* Arithmetic.                                                             *)
(***************************************************************************)
\* Products of a sum and of a difference.
LEMMA Distributes ==
  ASSUME NEW a \in Int, NEW b \in Int, NEW c \in Int
  PROVE  /\ a * c \in Int /\ (a + b) * c = a * c + b * c
         /\ (a - b) * c = a * c - b * c
BY SMT

\* A product grows with its factor.
LEMMA Monotone ==
  ASSUME NEW a \in Int, NEW b \in Int, NEW c \in Nat, a <= b
  PROVE  a * c <= b * c
BY SMT

\* A quotient that is rounded up covers its dividend.
LEMMA CeilDivCovers ==
  ASSUME NEW a \in Nat, NEW b \in Nat \ {0}
  PROVE  /\ CeilDiv(a, b) \in Nat
         /\ CeilDiv(a, b) * b >= a
<1> DEFINE n == a + b - 1  q == n \div b
<1>1. n \in Nat
  OBVIOUS
<1>2. \A m \in Nat : /\ m \div b \in Nat /\ m % b \in Nat /\ m % b < b
                     /\ m = b * (m \div b) + (m % b)
  BY SMT
<1>3. /\ n \in Nat /\ q \in Nat /\ n % b \in Nat /\ n % b < b /\ n = b * q + (n % b)
  BY <1>1, <1>2
<1>4. b * q = q * b /\ q * b \in Nat
  BY <1>3, SMT
<1>5. q * b >= a
  BY <1>3, <1>4
<1> QED
  BY <1>3, <1>5 DEF CeilDiv

-----------------------------------------------------------------------------
(***************************************************************************)
(* The limiter.  What was granted and what is left came from the burst,    *)
(* the time up to the last refill and the roundings; and a promise is kept *)
(* by the refill from the last one on, up to the roundings since.          *)
(***************************************************************************)
PaidFor(t) ==
  /\ bucket[t] = None => granted[t] = 0 /\ regained[t] = 0
  /\ opened[t] <= now
  /\ bucket[t] # None =>
       /\ bucket[t].lastRefill <= now
       /\ opened[t] <= bucket[t].lastRefill + regained[t]
       /\ granted[t] * TokenParts + bucket[t].tokens
            <= Full + (bucket[t].lastRefill + regained[t] - opened[t]) * RefillParts
                 + rounded[t] * Rounding

\* What a level and its refill up to the promised reading lack of a token was
\* rounded away since the promise was made.
Reaches(level, at, p, off) ==
  /\ p.rounded <= off
  /\ level + Elapsed(at, p.until) * RefillParts + (off - p.rounded) * Rounding
       >= TokenParts

Promised(t) ==
  promise[t] # None /\ Capacity > 0 =>
    /\ bucket[t] # None
    /\ Reaches(bucket[t].tokens, bucket[t].lastRefill, promise[t], rounded[t])

LimiterInv ==
  LimiterTypeOK /\ \A t \in Tenant : PaidFor(t) /\ Promised(t)

\* A full bucket holds a token if there is room for one.
LEMMA FullCoversAToken == Full \in Nat /\ (Capacity > 0 => Full >= TokenParts)
BY LimiterAssumption, SMT DEF LimiterAssumption, Full

\* An error is at most one rounding.
LEMMA ErrorBounds ==
  ASSUME NEW e \in Errors
  PROVE  /\ e \in Int /\ Off(e) \in {0, 1} /\ Off(e) * Rounding \in Nat
         /\ e <= Off(e) * Rounding /\ 0 <= e + Off(e) * Rounding
<1> USE LimiterAssumption DEF LimiterAssumption
<1>1. e \in Int /\ Rounding \in Nat /\ e <= Rounding /\ 0 <= e + Rounding
  BY DEF Errors
<1>2. CASE e = 0
  BY <1>1, <1>2 DEF Off
<1>3. CASE e # 0
  BY <1>1, <1>3 DEF Off
<1> QED
  BY <1>2, <1>3

\* What a reading finds, and what its refill makes of it.
LEMMA LevelBounds ==
  ASSUME LimiterTypeOK, NEW t \in Tenant, NEW at \in Nat, NEW e \in Errors
  PROVE  LET b == Found(t, at)  level == Level(t, at, e)
             up == Elapsed(b.lastRefill, at)  lost == Off(e) * Rounding IN
         /\ b \in BucketState /\ b.tokens \in Nat /\ b.lastRefill \in Nat
         /\ level \in 0 .. Full /\ level \in Nat
         /\ up \in Nat /\ up * RefillParts \in Nat /\ lost \in Nat
         /\ Elapsed(at, b.lastRefill) \in Nat
         /\ level <= b.tokens + up * RefillParts + lost
         /\ level = Full \/ b.tokens + up * RefillParts <= level + lost
<1> USE LimiterAssumption, FullCoversAToken DEF LimiterAssumption
<1> DEFINE b == Found(t, at)  up == Elapsed(b.lastRefill, at)
           refill == up * RefillParts  lost == Off(e) * Rounding
<1>1. /\ b \in BucketState /\ b.tokens \in 0 .. Full /\ b.lastRefill \in Nat
      /\ Full \in Nat
  BY DEF LimiterTypeOK, Found, BucketState
<1>2. up \in Nat /\ Elapsed(at, b.lastRefill) \in Nat
  BY <1>1 DEF Elapsed
<1>3. refill \in Nat
  BY <1>2, SMT
<1>4. e \in Int /\ lost \in Nat /\ e <= lost /\ 0 <= e + lost
  BY ErrorBounds
<1>5. Level(t, at, e) = Lesser(Full, Larger(b.tokens, b.tokens + refill + e))
  BY DEF Level, Refilled
<1> HIDE DEF b, refill, lost, up
<1>6. /\ Level(t, at, e) \in 0 .. Full
      /\ Level(t, at, e) <= b.tokens + refill + lost
      /\ Level(t, at, e) = Full \/ b.tokens + refill <= Level(t, at, e) + lost
  BY <1>1, <1>3, <1>4, <1>5 DEF Lesser, Larger
<1> QED
  BY <1>1, <1>2, <1>3, <1>4, <1>6 DEF b, refill, lost, up

\* What a take changes, in the terms of the reading.
LEMMA TakeChanges ==
  ASSUME LimiterInv, NEW t \in Tenant, NEW at \in Nat,
         NEW e \in Errors, NEW w \in Errors, Take(t, at, e, w)
  PROVE  LET level == Level(t, at, e) IN
         /\ bucket'[t] \in BucketState /\ bucket'[t] # None
         /\ bucket'[t].lastRefill = at
         /\ bucket'[t].tokens = IF Grants(level) THEN level - TokenParts ELSE level
         /\ granted'[t] = IF Grants(level) THEN granted[t] + 1 ELSE granted[t]
         /\ opened'[t] = IF bucket[t] = None THEN at ELSE opened[t]
         /\ regained'[t] = regained[t] + Elapsed(at, Found(t, at).lastRefill)
         /\ rounded'[t] = rounded[t] + Off(e) + Off(w)
         /\ rounded'[t] \in 0 .. MaxRoundings
         /\ \A u \in Tenant \ {t} :
              /\ bucket'[u] = bucket[u] /\ granted'[u] = granted[u]
              /\ opened'[u] = opened[u] /\ regained'[u] = regained[u]
              /\ rounded'[u] = rounded[u] /\ promise'[u] = promise[u]
<1> USE LimiterAssumption DEF LimiterAssumption
<1> DEFINE b == Found(t, at)  level == Level(t, at, e)
<1>1. b \in BucketState /\ level \in 0 .. Full /\ Full \in Nat
  BY LevelBounds, FullCoversAToken DEF LimiterInv
<1>2. Touched(b, at, level) \in BucketState
  BY <1>1 DEF Touched, Grants, BucketState
<1>3. /\ Touched(b, at, level).lastRefill = at
      /\ Touched(b, at, level).tokens =
           IF Grants(level) THEN level - TokenParts ELSE level
  BY DEF Touched
<1>4. None \notin BucketState
  OBVIOUS
<1>5. /\ rounded'[t] = rounded[t] + Off(e) + Off(w)
      /\ rounded'[t] \in 0 .. MaxRoundings
  <2>1. Off(e) \in Nat /\ Off(w) \in Nat
    BY ErrorBounds
  <2>2. rounded[t] \in 0 .. MaxRoundings /\ rounded[t] + Off(e) + Off(w) <= MaxRoundings
    BY DEF Take, Roundable, LimiterInv, LimiterTypeOK
  <2>3. rounded'[t] = rounded[t] + Off(e) + Off(w)
    BY DEF Take, LimiterInv, LimiterTypeOK
  <2> QED
    BY <2>1, <2>2, <2>3
<1> QED
  BY <1>2, <1>3, <1>4, <1>5 DEF Take, LimiterInv, LimiterTypeOK

\* A take is paid for by the time its reading adds, which may be given back.
LEMMA TakeIsPaidFor ==
  ASSUME LimiterInv, NEW t \in Tenant, NEW at \in Nat, at <= now,
         NEW e \in Errors, NEW w \in Errors, Take(t, at, e, w)
  PROVE  PaidFor(t)'
<1> USE LimiterAssumption DEF LimiterAssumption
<1> DEFINE b == Found(t, at)  level == Level(t, at, e)
           up == Elapsed(b.lastRefill, at)  down == Elapsed(at, b.lastRefill)
           o == IF bucket[t] = None THEN at ELSE opened[t]
           since == b.lastRefill + regained[t] - o
           lost == Off(e) * Rounding  owed == rounded[t] * Rounding
<1>1. /\ b.tokens \in Nat /\ b.lastRefill \in Nat
      /\ level \in Nat /\ up \in Nat /\ down \in Nat /\ Full \in Nat
      /\ granted[t] \in Nat /\ regained[t] \in Nat /\ o \in Nat /\ o <= now
      /\ rounded[t] \in Nat /\ lost \in Nat
      /\ PaidFor(t) /\ RefillParts \in Nat /\ TokenParts \in Nat
      /\ level <= b.tokens + up * RefillParts + lost
  BY LevelBounds, FullCoversAToken DEF LimiterInv, LimiterTypeOK, PaidFor
<1>2. up - down = at - b.lastRefill
  BY <1>1 DEF Elapsed
<1>0. owed \in Nat
  BY <1>1, SMT
<1>3. /\ since \in Nat
      /\ granted[t] * TokenParts + b.tokens <= Full + since * RefillParts + owed
  <2>1. CASE bucket[t] = None
    <3>1. /\ b.tokens = Full /\ b.lastRefill = at /\ granted[t] = 0
          /\ regained[t] = 0 /\ since = 0
      BY <1>1, <2>1 DEF Found, PaidFor
    <3> HIDE DEF since, b, owed
    <3>2. granted[t] * TokenParts = 0 /\ since * RefillParts = 0
      BY <1>1, <3>1, SMT
    <3> QED
      BY <1>0, <1>1, <3>1, <3>2
  <2>2. CASE bucket[t] # None
    BY <1>1, <2>2 DEF Found, PaidFor
  <2> QED
    BY <2>1, <2>2
<1>5. /\ bucket'[t] # None /\ bucket'[t].lastRefill = at
      /\ bucket'[t].tokens = IF Grants(level) THEN level - TokenParts ELSE level
      /\ granted'[t] = IF Grants(level) THEN granted[t] + 1 ELSE granted[t]
      /\ opened'[t] = o /\ regained'[t] = regained[t] + down /\ now' = now
      /\ rounded'[t] = rounded[t] + Off(e) + Off(w)
  <2>1. now' = now
    BY DEF Take
  <2> QED
    BY <2>1, TakeChanges
<1>4. rounded'[t] * Rounding \in Nat /\ owed + lost <= rounded'[t] * Rounding
  <2>1. Off(e) \in Int /\ Off(w) \in Int /\ Rounding \in Int /\ Off(w) * Rounding \in Nat
    BY ErrorBounds
  <2>2. /\ (rounded[t] + Off(e)) * Rounding = owed + lost
        /\ (rounded[t] + Off(e) + Off(w)) * Rounding
             = (rounded[t] + Off(e)) * Rounding + Off(w) * Rounding
    BY <1>1, <2>1, Distributes
  <2> QED
    BY <1>0, <1>1, <1>5, <2>1, <2>2
<1>6. granted'[t] * TokenParts + bucket'[t].tokens = granted[t] * TokenParts + level
  <2>1. /\ (granted[t] + 1) * TokenParts = granted[t] * TokenParts + TokenParts
        /\ granted[t] * TokenParts \in Int
    BY <1>1, Distributes, SMT
  <2> QED
    BY <1>1, <1>5, <2>1
<1>7. /\ at + (regained[t] + down) - o = since + up
      /\ (since + up) * RefillParts = since * RefillParts + up * RefillParts
      /\ since * RefillParts \in Int /\ up * RefillParts \in Int
      /\ granted[t] * TokenParts \in Int
  <2>1. at + (regained[t] + down) - o = since + up
    <3>1. /\ up \in Nat /\ down \in Nat /\ regained[t] \in Nat /\ o \in Nat
          /\ b.lastRefill \in Nat
      BY <1>1
    <3> HIDE DEF up, down, o, b
    <3> QED
      BY <1>2, <3>1
  <2> HIDE DEF since, up
  <2>2. /\ (since + up) * RefillParts = since * RefillParts + up * RefillParts
        /\ since * RefillParts \in Int /\ up * RefillParts \in Int
    BY <1>1, <1>3, Distributes
  <2>3. granted[t] * TokenParts \in Int
    BY <1>1, Distributes
  <2> QED
    BY <2>1, <2>2, <2>3
<1>8. granted'[t] * TokenParts + bucket'[t].tokens
        <= Full + (bucket'[t].lastRefill + regained'[t] - opened'[t]) * RefillParts
             + rounded'[t] * Rounding
  <2> HIDE DEF owed, lost, level, b, up, since
  <2>1. granted[t] * TokenParts + level
          <= Full + (since * RefillParts + up * RefillParts) + (owed + lost)
    BY <1>0, <1>1, <1>3, <1>7
  <2>2. bucket'[t].lastRefill + regained'[t] - opened'[t] = since + up
    BY <1>5, <1>7
  <2> QED
    BY <1>0, <1>1, <1>4, <1>6, <1>7, <2>1, <2>2
<1>9. opened'[t] <= bucket'[t].lastRefill + regained'[t]
  BY <1>1, <1>3, <1>5, <1>7
<1> QED
  BY <1>1, <1>5, <1>8, <1>9 DEF PaidFor

\* The wait of a refusal refills what is lacking, up to one rounding.
LEMMA WaitRefills ==
  ASSUME LimiterAssumption, NEW level \in Nat, NEW w \in Errors
  PROVE  LET wait == RetryAfter(level, w) IN
         /\ wait \in Nat
         /\ wait < WaitMax =>
              level + wait * RefillParts + Off(w) * Rounding >= TokenParts
<1> USE DEF LimiterAssumption
<1> DEFINE missing == Larger(0, TokenParts - level + w)
           quotient == CeilDiv(missing, RefillParts)
           wait == RetryAfter(level, w)  lost == Off(w) * Rounding
<1>1. /\ w \in Int /\ lost \in Nat /\ 0 <= w + lost
      /\ WaitMax \in Nat /\ TokenParts \in Nat
  BY ErrorBounds
<1>2. CASE RefillParts = 0
  BY <1>1, <1>2 DEF RetryAfter
<1>3. CASE RefillParts # 0
  <2>1. missing \in Nat /\ missing >= TokenParts - level + w
    BY <1>1 DEF Larger
  <2> HIDE DEF missing
  <2>2. quotient \in Nat /\ quotient * RefillParts >= missing
    BY <1>3, <2>1, CeilDivCovers
  <2>3. wait = Lesser(WaitMax, Larger(1, quotient))
    BY <1>3 DEF RetryAfter, missing
  <2> HIDE DEF quotient, wait, lost
  <2>4. wait \in Nat /\ (wait < WaitMax => quotient <= wait)
    BY <1>1, <2>2, <2>3 DEF Lesser, Larger
  <2>5. wait < WaitMax => quotient * RefillParts <= wait * RefillParts
    BY <2>2, <2>4, Monotone
  <2>6. quotient * RefillParts \in Int /\ wait * RefillParts \in Int
    BY <2>2, <2>4, Distributes
  <2>7. wait < WaitMax => level + wait * RefillParts + lost >= TokenParts
    BY <1>1, <2>1, <2>2, <2>4, <2>5, <2>6
  <2> QED
    BY <2>4, <2>7 DEF wait, lost
<1> QED
  BY <1>2, <1>3

\* The readings of one refill are split where another comes between.
LEMMA ElapsedSplits ==
  ASSUME NEW a \in Nat, NEW b \in Nat, NEW c \in Nat
  PROVE  /\ Elapsed(a, c) \in Nat /\ Elapsed(a, b) \in Nat /\ Elapsed(b, c) \in Nat
         /\ Elapsed(a, c) * RefillParts
              <= Elapsed(a, b) * RefillParts + Elapsed(b, c) * RefillParts
<1> USE LimiterAssumption DEF LimiterAssumption
<1> DEFINE x == Elapsed(a, b)  y == Elapsed(b, c)  z == Elapsed(a, c)
<1>1. x \in Nat /\ y \in Nat /\ z \in Nat /\ z <= x + y
  BY DEF Elapsed
<1> HIDE DEF x, y, z
<1>2. z * RefillParts <= (x + y) * RefillParts
  BY <1>1, Monotone
<1>3. (x + y) * RefillParts = x * RefillParts + y * RefillParts
  BY <1>1, Distributes
<1>4. z * RefillParts <= x * RefillParts + y * RefillParts
  BY <1>2, <1>3
<1> QED
  BY <1>1, <1>4 DEF x, y, z

\* A refusal leaves a promise made before it in force.
LEMMA RefusalsKeepPromises ==
  ASSUME LimiterInv, NEW t \in Tenant, NEW at \in Nat,
         NEW e \in Errors, NEW w \in Errors, Take(t, at, e, w),
         Capacity > 0, promise[t] # None, ~Grants(Level(t, at, e))
  PROVE  Reaches(Level(t, at, e), at, promise[t], rounded'[t])
<1> USE LimiterAssumption DEF LimiterAssumption
<1> DEFINE b == Found(t, at)  level == Level(t, at, e)  p == promise[t]
           up == Elapsed(b.lastRefill, at) * RefillParts
           ahead == Elapsed(b.lastRefill, p.until) * RefillParts
           rest == Elapsed(at, p.until) * RefillParts
           lost == Off(e) * Rounding
           before == (rounded[t] - p.rounded) * Rounding
           after == (rounded'[t] - p.rounded) * Rounding
<1>1. /\ b.tokens \in Nat /\ b.lastRefill \in Nat /\ level \in Nat
      /\ up \in Nat /\ lost \in Nat /\ RefillParts \in Nat /\ TokenParts \in Nat
      /\ level = Full \/ b.tokens + up <= level + lost
  BY LevelBounds DEF LimiterInv
<1>2. /\ p \in Promise /\ p.until \in Nat /\ p.rounded \in Nat /\ rounded[t] \in Nat
  BY DEF LimiterInv, LimiterTypeOK, Promise
<1>3. /\ b.tokens = bucket[t].tokens /\ b.lastRefill = bucket[t].lastRefill
      /\ p.rounded <= rounded[t]
      /\ b.tokens + ahead + before >= TokenParts
  BY DEF LimiterInv, Promised, Reaches, Found
<1>4. b.tokens + up <= level + lost
  BY <1>1, FullCoversAToken DEF Grants
<1>5. rounded'[t] = rounded[t] + Off(e) + Off(w)
  BY TakeChanges
<1>6. /\ Off(e) \in Nat /\ Off(w) \in Nat /\ Rounding \in Nat
  BY ErrorBounds
<1>7. p.rounded <= rounded'[t]
  BY <1>2, <1>3, <1>5, <1>6
<1>8. before \in Int /\ after \in Int /\ before + lost <= after
  <2> DEFINE d == rounded[t] - p.rounded
  <2>1. d \in Int /\ rounded'[t] - p.rounded = d + Off(e) + Off(w)
    BY <1>2, <1>5, <1>6
  <2> HIDE DEF d
  <2>2. /\ (d + Off(e)) * Rounding = d * Rounding + lost
        /\ (d + Off(e)) * Rounding <= (d + Off(e) + Off(w)) * Rounding
        /\ d * Rounding \in Int /\ (d + Off(e) + Off(w)) * Rounding \in Int
    <3>1. d + Off(e) <= d + Off(e) + Off(w)
      BY <1>6, <2>1
    <3> QED
      BY <1>6, <2>1, <3>1, Distributes, Monotone
  <2> QED
    BY <1>1, <2>1, <2>2 DEF d
<1>9. ahead \in Int /\ rest \in Int /\ ahead <= up + rest
  <2> DEFINE x == Elapsed(b.lastRefill, p.until)  y == Elapsed(at, p.until)
  <2>1. x \in Int /\ y \in Int /\ RefillParts \in Int
    <3>1. b.lastRefill \in Nat /\ p.until \in Nat
      BY <1>1, <1>2
    <3> HIDE DEF b, p
    <3> QED
      BY <1>1, <3>1 DEF Elapsed
  <2>2. ahead <= up + rest
    BY <1>1, <1>2, ElapsedSplits
  <2>3. x * RefillParts \in Int /\ y * RefillParts \in Int
    <3> HIDE DEF x, y
    <3> QED
      BY <2>1, Distributes
  <2> QED
    BY <2>2, <2>3
<1> HIDE DEF up, rest, ahead, before, after, lost, level, b
<1>10. level + rest + after >= TokenParts
  BY <1>1, <1>3, <1>4, <1>8, <1>9
<1> QED
  BY <1>7, <1>10 DEF Reaches, level, rest, after

\* A promise made or kept by a take, and whether the take redeems it.
LEMMA TakeKeepsPromises ==
  ASSUME LimiterInv, NEW t \in Tenant, NEW at \in Nat,
         NEW e \in Errors, NEW w \in Errors, Take(t, at, e, w)
  PROVE  /\ Promised(t)'
         /\ promise'[t] \in Promise \union {None}
<1> USE LimiterAssumption DEF LimiterAssumption
<1> DEFINE level == Level(t, at, e)  wait == RetryAfter(level, w)
           new == [until |-> at + wait, rounded |-> rounded[t] + Off(e)]
<1>1. /\ level \in Nat /\ rounded[t] \in Nat /\ Off(e) \in Nat /\ Off(w) \in Nat
      /\ promise[t] \in Promise \union {None} /\ None \notin Promise
      /\ RefillParts \in Nat /\ TokenParts \in Nat
  <2>1. level \in Nat
    BY LevelBounds DEF LimiterInv
  <2>2. Off(e) \in Nat /\ Off(w) \in Nat
    BY ErrorBounds
  <2>3. rounded[t] \in Nat /\ promise[t] \in Promise \union {None}
    BY DEF LimiterInv, LimiterTypeOK
  <2> QED
    BY <2>1, <2>2, <2>3
<1>2. /\ bucket'[t] # None /\ bucket'[t].lastRefill = at
      /\ bucket'[t].tokens = IF Grants(level) THEN level - TokenParts ELSE level
      /\ rounded'[t] = rounded[t] + Off(e) + Off(w)
  BY TakeChanges
<1>3. promise'[t] = IF Grants(level) THEN None
                    ELSE Promising(promise[t], at, wait, rounded[t] + Off(e))
  BY DEF Take, LimiterInv, LimiterTypeOK
<1>4. wait \in Nat
  BY <1>1, WaitRefills
<1>5. new \in Promise
  BY <1>1, <1>4 DEF Promise
<1>6. promise'[t] \in {None, promise[t], new}
  BY <1>3 DEF Promising
<1>7. ASSUME promise'[t] # None, Capacity > 0
      PROVE  Reaches(level, at, promise'[t], rounded'[t])
  <2>1. ~Grants(level)
    BY <1>3, <1>7
  <2>2. CASE promise'[t] = promise[t]
    <3>1. Reaches(level, at, promise[t], rounded'[t])
      BY <1>7, <2>1, <2>2, RefusalsKeepPromises
    <3> QED
      BY <2>2, <3>1
  <2>3. CASE promise'[t] # promise[t]
    <3>1. promise'[t] = new /\ wait < WaitMax
      BY <1>3, <2>1, <2>3 DEF Promising
    <3>2. level + wait * RefillParts + Off(w) * Rounding >= TokenParts
      BY <1>1, <3>1, WaitRefills
    <3>3. Elapsed(at, new.until) = wait /\ rounded'[t] - new.rounded = Off(w)
      BY <1>1, <1>2, <1>4 DEF Elapsed
    <3>4. new.rounded <= rounded'[t]
      BY <1>1, <1>2
    <3> QED
      BY <3>1, <3>2, <3>3, <3>4 DEF Reaches
  <2> QED
    BY <2>2, <2>3
<1>8. promise'[t] # None /\ Capacity > 0 => ~Grants(level)
  BY <1>3
<1>9. Promised(t)'
  BY <1>2, <1>7, <1>8 DEF Promised, Reaches, Elapsed
<1> QED
  BY <1>1, <1>5, <1>6, <1>9

\* What a step that takes nothing, and lets the clock run on at most, leaves.
LEMMA LimiterRests ==
  ASSUME LimiterInv, UNCHANGED <<bucket, limiterHistory>>, now' \in Nat, now <= now'
  PROVE  LimiterInv'
<1> USE LimiterAssumption DEF LimiterAssumption
<1>1. LimiterTypeOK'
  BY DEF LimiterInv, LimiterTypeOK, limiterHistory
<1>2. ASSUME NEW t \in Tenant PROVE PaidFor(t)' /\ Promised(t)'
  <2>1. /\ PaidFor(t) /\ Promised(t) /\ now \in Nat /\ opened[t] \in Nat
        /\ bucket[t] # None => bucket[t].lastRefill \in Nat
    BY DEF LimiterInv, LimiterTypeOK, BucketState
  <2>2. PaidFor(t)'
    BY <2>1 DEF PaidFor, limiterHistory
  <2>3. Promised(t)'
    BY <2>1 DEF Promised, Reaches, limiterHistory
  <2> QED
    BY <2>2, <2>3
<1> QED
  BY <1>1, <1>2 DEF LimiterInv

\* A take by a reading that is not ahead of the clock keeps the invariant.
LEMMA TakeKeepsLimiterInv ==
  ASSUME LimiterInv, NEW t \in Tenant, NEW at \in Nat, at <= now,
         NEW e \in Errors, NEW w \in Errors, Take(t, at, e, w)
  PROVE  LimiterInv'
<1>1. LimiterTypeOK'
  <2>1. bucket' \in [Tenant -> BucketState \union {None}]
    BY TakeChanges DEF Take, LimiterInv, LimiterTypeOK
  <2>2. opened' \in [Tenant -> Nat] /\ granted' \in [Tenant -> Nat] /\ now' \in Nat
    BY DEF Take, LimiterInv, LimiterTypeOK
  <2>3. regained' \in [Tenant -> Nat]
    <3>1. regained'[t] \in Nat
      BY LevelBounds, TakeChanges DEF LimiterInv, LimiterTypeOK
    <3> QED
      BY <3>1 DEF Take, LimiterInv, LimiterTypeOK
  <2>4. promise' \in [Tenant -> Promise \union {None}]
    BY TakeKeepsPromises DEF Take, LimiterInv, LimiterTypeOK
  <2>5. rounded' \in [Tenant -> 0 .. MaxRoundings]
    BY TakeChanges DEF Take, LimiterInv, LimiterTypeOK
  <2> QED
    BY <2>1, <2>2, <2>3, <2>4, <2>5 DEF LimiterTypeOK
<1>2. PaidFor(t)' /\ Promised(t)'
  BY TakeIsPaidFor, TakeKeepsPromises
<1>3. ASSUME NEW u \in Tenant \ {t} PROVE PaidFor(u)' /\ Promised(u)'
  <2>1. /\ bucket'[u] = bucket[u] /\ granted'[u] = granted[u]
        /\ opened'[u] = opened[u] /\ regained'[u] = regained[u]
        /\ rounded'[u] = rounded[u] /\ promise'[u] = promise[u] /\ now' = now
    BY TakeChanges DEF Take
  <2> QED
    BY <2>1 DEF LimiterInv, PaidFor, Promised, Reaches
<1> QED
  BY <1>1, <1>2, <1>3 DEF LimiterInv

-----------------------------------------------------------------------------
(***************************************************************************)
(* Positions in the log, of finite sets of events.                         *)
(***************************************************************************)
\* A larger log moves no event to the front, and only an earlier event moves one back.
LEMMA Positions ==
  ASSUME NEW T \in SUBSET Event, NEW S \in SUBSET T, NEW e \in Event
  PROVE  /\ Position(e, S) \in Nat /\ Position(e, T) \in Nat
         /\ Cardinality(S) \in Nat /\ Cardinality(T) \in Nat
         /\ Cardinality(S) <= Cardinality(T)
         /\ Position(e, S) <= Position(e, T)
         /\ e \in T => Position(e, T) < Cardinality(T)
         /\ Position(e, S) < Position(e, T) => \E f \in T \ S : Before(f, e)
<1> DEFINE earlier(R) == {f \in R : Before(f, e)}
<1>1. IsFiniteSet(T) /\ IsFiniteSet(S)
  BY ApiAssumption, FS_Subset DEF ApiAssumption
<1>2. /\ earlier(S) \in SUBSET earlier(T) /\ earlier(T) \in SUBSET T
      /\ earlier(S) \in SUBSET S
  OBVIOUS
<1>3. IsFiniteSet(earlier(T)) /\ IsFiniteSet(earlier(S))
  BY <1>1, <1>2, FS_Subset
<1>4. /\ Cardinality(earlier(S)) \in Nat /\ Cardinality(earlier(T)) \in Nat
      /\ Cardinality(S) \in Nat /\ Cardinality(T) \in Nat
  BY <1>1, <1>3, FS_CardinalityType
<1>5. Cardinality(S) <= Cardinality(T) /\ Cardinality(earlier(S)) <= Cardinality(earlier(T))
  BY <1>1, <1>2, <1>3, FS_Subset
<1>6. ASSUME e \in T PROVE Cardinality(earlier(T)) < Cardinality(T)
  <2>1. e \notin earlier(T)
    BY ApiAssumption DEF ApiAssumption, Before
  <2>2. earlier(T) # T
    BY <1>6, <2>1
  <2> QED
    BY <1>1, <1>2, <1>4, <2>2, FS_Subset
<1>7. ASSUME Cardinality(earlier(S)) < Cardinality(earlier(T))
      PROVE  \E f \in T \ S : Before(f, e)
  <2>1. earlier(S) # earlier(T)
    BY <1>4, <1>7
  <2> QED
    BY <2>1
<1> QED
  BY <1>4, <1>5, <1>6, <1>7 DEF Position

\* What a page holds, what it leaves and where the next one begins.
LEMMA PageFacts ==
  ASSUME NEW q, q.size \in Nat \ {0}, log \subseteq Event,
         NEW from \in Nat, from <= Cardinality(Matching(q))
  PROVE  LET page == Page(q, from)  found == Matching(q) IN
         /\ page.events \subseteq found /\ page.next \in Nat
         /\ page.next # 0 => from < page.next /\ page.next <= Cardinality(found)
         /\ \A e \in found : e \notin page.events =>
              \/ Position(e, found) < from
              \/ page.next # 0 /\ page.next <= Position(e, found)
         /\ \A e \in page.events :
              /\ from <= Position(e, found)
              /\ page.next # 0 => Position(e, found) < page.next
<1> DEFINE found == Matching(q)  total == Cardinality(found)
           end == IF from + q.size <= total THEN from + q.size ELSE total
           held == {e \in found : from <= Position(e, found) /\ Position(e, found) < end}
<1>1. found \in SUBSET Event
  BY DEF Matching
<1>2. total \in Nat
  BY <1>1, ApiAssumption, FS_Subset, FS_CardinalityType DEF ApiAssumption
<1>3. \A e \in found : Position(e, found) \in Nat /\ Position(e, found) < total
  BY <1>1, Positions
<1>4. /\ Page(q, from).events = held
      /\ Page(q, from).next = IF end < total THEN end ELSE 0
  BY DEF Page, NextCursor
<1> HIDE DEF found, total
<1>5. /\ end \in Nat /\ from <= end /\ end <= total
      /\ end < total => from < end
  BY <1>2 DEF total, found
<1>6. /\ held \subseteq found
      /\ \A e \in held : from <= Position(e, found) /\ Position(e, found) < end
      /\ \A e \in found \ held :
           Position(e, found) < from \/ end <= Position(e, found)
  BY <1>3, <1>5
<1> HIDE DEF end, held
<1>7. /\ held \subseteq found /\ Page(q, from).next \in Nat
      /\ Page(q, from).next # 0 => from < Page(q, from).next /\ Page(q, from).next <= total
  BY <1>2, <1>4, <1>5, <1>6
<1>8. \A e \in found : e \notin held =>
        \/ Position(e, found) < from
        \/ Page(q, from).next # 0 /\ Page(q, from).next <= Position(e, found)
  BY <1>2, <1>3, <1>4, <1>5, <1>6
<1>9. \A e \in held :
        /\ from <= Position(e, found)
        /\ Page(q, from).next # 0 => Position(e, found) < Page(q, from).next
  BY <1>4, <1>6
<1> QED
  BY <1>4, <1>7, <1>8, <1>9 DEF total, found

-----------------------------------------------------------------------------
(***************************************************************************)
(* The walks.  What a walk has not seen of its snapshot lies at or behind  *)
(* its cursor, what it has seen lay before it, and events never move       *)
(* towards the front.                                                      *)
(***************************************************************************)
M(c) == Matching(Query(c))

Begun(c) ==
  /\ cursor[c] <= Cardinality(M(c))
  /\ \A e \in snapshot[c] \ seen[c] : cursor[c] <= Position(e, M(c))
  /\ \A e \in seen[c] \intersect snapshot[c] : Position(e, snapshot[c]) < cursor[c]

WalkInv(c) ==
  /\ snapshot[c] \subseteq M(c) /\ seen[c] \subseteq M(c)
  /\ phase[c] = "done" => snapshot[c] \subseteq seen[c]
  /\ phase[c] # "done" /\ cursor[c] = 0 => seen[c] = {} /\ twice[c] = {}
  /\ cursor[c] # 0 => Begun(c)
  /\ \A e \in twice[c] : \E f \in M(c) \ snapshot[c] : f.at <= e.at

ApiInv ==
  /\ ApiTypeOK /\ LimiterInv
  /\ \A c \in Client : reading[c] <= now /\ WalkInv(c)

\* The page size the store is given is never zero.
LEMMA QuerySize == ASSUME NEW c \in Client PROVE Query(c).size \in Nat \ {0}
BY ApiAssumption DEF ApiAssumption, Query, Clamped

\* A step that leaves a walk alone and only adds to the log keeps its part.
LEMMA WalkRests ==
  ASSUME log \subseteq Event, log' \subseteq Event, log \subseteq log',
         NEW c \in Client, WalkInv(c), cursor[c] \in Nat,
         snapshot'[c] = snapshot[c], seen'[c] = seen[c], twice'[c] = twice[c],
         cursor'[c] = cursor[c], phase'[c] = "done" <=> phase[c] = "done"
  PROVE  WalkInv(c)'
<1>1. M(c) \in SUBSET M(c)' /\ M(c)' \in SUBSET Event /\ snapshot[c] \in SUBSET M(c)
  BY DEF M, Matching, Query, WalkInv
<1>2. \A e \in Event : /\ Position(e, M(c)) <= Position(e, M(c)')
                        /\ Position(e, M(c)) \in Nat /\ Position(e, M(c)') \in Nat
  BY <1>1, Positions
<1>3. /\ Cardinality(M(c)) <= Cardinality(M(c)')
      /\ Cardinality(M(c)) \in Nat /\ Cardinality(M(c)') \in Nat
  BY <1>1, ApiAssumption, FS_Subset, FS_CardinalityType DEF ApiAssumption
<1>4. cursor[c] # 0 => Begun(c)'
  <2> SUFFICES ASSUME cursor[c] # 0 PROVE Begun(c)'
    OBVIOUS
  <2>1. Begun(c)
    BY DEF WalkInv
  <2> QED
    BY <1>1, <1>2, <1>3, <2>1 DEF Begun
<1> QED
  BY <1>1, <1>4 DEF WalkInv

\* A page keeps the invariant of the walk that reads it.
LEMMA ReadPageKeepsWalk ==
  ASSUME ApiInv, NEW c \in Client, ReadPage(c)
  PROVE  WalkInv(c)' /\ cursor'[c] \in Nat /\ seen'[c] \subseteq M(c)
<1> DEFINE found == M(c)  page == Page(Query(c), cursor[c])
<1>1. /\ found \in SUBSET Event /\ WalkInv(c) /\ phase[c] # "done"
      /\ cursor[c] \in Nat /\ log \subseteq Event /\ M(c)' = found
      /\ snapshot[c] \in SUBSET found
  BY DEF ApiInv, ApiTypeOK, ReadPage, WalkInv, M, Matching, Query
<1>2. cursor[c] <= Cardinality(found)
  <2>1. Cardinality(found) \in Nat
    BY <1>1, ApiAssumption, FS_Subset, FS_CardinalityType DEF ApiAssumption
  <2> QED
    BY <1>1, <2>1 DEF WalkInv, Begun
<1>3. /\ page.events \subseteq found /\ page.next \in Nat
      /\ page.next # 0 => cursor[c] < page.next /\ page.next <= Cardinality(found)
      /\ \A e \in found : e \notin page.events =>
           \/ Position(e, found) < cursor[c]
           \/ page.next # 0 /\ page.next <= Position(e, found)
      /\ \A e \in page.events :
           /\ cursor[c] <= Position(e, found)
           /\ page.next # 0 => Position(e, found) < page.next
  BY <1>1, <1>2, QuerySize, PageFacts DEF M
<1>4. /\ cursor'[c] = page.next
      /\ phase'[c] = "done" <=> page.next = 0
      /\ snapshot'[c] = IF cursor[c] = 0 THEN found ELSE snapshot[c]
      /\ seen'[c] = seen[c] \union page.events
      /\ twice'[c] = twice[c] \union (seen[c] \intersect page.events)
  BY DEF ReadPage, ApiInv, ApiTypeOK, M
<1> HIDE DEF page, found
<1>5. snapshot'[c] \in SUBSET found /\ seen'[c] \subseteq found
  BY <1>1, <1>3, <1>4 DEF WalkInv, found
<1>6. \A e \in found : /\ Position(e, found) \in Nat
                        /\ Position(e, snapshot'[c]) \in Nat
                        /\ Position(e, snapshot'[c]) <= Position(e, found)
  BY <1>1, <1>5, Positions
<1>7. \A e \in snapshot'[c] \ seen'[c] : page.next # 0 /\ page.next <= Position(e, found)
  <2> TAKE e \in snapshot'[c] \ seen'[c]
  <2>1. e \in found /\ e \notin page.events
    BY <1>4, <1>5
  <2>2. cursor[c] <= Position(e, found)
    <3>1. CASE cursor[c] = 0
      BY <1>6, <2>1, <3>1
    <3>2. CASE cursor[c] # 0
      BY <1>1, <1>4, <3>2 DEF WalkInv, Begun, found
    <3> QED
      BY <3>1, <3>2
  <2> QED
    BY <1>1, <1>3, <1>6, <2>1, <2>2
<1>8. ASSUME page.next # 0, NEW e \in seen'[c] \intersect snapshot'[c]
      PROVE  Position(e, snapshot'[c]) < page.next
  <2>1. CASE e \in page.events
    BY <1>3, <1>5, <1>6, <1>8, <2>1
  <2>2. CASE e \notin page.events
    <3>1. e \in seen[c] /\ cursor[c] # 0
      BY <1>1, <1>4, <1>8, <2>2 DEF WalkInv
    <3>2. Position(e, snapshot'[c]) < cursor[c] /\ e \in found
      BY <1>1, <1>4, <1>5, <1>8, <3>1 DEF WalkInv, Begun
    <3> QED
      BY <1>1, <1>3, <1>6, <1>8, <3>2
  <2> QED
    BY <2>1, <2>2
<1>9. ASSUME NEW e \in twice'[c]
      PROVE  \E f \in found \ snapshot'[c] : f.at <= e.at
  <2>1. cursor[c] # 0 /\ snapshot'[c] = snapshot[c]
    BY <1>1, <1>4, <1>9 DEF WalkInv
  <2>2. CASE e \in twice[c]
    BY <1>1, <2>1, <2>2 DEF WalkInv, found
  <2>3. CASE e \in seen[c] \intersect page.events
    <3>1. e \in found /\ e \in Event /\ e.at \in Nat
      BY <1>1, <1>3, <2>3, ApiAssumption DEF ApiAssumption
    <3>2. CASE e \notin snapshot[c]
      BY <2>1, <3>1, <3>2
    <3>3. CASE e \in snapshot[c]
      <4>1. Position(e, snapshot[c]) < cursor[c] /\ cursor[c] <= Position(e, found)
        BY <1>1, <1>3, <2>1, <2>3, <3>3 DEF WalkInv, Begun
      <4>2. Position(e, snapshot[c]) < Position(e, found)
        BY <1>1, <1>6, <2>1, <3>1, <4>1
      <4>3. PICK f \in found \ snapshot[c] : Before(f, e)
        BY <1>1, <3>1, <4>2, Positions
      <4>4. f.at <= e.at
        BY <1>1, <3>1, <4>3, ApiAssumption DEF ApiAssumption, Before
      <4> QED
        BY <2>1, <4>3, <4>4
    <3> QED
      BY <3>2, <3>3
  <2> QED
    BY <1>4, <1>9, <2>2, <2>3
<1>10. page.next # 0 => Begun(c)'
  BY <1>1, <1>3, <1>4, <1>7, <1>8 DEF Begun
<1>11. WalkInv(c)'
  BY <1>1, <1>4, <1>5, <1>7, <1>9, <1>10 DEF WalkInv
<1> QED
  BY <1>3, <1>4, <1>5, <1>11 DEF found

\* A client whose walk no step of this handler touches.
UntouchedWalk(c) ==
  /\ snapshot'[c] = snapshot[c] /\ seen'[c] = seen[c] /\ twice'[c] = twice[c]
  /\ cursor'[c] = cursor[c] /\ (phase'[c] = "done" <=> phase[c] = "done")

\* A step of another client, or of a producer, keeps a walk's invariant.
LEMMA UntouchedWalksRest ==
  ASSUME ApiInv, log \subseteq log', log' \subseteq Event,
         NEW c \in Client, UntouchedWalk(c)
  PROVE  WalkInv(c)'
BY WalkRests DEF ApiInv, ApiTypeOK, UntouchedWalk

\* Every reachable state satisfies the invariants of limiter and walks.
LEMMA ApiInvariant == ApiSpec => []ApiInv
<1> USE LimiterAssumption, ApiAssumption DEF LimiterAssumption, ApiAssumption
<1>1. ApiInit => ApiInv
  <2> SUFFICES ASSUME ApiInit PROVE ApiInv
    OBVIOUS
  <2>1. LimiterInv
    BY DEF ApiInit, LimiterInit, LimiterInv, LimiterTypeOK, PaidFor, Promised
  <2>2. ApiTypeOK
    BY <2>1 DEF ApiInit, ApiTypeOK, LimiterInv, Phase
  <2>3. ASSUME NEW c \in Client PROVE reading[c] <= now /\ WalkInv(c)
    BY DEF ApiInit, LimiterInit, WalkInv
  <2> QED
    BY <2>1, <2>2, <2>3 DEF ApiInv
<1>2. ApiInv /\ [ApiNext]_apiVars => ApiInv'
  <2> SUFFICES ASSUME ApiInv, [ApiNext]_apiVars PROVE ApiInv'
    OBVIOUS
  <2>0. LimiterInv /\ ApiTypeOK /\ now \in Nat /\ log \subseteq Event
    BY DEF ApiInv, ApiTypeOK, LimiterTypeOK
  <2>1. ASSUME NEW e \in Event, Append(e) PROVE ApiInv'
    <3>1. LimiterInv'
      BY <2>0, <2>1, LimiterRests DEF Append, limiterVars
    <3>2. log \subseteq log' /\ log' \subseteq Event
      BY <2>0, <2>1 DEF Append, Appended
    <3>3. ApiTypeOK'
      BY <2>0, <2>1, <3>1, <3>2 DEF Append, ApiTypeOK, LimiterInv, walkHistory
    <3>4. ASSUME NEW c \in Client PROVE reading'[c] <= now' /\ WalkInv(c)'
      <4>1. UntouchedWalk(c) /\ reading'[c] = reading[c] /\ now' = now
        BY <2>1 DEF Append, UntouchedWalk, walkHistory, limiterVars
      <4> QED
        BY <3>2, <4>1, UntouchedWalksRest DEF ApiInv
    <3> QED
      BY <3>1, <3>3, <3>4 DEF ApiInv
  <2>2. ASSUME NEW c \in Client, Arrive(c) PROVE ApiInv'
    <3>1. LimiterInv'
      BY <2>0, <2>2, LimiterRests DEF Arrive, limiterVars
    <3>2. ApiTypeOK'
      BY <2>0, <2>2, <3>1 DEF Arrive, ApiTypeOK, LimiterInv, walkHistory, Phase
    <3>3. ASSUME NEW d \in Client PROVE reading'[d] <= now' /\ WalkInv(d)'
      <4>1. UntouchedWalk(d) /\ log' = log
        BY <2>0, <2>2 DEF Arrive, UntouchedWalk, walkHistory, ApiTypeOK
      <4>2. reading'[d] <= now'
        BY <2>0, <2>2 DEF Arrive, ApiInv, ApiTypeOK, limiterVars
      <4> QED
        BY <2>0, <4>1, <4>2, UntouchedWalksRest
    <3> QED
      BY <3>1, <3>2, <3>3 DEF ApiInv
  <2>3. ASSUME NEW c \in Client, CheckRate(c) PROVE ApiInv'
    <3>0. PICK e \in Errors, w \in Errors :
            LET t == Owner[c]  level == Level(t, reading[c], e) IN
            /\ phase[c] = "timed"
            /\ Take(t, reading[c], e, w)
            /\ phase' = [phase EXCEPT ![c] = IF Grants(level) THEN "served" ELSE "idle"]
            /\ notBefore' =
                 IF Grants(level) THEN notBefore
                 ELSE [notBefore EXCEPT
                         ![c] = now + RetryAfterHeader(RetryAfter(level, w))]
            /\ UNCHANGED <<log, reading, cursor, lag, walkHistory>>
      BY <2>3 DEF CheckRate
    <3> DEFINE level == Level(Owner[c], reading[c], e)
    <3>1. /\ Owner[c] \in Tenant /\ reading[c] \in Nat /\ reading[c] <= now
          /\ Take(Owner[c], reading[c], e, w) /\ now' = now
      BY <2>0, <3>0 DEF ApiInv, ApiTypeOK, Take
    <3>2. LimiterInv'
      BY <2>0, <3>1, TakeKeepsLimiterInv
    <3>3. ApiTypeOK'
      <4>1. RetryAfterHeader(RetryAfter(level, w)) \in Nat
        <5>1. level \in Nat
          BY <2>0, <3>1, LevelBounds DEF LimiterInv
        <5>2. RetryAfter(level, w) \in Nat
          BY <5>1, WaitRefills
        <5>3. Larger(1, CeilDiv(RetryAfter(level, w), HeaderTicks)) \in Nat
          BY <5>2, CeilDivCovers DEF Larger
        <5> QED
          BY <5>3, SMT DEF RetryAfterHeader
      <4>2. phase' \in [Client -> Phase] /\ notBefore' \in [Client -> Nat]
        BY <2>0, <3>0, <4>1 DEF ApiTypeOK, Phase
      <4> QED
        BY <2>0, <3>0, <3>2, <4>2 DEF ApiTypeOK, LimiterInv, walkHistory
    <3>4. ASSUME NEW d \in Client PROVE reading'[d] <= now' /\ WalkInv(d)'
      <4>1. UntouchedWalk(d) /\ log' = log /\ reading' = reading
        BY <2>0, <3>0 DEF UntouchedWalk, walkHistory, ApiTypeOK
      <4> QED
        BY <2>0, <3>1, <4>1, UntouchedWalksRest DEF ApiInv
    <3> QED
      BY <3>2, <3>3, <3>4 DEF ApiInv
  <2>4. ASSUME NEW c \in Client, ReadPage(c) PROVE ApiInv'
    <3>1. LimiterInv'
      BY <2>0, <2>4, LimiterRests DEF ReadPage, limiterVars
    <3>2. WalkInv(c)' /\ cursor'[c] \in Nat /\ seen'[c] \subseteq M(c)
      BY <2>4, ReadPageKeepsWalk
    <3>3. ApiTypeOK'
      <4>1. M(c) \subseteq Event
        BY <2>0 DEF M, Matching
      <4>2. /\ snapshot' \in [Client -> SUBSET Event]
            /\ seen' \in [Client -> SUBSET Event]
            /\ twice' \in [Client -> SUBSET Event]
        BY <2>0, <2>4, <3>2, <4>1 DEF ReadPage, ApiTypeOK, M
      <4>3. cursor' \in [Client -> Nat] /\ phase' \in [Client -> Phase]
        BY <2>0, <2>4, <3>2 DEF ReadPage, ApiTypeOK, Phase
      <4> QED
        BY <2>0, <2>4, <3>1, <4>2, <4>3 DEF ReadPage, ApiTypeOK, LimiterInv
    <3>4. ASSUME NEW d \in Client PROVE reading'[d] <= now' /\ WalkInv(d)'
      <4>1. CASE d = c
        BY <2>4, <3>2, <4>1 DEF ReadPage, ApiInv, limiterVars
      <4>2. CASE d # c
        <5>1. UntouchedWalk(d) /\ log' = log /\ reading' = reading /\ now' = now
          BY <2>0, <2>4, <4>2 DEF ReadPage, UntouchedWalk, ApiTypeOK, limiterVars
        <5> QED
          BY <2>0, <5>1, UntouchedWalksRest DEF ApiInv
      <4> QED
        BY <4>1, <4>2
    <3> QED
      BY <3>1, <3>3, <3>4 DEF ApiInv
  <2>5. CASE Tick
    <3>1. LimiterInv'
      BY <2>0, <2>5, LimiterRests DEF Tick
    <3>2. ApiTypeOK'
      BY <2>0, <2>5, <3>1 DEF Tick, ApiTypeOK, LimiterInv, walkHistory
    <3>3. ASSUME NEW c \in Client PROVE reading'[c] <= now' /\ WalkInv(c)'
      <4>1. UntouchedWalk(c) /\ log' = log /\ reading' = reading /\ now' = now + 1
        BY <2>5 DEF Tick, UntouchedWalk, walkHistory
      <4>2. reading[c] <= now /\ reading[c] \in Nat
        BY <2>0 DEF ApiInv, ApiTypeOK
      <4> QED
        BY <2>0, <4>1, <4>2, UntouchedWalksRest
    <3> QED
      BY <3>1, <3>2, <3>3 DEF ApiInv
  <2>6. CASE UNCHANGED apiVars
    <3>1. LimiterInv'
      BY <2>0, <2>6, LimiterRests DEF apiVars, limiterVars
    <3>2. ApiTypeOK'
      BY <2>0, <2>6, <3>1 DEF apiVars, ApiTypeOK, LimiterInv
    <3>3. ASSUME NEW c \in Client PROVE reading'[c] <= now' /\ WalkInv(c)'
      <4>1. /\ UntouchedWalk(c) /\ log' = log /\ reading' = reading /\ now' = now
        BY <2>6 DEF apiVars, UntouchedWalk, limiterVars
      <4> QED
        BY <2>0, <4>1, UntouchedWalksRest DEF ApiInv
    <3> QED
      BY <3>1, <3>2, <3>3 DEF ApiInv
  <2> QED
    BY <2>1, <2>2, <2>3, <2>4, <2>5, <2>6 DEF ApiNext
<1> QED
  BY <1>1, <1>2, PTL DEF ApiSpec

(***************************************************************************)
(* The limiter grants no more than burst and refill, beyond what unordered *)
(* clock readings give back and roundings add.                             *)
(***************************************************************************)
THEOREM GrantsAreBounded == ApiSpec => []RateHolds
<1> USE LimiterAssumption DEF LimiterAssumption
<1>1. ApiInv => RateHolds
  <2> SUFFICES ASSUME ApiInv, NEW t \in Tenant
               PROVE  granted[t] * TokenParts
                        <= Full + (now - opened[t] + regained[t]) * RefillParts
                             + rounded[t] * Rounding
    BY DEF RateHolds
  <2> DEFINE owed == rounded[t] * Rounding
  <2>1. /\ PaidFor(t) /\ granted[t] \in Nat /\ opened[t] \in Nat
        /\ regained[t] \in Nat /\ now \in Nat /\ Full \in Nat
        /\ bucket[t] \in BucketState \union {None} /\ rounded[t] \in Nat
    BY FullCoversAToken DEF ApiInv, LimiterInv, LimiterTypeOK
  <2>0. owed \in Nat
    BY <2>1, SMT
  <2> DEFINE age == now - opened[t] + regained[t]
  <2>2. age \in Nat /\ age * RefillParts \in Int /\ 0 * RefillParts <= age * RefillParts
    <3>1. age \in Nat
      BY <2>1 DEF PaidFor
    <3> HIDE DEF age
    <3> QED
      BY <3>1, Distributes, Monotone
  <2>3. CASE bucket[t] = None
    <3>1. granted[t] * TokenParts = 0 /\ 0 * RefillParts = 0
      BY <2>1, <2>3, SMT DEF PaidFor
    <3> HIDE DEF owed
    <3>2. granted[t] * TokenParts <= Full + age * RefillParts + owed
      BY <2>0, <2>1, <2>2, <3>1
    <3> QED
      BY <3>2 DEF owed
  <2>4. CASE bucket[t] # None
    <3> DEFINE last == bucket[t].lastRefill + regained[t] - opened[t]
    <3>1. /\ last \in Int /\ last <= age /\ bucket[t].tokens \in Nat
          /\ granted[t] * TokenParts + bucket[t].tokens
               <= Full + last * RefillParts + owed
      BY <2>1, <2>4 DEF PaidFor, BucketState
    <3> HIDE DEF last, age, owed
    <3>2. last * RefillParts <= age * RefillParts /\ last * RefillParts \in Int
      BY <2>2, <3>1, Monotone, Distributes
    <3>3. granted[t] * TokenParts \in Int
      BY <2>1, Distributes
    <3>4. granted[t] * TokenParts <= Full + age * RefillParts + owed
      BY <2>0, <2>1, <2>2, <3>1, <3>2, <3>3
    <3> QED
      BY <3>4 DEF age, owed
  <2> QED
    BY <2>3, <2>4
<1> QED
  BY <1>1, ApiInvariant, PTL

(***************************************************************************)
(* A refused caller that comes back after a wait it was told is granted a  *)
(* token, or lacks no more of one than was rounded away since, whatever    *)
(* refusals came in between: for every policy with room for a token, and   *)
(* every wait that did not saturate.                                       *)
(***************************************************************************)
THEOREM PromisesAreKept == ApiSpec => RetryAfterSuffices
<1>1. ApiInv /\ [ApiNext]_apiVars =>
        [\A t \in Tenant :
           /\ bucket'[t] # bucket[t] /\ promise[t] # None /\ Capacity > 0
           /\ bucket'[t].lastRefill >= promise[t].until
           => \/ granted'[t] = granted[t] + 1
              \/ TokenParts <= bucket'[t].tokens
                                 + (rounded'[t] - promise[t].rounded) * Rounding]_limiterVars
  <2> SUFFICES ASSUME ApiInv, ApiNext, NEW t \in Tenant,
                      bucket'[t] # bucket[t], promise[t] # None, Capacity > 0,
                      bucket'[t].lastRefill >= promise[t].until
               PROVE  \/ granted'[t] = granted[t] + 1
                      \/ TokenParts <= bucket'[t].tokens
                                 + (rounded'[t] - promise[t].rounded) * Rounding
    BY DEF apiVars, limiterVars
  <2>1. PICK c \in Client : CheckRate(c)
    BY DEF ApiNext, Append, Arrive, ReadPage, Tick, limiterVars
  <2>2. PICK e \in Errors, w \in Errors : Take(Owner[c], reading[c], e, w)
    BY <2>1 DEF CheckRate
  <2>3. LimiterInv /\ Owner[c] \in Tenant /\ reading[c] \in Nat
    BY ApiAssumption DEF ApiAssumption, ApiInv, ApiTypeOK
  <2>4. Owner[c] = t /\ bucket'[t].lastRefill = reading[c]
    BY <2>2, <2>3, TakeChanges
  <2> DEFINE at == reading[c]  level == Level(t, at, e)
             off == (rounded'[t] - promise[t].rounded) * Rounding
  <2>5. CASE Grants(level)
    BY <2>2, <2>3, <2>4, <2>5, TakeChanges
  <2>6. CASE ~Grants(level)
    <3>1. bucket'[t].tokens = level /\ level \in Nat
      BY <2>2, <2>3, <2>4, <2>6, TakeChanges, LevelBounds DEF LimiterInv
    <3>2. level + Elapsed(at, promise[t].until) * RefillParts + off >= TokenParts
      BY <2>2, <2>3, <2>4, <2>6, RefusalsKeepPromises DEF Reaches
    <3>3. Elapsed(at, promise[t].until) = 0
      BY <2>3, <2>4 DEF Elapsed, LimiterInv, LimiterTypeOK, Promise
    <3>4. 0 * RefillParts = 0
      BY LimiterAssumption, SMT DEF LimiterAssumption
    <3> HIDE DEF level, off
    <3>5. TokenParts <= level + off
      <4>1. level + 0 + off >= TokenParts
        BY <3>2, <3>3, <3>4
      <4> QED
        BY <3>1, <4>1
    <3> QED
      BY <3>1, <3>5 DEF off
  <2> QED
    BY <2>5, <2>6
<1> QED
  BY <1>1, ApiInvariant, PTL DEF ApiSpec, RetryAfterSuffices

\* Offset pages miss nothing of the snapshot.
THEOREM WalksAreComplete == ApiSpec => []WalkMissesNothing
<1>1. ApiInv => WalkMissesNothing
  BY DEF ApiInv, WalkInv, WalkMissesNothing
<1> QED
  BY <1>1, ApiInvariant, PTL

\* They repeat an event only behind one that was appended late.
THEOREM RepeatsAreExplained == ApiSpec => []RepeatsComeFromLateEvents
<1>1. ApiInv => RepeatsComeFromLateEvents
  BY DEF ApiInv, WalkInv, RepeatsComeFromLateEvents, M
<1> QED
  BY <1>1, ApiInvariant, PTL

(***************************************************************************)
(* Requests, buckets and walks are well typed.                             *)
(***************************************************************************)
THEOREM ApiTypeCorrect == ApiSpec => []ApiTypeOK
<1>1. ApiInv => ApiTypeOK
  BY DEF ApiInv
<1> QED
  BY <1>1, ApiInvariant, PTL
=============================================================================
