-------------------------- MODULE RetryPolicyProofs --------------------------
(***************************************************************************)
(* What the backoff promises for every policy RetryPolicy::new accepts,    *)
(* every attempt it is asked for and every hash of the key.                *)
(***************************************************************************)
EXTENDS RetryPolicy, TLAPS

\* Saturation keeps a word a word.
LEMMA UMaxIsPositive == UMax \in Nat \ {0}
<1>1. 2^WordBits \in Nat /\ 2^WordBits > WordBits
  BY WordAssumption
<1> QED
  BY <1>1, WordAssumption DEF UMax

\* The doubled delay is a positive number for every attempt, the saturated
\* shift included (delay_for_attempt, 376-377).
LEMMA MultiplierIsPositive ==
  ASSUME NEW attempt \in Nat \ {0}
  PROVE  Multiplier(attempt) \in Nat \ {0}
<1>1. SmallerOf(attempt - 1, WordBits - 1) \in 0 .. WordBits
  BY WordAssumption DEF SmallerOf
<1> QED
  BY <1>1, WordAssumption DEF Multiplier

\* Multiplying by a positive number does not make a delay smaller, saturation
\* included.
LEMMA SaturatingMulGrows ==
  ASSUME NEW a \in Word, NEW m \in Nat \ {0}
  PROVE  SaturatingMul(a, m) \in Word /\ SaturatingMul(a, m) >= a
<1>1. a * m \in Nat /\ a * m >= a
  <2>1. a \in Nat
    BY UMaxIsPositive DEF Word
  <2> QED
    BY <2>1
<1> QED
  BY <1>1, UMaxIsPositive DEF SaturatingMul, SmallerOf, Word

\* Before jitter the delay lies between the base and the cap.
LEMMA ExponentialDelayBounds ==
  ASSUME NEW p, ValidPolicy(p), NEW attempt, RetryExists(p, attempt)
  PROVE  ExponentialDelay(p, attempt) \in p.baseDelay .. p.maxDelay
<1>1. attempt \in Nat \ {0}
  BY DEF ValidPolicy, RetryExists
<1>2. p.baseDelay \in Word /\ p.maxDelay \in Word /\ p.maxDelay >= p.baseDelay
  BY DEF ValidPolicy
<1>3. /\ SaturatingMul(p.baseDelay, Multiplier(attempt)) \in Word
      /\ SaturatingMul(p.baseDelay, Multiplier(attempt)) >= p.baseDelay
  BY <1>1, <1>2, MultiplierIsPositive, SaturatingMulGrows
<1> QED
  BY <1>2, <1>3, UMaxIsPositive DEF ExponentialDelay, SmallerOf, Word

\* The jitter is a number no larger than the cap it is drawn under.
LEMMA JitterIsBounded ==
  ASSUME NEW hash \in Nat, NEW cap \in Nat
  PROVE  DeterministicJitter(hash, cap) \in 0 .. cap
<1>1. SaturatingAdd(cap, 1) \in 1 .. cap + 1
  BY UMaxIsPositive DEF SaturatingAdd, SmallerOf
<1> QED
  BY <1>1 DEF DeterministicJitter

\* delay_for_attempt, 356-393: whatever the key, a retry waits at least the
\* base delay and at most the maximum delay.
THEOREM DelayBounds ==
  ASSUME NEW p, ValidPolicy(p), NEW attempt, RetryExists(p, attempt),
         NEW hash \in Nat
  PROVE  DelayForAttempt(p, attempt, hash) \in p.baseDelay .. p.maxDelay
<1> DEFINE exponential == ExponentialDelay(p, attempt)
           cap == JitterCap(p, attempt)
           jitter == DeterministicJitter(hash, cap)
<1>1. p.baseDelay \in Nat /\ p.maxDelay \in 0 .. UMax
  BY UMaxIsPositive DEF ValidPolicy, Word
<1>2. exponential \in p.baseDelay .. p.maxDelay
  BY ExponentialDelayBounds
<1>3. jitter \in Nat
  <2>1. SaturatingMul(exponential, p.jitterPercent) \in Nat
    <3>1. p.jitterPercent \in Nat /\ exponential \in Nat
      BY <1>1, <1>2 DEF ValidPolicy
    <3>2. exponential * p.jitterPercent \in Nat
      BY <3>1
    <3> QED
      BY <3>2, UMaxIsPositive DEF SaturatingMul, SmallerOf
  <2>2. cap \in Nat
    BY <2>1 DEF JitterCap
  <2>3. jitter \in 0 .. cap
    BY <2>2, JitterIsBounded
  <2> QED
    BY <2>2, <2>3
<1>4. CASE cap = 0
  BY <1>2, <1>4 DEF DelayForAttempt
<1>5. CASE cap # 0
  <2>1. SaturatingAdd(exponential, jitter) \in Nat
        /\ SaturatingAdd(exponential, jitter) >= exponential
    BY <1>1, <1>2, <1>3, UMaxIsPositive DEF SaturatingAdd, SmallerOf
  <2>2. DelayForAttempt(p, attempt, hash)
          = SmallerOf(SaturatingAdd(exponential, jitter), p.maxDelay)
    BY <1>5 DEF DelayForAttempt
  <2> QED
    BY <1>1, <1>2, <2>1, <2>2 DEF SmallerOf
<1> QED
  BY <1>4, <1>5
=============================================================================
