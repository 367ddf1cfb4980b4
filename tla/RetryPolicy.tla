----------------------------- MODULE RetryPolicy -----------------------------
(***************************************************************************)
(* The exponential backoff of the transmission outbox                      *)
(* (crates/reconcile/src/outbox.rs): a pure function of the policy, the    *)
(* one-based attempt number and a hash of the idempotency key, computed in *)
(* unsigned integers of WordBits bits that saturate (u64 in the code).     *)
(***************************************************************************)
EXTENDS Naturals

CONSTANT WordBits   \* width of the unsigned integers: 64 in the code

UMax == 2^WordBits - 1

ASSUME WordAssumption ==
  /\ WordBits \in Nat \ {0}
  /\ \A e \in 0 .. WordBits : 2^e \in Nat /\ 2^e > e

Word == 0 .. UMax

SmallerOf(a, b) == IF a <= b THEN a ELSE b
LargerOf(a, b)  == IF a >= b THEN a ELSE b

SaturatingAdd(a, b) == SmallerOf(a + b, UMax)
SaturatingMul(a, b) == SmallerOf(a * b, UMax)

(***************************************************************************)
(* The policies RetryPolicy::new accepts.                                  *)
(***************************************************************************)
ValidPolicy(p) ==
  /\ p.maxAttempts \in Nat \ {0}
  /\ p.baseDelay \in Word \ {0}
  /\ p.maxDelay \in Word
  /\ p.maxDelay >= p.baseDelay
  /\ p.jitterPercent \in 0 .. 100

\* delay_for_attempt is an error for attempt 0 and from the budget on.
RetryExists(p, attempt) == attempt \in 1 .. p.maxAttempts - 1

\* 1_u64.checked_shl(min(attempt - 1, 63))
Multiplier(attempt) == 2^SmallerOf(attempt - 1, WordBits - 1)

\* Mutant of the next definition: the product wraps instead of saturating.
WrappedDelay(p, attempt) ==
  SmallerOf((p.baseDelay * Multiplier(attempt)) % (UMax + 1), p.maxDelay)

ExponentialDelay(p, attempt) ==
  SmallerOf(SaturatingMul(p.baseDelay, Multiplier(attempt)), p.maxDelay)

JitterCap(p, attempt) ==
  SaturatingMul(ExponentialDelay(p, attempt), p.jitterPercent) \div 100

\* value % (jitter_cap + 1), where hash stands for the BLAKE3 word of
\* (idempotency key, attempt).
DeterministicJitter(hash, cap) == hash % SaturatingAdd(cap, 1)

DelayForAttempt(p, attempt, hash) ==
  LET exponential == ExponentialDelay(p, attempt)
      cap == JitterCap(p, attempt)
  IN IF cap = 0
     THEN exponential
     ELSE SmallerOf(SaturatingAdd(exponential, DeterministicJitter(hash, cap)),
                    p.maxDelay)
=============================================================================
