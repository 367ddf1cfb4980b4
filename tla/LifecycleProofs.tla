---------------------------- MODULE LifecycleProofs ----------------------------
(***************************************************************************)
(* Theorems about the transmission state machine, for every registry of    *)
(* country rules, and about the stream of acknowledgements that announces  *)
(* its states, for any number of clients and events.                       *)
(***************************************************************************)
EXTENDS TransmissionLifecycle, AckStream, FiniteSetTheorems, SequenceTheorems, TLAPS

-----------------------------------------------------------------------------
(***************************************************************************)
(* The moves climb: every base state has a height, a move goes to a higher *)
(* one, and the highest is archived.  So no base state is visited twice    *)
(* and a history holds seven moves at most.                                *)
(***************************************************************************)
Height ==
  [base \in TransmissionBaseState |->
     CASE base = "draft"        -> 0
       [] base = "validated"    -> 1
       [] base = "signed"       -> 2
       [] base = "reserved"     -> 3
       [] base = "sent"         -> 4
       [] base = "delivered"    -> 5
       [] base = "acknowledged" -> 6
       [] base = "rejected"     -> 6
       [] base = "archived"     -> 7]

\* A move goes to a higher state.
LEMMA MovesClimb ==
  ASSUME NEW from \in TransmissionBaseState, NEW to \in TransmissionBaseState,
         CanTransitionTo(from, to)
  PROVE  Height[from] < Height[to]
BY DEF CanTransitionTo, TransmissionBaseState, Height

\* There are as many heights as a longest way has moves, and one.
LEMMA Heights ==
  ASSUME NEW base \in TransmissionBaseState
  PROVE  Height[base] \in 0 .. MaxMoves
BY DEF TransmissionBaseState, Height, MaxMoves

H(state) == Height[state.base]

\* A gapless history, from the start to the current state.
Gapless ==
  /\ history = <<>> => current = start
  /\ history # <<>> => history[1].from = start /\ history[Len(history)].to = current
  /\ \A i \in 1 .. Len(history) : i > 1 => history[i].from = history[i - 1].to

\* Every recorded move was allowed, and lies above the ones before it.
Climbing ==
  /\ Len(history) <= H(current)
  /\ \A i \in 1 .. Len(history) :
       /\ ValidateTransition(history[i].from, history[i].to)
       /\ H(history[i].from) < H(current) /\ H(history[i].to) <= H(current)
  /\ \A i, k \in 1 .. Len(history) :
       /\ i <= k => H(history[i].from) < H(history[k].to)
       /\ i < k => H(history[i].to) < H(history[k].to)

HistoryInv ==
  /\ current \in State /\ start \in Start
  /\ history \in Seq([from : State, to : State])
  /\ Gapless /\ Climbing

\* A move that is allowed extends the history by one step up.
LEMMA ApplyKeepsHistory ==
  ASSUME HistoryInv, NEW next \in State, Apply(next)
  PROVE  HistoryInv'
<1> DEFINE n == Len(history)  step == [from |-> current, to |-> next]
<1>1. /\ n \in Nat /\ Len(history') = n + 1 /\ history'[n + 1] = step
      /\ \A i \in 1 .. n : history'[i] = history[i]
      /\ \A i \in 1 .. n : history[i] \in [from : State, to : State]
      /\ current' = next /\ start' = start
      /\ history' \in Seq([from : State, to : State])
      /\ step \in [from : State, to : State]
      /\ step.from = current /\ step.to = next
  <2> DEFINE Move == [from : State, to : State]
  <2>1. /\ step \in Move /\ history \in Seq(Move) /\ history' = Append(history, step)
        /\ current' = next /\ start' = start
        /\ step.from = current /\ step.to = next
    BY DEF Apply, HistoryInv
  <2> HIDE DEF Move, step
  <2>2. /\ n \in Nat /\ Len(history') = n + 1 /\ history'[n + 1] = step
        /\ \A i \in 1 .. n : history'[i] = history[i]
        /\ \A i \in 1 .. n : history[i] \in Move
        /\ history' \in Seq(Move)
    BY <2>1
  <2> QED
    BY <2>1, <2>2 DEF Move
<1>2. \A s \in State : H(s) \in 0 .. MaxMoves
  BY Heights DEF State, H
<1>3. H(current) < H(next) /\ ValidateTransition(current, next)
  BY MovesClimb DEF Apply, Allowed, HistoryInv, State, H
<1>4. current \in State /\ H(current) \in Nat /\ H(next) \in Nat
  BY <1>2 DEF HistoryInv, MaxMoves
<1> HIDE DEF n, step
<1>5. Gapless'
  <2>1. history' # <<>> /\ history'[Len(history')].to = current'
    BY <1>1
  <2>2. history'[1].from = start'
    <3>1. CASE n = 0
      <4>1. history = <<>> /\ current = start
        BY <3>1 DEF HistoryInv, Gapless, n
      <4> QED
        BY <1>1, <3>1, <4>1
    <3>2. CASE n # 0
      <4>1. history # <<>> /\ 1 \in 1 .. n
        BY <1>1, <3>2 DEF n
      <4> QED
        BY <1>1, <4>1 DEF HistoryInv, Gapless
    <3> QED
      BY <3>1, <3>2
  <2>3. ASSUME NEW i \in 1 .. n + 1, i > 1
        PROVE  history'[i].from = history'[i - 1].to
    <3>1. CASE i = n + 1
      <4>1. n \in 1 .. n /\ i - 1 = n /\ history # <<>> /\ history[n].to = current
        BY <1>1, <2>3, <3>1 DEF HistoryInv, Gapless, n
      <4> QED
        BY <1>1, <3>1, <4>1
    <3>2. CASE i # n + 1
      <4>1. i \in 1 .. n /\ i - 1 \in 1 .. n
        BY <1>1, <2>3, <3>2
      <4> QED
        BY <1>1, <2>3, <4>1 DEF HistoryInv, Gapless, n
    <3> QED
      BY <3>1, <3>2
  <2> QED
    BY <1>1, <2>1, <2>2, <2>3 DEF Gapless
<1>6. Climbing'
  <2>0. /\ n <= H(current)
        /\ \A i \in 1 .. n :
             /\ ValidateTransition(history[i].from, history[i].to)
             /\ H(history[i].from) < H(current) /\ H(history[i].to) <= H(current)
             /\ H(history[i].from) \in Nat /\ H(history[i].to) \in Nat
        /\ \A i, k \in 1 .. n :
             /\ i <= k => H(history[i].from) < H(history[k].to)
             /\ i < k => H(history[i].to) < H(history[k].to)
    <3>1. \A i \in 1 .. n : history[i].from \in State /\ history[i].to \in State
      BY <1>1
    <3>2. \A i \in 1 .. n : H(history[i].from) \in Nat /\ H(history[i].to) \in Nat
      BY <1>2, <3>1 DEF MaxMoves
    <3> QED
      BY <3>2 DEF HistoryInv, Climbing, n
  <2> DEFINE h == history'
  <2>1. \A i \in 1 .. n : h[i] = history[i]
    BY <1>1
  <2>2. h[n + 1].from = current /\ h[n + 1].to = next
    BY <1>1
  <2> HIDE DEF h
  <2>3. \A i \in 1 .. n + 1 : i \in 1 .. n \/ i = n + 1
    BY <1>1
  <2>4. ASSUME NEW i \in 1 .. n + 1
        PROVE  /\ ValidateTransition(h[i].from, h[i].to)
               /\ H(h[i].from) < H(next) /\ H(h[i].to) <= H(next)
    <3>1. CASE i = n + 1
      BY <1>3, <1>4, <2>2, <3>1
    <3>2. CASE i \in 1 .. n
      BY <1>3, <1>4, <2>0, <2>1, <3>2
    <3> QED
      BY <2>3, <3>1, <3>2
  <2>5. ASSUME NEW i \in 1 .. n + 1, NEW k \in 1 .. n + 1
        PROVE  /\ i <= k => H(h[i].from) < H(h[k].to)
               /\ i < k => H(h[i].to) < H(h[k].to)
    <3>1. CASE k = n + 1
      <4>1. H(h[i].from) < H(h[k].to)
        BY <2>2, <2>4, <3>1
      <4>2. i < k => H(h[i].to) < H(h[k].to)
        <5> SUFFICES ASSUME i < k PROVE H(h[i].to) < H(h[k].to)
          OBVIOUS
        <5>1. i \in 1 .. n
          BY <1>1, <3>1
        <5> QED
          BY <1>3, <1>4, <2>0, <2>1, <2>2, <3>1, <5>1
      <4> QED
        BY <4>1, <4>2
    <3>2. CASE k \in 1 .. n
      <4>1. CASE i \in 1 .. n
        BY <2>0, <2>1, <3>2, <4>1
      <4>2. CASE i = n + 1
        BY <1>1, <3>2, <4>2
      <4> QED
        BY <2>3, <4>1, <4>2
    <3> QED
      BY <2>3, <3>1, <3>2
  <2>6. n + 1 <= H(next)
    BY <1>1, <1>3, <1>4, <2>0
  <2> QED
    BY <1>1, <2>4, <2>5, <2>6 DEF Climbing, ValidateTransition, MatchesStates, Ruled, H, h
<1> QED
  BY <1>1, <1>5, <1>6 DEF HistoryInv

\* Every reachable state has a gapless and climbing history.
LEMMA HistoryInvariant == Spec => []HistoryInv
<1>1. Init => HistoryInv
  <2> SUFFICES ASSUME Init PROVE HistoryInv
    OBVIOUS
  <2>1. current \in State /\ start \in Start /\ Len(history) = 0
    BY LifecycleAssumption DEF LifecycleAssumption, Init
  <2>2. H(current) \in Nat
    BY <2>1, Heights DEF State, H, MaxMoves
  <2> QED
    BY <2>1, <2>2 DEF Init, HistoryInv, Gapless, Climbing
<1>2. HistoryInv /\ [Next]_vars => HistoryInv'
  <2> SUFFICES ASSUME HistoryInv, [Next]_vars PROVE HistoryInv'
    OBVIOUS
  <2>1. ASSUME NEW next \in State, Apply(next) PROVE HistoryInv'
    BY <2>1, ApplyKeepsHistory
  <2>2. CASE UNCHANGED vars
    BY <2>2 DEF vars, HistoryInv, Gapless, Climbing, ValidateTransition,
                MatchesStates, Ruled, H
  <2> QED
    BY <2>1, <2>2 DEF Next, Refuse
<1> QED
  BY <1>1, <1>2, PTL DEF Spec

(***************************************************************************)
(* The state machine is well typed, and no history has more than seven     *)
(* moves.                                                                  *)
(***************************************************************************)
THEOREM LifecycleTypeCorrect == Spec => []TypeOK
<1>1. HistoryInv => TypeOK
  <2> SUFFICES ASSUME HistoryInv PROVE TypeOK
    OBVIOUS
  <2>1. H(current) \in 0 .. MaxMoves
    BY Heights DEF HistoryInv, State, H
  <2>2. Len(history) \in Nat /\ Len(history) <= H(current)
    BY DEF HistoryInv, Climbing
  <2>3. Len(history) <= MaxMoves
    BY <2>1, <2>2 DEF MaxMoves
  <2> QED
    BY <2>3 DEF HistoryInv, TypeOK
<1> QED
  BY <1>1, HistoryInvariant, PTL

(***************************************************************************)
(* The history is a path from the first state to the current one that      *)
(* comes to no base state twice, whatever was refused in between.          *)
(***************************************************************************)
THEOREM HistoriesArePaths == Spec => []HistoryIsAPath
<1>1. HistoryInv => HistoryIsAPath
  <2> SUFFICES ASSUME HistoryInv PROVE HistoryIsAPath
    OBVIOUS
  <2> DEFINE n == Len(history)  V == Visited
  <2>1. /\ n \in Nat /\ DOMAIN history = 1 .. n
        /\ \A i \in 1 .. n : history[i].from \in State /\ history[i].to \in State
    <3> DEFINE Move == [from : State, to : State]
    <3>1. history \in Seq(Move)
      BY DEF HistoryInv
    <3>2. \A m \in Move : m.from \in State /\ m.to \in State
      OBVIOUS
    <3> HIDE DEF Move
    <3>3. n \in Nat /\ DOMAIN history = 1 .. n /\ \A i \in 1 .. n : history[i] \in Move
      BY <3>1
    <3> QED
      BY <3>2, <3>3
  <2>2. /\ Len(V) = n + 1 /\ DOMAIN V = 1 .. n + 1 /\ V[1] = start
        /\ \A i \in 1 .. n : V[i + 1] = history[i].to
    <3> DEFINE tos == [i \in 1 .. n |-> history[i].to]
    <3>1. tos \in Seq(State) /\ Len(tos) = n /\ \A i \in 1 .. n : tos[i] = history[i].to
      BY <2>1
    <3>2. V = <<start>> \o tos
      BY <2>1 DEF Visited
    <3>3. start \in State
      BY LifecycleAssumption DEF LifecycleAssumption, HistoryInv
    <3> HIDE DEF tos, V, n
    <3> QED
      BY <2>1, <3>1, <3>2, <3>3
  <2> HIDE DEF V
  <2>3. V[Len(V)] = current
    <3>1. CASE n = 0
      BY <2>2, <3>1 DEF HistoryInv, Gapless
    <3>2. CASE n # 0
      <4>1. history # <<>> /\ n \in 1 .. n
        BY <2>1, <3>2
      <4> QED
        BY <2>2, <4>1 DEF HistoryInv, Gapless
    <3> QED
      BY <3>1, <3>2
  <2>4. ASSUME NEW i \in 1 .. n PROVE history[i].from = V[i]
    <3>1. CASE i = 1
      <4>1. history # <<>>
        BY <2>1, <2>4
      <4> QED
        BY <2>2, <3>1, <4>1 DEF HistoryInv, Gapless
    <3>2. CASE i # 1
      <4>1. i > 1 /\ i - 1 \in 1 .. n /\ (i - 1) + 1 = i
        BY <2>1, <2>4, <3>2
      <4>2. V[i] = history[i - 1].to
        BY <2>2, <4>1
      <4> QED
        BY <4>1, <4>2 DEF HistoryInv, Gapless
    <3> QED
      BY <3>1, <3>2
  <2>5. ASSUME NEW i \in 1 .. n + 1, NEW k \in 1 .. n + 1, i < k
        PROVE  H(V[i]) < H(V[k])
    <3>1. i \in 1 .. n /\ k - 1 \in 1 .. n /\ i <= k - 1 /\ (k - 1) + 1 = k
      BY <2>1, <2>5
    <3>2. V[i] = history[i].from /\ V[k] = history[k - 1].to
      BY <2>2, <2>4, <3>1
    <3> QED
      BY <3>1, <3>2 DEF HistoryInv, Climbing
  <2>6. ASSUME NEW i \in 1 .. n + 1, NEW k \in 1 .. n + 1, V[i].base = V[k].base
        PROVE  i = k
    <3>1. H(V[i]) = H(V[k]) /\ H(V[i]) \in Nat
      <4>1. V[i] \in State
        <5>1. CASE i \in 1 .. n
          BY <2>1, <2>4, <5>1
        <5>2. CASE i = n + 1
          BY <2>2, <2>3, <5>2 DEF HistoryInv
        <5> QED
          BY <2>1, <5>1, <5>2
      <4> QED
        BY <2>6, <4>1, Heights DEF State, H, MaxMoves
    <3>2. ~(i < k) /\ ~(k < i)
      BY <2>5, <3>1
    <3> QED
      BY <2>1, <3>2
  <2> QED
    BY <2>1, <2>2, <2>3, <2>4, <2>6 DEF HistoryIsAPath, V
<1> QED
  BY <1>1, HistoryInvariant, PTL

(***************************************************************************)
(* For every registry of country rules a system with rules is entered no   *)
(* more often than it has initial rules, however its sub-states were shed  *)
(* in between: the rule that lets a move enter is another one each time,   *)
(* because the moves climb.                                                *)
(***************************************************************************)
THEOREM SystemsAreNotReentered == Spec => []EntriesAreLimited
<1>1. HistoryInv => EntriesAreLimited
  <2> SUFFICES ASSUME HistoryInv, NEW r \in Rules
               PROVE  Cardinality(Entries(r.system)) <= Cardinality(InitialRules(r.system))
    BY DEF EntriesAreLimited
  <2> DEFINE n == Len(history)
             Entered(i, q) == MatchesStates(q, history[i].from, history[i].to)
             S == Entries(r.system)
             T == InitialRules(r.system)
             f == [i \in S |-> CHOOSE q \in Rules : Entered(i, q)]
  <2>1. /\ n \in Nat /\ DOMAIN history = 1 .. n /\ S \subseteq 1 .. n
        /\ \A i \in 1 .. n : history[i].to \in State
    <3> DEFINE Move == [from : State, to : State]
    <3>1. history \in Seq(Move)
      BY DEF HistoryInv
    <3>2. \A m \in Move : m.to \in State
      OBVIOUS
    <3> HIDE DEF Move
    <3>3. n \in Nat /\ DOMAIN history = 1 .. n /\ \A i \in 1 .. n : history[i] \in Move
      BY <3>1
    <3> QED
      BY <3>2, <3>3 DEF Entries
  <2>2. ASSUME NEW i \in S
        PROVE  f[i] \in T /\ f[i].toBase = history[i].to.base
    <3>1. /\ history[i].from.sub = None /\ history[i].to.sub # None
          /\ history[i].to.sub.system = r.system
      BY DEF Entries
    <3>2. ValidateTransition(history[i].from, history[i].to)
      BY <2>1 DEF HistoryInv, Climbing
    <3>3. \E q \in Rules : Entered(i, q)
      BY <3>1, <3>2 DEF ValidateTransition, Ruled
    <3>4. f[i] \in Rules /\ Entered(i, f[i])
      <4> HIDE DEF Entered
      <4> QED
        BY <3>3
    <3> HIDE DEF f
    <3>5. f[i].system = r.system /\ f[i].toBase = history[i].to.base
      <4>1. /\ history[i].to.sub = [system |-> f[i].system, code |-> f[i].toCode]
            /\ f[i].toBase = history[i].to.base
        BY <3>4 DEF MatchesStates
      <4>2. history[i].to.sub.system = f[i].system
        BY <4>1
      <4> QED
        BY <3>1, <4>1, <4>2
    <3>6. f[i].fromCode = None
      BY <3>1, <3>4, LifecycleAssumption DEF LifecycleAssumption, MatchesStates
    <3> QED
      BY <3>4, <3>5, <3>6 DEF InitialRules
  <2>3. ASSUME NEW i \in S, NEW k \in S, f[i] = f[k] PROVE i = k
    <3>1. /\ i \in 1 .. n /\ k \in 1 .. n
          /\ H(history[i].to) = H(history[k].to)
      BY <2>1, <2>2, <2>3 DEF H
    <3>2. H(history[i].to) \in Nat
      BY <2>1, <3>1, Heights DEF State, H, MaxMoves
    <3>3. ~(i < k) /\ ~(k < i)
      BY <3>1, <3>2 DEF HistoryInv, Climbing
    <3> QED
      BY <3>1, <3>3
  <2>4. f \in Injection(S, T)
    <3> HIDE DEF f, S, T
    <3>1. f \in [S -> T] /\ \A i, k \in S : f[i] = f[k] => i = k
      <4>1. DOMAIN f = S /\ f = [i \in S |-> f[i]]
        BY DEF f
      <4> QED
        BY <2>2, <2>3, <4>1
    <3> QED
      BY <3>1 DEF Injection, IsInjective
  <2>5. IsFiniteSet(T)
    BY LifecycleAssumption, FS_Subset DEF LifecycleAssumption, InitialRules
  <2> QED
    BY <2>4, <2>5, FS_Injection
<1> QED
  BY <1>1, HistoryInvariant, PTL

-----------------------------------------------------------------------------
(***************************************************************************)
(* The stream that announces the states.  What a client was given and what *)
(* is on its wire are one increasing sequence, which ends at the cursor    *)
(* while the client is connected; every event of its tenant up to there is *)
(* in it or came late, and nothing else is in it.                          *)
(***************************************************************************)
Increasing(s) == \A i, k \in 1 .. Len(s) : i < k => s[i] < s[k]

Items(s) == {s[i] : i \in 1 .. Len(s)}

Own(c, i) == \E e \in stream : e.tenant = TenantOf[c] /\ e.id = i

\* What a client has up to some id, with the ids that are on their way to it.
HasAll(c, last, coming) ==
  \A e \in stream : e.tenant = TenantOf[c] /\ e.id <= last
    => e.id \in Items(received[c]) \union coming \/ e \in late[c]

ClientInv(c) ==
  /\ Increasing(received[c]) /\ Increasing(wire[c])
  /\ \A i \in Items(received[c]) \union Items(wire[c]) : Own(c, i)
  /\ LastEventId(c) <= sent[c]
  /\ \A i \in Items(wire[c]) : LastEventId(c) < i /\ i <= sent[c]
  /\ c \in connected => HasAll(c, sent[c], Items(wire[c]))
  /\ c \notin connected => wire[c] = <<>> /\ HasAll(c, LastEventId(c), {})

AckInv ==
  /\ AckTypeOK
  /\ IsFiniteSet(stream)
  /\ \A c \in Subscriber : ClientInv(c)

\* A set of numbers has a least one.
LEMMA LeastNumber ==
  ASSUME NEW T \in SUBSET Nat, T # {}
  PROVE  \E n \in T : \A m \in T : n <= m
<1> DEFINE R == OpToRel(<, Nat)
<1>1. IsWellFoundedOn(R, Nat)
  BY NatLessThanWellFounded
<1>3. \A x, y \in Nat : y < x => <<y, x>> \in R
  BY DEF OpToRel
<1> HIDE DEF R
<1>2. PICK n \in T : \A m \in T : ~(<<m, n>> \in R)
  BY <1>1, WFMin
<1>4. \A m \in T : n \in Nat /\ m \in Nat /\ ~(m < n)
  BY <1>2, <1>3
<1>5. \A m \in T : n <= m
  BY <1>4
<1> QED
  BY <1>5

\* A finite set of numbers can be listed in order: a smallest set that cannot is
\* not empty, and what is left without its least member can be listed.
LEMMA Sorting ==
  ASSUME NEW S \in SUBSET Nat, IsFiniteSet(S)
  PROVE  \E s \in [1 .. Cardinality(S) -> S] :
           \A i, k \in 1 .. Cardinality(S) : i < k => s[i] < s[k]
<1> DEFINE Sorted(U) == \E s \in [1 .. Cardinality(U) -> U] :
                          \A i, k \in 1 .. Cardinality(U) : i < k => s[i] < s[k]
           Sizes == {n \in Nat : \E U \in SUBSET Nat :
                       IsFiniteSet(U) /\ Cardinality(U) = n /\ ~Sorted(U)}
<1>1. SUFFICES ASSUME Sizes # {} PROVE FALSE
  <2>1. Cardinality(S) \in Nat
    BY FS_CardinalityType
  <2> QED
    BY <2>1
<1>2. PICK n \in Sizes : \A m \in Sizes : n <= m
  <2> HIDE DEF Sizes
  <2>1. Sizes \in SUBSET Nat
    BY DEF Sizes
  <2> QED
    BY <1>1, <2>1, LeastNumber
<1>3. PICK U \in SUBSET Nat : IsFiniteSet(U) /\ Cardinality(U) = n /\ ~Sorted(U)
  OBVIOUS
<1>4. n \in Nat /\ n # 0
  <2>1. CASE n = 0
    <3>1. [i \in {} |-> 0] \in [1 .. 0 -> U]
      OBVIOUS
    <3> QED
      BY <1>3, <2>1, <3>1
  <2> QED
    BY <2>1
<1>5. PICK u \in U : \A v \in U : u <= v
  <2>1. U # {}
    BY <1>3, <1>4, FS_EmptySet
  <2> QED
    BY <2>1, LeastNumber
<1> DEFINE V == U \ {u}
<1>6. IsFiniteSet(V) /\ Cardinality(V) = n - 1 /\ V \in SUBSET Nat
  BY <1>3, FS_RemoveElement
<1>7. Sorted(V)
  <2>1. n - 1 \in Nat /\ ~(n <= n - 1)
    BY <1>4
  <2> QED
    BY <1>2, <1>6, <2>1
<1> HIDE DEF V
<1>8. PICK t \in [1 .. n - 1 -> V] : \A i, k \in 1 .. n - 1 : i < k => t[i] < t[k]
  BY <1>6, <1>7
<1> DEFINE s == [i \in 1 .. n |-> IF i = 1 THEN u ELSE t[i - 1]]
<1>9. \A i \in 1 .. n : i # 1 => i - 1 \in 1 .. n - 1
  BY <1>4
<1>10. \A i \in 1 .. n : i # 1 => s[i] \in U /\ u < s[i]
  <2> SUFFICES ASSUME NEW i \in 1 .. n, i # 1 PROVE s[i] \in U /\ u < s[i]
    OBVIOUS
  <2>1. s[i] = t[i - 1] /\ t[i - 1] \in V
    BY <1>8, <1>9
  <2>2. s[i] \in U /\ s[i] # u
    BY <2>1 DEF V
  <2> HIDE DEF s
  <2>3. u \in Nat /\ s[i] \in Nat
    BY <2>2
  <2> QED
    BY <1>5, <2>2, <2>3
<1>11. s \in [1 .. n -> U]
  BY <1>10
<1>12. \A i, k \in 1 .. n : i < k => s[i] < s[k]
  <2> SUFFICES ASSUME NEW i \in 1 .. n, NEW k \in 1 .. n, i < k PROVE s[i] < s[k]
    OBVIOUS
  <2>1. k # 1
    BY <1>4
  <2>2. CASE i = 1
    BY <2>1, <2>2, <1>4, <1>10
  <2>3. CASE i # 1
    <3>1. i - 1 \in 1 .. n - 1 /\ k - 1 \in 1 .. n - 1 /\ i - 1 < k - 1
      BY <1>4, <1>9, <2>1, <2>3
    <3> QED
      BY <1>8, <2>1, <2>3, <3>1
  <2> QED
    BY <2>2, <2>3
<1> QED
  BY <1>3, <1>11, <1>12

\* An increasing sequence ends with its greatest item.
LEMMA LastIsGreatest ==
  ASSUME NEW s \in Seq(Nat), Increasing(s), s # <<>>
  PROVE  /\ Len(s) \in 1 .. Len(s) /\ s[Len(s)] \in Items(s)
         /\ \A i \in Items(s) : i <= s[Len(s)]
<1>1. Len(s) \in Nat \ {0}
  BY EmptySeq
<1>2. \A i \in 1 .. Len(s) : s[i] \in Nat
  BY ElementOfSeq
<1> QED
  BY <1>1, <1>2 DEF Increasing, Items

LEMMA EmptyIncreases == Increasing(<<>>) /\ Items(<<>>) = {}
BY EmptySeq DEF Increasing, Items

\* A sequence whose items are all below those of the next.
LEMMA Joined ==
  ASSUME NEW s \in Seq(Nat), NEW t \in Seq(Nat), Increasing(s), Increasing(t),
         \A i \in Items(s), k \in Items(t) : i < k
  PROVE  Increasing(s \o t) /\ Items(s \o t) = Items(s) \union Items(t)
<1> DEFINE m == Len(s)  n == Len(t)  u == s \o t
<1>1. /\ m \in Nat /\ n \in Nat /\ Len(u) = m + n
      /\ \A i \in 1 .. m + n : u[i] = IF i <= m THEN s[i] ELSE t[i - m]
  BY LenProperties, ConcatProperties
<1> HIDE DEF m, n, u
<1>2. \A i \in 1 .. m + n :
        \/ i \in 1 .. m /\ u[i] = s[i]
        \/ i - m \in 1 .. n /\ u[i] = t[i - m] /\ ~(i \in 1 .. m)
  BY <1>1
<1>3. (\A i \in 1 .. m : s[i] \in Items(s)) /\ (\A i \in 1 .. n : t[i] \in Items(t))
  BY DEF Items, m, n
<1>4. Increasing(u)
  <2> SUFFICES ASSUME NEW i \in 1 .. m + n, NEW k \in 1 .. m + n, i < k
               PROVE  u[i] < u[k]
    BY <1>1 DEF Increasing
  <2>1. CASE k \in 1 .. m
    <3>1. i \in 1 .. m
      BY <1>1, <2>1
    <3> QED
      BY <1>2, <2>1, <3>1 DEF Increasing, m
  <2>2. CASE ~(k \in 1 .. m) /\ i \in 1 .. m
    BY <1>2, <1>3, <2>2
  <2>3. CASE ~(k \in 1 .. m) /\ ~(i \in 1 .. m)
    <3>1. /\ i - m \in 1 .. n /\ k - m \in 1 .. n /\ i - m < k - m
          /\ u[i] = t[i - m] /\ u[k] = t[k - m]
      BY <1>1, <1>2, <2>3
    <3> QED
      BY <3>1 DEF Increasing, n
  <2> QED
    BY <2>1, <2>2, <2>3
<1>5. Items(u) = Items(s) \union Items(t)
  <2>1. \A i \in 1 .. m : i \in 1 .. m + n /\ u[i] = s[i]
    BY <1>1
  <2>2. \A i \in 1 .. n : i + m \in 1 .. m + n /\ u[i + m] = t[i]
    <3> TAKE i \in 1 .. n
    <3>1. i + m \in 1 .. m + n /\ ~(i + m <= m) /\ (i + m) - m = i
      BY <1>1
    <3> QED
      BY <1>1, <3>1
  <2> QED
    BY <1>1, <1>2, <2>1, <2>2 DEF Items, m, n
<1> QED
  BY <1>4, <1>5 DEF u

\* The head of an increasing sequence and what follows it.
LEMMA HeadIsLeast ==
  ASSUME NEW s \in Seq(Nat), Increasing(s), s # <<>>
  PROVE  /\ Tail(s) \in Seq(Nat) /\ Increasing(Tail(s)) /\ Head(s) \in Nat
         /\ Items(s) = {Head(s)} \union Items(Tail(s))
         /\ \A i \in Items(Tail(s)) : Head(s) < i
<1> DEFINE n == Len(s)  t == Tail(s)
<1>1. /\ n \in Nat \ {0} /\ t \in Seq(Nat) /\ Len(t) = n - 1 /\ Head(s) = s[1]
      /\ \A i \in 1 .. n - 1 : t[i] = s[i + 1]
      /\ Head(s) \in Nat
  BY EmptySeq, HeadTailProperties
<1> HIDE DEF n, t
<1>2. \A i \in 1 .. n - 1 : i + 1 \in 1 .. n /\ 1 < i + 1 /\ 1 \in 1 .. n
  BY <1>1
<1>3. \A i \in 1 .. n : i = 1 \/ (i - 1 \in 1 .. n - 1 /\ (i - 1) + 1 = i)
  BY <1>1
<1>4. Increasing(t) /\ \A i \in 1 .. n - 1 : s[1] < t[i]
  <2>1. \A i, k \in 1 .. n - 1 : i < k => i + 1 < k + 1
    BY <1>1
  <2> QED
    BY <1>1, <1>2, <2>1 DEF Increasing, n
<1>5. Items(s) = {s[1]} \union Items(t)
  <2>1. 1 \in 1 .. n /\ \A i \in 1 .. n : i # 1 => i - 1 \in 1 .. n - 1 /\ s[i] = t[i - 1]
    BY <1>1, <1>3
  <2>2. ASSUME NEW x \in Items(s) PROVE x \in {s[1]} \union Items(t)
    <3>1. PICK i \in 1 .. n : x = s[i]
      BY DEF Items, n
    <3>2. i # 1 => i - 1 \in 1 .. Len(t) /\ x = t[i - 1]
      BY <1>1, <2>1, <3>1
    <3> QED
      BY <3>1, <3>2 DEF Items
  <2>3. ASSUME NEW x \in {s[1]} \union Items(t) PROVE x \in Items(s)
    <3>1. ASSUME NEW i \in 1 .. n - 1 PROVE i + 1 \in 1 .. n /\ t[i] = s[i + 1]
      BY <1>1, <1>2
    <3> QED
      BY <1>1, <2>1, <3>1 DEF Items, n
  <2> QED
    BY <2>2, <2>3
<1> QED
  BY <1>1, <1>4, <1>5 DEF Items, t

\* A sequence extended by a greater number.
LEMMA Extended ==
  ASSUME NEW s \in Seq(Nat), Increasing(s), NEW x \in Nat, \A i \in Items(s) : i < x
  PROVE  /\ Append(s, x) \in Seq(Nat) /\ Increasing(Append(s, x))
         /\ Append(s, x) # <<>> /\ Append(s, x)[Len(Append(s, x))] = x
         /\ Items(Append(s, x)) = Items(s) \union {x}
<1> DEFINE n == Len(s)  t == Append(s, x)
<1>1. /\ n \in Nat /\ t \in Seq(Nat) /\ Len(t) = n + 1 /\ t[n + 1] = x
      /\ \A i \in 1 .. n : t[i] = s[i]
  BY LenProperties, AppendProperties
<1> HIDE DEF t
<1>2. \A i \in 1 .. n + 1 : i = n + 1 \/ i \in 1 .. n
  BY <1>1
<1>3. Items(t) = Items(s) \union {x}
  <2>1. n + 1 \in 1 .. n + 1 /\ \A i \in 1 .. n : i \in 1 .. n + 1
    BY <1>1
  <2> QED
    BY <1>1, <1>2, <2>1 DEF Items
<1>4. Increasing(t)
  <2> SUFFICES ASSUME NEW i \in 1 .. n + 1, NEW k \in 1 .. n + 1, i < k
               PROVE  t[i] < t[k]
    BY <1>1 DEF Increasing
  <2>1. i \in 1 .. n
    BY <1>1
  <2>2. s[i] \in Items(s)
    BY <2>1 DEF Items
  <2> QED
    BY <1>1, <1>2, <2>1, <2>2 DEF Increasing
<1>5. t # <<>>
  BY <1>1, EmptySeq
<1> QED
  BY <1>1, <1>3, <1>4, <1>5 DEF t

\* InOrder finds what it is looking for.
LEMMA Listing ==
  ASSUME NEW S \in SUBSET Nat, IsFiniteSet(S)
  PROVE  /\ InOrder(S) \in Seq(S) /\ InOrder(S) \in Seq(Nat)
         /\ Increasing(InOrder(S)) /\ Items(InOrder(S)) = S
<1> DEFINE n == Cardinality(S)  s == InOrder(S)
<1>1. n \in Nat
  BY FS_CardinalityType
<1>2. /\ s \in [1 .. n -> S]
      /\ \A i, k \in 1 .. n : i < k => s[i] < s[k]
  BY Sorting DEF InOrder
<1> HIDE DEF s, n
<1>3. s \in Seq(S) /\ Len(s) = n
  BY <1>1, <1>2, SeqDef
<1>4. s \in Seq(Nat)
  BY <1>3, SeqMonotonic
<1>5. IsFiniteSet(1 .. n) /\ Cardinality(1 .. n) = n
  BY <1>1, FS_Interval
<1>6. s \in Injection(1 .. n, S)
  <2>1. \A i, k \in 1 .. n : i # k => s[i] # s[k]
    <3>1. \A i \in 1 .. n : s[i] \in Nat
      BY <1>2
    <3> QED
      BY <1>1, <1>2, <3>1
  <2> QED
    BY <1>2, <2>1 DEF Injection, IsInjective
<1>7. s \in Surjection(1 .. n, S)
  BY <1>5, <1>6, FS_Injection DEF n
<1>8. Items(s) = S
  BY <1>2, <1>3, <1>7 DEF Items, Surjection
<1> QED
  BY <1>2, <1>3, <1>4, <1>8 DEF Increasing, s

\* A finite set of numbers has a greatest one.
LEMMA GreatestNumber ==
  ASSUME NEW S \in SUBSET Nat, IsFiniteSet(S), S # {}
  PROVE  \E m \in S : \A k \in S : k <= m
<1>1. InOrder(S) # <<>>
  BY Listing, EmptyIncreases
<1> QED
  BY <1>1, Listing, LastIsGreatest

-----------------------------------------------------------------------------
\* What holds of one client whatever happens to the others.
LEMMA ClientFacts ==
  ASSUME AckInv, NEW c \in Subscriber
  PROVE  /\ ClientInv(c) /\ stream \subseteq AckEvent /\ Id \subseteq Nat \ {0}
         /\ received[c] \in Seq(Id) /\ received[c] \in Seq(Nat)
         /\ wire[c] \in Seq(Id) /\ wire[c] \in Seq(Nat)
         /\ sent[c] \in Nat /\ sent[c] \in Id \union {0}
         /\ LastEventId(c) \in Nat /\ LastEventId(c) \in Id \union {0}
         /\ \A i \in Items(received[c]) : i <= LastEventId(c)
         /\ \A i \in Items(received[c]) \union Items(wire[c]) : i \in Nat
<1>1. /\ ClientInv(c) /\ stream \subseteq AckEvent
      /\ received[c] \in Seq(Id) /\ wire[c] \in Seq(Id) /\ sent[c] \in Id \union {0}
  BY DEF AckInv, AckTypeOK
<1>2. Id \subseteq Nat \ {0}
  BY AckAssumption DEF AckAssumption, Id
<1>3. received[c] \in Seq(Nat) /\ wire[c] \in Seq(Nat) /\ sent[c] \in Nat
  <2>1. Id \subseteq Nat
    BY <1>2
  <2>2. received[c] \in Seq(Nat) /\ wire[c] \in Seq(Nat)
    BY <1>1, <2>1, SeqMonotonic
  <2>3. sent[c] \in Nat
    <3>1. sent[c] \in Id \/ sent[c] = 0
      BY <1>1
    <3>2. \A i \in Id : i \in Nat
      BY <2>1
    <3>3. 0 \in Nat
      OBVIOUS
    <3> QED
      BY <3>1, <3>2, <3>3
  <2> QED
    BY <2>2, <2>3
<1>4. \A i \in Items(received[c]) \union Items(wire[c]) : i \in Nat
  BY <1>3, ElementOfSeq DEF Items
<1>5. CASE received[c] = <<>>
  BY <1>1, <1>2, <1>3, <1>4, <1>5, EmptyIncreases DEF LastEventId
<1>6. CASE received[c] # <<>>
  <2>1. /\ Increasing(received[c])
        /\ LastEventId(c) = received[c][Len(received[c])]
    BY <1>1, <1>6 DEF ClientInv, LastEventId
  <2>2. LastEventId(c) \in Items(received[c])
        /\ \A i \in Items(received[c]) : i <= LastEventId(c)
    BY <1>3, <1>6, <2>1, LastIsGreatest
  <2>3. LastEventId(c) \in Id
    BY <1>1, <1>3, <1>6, <2>1, LastIsGreatest, ElementOfSeq
  <2> QED
    BY <1>1, <1>2, <1>3, <1>4, <2>2, <2>3
<1> QED
  BY <1>5, <1>6

\* A step that has nothing to do with a client.
Unmoved(c) ==
  /\ stream' = stream /\ late' = late
  /\ received'[c] = received[c] /\ wire'[c] = wire[c] /\ sent'[c] = sent[c]
  /\ c \in connected' <=> c \in connected

LEMMA UnmovedClient ==
  ASSUME NEW c \in Subscriber, ClientInv(c), Unmoved(c)
  PROVE  ClientInv(c)'
BY DEF ClientInv, Own, HasAll, LastEventId, Unmoved

\* A new event joins the stream; one behind a cursor is late.
LEMMA PublishKeepsAckInv ==
  ASSUME AckInv, NEW e \in AckEvent, Publish(e)
  PROVE  AckInv'
<1>1. /\ stream' = stream \/ (e \notin stream /\ stream' = stream \union {e})
      /\ UNCHANGED <<connected, sent, wire, drops, received>>
      /\ late' = [c \in Subscriber |->
                    IF e \notin stream /\ e.tenant = TenantOf[c] /\ e.id <= Cursor(c)
                    THEN late[c] \union {e} ELSE late[c]]
      /\ published' = published \union {e}
  BY DEF Publish, Published
<1>2. AckTypeOK'
  BY <1>1 DEF AckInv, AckTypeOK
<1>3. IsFiniteSet(stream')
  BY <1>1, FS_AddElement DEF AckInv
<1>4. ASSUME NEW c \in Subscriber PROVE ClientInv(c)'
  <2>1. /\ ClientInv(c) /\ sent[c] \in Nat /\ LastEventId(c) \in Nat /\ e.id \in Nat
        /\ LastEventId(c)' = LastEventId(c) /\ LastEventId(c) <= sent[c]
    BY <1>1, ClientFacts, AckAssumption DEF AckAssumption, ClientInv, LastEventId
  <2>2. \A i : Own(c, i) => Own(c, i)'
    BY <1>1 DEF Own
  <2>3. ASSUME NEW last \in Nat, NEW coming, last <= Cursor(c), HasAll(c, last, coming)
        PROVE  HasAll(c, last, coming)'
    <3> SUFFICES ASSUME NEW f \in stream', f.tenant = TenantOf[c], f.id <= last
                 PROVE  f.id \in Items(received[c]) \union coming \/ f \in late'[c]
      BY <1>1 DEF HasAll
    <3>1. CASE f \in stream
      BY <1>1, <2>3, <3>1 DEF HasAll
    <3>2. CASE f \notin stream
      <4>1. f = e /\ e.id <= Cursor(c)
        BY <1>1, <2>1, <2>3, <3>2 DEF Cursor
      <4> QED
        BY <1>1, <3>2, <4>1
    <3> QED
      BY <3>1, <3>2
  <2>4. c \in connected => HasAll(c, sent[c], Items(wire[c]))'
    BY <1>1, <2>1, <2>3 DEF ClientInv, Cursor
  <2>5. c \notin connected => HasAll(c, LastEventId(c), {})'
    BY <1>1, <2>1, <2>3 DEF ClientInv, Cursor
  <2> QED
    BY <1>1, <2>1, <2>2, <2>4, <2>5 DEF ClientInv
<1> QED
  BY <1>2, <1>3, <1>4 DEF AckInv

\* A client comes back with the last id it saw.
LEMMA ConnectKeepsAckInv ==
  ASSUME AckInv, NEW c \in Subscriber, NEW t, Connect(c, t)
  PROVE  AckInv'
<1>0. /\ LastEventId(c) \in Id \union {0} /\ ClientInv(c)
      /\ sent \in [Subscriber -> Id \union {0}]
  BY ClientFacts DEF AckInv, AckTypeOK
<1>1. /\ c \notin connected /\ connected' = connected \union {c}
      /\ sent' = [sent EXCEPT ![c] = LastEventId(c)] /\ sent'[c] = LastEventId(c)
      /\ UNCHANGED <<stream, wire, drops, received, published, late>>
      /\ LastEventId(c)' = LastEventId(c)
  BY <1>0 DEF Connect, LastEventId
<1>2. AckTypeOK'
  BY <1>0, <1>1 DEF AckInv, AckTypeOK
<1>3. ClientInv(c)'
  <2>1. wire[c] = <<>> /\ HasAll(c, LastEventId(c), {})
    BY <1>0, <1>1 DEF ClientInv
  <2>2. HasAll(c, sent'[c], Items(wire[c]))
    BY <1>1, <2>1, EmptyIncreases
  <2>3. HasAll(c, sent[c], Items(wire[c]))'
    BY <1>1, <2>2 DEF HasAll
  <2>4. LastEventId(c) <= sent'[c]
    BY <1>1, ClientFacts
  <2>5. Items(wire'[c]) = {}
    BY <1>1, <2>1, EmptyIncreases
  <2> QED
    BY <1>0, <1>1, <2>3, <2>4, <2>5 DEF ClientInv, Own
<1>4. ASSUME NEW d \in Subscriber, d # c PROVE ClientInv(d)'
  <2>1. Unmoved(d)
    BY <1>0, <1>1, <1>4 DEF Unmoved
  <2> QED
    BY <2>1, UnmovedClient DEF AckInv
<1> QED
  BY <1>1, <1>2, <1>3, <1>4 DEF AckInv

\* The batch after a cursor leaves no event between the cursor and its end out.
LEMMA BatchFacts ==
  ASSUME AckInv, NEW c \in Subscriber
  PROVE  LET batch == EventsSince(TenantOf[c], sent[c]) IN
         /\ batch \subseteq Id /\ IsFiniteSet(batch)
         /\ \A i \in batch : Own(c, i) /\ sent[c] < i
         /\ \A e \in stream, m \in batch :
              e.tenant = TenantOf[c] /\ sent[c] < e.id /\ e.id <= m => e.id \in batch
<1> DEFINE after == After(TenantOf[c], sent[c])
           batch == EventsSince(TenantOf[c], sent[c])
           source == {f \in stream : f.tenant = TenantOf[c] /\ f.id > sent[c]}
           idOf == [f \in source |-> f.id]
<1>0. stream \subseteq AckEvent /\ Id \subseteq Nat \ {0} /\ sent[c] \in Nat
  BY ClientFacts
<1>1. after = {f.id : f \in source}
  BY DEF After
<1>2. IsFiniteSet(source)
  BY FS_Subset DEF AckInv
<1>3. IsFiniteSet(after)
  <2>1. idOf \in Surjection(source, after)
    BY <1>1 DEF Surjection
  <2> HIDE DEF idOf, source, after
  <2> QED
    BY <1>2, <2>1, FS_Surjection
<1>4. after \subseteq Id /\ \A i \in after : Own(c, i) /\ sent[c] < i
  BY <1>0, <1>1 DEF Own, Id
<1>5. batch = {i \in after : Cardinality({k \in after : k < i}) < Limit}
  BY DEF EventsSince, OldestOf
<1> HIDE DEF after
<1>6. batch \subseteq after /\ IsFiniteSet(batch)
  BY <1>3, <1>5, FS_Subset
<1>7. ASSUME NEW i \in after, NEW m \in batch, i <= m PROVE i \in batch
  <2>1. {k \in after : k < i} \subseteq {k \in after : k < m}
    <3>1. i \in Nat /\ m \in Nat /\ \A k \in after : k \in Nat
      BY <1>0, <1>4, <1>6
    <3>2. \A k \in after : k < i => k < m
      BY <1>7, <3>1
    <3> QED
      BY <3>2
  <2>2. IsFiniteSet({k \in after : k < m}) /\ IsFiniteSet({k \in after : k < i})
    BY <1>3, FS_Subset
  <2>3. Cardinality({k \in after : k < i}) <= Cardinality({k \in after : k < m})
    BY <2>1, <2>2, FS_Subset
  <2>4. /\ Cardinality({k \in after : k < i}) \in Nat
        /\ Cardinality({k \in after : k < m}) \in Nat /\ Limit \in Nat
    BY <2>2, FS_CardinalityType, AckAssumption DEF AckAssumption, Limit
  <2>5. Cardinality({k \in after : k < m}) < Limit
    BY <1>5
  <2>6. Cardinality({k \in after : k < i}) < Limit
    BY <2>3, <2>4, <2>5
  <2> QED
    BY <1>5, <2>6
<1>8. \A e \in stream : e.tenant = TenantOf[c] /\ sent[c] < e.id => e.id \in after
  BY <1>0, <1>1, AckAssumption DEF AckAssumption
<1> HIDE DEF batch, source
<1>9. /\ batch \subseteq Id /\ IsFiniteSet(batch)
      /\ \A i \in batch : Own(c, i) /\ sent[c] < i
      /\ \A e \in stream, m \in batch :
           e.tenant = TenantOf[c] /\ sent[c] < e.id /\ e.id <= m => e.id \in batch
  BY <1>4, <1>6, <1>7, <1>8
<1> QED
  BY <1>9 DEF batch

\* A batch goes onto the wire.
LEMMA SendBatchKeepsAckInv ==
  ASSUME AckInv, NEW c \in Subscriber, SendBatch(c)
  PROVE  AckInv'
<1> DEFINE batch == EventsSince(TenantOf[c], sent[c])
           last == CHOOSE i \in batch : \A k \in batch : k <= i
<1>1. /\ batch \subseteq Id /\ IsFiniteSet(batch)
      /\ \A i \in batch : Own(c, i) /\ sent[c] < i
      /\ \A e \in stream, m \in batch :
           e.tenant = TenantOf[c] /\ sent[c] < e.id /\ e.id <= m => e.id \in batch
  BY BatchFacts
<1>2. /\ c \in connected /\ batch # {}
      /\ wire' = [wire EXCEPT ![c] = @ \o InOrder(batch)]
      /\ sent' = [sent EXCEPT ![c] = last]
      /\ UNCHANGED <<stream, connected, drops, received, published, late>>
  BY DEF SendBatch
<1> HIDE DEF batch
<1>3. /\ ClientInv(c) /\ Id \subseteq Nat \ {0} /\ stream \subseteq AckEvent
      /\ wire[c] \in Seq(Id) /\ wire[c] \in Seq(Nat) /\ sent[c] \in Nat
      /\ LastEventId(c) \in Nat /\ LastEventId(c) <= sent[c]
      /\ \A i \in Items(wire[c]) : i \in Nat /\ i <= sent[c] /\ LastEventId(c) < i
  BY ClientFacts DEF ClientInv
<1>4. /\ batch \in SUBSET Nat /\ InOrder(batch) \in Seq(batch)
      /\ InOrder(batch) \in Seq(Nat) /\ InOrder(batch) \in Seq(Id)
      /\ Increasing(InOrder(batch)) /\ Items(InOrder(batch)) = batch
  <2>1. batch \in SUBSET Nat
    BY <1>1, <1>3
  <2> QED
    BY <1>1, <2>1, Listing, SeqMonotonic
<1>5. last \in batch /\ \A k \in batch : k <= last
  BY <1>1, <1>2, <1>4, GreatestNumber
<1>6. wire[c] \o InOrder(batch) \in Seq(Id)
  BY <1>3, <1>4, ConcatProperties
<1> HIDE DEF last
<1>7. AckTypeOK'
  BY <1>1, <1>2, <1>5, <1>6 DEF AckInv, AckTypeOK
<1>8. /\ sent'[c] = last /\ wire'[c] = wire[c] \o InOrder(batch)
      /\ received' = received /\ LastEventId(c)' = LastEventId(c)
  BY <1>2 DEF AckInv, AckTypeOK, LastEventId
<1>9. /\ Increasing(wire'[c]) /\ Items(wire'[c]) = Items(wire[c]) \union batch
  <2>1. \A i \in Items(wire[c]), k \in Items(InOrder(batch)) : i < k
    <3>1. \A i \in Items(wire[c]) : i \in Nat /\ i <= sent[c]
      BY <1>3
    <3>2. \A k \in batch : k \in Nat /\ sent[c] < k
      BY <1>1, <1>4
    <3>3. \A i \in Items(wire[c]), k \in batch : i < k
      BY <1>3, <3>1, <3>2
    <3> QED
      BY <1>4, <3>3
  <2>2. Increasing(wire[c])
    BY <1>3 DEF ClientInv
  <2> QED
    BY <1>3, <1>4, <1>8, <2>1, <2>2, Joined
<1>10. ClientInv(c)'
  <2>1. \A i \in Items(received[c]) \union Items(wire'[c]) : Own(c, i)'
    <3>1. \A i : Own(c, i) => Own(c, i)'
      BY <1>2 DEF Own
    <3> QED
      BY <1>1, <1>3, <1>9, <3>1 DEF ClientInv
  <2>2. sent[c] < last /\ last \in Nat
    BY <1>1, <1>4, <1>5
  <2>3. LastEventId(c) <= last
        /\ \A i \in Items(wire'[c]) : LastEventId(c) < i /\ i <= last
    <3>1. \A i \in batch : i \in Nat /\ sent[c] < i /\ i <= last
      BY <1>1, <1>4, <1>5
    <3> QED
      BY <1>3, <1>9, <2>2, <3>1
  <2>4. HasAll(c, sent[c], Items(wire[c]))'
    <3> SUFFICES ASSUME NEW e \in stream, e.tenant = TenantOf[c], e.id <= last
                 PROVE  \/ e.id \in Items(received[c]) \union Items(wire'[c])
                        \/ e \in late[c]
      BY <1>2, <1>8 DEF HasAll
    <3>1. e.id \in Nat
      BY <1>3, AckAssumption DEF AckAssumption
    <3>2. CASE e.id <= sent[c]
      <4>1. HasAll(c, sent[c], Items(wire[c]))
        BY <1>2, <1>3 DEF ClientInv
      <4> QED
        BY <1>9, <3>2, <4>1 DEF HasAll
    <3>3. CASE sent[c] < e.id
      BY <1>1, <1>5, <1>9, <3>3
    <3> QED
      BY <1>3, <3>1, <3>2, <3>3
  <2>5. Increasing(received[c])
    BY <1>3 DEF ClientInv
  <2> QED
    BY <1>2, <1>8, <1>9, <2>1, <2>3, <2>4, <2>5 DEF ClientInv
<1>11. ASSUME NEW d \in Subscriber, d # c PROVE ClientInv(d)'
  <2>1. Unmoved(d)
    BY <1>2, <1>11 DEF AckInv, AckTypeOK, Unmoved
  <2> QED
    BY <2>1, UnmovedClient DEF AckInv
<1> QED
  BY <1>2, <1>7, <1>10, <1>11 DEF AckInv

\* The next id on the wire arrives.
LEMMA ReceiveKeepsAckInv ==
  ASSUME AckInv, NEW c \in Subscriber, Receive(c)
  PROVE  AckInv'
<1> DEFINE head == Head(wire[c])  rest == Tail(wire[c])
<1>1. /\ ClientInv(c) /\ Id \subseteq Nat \ {0}
      /\ received[c] \in Seq(Id) /\ received[c] \in Seq(Nat)
      /\ wire[c] \in Seq(Id) /\ wire[c] \in Seq(Nat) /\ sent[c] \in Nat
      /\ LastEventId(c) \in Nat
      /\ \A i \in Items(received[c]) : i \in Nat /\ i <= LastEventId(c)
      /\ Increasing(received[c]) /\ Increasing(wire[c])
  BY ClientFacts DEF ClientInv
<1>2. /\ c \in connected /\ wire[c] # <<>>
      /\ received' = [received EXCEPT ![c] = Append(@, head)]
      /\ wire' = [wire EXCEPT ![c] = rest]
      /\ UNCHANGED <<stream, connected, sent, drops, published, late>>
  BY DEF Receive
<1>3. /\ head \in Id /\ rest \in Seq(Id) /\ rest \in Seq(Nat) /\ head \in Nat
      /\ Increasing(rest) /\ Items(wire[c]) = {head} \union Items(rest)
      /\ \A i \in Items(rest) : head < i
  BY <1>1, <1>2, HeadTailProperties, HeadIsLeast
<1> HIDE DEF head, rest
<1>4. LastEventId(c) < head /\ head <= sent[c]
  BY <1>1, <1>3 DEF ClientInv
<1>5. /\ Append(received[c], head) \in Seq(Id) /\ Increasing(Append(received[c], head))
      /\ Append(received[c], head) # <<>>
      /\ Append(received[c], head)[Len(Append(received[c], head))] = head
      /\ Items(Append(received[c], head)) = Items(received[c]) \union {head}
  <2>1. \A i \in Items(received[c]) : i < head
    BY <1>1, <1>3, <1>4
  <2>2. Append(received[c], head) \in Seq(Id)
    BY <1>1, <1>3, AppendProperties
  <2> QED
    BY <1>1, <1>3, <2>1, <2>2, Extended
<1>6. AckTypeOK'
  BY <1>2, <1>3, <1>5 DEF AckInv, AckTypeOK
<1>7. received'[c] = Append(received[c], head) /\ wire'[c] = rest /\ sent' = sent
  BY <1>2 DEF AckInv, AckTypeOK
<1>8. LastEventId(c)' = head
  BY <1>5, <1>7 DEF LastEventId
<1>9. ClientInv(c)'
  <2>1. \A i \in Items(received'[c]) \union Items(wire'[c]) : Own(c, i)'
    <3>1. \A i : Own(c, i) => Own(c, i)'
      BY <1>2 DEF Own
    <3> QED
      BY <1>1, <1>3, <1>5, <1>7, <3>1 DEF ClientInv
  <2>2. \A i \in Items(rest) : head < i /\ i <= sent[c]
    BY <1>1, <1>3 DEF ClientInv
  <2>3. HasAll(c, sent[c], Items(wire[c]))'
    <3>1. HasAll(c, sent[c], Items(wire[c]))
      BY <1>1, <1>2 DEF ClientInv
    <3>2. Items(received'[c]) \union Items(wire'[c])
            = Items(received[c]) \union Items(wire[c])
      BY <1>3, <1>5, <1>7
    <3> QED
      BY <1>2, <3>1, <3>2 DEF HasAll
  <2> QED
    BY <1>2, <1>3, <1>4, <1>5, <1>7, <1>8, <2>1, <2>2, <2>3 DEF ClientInv
<1>10. ASSUME NEW d \in Subscriber, d # c PROVE ClientInv(d)'
  <2>1. Unmoved(d)
    BY <1>2, <1>10 DEF AckInv, AckTypeOK, Unmoved
  <2> QED
    BY <2>1, UnmovedClient DEF AckInv
<1> QED
  BY <1>2, <1>6, <1>9, <1>10 DEF AckInv

\* The connection breaks; what it lost comes after the last id received.
LEMMA DisconnectKeepsAckInv ==
  ASSUME AckInv, NEW c \in Subscriber, Disconnect(c)
  PROVE  AckInv'
<1>1. /\ ClientInv(c) /\ stream \subseteq AckEvent /\ sent[c] \in Nat
      /\ LastEventId(c) \in Nat /\ LastEventId(c) <= sent[c]
      /\ \A i \in Items(wire[c]) : i \in Nat /\ LastEventId(c) < i
  BY ClientFacts DEF ClientInv
<1>2. /\ c \in connected /\ drops < MaxDrops /\ drops' = drops + 1
      /\ connected' = connected \ {c} /\ wire' = [wire EXCEPT ![c] = <<>>]
      /\ UNCHANGED <<stream, sent, received, published, late>>
      /\ LastEventId(c)' = LastEventId(c)
  BY DEF Disconnect, LastEventId
<1>3. AckTypeOK'
  <2>1. drops' \in 0 .. MaxDrops
    BY <1>2, AckAssumption DEF AckAssumption, AckInv, AckTypeOK
  <2>2. wire' \in [Subscriber -> Seq(Id)]
    BY <1>2, EmptySeq DEF AckInv, AckTypeOK
  <2> QED
    BY <1>2, <2>1, <2>2 DEF AckInv, AckTypeOK
<1>4. wire'[c] = <<>> /\ Items(wire'[c]) = {} /\ Increasing(wire'[c])
  BY <1>2, EmptyIncreases DEF AckInv, AckTypeOK
<1>5. ClientInv(c)'
  <2>1. HasAll(c, LastEventId(c), {})'
    <3> SUFFICES ASSUME NEW e \in stream, e.tenant = TenantOf[c], e.id <= LastEventId(c)
                 PROVE  e.id \in Items(received[c]) \/ e \in late[c]
      BY <1>2 DEF HasAll
    <3>1. e.id \in Nat /\ ~(e.id \in Items(wire[c])) /\ e.id <= sent[c]
      BY <1>1, AckAssumption DEF AckAssumption
    <3>2. HasAll(c, sent[c], Items(wire[c]))
      BY <1>1, <1>2 DEF ClientInv
    <3> QED
      BY <3>1, <3>2 DEF HasAll
  <2>2. \A i \in Items(received[c]) : Own(c, i)'
    BY <1>1, <1>2 DEF ClientInv, Own
  <2> QED
    BY <1>1, <1>2, <1>4, <2>1, <2>2 DEF ClientInv
<1>6. ASSUME NEW d \in Subscriber, d # c PROVE ClientInv(d)'
  <2>1. Unmoved(d)
    BY <1>2, <1>6 DEF AckInv, AckTypeOK, Unmoved
  <2> QED
    BY <2>1, UnmovedClient DEF AckInv
<1> QED
  BY <1>2, <1>3, <1>5, <1>6 DEF AckInv

\* Every reachable state of the stream and its clients satisfies the invariant.
LEMMA AckInvariant == AckSpec => []AckInv
<1>1. AckInit => AckInv
  <2> SUFFICES ASSUME AckInit PROVE AckInv
    OBVIOUS
  <2>1. AckTypeOK
    BY AckAssumption, EmptySeq DEF AckAssumption, AckInit, AckTypeOK
  <2>2. ASSUME NEW c \in Subscriber PROVE ClientInv(c)
    BY EmptyIncreases DEF AckInit, ClientInv, HasAll, LastEventId
  <2> QED
    BY <2>1, <2>2, FS_EmptySet DEF AckInit, AckInv
<1>2. AckInv /\ [AckNext]_ackVars => AckInv'
  <2> SUFFICES ASSUME AckInv, [AckNext]_ackVars PROVE AckInv'
    OBVIOUS
  <2>1. CASE UNCHANGED ackVars
    <3>1. \A c \in Subscriber : Unmoved(c)
      BY <2>1 DEF ackVars, Unmoved
    <3>2. AckTypeOK' /\ IsFiniteSet(stream')
      BY <2>1 DEF ackVars, AckInv, AckTypeOK
    <3> QED
      BY <3>1, <3>2, UnmovedClient DEF AckInv
  <2> QED
    BY <2>1, PublishKeepsAckInv, ConnectKeepsAckInv, SendBatchKeepsAckInv,
       ReceiveKeepsAckInv, DisconnectKeepsAckInv DEF AckNext
<1> QED
  BY <1>1, <1>2, PTL DEF AckSpec

(***************************************************************************)
(* The types of the stream, its connections and its clients.               *)
(***************************************************************************)
THEOREM AckTypeCorrect == AckSpec => []AckTypeOK
<1>1. AckInv => AckTypeOK
  BY DEF AckInv
<1> QED
  BY <1>1, AckInvariant, PTL

(***************************************************************************)
(* A client is given each event once and in the order of the ids, for any  *)
(* number of clients, events and broken connections and for every limit.   *)
(***************************************************************************)
THEOREM ClientsReadInOrder == AckSpec => []OnceAndInOrder
<1>1. AckInv => OnceAndInOrder
  <2> SUFFICES ASSUME AckInv, NEW c \in Subscriber
               PROVE  \A i, k \in DOMAIN received[c] :
                        i < k => received[c][i] < received[c][k]
    BY DEF OnceAndInOrder
  <2>1. Increasing(received[c]) /\ DOMAIN received[c] = 1 .. Len(received[c])
    BY ClientFacts, LenProperties DEF ClientInv
  <2> QED
    BY <2>1 DEF Increasing
<1> QED
  BY <1>1, AckInvariant, PTL

(***************************************************************************)
(* A client misses no event below its last id but those that came late.    *)
(***************************************************************************)
THEOREM NothingElseIsSkipped == AckSpec => []OnlyLateEventsAreSkipped
<1>1. AckInv => OnlyLateEventsAreSkipped
  <2> SUFFICES ASSUME AckInv, NEW c \in Subscriber, NEW e \in stream,
                      e.tenant = TenantOf[c], e.id < LastEventId(c)
               PROVE  \/ e.id \in {received[c][i] : i \in DOMAIN received[c]}
                      \/ e \in late[c]
    BY DEF OnlyLateEventsAreSkipped
  <2>1. Items(received[c]) = {received[c][i] : i \in DOMAIN received[c]}
    BY ClientFacts, LenProperties DEF Items
  <2>2. /\ ClientInv(c) /\ e.id \in Nat /\ sent[c] \in Nat /\ LastEventId(c) \in Nat
        /\ LastEventId(c) <= sent[c] /\ \A i \in Items(wire[c]) : i \in Nat /\ LastEventId(c) < i
    BY ClientFacts, AckAssumption DEF AckAssumption, ClientInv
  <2>3. e.id <= sent[c] /\ e.id <= LastEventId(c) /\ ~(e.id \in Items(wire[c]))
    BY <2>2
  <2> QED
    BY <2>1, <2>2, <2>3 DEF ClientInv, HasAll
<1> QED
  BY <1>1, AckInvariant, PTL

(***************************************************************************)
(* A client is given events of its own tenant only, although ids repeat    *)
(* from tenant to tenant (validate_subscription and events_since).         *)
(***************************************************************************)
OwnEventsOnly ==
  \A c \in Subscriber : \A i \in DOMAIN received[c] : Own(c, received[c][i])

THEOREM TenantsAreIsolated == AckSpec => []OwnEventsOnly
<1>1. AckInv => OwnEventsOnly
  <2> SUFFICES ASSUME AckInv, NEW c \in Subscriber, NEW i \in DOMAIN received[c]
               PROVE  Own(c, received[c][i])
    BY DEF OwnEventsOnly
  <2>1. received[c][i] \in Items(received[c])
    BY ClientFacts, LenProperties DEF Items
  <2> QED
    BY <2>1 DEF AckInv, ClientInv
<1> QED
  BY <1>1, AckInvariant, PTL
=============================================================================
