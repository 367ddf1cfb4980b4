------------------------ MODULE TransmissionLifecycle ------------------------
(***************************************************************************)
(* TransmissionStateMachine of crates/reconcile: a base state, an optional *)
(* country sub-state on top of it, the rules a country system configures   *)
(* for its sub-states, and the history of applied transitions.             *)
(***************************************************************************)
EXTENDS Naturals, Sequences, FiniteSets, BaseLifecycle

CONSTANTS
  None,       \* the absent Option
  SubState,   \* country sub-states: records [system, code]
  Rules,      \* the registry: records [system, fromBase, fromCode, toBase, toCode]
  Start       \* the states a machine may be built with

State == [base : TransmissionBaseState, sub : SubState \union {None}]

\* CountrySubStateTransition::build accepts a rule only over a base move.
Built(r) == CanTransitionTo(r.fromBase, r.toBase)

ASSUME LifecycleAssumption ==
  /\ None \notin SubState
  /\ Start \subseteq State
  /\ IsFiniteSet(Rules)
  /\ \A r \in Rules : Built(r) /\ None # [system |-> r.system, code |-> r.fromCode]

VARIABLES
  current,  \* the state of the machine
  history,  \* the transitions applied, oldest first
  start     \* the state it was built with

vars == <<current, history, start>>

\* The longest way from draft to archived.
MaxMoves == 7

TypeOK ==
  /\ current \in State
  /\ history \in Seq([from : State, to : State])
  /\ Len(history) <= MaxMoves
  /\ start \in Start

Init ==
  /\ start \in Start
  /\ current = start
  /\ history = <<>>

-----------------------------------------------------------------------------
\* Mutants: a rule is matched by its codes whatever the base move; a ruled
\* system must match a rule even to shed its sub-state; a refused move is kept.
CodesAlone(r, from, to) ==
  /\ to.sub = [system |-> r.system, code |-> r.toCode]
  /\ IF r.fromCode = None THEN from.sub = None
     ELSE from.sub = [system |-> r.system, code |-> r.fromCode]

\* CountrySubStateTransition::matches_states
MatchesStates(r, from, to) ==
  /\ r.fromBase = from.base /\ r.toBase = to.base
  /\ to.sub = [system |-> r.system, code |-> r.toCode]
  /\ IF r.fromCode = None THEN from.sub = None
     ELSE from.sub = [system |-> r.system, code |-> r.fromCode]

Ruled(system) == \E r \in Rules : r.system = system

SheddingNeedsARule(from, to) ==
  IF to.sub = None THEN from.sub # None => ~Ruled(from.sub.system)
  ELSE /\ from.sub # None => from.sub.system = to.sub.system
       /\ Ruled(to.sub.system) => \E r \in Rules : MatchesStates(r, from, to)

\* CountrySubStateRegistry::validate_transition.  A sub-state may always be
\* shed; a move may not change the system; a system with rules needs one.
ValidateTransition(from, to) ==
  to.sub # None =>
    /\ from.sub # None => from.sub.system = to.sub.system
    /\ Ruled(to.sub.system) => \E r \in Rules : MatchesStates(r, from, to)

Allowed(next) ==
  CanTransitionTo(current.base, next.base) /\ ValidateTransition(current, next)

Apply(next) ==
  /\ Allowed(next)
  /\ current' = next
  /\ history' = Append(history, [from |-> current, to |-> next])
  /\ UNCHANGED start

RefuseHalfway(next, blankReason) ==
  /\ blankReason \/ ~Allowed(next)
  /\ current' = IF CanTransitionTo(current.base, next.base) THEN next ELSE current
  /\ UNCHANGED <<history, start>>

\* apply returns an error, also for a blank reason, before it touches the
\* machine.
Refuse(next, blankReason) ==
  /\ blankReason \/ ~Allowed(next)
  /\ UNCHANGED vars

Next ==
  \E next \in State :
    Apply(next) \/ \E blankReason \in BOOLEAN : Refuse(next, blankReason)

Spec == Init /\ [][Next]_vars

\* The owner of a transmission goes on applying moves that are allowed.
FairSpec == Spec /\ WF_vars(\E next \in State : Apply(next))

-----------------------------------------------------------------------------
(***************************************************************************)
(* The history leads from the first state to the current one without a gap *)
(* and never comes back to a base state: a refused move leaves no trace.   *)
(***************************************************************************)
Visited == <<start>> \o [i \in DOMAIN history |-> history[i].to]

HistoryIsAPath ==
  /\ Visited[Len(Visited)] = current
  /\ \A i \in DOMAIN history : history[i].from = Visited[i]
  /\ \A i, k \in DOMAIN Visited : Visited[i].base = Visited[k].base => i = k

(***************************************************************************)
(* A sub-state may be shed and taken on again, but a system with rules is  *)
(* not entered more often than it has initial rules: shedding (the         *)
(* carve-out of validate_transition, lib.rs:951-958) does not let a        *)
(* country's clearance be started over, since each of its rules is for one *)
(* base move and a transmission makes no base move twice.                  *)
(***************************************************************************)
Entries(system) ==
  {i \in DOMAIN history : /\ history[i].from.sub = None
                          /\ history[i].to.sub # None
                          /\ history[i].to.sub.system = system}

InitialRules(system) == {r \in Rules : r.system = system /\ r.fromCode = None}

EntriesAreLimited ==
  \A r \in Rules : Cardinality(Entries(r.system)) <= Cardinality(InitialRules(r.system))

(***************************************************************************)
(* Whatever rules are configured, a transmission can always be moved on    *)
(* until it is archived (the carve-out of validate_transition,             *)
(* lib.rs:951-958).                                                        *)
(***************************************************************************)
ReachesArchive == <>IsTerminal(current.base)
=============================================================================
