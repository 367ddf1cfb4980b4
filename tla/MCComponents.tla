----------------------------- MODULE MCComponents -----------------------------
(***************************************************************************)
(* Six components that share no state, side by side: a behaviour follows  *)
(* one of them, chosen at its start, and leaves the others in their        *)
(* initial states.  A step of one never enables, disables or fulfils       *)
(* anything of another, so nothing is lost against all interleavings.      *)
(***************************************************************************)
EXTENDS MCTransmissionLifecycle, AckStream, RegistryReload, SmpCache,
        OutboxTables, RetrySchedule, TLC

VARIABLE part  \* the component that moves

CONSTANTS s1, tA, tB, w, r1, k1, k2, d1   \* model values

Part == {"lifecycle", "stream", "registry", "cache", "tables", "delays"}

\* Three events of the subscriber's tenant; another tenant's shares an id.
MCAckEvent == {[tenant |-> tA, id |-> i] : i \in 1 .. 3} \union {[tenant |-> tB, id |-> 2]}
MCTenantOf == [s \in Subscriber |-> tA]

\* Policies and hashes at the edges of the words: delays of 1, in the middle and
\* at the ceiling, no jitter and all of it, more attempts than bits.
EdgePolicies ==
  {p \in [maxAttempts : {1, 2, WordBits + 3}, baseDelay : {1, 2, 3, UMax \div 2, UMax},
          maxDelay : {1, 3, UMax \div 2 + 1, UMax}, jitterPercent : {0, 1, 100}] :
     ValidPolicy(p)}
EdgeHashes == {0, 1, UMax}

\* One manifest is loaded at the start.
OneLoaded == [f \in File |-> IF f = 1 THEN "v1" ELSE Absent]

\* Only the part that moves has several initial states.
Rest(p) == part = p \/ CASE p = "lifecycle" -> start = [base |-> "draft", sub |-> None]
                         [] p = "delays"    -> policy = CHOOSE q \in Policies : TRUE

ComponentsInit ==
  /\ part \in Part
  /\ Init /\ Rest("lifecycle")
  /\ AckInit
  /\ ReloadInit /\ registry = OneLoaded
  /\ CacheInit
  /\ TablesInit
  /\ ScheduleInit /\ Rest("delays")

ComponentsNext ==
  /\ UNCHANGED part
  /\ \/ /\ part = "lifecycle" /\ Next
        /\ UNCHANGED <<ackVars, reloadVars, cacheVars, tableVars, scheduleVars>>
     \/ /\ part = "stream" /\ AckNext
        /\ UNCHANGED <<vars, reloadVars, cacheVars, tableVars, scheduleVars>>
     \/ /\ part = "registry" /\ ReloadNext
        /\ UNCHANGED <<vars, ackVars, cacheVars, tableVars, scheduleVars>>
     \/ /\ part = "cache" /\ CacheNext
        /\ UNCHANGED <<vars, ackVars, reloadVars, tableVars, scheduleVars>>
     \/ /\ part = "tables" /\ TablesNext
        /\ UNCHANGED <<vars, ackVars, reloadVars, cacheVars, scheduleVars>>
     \/ /\ part = "delays" /\ RecordFailure
        /\ UNCHANGED <<vars, ackVars, reloadVars, cacheVars, tableVars>>

componentVars ==
  <<part, vars, ackVars, reloadVars, cacheVars, tableVars, scheduleVars>>

\* The fairness of each component; one that does not move is owed nothing.
ComponentsSpec ==
  /\ ComponentsInit /\ [][ComponentsNext]_componentVars
  /\ WF_vars(part = "lifecycle" /\ \E next \in State : Apply(next))
  /\ \A s \in Subscriber : WF_ackVars(part = "stream" /\ AckProgress(s))
  /\ WF_reloadVars(part = "registry" /\ WatcherProgress)
  /\ \A t \in Thread : WF_reloadVars(part = "registry" /\ ReadingProgress(t))

\* The type invariants of the components that have no run of their own.
ComponentsTypeOK ==
  AckTypeOK /\ ReloadTypeOK /\ CacheTypeOK /\ TablesTypeOK /\ ScheduleTypeOK

\* ReachesArchive asks for a move.
LifecycleReachesArchive == part = "lifecycle" => ReachesArchive
=============================================================================
