----------------------------- MODULE OutboxTables -----------------------------
(***************************************************************************)
(* The two tables of migrations/001_invoicekit_outbox and those who write  *)
(* them: an application that enqueues an envelope, a drain that writes     *)
(* what the worker made of a due row, and an operator who replays a dead   *)
(* letter (crates/cli/src/admin/replay.rs).  Each transaction is a step.   *)
(*                                                                         *)
(* Rows of both tables are unique by tenant and idempotency key: a table   *)
(* holds at most one row of a document, and refuses a second one whatever  *)
(* the writer has looked for before.  The worker's outcomes for a row are  *)
(* those of TransmissionWorker; here a call and its record are one step,   *)
(* or the record is lost.  The drain is external, and so is whoever moves  *)
(* a draft on: no code of the repository does.                             *)
(***************************************************************************)
EXTENDS Naturals

CONSTANTS
  Document,      \* a tenant and an idempotency key, with its payload
  NoRow,
  RowAttempts,   \* max_attempts of a row: the 8 replay writes, the default too
  \* Bounds of the model.
  MaxReplays,    \* replays of a document
  MaxUnwritten   \* calls for a document whose outcome was not recorded

LiveState == {"draft", "reserved", "sent", "rejected", "delivered"}
LiveRow == [state : LiveState, attempts : 0 .. RowAttempts]

ASSUME TablesAssumption ==
  /\ RowAttempts \in Nat \ {0}
  /\ {MaxReplays, MaxUnwritten} \subseteq Nat
  /\ NoRow \notin LiveRow

VARIABLES
  live,        \* invoicekit_outbox: state and attempt_count of each document
  dead,        \* documents with a row in invoicekit_outbox_dead_letter
  \* History, read by properties only.
  known,       \* documents ever enqueued
  submitted,   \* calls of the gateway for each document
  replays,     \* its replays
  unwritten,   \* its calls that no attempt_count shows
  settled      \* documents whose receipt was recorded

tableVars == <<live, dead, known, submitted, replays, unwritten, settled>>

TablesTypeOK ==
  /\ live \in [Document -> LiveRow \union {NoRow}]
  /\ dead \subseteq Document
  /\ known \subseteq Document
  /\ submitted \in [Document -> Nat]
  /\ replays \in [Document -> 0 .. MaxReplays]
  /\ unwritten \in [Document -> 0 .. MaxUnwritten]
  /\ settled \subseteq Document

TablesInit ==
  /\ live = [d \in Document |-> NoRow]
  /\ dead = {} /\ known = {} /\ settled = {}
  /\ submitted = [d \in Document |-> 0]
  /\ replays = [d \in Document |-> 0]
  /\ unwritten = [d \in Document |-> 0]

-----------------------------------------------------------------------------
\* Mutants: a row that is only sent is still due; a replay takes the dead letter
\* out of its table; a due row is called although its budget is used up.
DueUntilDelivered(d) == live[d] # NoRow /\ live[d].state \in {"reserved", "sent"}
TakenOut(d) == dead \ {d}
OneTooMany(d) == live[d].attempts >= RowAttempts

\* INSERT INTO invoicekit_outbox, which the unique key refuses beside another
\* row of the document.
Insert(d, state) ==
  /\ live[d] = NoRow
  /\ live' = [live EXCEPT ![d] = [state |-> state, attempts |-> 0]]

\* OutboxEnvelope::new, inserted; a document is enqueued once.
Enqueue(d) ==
  /\ d \notin known
  /\ Insert(d, "reserved")
  /\ known' = known \union {d}
  /\ UNCHANGED <<dead, submitted, replays, unwritten, settled>>

\* The worker refuses any state but reserved.
Due(d) == live[d] # NoRow /\ live[d].state = "reserved"

Call(d) == Due(d) /\ submitted' = [submitted EXCEPT ![d] = @ + 1]

Settle(d, state) ==
  /\ Call(d)
  /\ live' = [live EXCEPT ![d].state = state]
  /\ settled' = settled \union {d}
  /\ UNCHANGED <<dead, known, replays, unwritten>>

LastAttempt(d) == live[d].attempts + 1 >= RowAttempts

Reschedule(d) ==
  /\ Call(d) /\ ~LastAttempt(d)
  /\ live' = [live EXCEPT ![d].attempts = @ + 1]
  /\ UNCHANGED <<dead, known, replays, unwritten, settled>>

\* The worker gives the row up, after its last attempt or for an error that is
\* not retried, and the drain moves it.
MoveToDeadLetter(d) ==
  /\ Call(d) /\ d \notin dead
  /\ dead' = dead \union {d}
  /\ live' = [live EXCEPT ![d] = NoRow]
  /\ UNCHANGED <<known, replays, unwritten, settled>>

\* The call was made and nothing of it is written: the process died, or the
\* dead-letter table holds a row of the document and refuses a second one.
WriteNothing(d) ==
  /\ Call(d) /\ unwritten[d] < MaxUnwritten
  /\ unwritten' = [unwritten EXCEPT ![d] = @ + 1]
  /\ UNCHANGED <<live, dead, known, replays, settled>>

\* The conflict probe of replay.
LiveRowExists(d) == live[d] # NoRow

DeadAfterReplay(d) == dead

\* invoicekit-admin replay, not dry, of a document that has a dead letter: it
\* inserts a draft.  A replay that is refused rolls back and changes nothing.
Replay(d) ==
  /\ d \in dead /\ replays[d] < MaxReplays
  /\ ~LiveRowExists(d)
  /\ Insert(d, "draft")
  /\ dead' = DeadAfterReplay(d)
  /\ replays' = [replays EXCEPT ![d] = @ + 1]
  /\ UNCHANGED <<known, submitted, unwritten, settled>>

\* Someone moves the draft on to reserved.
Promote(d) ==
  /\ live[d] # NoRow /\ live[d].state = "draft"
  /\ live' = [live EXCEPT ![d].state = "reserved"]
  /\ UNCHANGED <<dead, known, submitted, replays, unwritten, settled>>

Drain(d) ==
  \/ \E state \in {"sent", "rejected", "delivered"} : Settle(d, state)
  \/ Reschedule(d)
  \/ MoveToDeadLetter(d)
  \/ WriteNothing(d)

TablesNext ==
  \E d \in Document : Enqueue(d) \/ Drain(d) \/ Replay(d) \/ Promote(d)

TablesSpec == TablesInit /\ [][TablesNext]_tableVars

\* The drain keeps running, and operators replay dead letters.
TablesFairSpec ==
  TablesSpec /\ \A d \in Document : WF_tableVars(Drain(d)) /\ WF_tableVars(Replay(d))

-----------------------------------------------------------------------------
(***************************************************************************)
(* No document is lost between the tables, and one that is in both was     *)
(* replayed: a refused replay or move leaves it where it is (replay.rs,    *)
(* 66-153, whose dead letter "stays as an audit trail").                   *)
(***************************************************************************)
EveryDocumentIsSomewhere ==
  \A d \in known :
    /\ live[d] # NoRow \/ d \in dead
    /\ live[d] # NoRow /\ d \in dead => replays[d] > 0
    /\ replays[d] > 0 => d \in dead

(***************************************************************************)
(* A document whose receipt was recorded is never submitted again, in      *)
(* whatever order moves, replays and lost outcomes come: its row is not    *)
(* taken again, and it keeps a second row out of the table (worker.rs:582, *)
(* replay.rs:95-109 and the unique key).  Of a receipt that was lost no    *)
(* row tells: that document is due, and is submitted again.                *)
(***************************************************************************)
ReceiptsAreFinal ==
  [][\A d \in settled : submitted'[d] = submitted[d]]_tableVars

(***************************************************************************)
(* Every replay buys a document one more budget of attempts, and every     *)
(* outcome that was not written one more call; nothing else does.          *)
(***************************************************************************)
CallsPerReplay ==
  \A d \in Document :
    submitted[d] <= RowAttempts * (1 + replays[d]) + unwritten[d]

(***************************************************************************)
(* The documentation of the replay command (replay.rs:3 and                *)
(* crates/cli/README.md:42): "re-enqueue a dead-letter row into the live   *)
(* outbox", with next_attempt_at = now: a replayed document is submitted   *)
(* again.                                                                  *)
(***************************************************************************)
ReplayedIsSubmitted ==
  \A d \in Document : \A n \in 1 .. 2 :
    replays[d] = 1 /\ submitted[d] = n ~> submitted[d] > n
=============================================================================
