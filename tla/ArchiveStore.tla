---------------------------- MODULE ArchiveStore ----------------------------
(***************************************************************************)
(* LocalFsArchive of crates/archive: an evidence bundle is staged in a     *)
(* sibling temporary file, synced and renamed to its content-addressed     *)
(* path.  The model follows one bundle: its two directory entries, the     *)
(* files behind them, and the calls of Archive::store that race for them.  *)
(* The trait is Send + Sync and store takes &self, so two calls may store  *)
(* the same bundle at once, and both stage it under the same name.         *)
(*                                                                         *)
(* The file system is the usual POSIX one: rename is atomic, written       *)
(* blocks and directory entries reach the disk when it pleases, fsync of a *)
(* file forces its blocks and not the entry that names it.                 *)
(***************************************************************************)
EXTENDS Naturals

CONSTANTS
  Writer,      \* calls of store for the bundle, each repeated until it is Ok
  Inode,       \* files the directory entries may name
  NoFile,      \* the absent entry
  BlockCount,  \* write_all writes the packed bundle in this many pieces
  \* Bounds of the model.
  MaxCrashes, MaxPowerLosses, MaxIoErrors

Block == 1 .. BlockCount

ASSUME ArchiveAssumption ==
  /\ NoFile \notin Inode
  /\ BlockCount \in Nat \ {0}
  /\ {MaxCrashes, MaxPowerLosses, MaxIoErrors} \subseteq Nat

VARIABLES
  names,      \* the directory: what .ikb.tmp and .ikb name
  committed,  \* the directory as the disk holds it
  written,    \* blocks of each file a reader sees
  synced,     \* blocks of each file the disk is known to hold
  pc,         \* where each call of store is
  file,       \* the file each call has open
  next,       \* the block each call writes next
  done,       \* callers whose store returned Ok
  acked,      \* did a store return Ok since the last power loss
  overlapped, \* has a store ever begun while another was under way
  crashes, powerLosses, ioErrors

files   == <<written, synced>>
calls   == <<pc, file, next>>
promise == <<done, acked>>
budget  == <<crashes, powerLosses, ioErrors>>
vars    == <<names, committed, files, calls, promise, overlapped, budget>>

Entry     == Inode \union {NoFile}
Directory == [tmp : Entry, final : Entry]

\* One file never has both names.
OneName(d) == d.tmp = NoFile \/ d.tmp # d.final

(***************************************************************************)
(* Type invariant: the entries, also those of the disk, name distinct      *)
(* files, and what is synced was written.                                  *)
(***************************************************************************)
TypeOK ==
  /\ names \in Directory /\ OneName(names)
  /\ committed \in Directory /\ OneName(committed)
  /\ written \in [Inode -> SUBSET Block]
  /\ synced \in [Inode -> SUBSET Block]
  /\ \A i \in Inode : synced[i] \subseteq written[i]
  /\ pc \in [Writer -> {"idle", "writing", "synced"}]
  /\ file \in [Writer -> Entry]
  /\ \A w \in Writer : pc[w] # "idle" => file[w] \in Inode
  /\ next \in [Writer -> 1 .. BlockCount + 1]
  /\ done \subseteq Writer
  /\ acked \in BOOLEAN /\ overlapped \in BOOLEAN
  /\ crashes \in Nat /\ powerLosses \in Nat /\ ioErrors \in Nat

Init ==
  /\ names = [tmp |-> NoFile, final |-> NoFile]
  /\ committed = names
  /\ written = [i \in Inode |-> {}] /\ synced = written
  /\ pc = [w \in Writer |-> "idle"]
  /\ file = [w \in Writer |-> NoFile]
  /\ next = [w \in Writer |-> 1]
  /\ done = {} /\ acked = FALSE /\ overlapped = FALSE
  /\ crashes = 0 /\ powerLosses = 0 /\ ioErrors = 0

-----------------------------------------------------------------------------
(***************************************************************************)
(* Archive::store.                                                         *)
(***************************************************************************)
Named(d) == {d.tmp, d.final}

Unused == Inode \ (Named(names) \union Named(committed)
                   \union {file[w] : w \in {v \in Writer : pc[v] # "idle"}})

\* Mutants: the bundle is written in place over the stored one; the temporary
\* file must not exist yet; the file is not synced; it keeps both names.
StagedInPlace == IF names.final # NoFile THEN names.final
                 ELSE IF names.tmp # NoFile THEN names.tmp
                 ELSE CHOOSE i \in Unused : TRUE
MayCreateNewOnly(w) ==
  /\ pc[w] = "idle" /\ w \notin done
  /\ names.tmp = NoFile /\ Unused # {}
SyncSkipped(w) ==
  /\ pc[w] = "writing" /\ next[w] > BlockCount
  /\ pc' = [pc EXCEPT ![w] = "synced"]
  /\ UNCHANGED <<names, committed, files, file, next, promise, overlapped, budget>>
PublishedByLink == [names EXCEPT !.final = names.tmp]

\* The file File::create opens: it truncates the one a crashed or concurrent
\* call left under the temporary name.
Staged == IF names.tmp # NoFile THEN names.tmp ELSE CHOOSE i \in Unused : TRUE

MayCreate(w) ==
  /\ pc[w] = "idle" /\ w \notin done
  /\ names.tmp = NoFile => Unused # {}  \* bound: Inode has a file left

Create(w) ==
  /\ MayCreate(w)
  /\ names' = [names EXCEPT !.tmp = Staged]
  /\ written' = [written EXCEPT ![Staged] = {}]
  /\ synced' = [synced EXCEPT ![Staged] = {}]
  /\ pc' = [pc EXCEPT ![w] = "writing"]
  /\ file' = [file EXCEPT ![w] = Staged]
  /\ next' = [next EXCEPT ![w] = 1]
  /\ overlapped' = (overlapped \/ \E v \in Writer : pc[v] # "idle")
  /\ UNCHANGED <<committed, promise, budget>>

\* write_all, at the offset of this call's own handle.
Write(w) ==
  /\ pc[w] = "writing" /\ next[w] <= BlockCount
  /\ written' = [written EXCEPT ![file[w]] = @ \union {next[w]}]
  /\ next' = [next EXCEPT ![w] = @ + 1]
  /\ UNCHANGED <<names, committed, synced, pc, file, promise, overlapped, budget>>

SyncAll(w) ==
  /\ pc[w] = "writing" /\ next[w] > BlockCount
  /\ synced' = [synced EXCEPT ![file[w]] = written[file[w]]]
  /\ pc' = [pc EXCEPT ![w] = "synced"]
  /\ UNCHANGED <<names, committed, written, file, next, promise, overlapped, budget>>

\* fs::rename moves whatever file has the temporary name by now.
Published == [tmp |-> NoFile, final |-> names.tmp]

Rename(w) ==
  /\ pc[w] = "synced" /\ names.tmp # NoFile
  /\ names' = Published
  /\ pc' = [pc EXCEPT ![w] = "idle"]
  /\ done' = done \union {w} /\ acked' = TRUE
  /\ UNCHANGED <<committed, files, file, next, overlapped, budget>>

\* Another call has renamed the temporary file away: ArchiveError::Io.
RenameFindsNoFile(w) ==
  /\ pc[w] = "synced" /\ names.tmp = NoFile
  /\ pc' = [pc EXCEPT ![w] = "idle"]
  /\ UNCHANGED <<names, committed, files, file, next, promise, overlapped, budget>>

\* Any file operation may fail; store returns and leaves the temporary file.
IoError(w) ==
  /\ pc[w] # "idle" /\ ioErrors < MaxIoErrors
  /\ ioErrors' = ioErrors + 1
  /\ pc' = [pc EXCEPT ![w] = "idle"]
  /\ UNCHANGED <<names, committed, files, file, next, promise, overlapped,
                 crashes, powerLosses>>

-----------------------------------------------------------------------------
(***************************************************************************)
(* Around it: the process of a call dies, the disk catches up with the     *)
(* directory, the power fails.                                             *)
(***************************************************************************)
Crash(w) ==
  /\ pc[w] # "idle" /\ crashes < MaxCrashes
  /\ crashes' = crashes + 1
  /\ pc' = [pc EXCEPT ![w] = "idle"]
  /\ UNCHANGED <<names, committed, files, file, next, promise, overlapped,
                 powerLosses, ioErrors>>

Commit ==
  /\ committed # names
  /\ committed' = names
  /\ UNCHANGED <<names, files, calls, promise, overlapped, budget>>

\* Blocks that were not synced survive or not, one by one.
PowerLoss ==
  /\ powerLosses < MaxPowerLosses
  /\ powerLosses' = powerLosses + 1
  /\ \E left \in [Inode -> SUBSET Block] :
       /\ \A i \in Inode : synced[i] \subseteq left[i] /\ left[i] \subseteq written[i]
       /\ written' = left /\ synced' = left
  /\ names' = committed
  /\ pc' = [w \in Writer |-> "idle"]
  /\ acked' = FALSE
  /\ UNCHANGED <<committed, file, next, done, overlapped, crashes, ioErrors>>

Store(w) == Create(w) \/ Write(w) \/ SyncAll(w) \/ Rename(w) \/ RenameFindsNoFile(w)

Next ==
  \/ \E w \in Writer : Store(w) \/ IoError(w) \/ Crash(w)
  \/ Commit \/ PowerLoss

Spec == Init /\ [][Next]_vars

\* A call that has not returned Ok is made again, and a call makes progress.
FairSpec == Spec /\ \A w \in Writer : WF_vars(Store(w))

-----------------------------------------------------------------------------
(***************************************************************************)
(* Archive::retrieve and Archive::exists.                                  *)
(***************************************************************************)
Retrieve ==
  CASE names.final = NoFile -> "not_found"
    [] names.final # NoFile /\ written[names.final] = Block -> "bundle"
    [] OTHER -> "drift"

Exists == names.final # NoFile

(***************************************************************************)
(* A reader never meets a half-written bundle: an id that exists can be    *)
(* retrieved, whatever crash, I/O error or power loss came before          *)
(* (store stages, syncs, then renames; archive README.md:25).              *)
(***************************************************************************)
NeverHalfWritten == Exists => Retrieve = "bundle"

(***************************************************************************)
(* The code keeps that only for stores of a bundle that do not overlap:    *)
(* two calls share the temporary file.                                     *)
(***************************************************************************)
WholeUnlessOverlapped == ~overlapped => NeverHalfWritten

(***************************************************************************)
(* Until the power fails, a bundle whose store returned Ok can be          *)
(* retrieved, also while the same bundle is stored again, and after a      *)
(* second store died half-way: the later call works on its own file until  *)
(* the rename.                                                             *)
(***************************************************************************)
AckedIsReadable == ~overlapped /\ acked => Retrieve = "bundle"

(***************************************************************************)
(* Callers that race for one bundle and repeat a store that failed leave   *)
(* it readable in the end, unless the power fails: the debris of a crash   *)
(* does not stand in the way of a later store (File::create truncates a    *)
(* leftover temporary file).                                               *)
(***************************************************************************)
EventuallyStored == [](powerLosses = 0) => <>[](Retrieve = "bundle")

(***************************************************************************)
(* What makes them hold until stores overlap: the open file is the one     *)
(* under the temporary name, nothing that a final name ever showed is      *)
(* written to again, and a final name is only given to synced blocks.      *)
(***************************************************************************)
OneCall == \A v, w \in Writer : pc[v] # "idle" /\ pc[w] # "idle" => v = w

OpenIsStaged ==
  \A w \in Writer :
    /\ pc[w] # "idle" => file[w] = names.tmp
    /\ pc[w] = "writing" => 1 .. next[w] - 1 \subseteq written[file[w]]
    /\ pc[w] = "synced" => synced[file[w]] = Block

FinalIsWhole ==
  \A e \in {names.final, committed.final} : e # NoFile => synced[e] = Block

StagingInv ==
  /\ OneCall /\ OpenIsStaged /\ FinalIsWhole
  /\ names.tmp # NoFile => names.tmp # committed.final
  /\ acked => names.final # NoFile

UntilOverlap == ~overlapped => StagingInv
=============================================================================
