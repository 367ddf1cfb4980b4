---------------------------- MODULE ArchiveProofs ----------------------------
(***************************************************************************)
(* LocalFsArchive stages before it publishes: until two calls of store for *)
(* one bundle overlap, no crash, I/O error or power loss shows a           *)
(* reader half a bundle.                                                   *)
(***************************************************************************)
EXTENDS ArchiveStore, TLAPS

\* The file a store opens is one of the files, and not the final one.
LEMMA StagedFile ==
  ASSUME TypeOK, NEW w \in Writer, MayCreate(w)
  PROVE  /\ Staged \in Inode
         /\ Staged = names.tmp \/ Staged \in Unused
         /\ Staged # names.final
<1>1. CASE names.tmp # NoFile
  BY <1>1 DEF TypeOK, Staged, Directory, Entry, OneName
<1>2. CASE names.tmp = NoFile
  <2>1. Staged \in Unused
    BY <1>2 DEF Staged, MayCreate
  <2> QED
    BY <2>1 DEF Unused, Named
<1> QED
  BY <1>1, <1>2

LEMMA TypeInit == Init => TypeOK
<1> SUFFICES ASSUME Init PROVE TypeOK
  OBVIOUS
<1>1. 1 \in 1 .. BlockCount + 1
  BY ArchiveAssumption
<1>2. /\ names \in Directory /\ OneName(names)
      /\ committed \in Directory /\ OneName(committed)
  BY DEF Init, Directory, Entry, OneName
<1>3. /\ written \in [Inode -> SUBSET Block] /\ synced \in [Inode -> SUBSET Block]
      /\ \A i \in Inode : synced[i] \subseteq written[i]
  BY DEF Init
<1> QED
  BY <1>1, <1>2, <1>3 DEF Init, TypeOK, Entry

LEMMA TypeStep == TypeOK /\ [Next]_vars => TypeOK'
<1> SUFFICES ASSUME TypeOK, [Next]_vars PROVE TypeOK'
  OBVIOUS
<1>1. ASSUME NEW w \in Writer, Create(w) PROVE TypeOK'
  <2>1. /\ Staged \in Inode /\ Staged # names.final
    BY <1>1, StagedFile DEF Create
  <2>2. names' \in Directory /\ OneName(names')
    BY <1>1, <2>1, ArchiveAssumption DEF Create, TypeOK, Directory, Entry, OneName
  <2>3. /\ written' \in [Inode -> SUBSET Block] /\ synced' \in [Inode -> SUBSET Block]
        /\ \A i \in Inode : synced'[i] \subseteq written'[i]
    BY <1>1, <2>1 DEF Create, TypeOK
  <2>4. /\ pc' \in [Writer -> {"idle", "writing", "synced"}]
        /\ file' \in [Writer -> Entry]
        /\ next' \in [Writer -> 1 .. BlockCount + 1]
        /\ \A v \in Writer : pc'[v] # "idle" => file'[v] \in Inode
    BY <1>1, <2>1, ArchiveAssumption DEF Create, TypeOK, Entry
  <2> QED
    BY <1>1, <2>2, <2>3, <2>4 DEF Create, TypeOK, promise, budget
<1>2. ASSUME NEW w \in Writer, Write(w) PROVE TypeOK'
  <2>1. next[w] \in Block /\ next'[w] \in 1 .. BlockCount + 1
    BY <1>2, ArchiveAssumption DEF Write, TypeOK, Block
  <2>2. written' \in [Inode -> SUBSET Block]
    BY <1>2, <2>1 DEF Write, TypeOK
  <2>3. \A i \in Inode : written[i] \subseteq written'[i]
    BY <1>2 DEF Write, TypeOK
  <2>4. next' \in [Writer -> 1 .. BlockCount + 1]
    BY <1>2, <2>1 DEF Write, TypeOK
  <2> QED
    BY <1>2, <2>2, <2>3, <2>4 DEF Write, TypeOK, promise, budget
<1>3. ASSUME NEW w \in Writer, SyncAll(w) PROVE TypeOK'
  <2>1. file[w] \in Inode
    BY <1>3 DEF SyncAll, TypeOK
  <2>2. /\ synced' \in [Inode -> SUBSET Block]
        /\ \A i \in Inode : synced'[i] \subseteq written[i]
    BY <1>3, <2>1 DEF SyncAll, TypeOK
  <2>3. /\ pc' \in [Writer -> {"idle", "writing", "synced"}]
        /\ \A v \in Writer : pc'[v] # "idle" => file[v] \in Inode
    BY <1>3, <2>1 DEF SyncAll, TypeOK
  <2> QED
    BY <1>3, <2>2, <2>3 DEF SyncAll, TypeOK, promise, budget
<1>4. ASSUME NEW w \in Writer, Rename(w) PROVE TypeOK'
  <2>1. names' \in Directory /\ OneName(names')
    BY <1>4 DEF Rename, Published, TypeOK, Directory, Entry, OneName
  <2> QED
    BY <1>4, <2>1 DEF Rename, TypeOK, files, budget
<1>5. ASSUME NEW w \in Writer, RenameFindsNoFile(w) \/ IoError(w) \/ Crash(w)
      PROVE  TypeOK'
  BY <1>5 DEF RenameFindsNoFile, IoError, Crash, TypeOK, files, promise, budget
<1>6. CASE Commit
  BY <1>6 DEF Commit, TypeOK, files, calls, promise, budget
<1>7. CASE PowerLoss
  <2>1. names' \in Directory /\ OneName(names')
    BY <1>7 DEF PowerLoss, TypeOK
  <2>2. /\ written' \in [Inode -> SUBSET Block] /\ synced' \in [Inode -> SUBSET Block]
        /\ \A i \in Inode : synced'[i] \subseteq written'[i]
    <3>1. PICK left \in [Inode -> SUBSET Block] : written' = left /\ synced' = left
      BY <1>7 DEF PowerLoss
    <3> QED
      BY <3>1
  <2>3. /\ pc' \in [Writer -> {"idle", "writing", "synced"}]
        /\ \A w \in Writer : pc'[w] # "idle" => file'[w] \in Inode
    BY <1>7 DEF PowerLoss
  <2>4. UNCHANGED <<committed, file, next, done, overlapped>> /\ acked' \in BOOLEAN
    BY <1>7 DEF PowerLoss
  <2>5. crashes' \in Nat /\ powerLosses' \in Nat /\ ioErrors' \in Nat
    BY <1>7 DEF PowerLoss, TypeOK
  <2> QED
    BY <2>1, <2>2, <2>3, <2>4, <2>5 DEF TypeOK
<1>8. CASE UNCHANGED vars
  <2>1. UNCHANGED <<names, committed, written, synced, pc, file, next, done>>
    BY <1>8 DEF vars, files, calls, promise
  <2>2. UNCHANGED <<acked, overlapped, crashes, powerLosses, ioErrors>>
    BY <1>8 DEF vars, promise, budget
  <2> QED
    BY <2>1, <2>2 DEF TypeOK
<1> QED
  BY <1>1, <1>2, <1>3, <1>4, <1>5, <1>6, <1>7, <1>8 DEF Next, Store

\* Every reachable directory, on disk too, is well formed.
THEOREM ArchiveTypeCorrect == Spec => []TypeOK
BY TypeInit, TypeStep, PTL DEF Spec

-----------------------------------------------------------------------------
(***************************************************************************)
(* Until stores overlap, the open file is the staged one, and a name of a  *)
(* published bundle keeps its blocks.                                      *)
(***************************************************************************)
LEMMA StagingInit == Init => UntilOverlap
BY DEF Init, UntilOverlap, StagingInv, OneCall, OpenIsStaged, FinalIsWhole

\* While a call writes or syncs, its file is no final name, here or on disk.
LEMMA OpenIsNotFinal ==
  ASSUME TypeOK, StagingInv, NEW w \in Writer, pc[w] # "idle"
  PROVE  /\ file[w] \in Inode /\ file[w] = names.tmp
         /\ file[w] # names.final /\ file[w] # committed.final
         /\ \A v \in Writer : pc[v] # "idle" => v = w
BY ArchiveAssumption DEF TypeOK, StagingInv, OneCall, OpenIsStaged, OneName

LEMMA StagingStep ==
  ASSUME TypeOK, UntilOverlap, [Next]_vars
  PROVE  UntilOverlap'
<1> SUFFICES ASSUME ~overlapped' PROVE StagingInv'
  BY DEF UntilOverlap
<1>0. ~overlapped /\ StagingInv
  <2>1. overlapped => overlapped'
    BY DEF Next, Store, Create, Write, SyncAll, Rename, RenameFindsNoFile,
           IoError, Crash, Commit, PowerLoss, vars
  <2> QED
    BY <2>1 DEF UntilOverlap
<1> USE <1>0
<1>1. ASSUME NEW w \in Writer, Create(w) PROVE StagingInv'
  <2>1. \A v \in Writer : pc[v] = "idle"
    BY <1>1 DEF Create, MayCreate
  <2>2. /\ Staged \in Inode /\ Staged # names.final
        /\ Staged = names.tmp \/ Staged \in Unused
    BY <1>1, StagedFile DEF Create
  <2>3. Staged # committed.final
    <3>1. CASE Staged = names.tmp
      BY <2>2, <3>1, ArchiveAssumption DEF StagingInv
    <3>2. CASE Staged \in Unused
      BY <3>2 DEF Unused, Named
    <3> QED
      BY <2>2, <3>1, <3>2
  <2>4. /\ names'.tmp = Staged /\ names'.final = names.final /\ committed' = committed
        /\ acked' = acked
    BY <1>1 DEF Create, TypeOK, Directory, promise
  <2>5. \A v \in Writer : pc'[v] # "idle" => v = w /\ pc'[v] = "writing"
    BY <1>1, <2>1 DEF Create, TypeOK
  <2>6. file'[w] = Staged /\ next'[w] = 1
    BY <1>1 DEF Create, TypeOK
  <2>7. OneCall' /\ OpenIsStaged'
    BY <2>4, <2>5, <2>6 DEF OneCall, OpenIsStaged
  <2>8. \A e \in {names.final, committed.final} : e # NoFile => synced'[e] = synced[e]
    BY <1>1, <2>2, <2>3 DEF Create, TypeOK, Directory, Entry
  <2>9. FinalIsWhole'
    BY <2>4, <2>8 DEF StagingInv, FinalIsWhole
  <2> QED
    BY <2>3, <2>4, <2>7, <2>9 DEF StagingInv
<1>2. ASSUME NEW w \in Writer, Write(w) PROVE StagingInv'
  <2>1. UNCHANGED <<names, committed, synced, pc, file, acked>>
    BY <1>2 DEF Write, promise
  <2>2. pc[w] = "writing" /\ \A v \in Writer : pc[v] # "idle" => v = w
    BY <1>2, OpenIsNotFinal DEF Write
  <2>3. 1 .. next'[w] - 1 \subseteq written'[file[w]]
    <3>1. /\ next[w] \in 1 .. BlockCount + 1 /\ next'[w] = next[w] + 1
          /\ written'[file[w]] = written[file[w]] \union {next[w]}
          /\ 1 .. next[w] - 1 \subseteq written[file[w]]
      BY <1>2, <2>2, OpenIsNotFinal DEF Write, TypeOK, StagingInv, OpenIsStaged
    <3> QED
      BY <3>1, ArchiveAssumption
  <2>4. OpenIsStaged'
    BY <2>1, <2>2, <2>3 DEF StagingInv, OpenIsStaged
  <2> QED
    BY <2>1, <2>4 DEF StagingInv, OneCall, FinalIsWhole
<1>3. ASSUME NEW w \in Writer, SyncAll(w) PROVE StagingInv'
  <2>1. UNCHANGED <<names, committed, written, file, next, acked>>
    BY <1>3 DEF SyncAll, promise
  <2>2. /\ pc[w] = "writing" /\ \A v \in Writer : pc[v] # "idle" => v = w
        /\ file[w] \in Inode /\ file[w] # names.final /\ file[w] # committed.final
    BY <1>3, OpenIsNotFinal DEF SyncAll
  <2>3. synced'[file[w]] = Block
    <3>1. synced'[file[w]] = written[file[w]] /\ written[file[w]] \subseteq Block
      BY <1>3, <2>2 DEF SyncAll, TypeOK
    <3>2. next[w] = BlockCount + 1
      BY <1>3, ArchiveAssumption DEF SyncAll, TypeOK
    <3>3. 1 .. next[w] - 1 \subseteq written[file[w]]
      BY <2>2 DEF StagingInv, OpenIsStaged
    <3>4. 1 .. next[w] - 1 = Block
      BY <3>2, ArchiveAssumption DEF Block
    <3> QED
      BY <3>1, <3>3, <3>4
  <2>4. \A v \in Writer : pc'[v] # "idle" => v = w /\ pc'[v] = "synced"
    BY <1>3, <2>2 DEF SyncAll, TypeOK
  <2>5. OneCall' /\ OpenIsStaged'
    BY <2>1, <2>2, <2>3, <2>4 DEF StagingInv, OneCall, OpenIsStaged
  <2>6. \A e \in {names.final, committed.final} : e # NoFile => synced'[e] = synced[e]
    BY <1>3, <2>2 DEF SyncAll, TypeOK, Directory, Entry
  <2> QED
    BY <2>1, <2>5, <2>6 DEF StagingInv, FinalIsWhole
<1>4. ASSUME NEW w \in Writer, Rename(w) PROVE StagingInv'
  <2>1. /\ UNCHANGED <<committed, written, synced>>
        /\ names'.tmp = NoFile /\ names'.final = names.tmp /\ names.tmp # NoFile
    BY <1>4 DEF Rename, Published, files
  <2>2. synced[names.tmp] = Block
    BY <1>4, OpenIsNotFinal DEF Rename, StagingInv, OpenIsStaged
  <2>3. \A v \in Writer : pc'[v] = "idle"
    BY <1>4, OpenIsNotFinal DEF Rename, TypeOK
  <2>4. OneCall' /\ OpenIsStaged'
    BY <2>3 DEF OneCall, OpenIsStaged
  <2>5. FinalIsWhole'
    BY <2>1, <2>2 DEF StagingInv, FinalIsWhole
  <2> QED
    BY <2>1, <2>4, <2>5 DEF StagingInv
<1>5. ASSUME NEW w \in Writer, RenameFindsNoFile(w) \/ IoError(w) \/ Crash(w)
      PROVE  StagingInv'
  <2>1. UNCHANGED <<names, committed, written, synced, file, next, acked>>
    BY <1>5 DEF RenameFindsNoFile, IoError, Crash, files, promise
  <2>2. \A v \in Writer : pc'[v] # "idle" => pc'[v] = pc[v]
    BY <1>5 DEF RenameFindsNoFile, IoError, Crash, TypeOK
  <2> QED
    BY <2>1, <2>2 DEF StagingInv, OneCall, OpenIsStaged, FinalIsWhole
<1>6. CASE Commit
  <2>1. committed' = names /\ UNCHANGED <<names, files, calls, promise>>
    BY <1>6 DEF Commit
  <2>2. names.tmp # NoFile => names.tmp # names.final
    BY DEF TypeOK, OneName
  <2> QED
    BY <2>1, <2>2 DEF StagingInv, OneCall, OpenIsStaged, FinalIsWhole, files, calls, promise
<1>7. CASE PowerLoss
  <2>1. /\ names' = committed /\ committed' = committed /\ acked' = FALSE
        /\ \A v \in Writer : pc'[v] = "idle"
    BY <1>7 DEF PowerLoss
  <2>2. \A i \in Inode : synced[i] = Block => synced'[i] = Block
    <3>1. PICK left \in [Inode -> SUBSET Block] :
            /\ \A i \in Inode : synced[i] \subseteq left[i]
            /\ synced' = left
      BY <1>7 DEF PowerLoss
    <3> QED
      BY <3>1
  <2>3. FinalIsWhole'
    BY <2>1, <2>2 DEF StagingInv, FinalIsWhole, TypeOK, Directory, Entry
  <2>4. committed.tmp # NoFile => committed.tmp # committed.final
    BY DEF TypeOK, OneName
  <2> QED
    BY <2>1, <2>3, <2>4 DEF StagingInv, OneCall, OpenIsStaged
<1>8. CASE UNCHANGED vars
  BY <1>8 DEF vars, StagingInv, OneCall, OpenIsStaged, FinalIsWhole, files, calls, promise
<1> QED
  BY <1>1, <1>2, <1>3, <1>4, <1>5, <1>6, <1>7, <1>8 DEF Next, Store

\* Until stores overlap, a reader never meets a half-written bundle, and until
\* the power fails a bundle whose store returned Ok is there.
THEOREM StagingIsAtomic == Spec => [](WholeUnlessOverlapped /\ AckedIsReadable)
<1>1. TypeOK /\ UntilOverlap => WholeUnlessOverlapped /\ AckedIsReadable
  <2> SUFFICES ASSUME TypeOK, StagingInv, names.final # NoFile
               PROVE  Retrieve = "bundle"
    BY DEF UntilOverlap, StagingInv, WholeUnlessOverlapped, NeverHalfWritten,
           AckedIsReadable, Exists
  <2>1. names.final \in Inode /\ synced[names.final] = Block
    BY DEF TypeOK, Directory, Entry, StagingInv, FinalIsWhole
  <2>2. written[names.final] = Block
    BY <2>1 DEF TypeOK
  <2> QED
    BY <2>2 DEF Retrieve
<1> QED
  BY <1>1, TypeInit, TypeStep, StagingInit, StagingStep, PTL DEF Spec

\* The same for acknowledged bundles alone.
THEOREM AcksAreKept == Spec => []AckedIsReadable
  BY StagingIsAtomic, PTL
=============================================================================
