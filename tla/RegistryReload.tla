---------------------------- MODULE RegistryReload ----------------------------
(***************************************************************************)
(* HotReloadRegistry of crates/rulepack (hot_reload.rs): a registry of     *)
(* signed manifests behind an atomic pointer, read anew from a directory   *)
(* by a watcher thread and by callers of reload_now.  They list it entry   *)
(* by entry and read it file by file while it changes, without a lock      *)
(* around reading and storing, and any access to it may fail.              *)
(*                                                                         *)
(* A manifest that Manifest::from_json or verify rejects is malformed; the *)
(* file system and the channel of its events are external.                 *)
(***************************************************************************)
EXTENDS Naturals

CONSTANTS
  File,      \* names of manifest files, numbers in the order of their paths
  Absent,    \* no such file
  Malformed, \* a file that is rejected
  Version,   \* contents that verify
  Caller,    \* threads that call reload_now
  Watcher,   \* the watcher thread
  \* Bound of the model.
  MaxEdits

ASSUME ReloadAssumption ==
  /\ File \subseteq Nat
  /\ Absent # Malformed /\ Absent \notin Version /\ Malformed \notin Version
  /\ Watcher \notin Caller
  /\ MaxEdits \in Nat

VARIABLES
  directory,  \* the contents of each file
  registry,   \* what the pointer shows
  unread,     \* relevant events sent by the OS and not yet received
  pending,    \* the watcher owes a reload
  phase,      \* what each thread does
  unlisted,   \* names its listing has not come to
  todo,       \* files it has listed and not read
  reading,    \* the registry it is building
  stopping,   \* stop was called
  \* History, read by properties only.
  edits,      \* changes to the directory so far
  listedAt,   \* edits before each thread listed the directory
  storedAt,   \* listedAt of the registry that is shown
  newest,     \* the greatest listedAt that was ever stored
  failedAt,   \* the listedAt of the watcher's last reading that failed
  unannounced,\* the last edit no watcher was told of
  had         \* what each file held since each thread began to read

readingVars == <<phase, unlisted, todo, reading>>
readingHistory == <<listedAt, storedAt, newest, failedAt, had>>
reloadVars == <<directory, registry, unread, pending, readingVars, stopping,
                edits, unannounced, readingHistory>>

Content  == Version \union {Absent, Malformed}
Registry == [File -> Version \union {Absent}]
Thread   == Caller \union {Watcher}

ReloadTypeOK ==
  /\ directory \in [File -> Content]
  /\ registry \in Registry
  /\ unread \in 0 .. MaxEdits
  /\ pending \in BOOLEAN
  /\ phase \in [Thread -> {"none", "idle", "reading", "ended"}]
  /\ unlisted \in [Thread -> SUBSET File]
  /\ todo \in [Thread -> SUBSET File]
  /\ reading \in [Thread -> Registry]
  /\ stopping \in BOOLEAN
  /\ {edits, storedAt, newest, failedAt, unannounced} \subseteq 0 .. MaxEdits
  /\ listedAt \in [Thread -> 0 .. MaxEdits]
  /\ had \in [Thread -> [File -> SUBSET Content]]

Empty == [f \in File |-> Absent]
Unseen == [f \in File |-> {}]

\* load_from_dir has succeeded, and no watcher is running yet.
ReloadInit ==
  /\ registry \in Registry /\ directory = registry
  /\ unread = 0 /\ pending = FALSE
  /\ phase = [t \in Thread |-> IF t = Watcher THEN "none" ELSE "idle"]
  /\ unlisted = [t \in Thread |-> {}]
  /\ todo = [t \in Thread |-> {}]
  /\ reading = [t \in Thread |-> Empty]
  /\ stopping = FALSE
  /\ edits = 0 /\ storedAt = 0 /\ newest = 0 /\ failedAt = 0 /\ unannounced = 0
  /\ listedAt = [t \in Thread |-> 0]
  /\ had = [t \in Thread |-> Unseen]

Larger2(a, b) == IF a >= b THEN a ELSE b

-----------------------------------------------------------------------------
\* Mutants: a removed file is not relevant; a malformed file is loaded; what was
\* read before a failure is stored; the watcher looks for stop only after a
\* reload.
RemovalsIgnored(f, content) == content # Absent
RejectsOnlyMissing(content) == content = Absent
StoresWhatItHas(t) == "reading"
OnlyAfterReload(reloaded) == IF stopping /\ reloaded THEN "ended" ELSE "idle"

\* is_relevant: creation, modification and removal of a manifest file.
Relevant(f, content) == TRUE

Rejected(content) == content \in {Malformed, Absent}

\* stop_rx.try_recv at the end of each turn of the watcher's loop.
AfterTurn(reloaded) == IF stopping THEN "ended" ELSE "idle"

Watched == phase[Watcher] \in {"idle", "reading"}

\* Someone writes or removes a file.
Edit(f, content) ==
  /\ edits < MaxEdits /\ content # directory[f]
  /\ directory' = [directory EXCEPT ![f] = content]
  /\ edits' = edits + 1
  /\ IF Watched /\ Relevant(f, content)
     THEN unread' = unread + 1 /\ UNCHANGED unannounced
     ELSE /\ unannounced' = IF Watched THEN unannounced ELSE edits'
          /\ UNCHANGED unread
  /\ had' = [t \in Thread |-> IF phase[t] = "reading"
                              THEN [had[t] EXCEPT ![f] = @ \union {content}]
                              ELSE had[t]]
  /\ UNCHANGED <<registry, pending, readingVars, stopping, listedAt, storedAt,
                 newest, failedAt>>

\* spawn_watcher_with_debounce
SpawnWatcher ==
  /\ phase[Watcher] = "none"
  /\ phase' = [phase EXCEPT ![Watcher] = "idle"]
  /\ UNCHANGED <<directory, registry, unread, pending, unlisted, todo, reading,
                 stopping, edits, unannounced, readingHistory>>

\* event_rx.recv_timeout returns an event.
ReceiveEvent ==
  /\ phase[Watcher] = "idle" /\ unread > 0
  /\ unread' = unread - 1
  /\ pending' = TRUE
  /\ phase' = [phase EXCEPT ![Watcher] = AfterTurn(FALSE)]
  /\ UNCHANGED <<directory, registry, unlisted, todo, reading, stopping, edits,
                 unannounced, readingHistory>>

\* It returns an error or an event that is not relevant, or times out after 30
\* seconds with no reload owed: the thread only looks whether it shall stop.
WakeUp ==
  /\ phase[Watcher] = "idle"
  /\ phase' = [phase EXCEPT ![Watcher] = AfterTurn(FALSE)]
  /\ UNCHANGED <<directory, registry, unread, pending, unlisted, todo, reading,
                 stopping, edits, unannounced, readingHistory>>

\* read_registry begins to list the directory.
List(t) ==
  /\ phase[t] = "idle"
  /\ phase' = [phase EXCEPT ![t] = "reading"]
  /\ unlisted' = [unlisted EXCEPT ![t] = File]
  /\ listedAt' = [listedAt EXCEPT ![t] = edits]
  /\ had' = [had EXCEPT ![t] = [f \in File |-> {directory[f]}]]
  /\ UNCHANGED <<directory, registry, unread, todo, reading, stopping, edits,
                 unannounced, storedAt, newest, failedAt>>

\* The debounce passes without an event that has reached the thread.
DebouncePasses == List(Watcher) /\ pending /\ pending' = FALSE

\* A caller of reload_now.
ReloadNow(t) == t \in Caller /\ List(t) /\ UNCHANGED pending

\* The listing comes to an entry, in no order: a file that is there is noted.
Look(t) ==
  \E f \in unlisted[t] :
    /\ unlisted' = [unlisted EXCEPT ![t] = @ \ {f}]
    /\ todo' = IF directory[f] = Absent THEN todo
               ELSE [todo EXCEPT ![t] = @ \union {f}]
    /\ UNCHANGED <<directory, registry, unread, pending, phase, reading, stopping,
                   edits, unannounced, readingHistory>>

Turned(t) == IF t = Watcher THEN AfterTurn(TRUE) ELSE "idle"

AfterRejection(t) == Turned(t)

Forget(t) ==
  /\ reading' = [reading EXCEPT ![t] = Empty]
  /\ listedAt' = [listedAt EXCEPT ![t] = 0]
  /\ had' = [had EXCEPT ![t] = Unseen]

\* The reload returns an error and leaves the registry as it is; the watcher
\* drops the error, and owes no reload any more.
Fail(t) ==
  /\ phase' = [phase EXCEPT ![t] = AfterRejection(t)]
  /\ unlisted' = [unlisted EXCEPT ![t] = {}]
  /\ todo' = [todo EXCEPT ![t] = {}]
  /\ IF phase'[t] = "reading" THEN UNCHANGED <<reading, listedAt, had>>
     ELSE Forget(t)
  /\ failedAt' = IF t = Watcher THEN listedAt[t] ELSE failedAt
  /\ UNCHANGED <<directory, registry, unread, pending, stopping, edits,
                 unannounced, storedAt, newest>>

\* read_dir, an entry of it or read_to_string returns an I/O error.
FailReading(t) == unlisted[t] \union todo[t] # {} /\ Fail(t)

\* The next file in the order of the paths; one that is rejected or gone fails
\* the reload.
ReadFile(t) ==
  \E f \in todo[t] :
    /\ unlisted[t] = {} /\ \A g \in todo[t] : f <= g
    /\ IF Rejected(directory[f]) THEN Fail(t)
       ELSE /\ todo' = [todo EXCEPT ![t] = @ \ {f}]
            /\ reading' = [reading EXCEPT ![t][f] = directory[f]]
            /\ UNCHANGED <<directory, registry, unread, pending, phase, unlisted,
                           stopping, edits, unannounced, readingHistory>>

\* inner.store
Store(t) ==
  /\ phase[t] = "reading" /\ unlisted[t] = {} /\ todo[t] = {}
  /\ registry' = reading[t]
  /\ phase' = [phase EXCEPT ![t] = Turned(t)]
  /\ storedAt' = listedAt[t]
  /\ newest' = Larger2(newest, listedAt[t])
  /\ Forget(t)
  /\ UNCHANGED <<directory, unread, pending, unlisted, todo, stopping, edits,
                 unannounced, failedAt>>

\* WatchHandle::stop, or its drop; a watcher there must be.
Stop ==
  /\ Watched /\ ~stopping
  /\ stopping' = TRUE
  /\ UNCHANGED <<directory, registry, unread, pending, readingVars, edits,
                 unannounced, readingHistory>>

ReadingProgress(t) == Look(t) \/ ReadFile(t) \/ Store(t)

ReloadNext ==
  \/ \E f \in File, content \in Content : Edit(f, content)
  \/ SpawnWatcher \/ ReceiveEvent \/ WakeUp \/ DebouncePasses \/ Stop
  \/ \E t \in Caller : ReloadNow(t)
  \/ \E t \in Thread : ReadingProgress(t) \/ FailReading(t)

ReloadSpec == ReloadInit /\ [][ReloadNext]_reloadVars

\* Threads run, recv_timeout returns in time, and the OS delivers its events;
\* nobody has to edit, watch, reload or stop, and every access may fail.
WatcherProgress == ReceiveEvent \/ (WakeUp /\ ~pending) \/ DebouncePasses

ReloadFairSpec ==
  /\ ReloadSpec /\ WF_reloadVars(WatcherProgress)
  /\ \A t \in Thread : WF_reloadVars(ReadingProgress(t))

-----------------------------------------------------------------------------
(***************************************************************************)
(* A registry that is stored was read by the thread that stores it: each   *)
(* manifest was in its file at some moment since the listing began, and a  *)
(* file it lacks was absent at one, although files change while they are   *)
(* read, readings fail halfway and threads read at the same time           *)
(* (read_registry, 269-309, and reload_now, 115-119).                      *)
(***************************************************************************)
WholeReadings ==
  [][registry' # registry =>
       \E t \in Thread : /\ phase[t] = "reading" /\ phase'[t] # "reading"
                         /\ \A f \in File : registry'[f] \in had[t][f]]_reloadVars

(***************************************************************************)
(* Every edit of a watched directory is read: a registry from after it is  *)
(* stored, or the watcher meets an error while it reads that directory or  *)
(* a later one, or it ends.  No edit is forgotten for an event that comes  *)
(* during a reading, behind another one, or before the watcher is back     *)
(* (the loop of spawn_watcher_with_debounce, 186-211).                     *)
(***************************************************************************)
EditsAreRead ==
  \A n \in 1 .. MaxEdits :
    edits = n /\ Watched /\ unannounced < n
      ~> newest >= n \/ failedAt >= n \/ phase[Watcher] = "ended"

(***************************************************************************)
(* A watcher that is told to stop ends, in the middle of edits, of a       *)
(* reload or of a wait of 30 seconds: stop joins it (244-249).             *)
(***************************************************************************)
StopEnds == stopping ~> phase[Watcher] = "ended"
=============================================================================
