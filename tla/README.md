# A verification project for InvoiceKit

InvoiceKit turns invoices into the formats of many countries, hands them to
gateways (Peppol access points, tax platforms), follows what becomes of them
and keeps evidence. Most of its crates are pure functions over documents. The
logic that is hard to test sits where a document leaves the process and where
several threads or callers share state: the outbox with its worker, tables and
replay command, a gateway behind it, the lifecycle of a transmission, webhooks,
the evidence archive, the rule-pack registry, the managed API with its rate
limiter, audit log and acknowledgement stream, and a lookup cache. These are the
parts modelled here in TLA+, checked with TLC on small instances and, for the
central properties, proved with TLAPS for all values of the constants.

Paths below are relative to `src/`; `reconcile` is `crates/reconcile/src`.

## 1. The system's parts

| part | state | operations | hard behaviours |
|---|---|---|---|
| transmission worker (`reconcile/worker.rs`) | last attempt, failure counter, open-until deadline | `process_once`, `process_batch` | the await of `submit`, one clock reading for a whole batch, dropped futures, crashes before outcomes are written |
| outbox envelope (`reconcile/outbox.rs`) | state, attempt count, retry policy | `record_failed_attempt`, `to_dead_letter`, `delay_for_attempt` | the budget across batches, saturating arithmetic, a dead letter that is refused |
| lifecycle (`reconcile/lib.rs`) | base state, country sub-state, history | `TransmissionStateMachine::apply` | rules of country systems, refused moves |
| gateway contract (`reconcile/lib.rs`) | none | `GatewayAdapter::submit` and others | answers lost after the document was taken |
| webhooks (`reconcile/webhook.rs`) | event-id ledger; per delivery the attempt | `deliver`, `sign`, `verify` | lost, late and duplicated requests, a receiver that fails between check and effect |
| evidence archive (`crates/archive`) | files by content hash | `store`, `retrieve`, `exists` | crash, I/O error, power loss, overlapping stores |
| reconcile API (`reconcile/reconcile_api.rs`) | none (reads rows) | `handle` | grouping of states |
| outbox and dead-letter tables, `replay` (`reconcile/../migrations`, `crates/cli/src/admin`) | rows under two unique keys | enqueue, settle, reschedule, dead-letter, `replay` | a replay racing the drain, a second dead letter of a document |
| rule packs (`crates/rulepack/src/hot_reload.rs`) | a registry behind an atomic pointer, a watcher thread | load, watch, `reload_now`, `stop` | a directory read while it changes, a reading that fails, two readings racing, a stop in the middle |
| managed API server (`services/managed-api-server`) | a token bucket per tenant | `take`, `GET /v1/audit/events` | the clock read outside the lock, rounded sums, retries that are refused again |
| audit log (`crates/managed-api/src/audit_log.rs`) | events of all tenants | `append`, `query` | offset cursors over a log that changes between the pages |
| acknowledgement stream (`crates/managed-api/src/sse_ack.rs`) | events by tenant and id | publish, `events_since`, reconnect | ids out of order, broken connections, repeated publishes |
| SMP/SML lookup (`crates/peppol-smp-sml`) | a TTL cache | `lookup` | slow answers that overtake newer ones |
| partner access point (`crates/transmit-peppol-partner`) | configuration | `submit` | a lost answer and the worker's retry |
| other gateways (`crates/transmit-*`) | configuration, scripts of mocks | `submit` and others | none beyond the above |
| everything else (formats, profiles, validation, rendering, intake, signing, reports, engine, bindings, applications) | none or data | pure functions | data, not control |

Interactions. A caller (no crate contains it; `worker.rs` and the SQL
migrations describe it) drains due rows of the outbox table into
`process_batch`, which awaits the gateway adapter and returns one outcome per
row; the caller writes them back, and moves rows that were given up to the
dead-letter table, from which `invoicekit-admin replay` takes them back. The
worker reads and advances the envelope in memory. State changes are announced by
webhooks and on the acknowledgement stream. Evidence bundles go to the archive,
whose id is recorded with the receipt. A client of the managed API passes the
tenant's rate limiter before it reads a page of the audit log. Rule packs and
looked-up access points are shared by all threads of a process. `PROJECT.json`
lists every component with the reason it is modelled or not, and every hazard at
its line.

What makes each part correct: the worker must neither resubmit what the gateway
acknowledged nor strand a row, and must respect breaker, spacing, backoff and
budget; the tables must lose no document and pay for every call; a lifecycle must
not start a country's clearance over, and must end; a webhook must be handled once, and really handled when
reported delivered; an archive must never show half a bundle nor lose one it
acknowledged; a registry must hold what its files held, and every edit be read; a
rate limiter must hold its rate and its promises; a walk through the log and a
stream of events must miss nothing and mix no tenants; a cache must not keep an
answer beyond its time.

## 2. The modules

| module | models |
|---|---|
| `RetryPolicy` | `delay_for_attempt` in saturating words of any width |
| `RetrySchedule` | the retries of one envelope under any policy and jitter |
| `TransmissionWorker` | worker, envelope, and the drain, gateway, clock and process around them |
| `AtLeastOnceDelivery` | the abstract promise of the outbox |
| `PartnerDelivery` | the worker composed with the partner access-point adapter |
| `OutboxTables` | the outbox and dead-letter tables, the writes to them, `replay` |
| `BaseLifecycle` | the nine states and their moves |
| `TransmissionLifecycle` | the state machine with country rules and history |
| `WebhookDelivery` | dispatcher, transport, verifier, receiver |
| `ArchiveStore` | `LocalFsArchive` on a POSIX file system |
| `RateLimiter` | the token bucket, fed with clock readings in any order |
| `AuditLog` | append, filters, order, pages and cursors |
| `ManagedApi` | composes both: `GET /v1/audit/events`, its producers and clients |
| `AckStream` | the acknowledgement stream and its subscribers |
| `RegistryReload` | the hot-reloaded registry, its watcher and callers of `reload_now` |
| `SmpCache` | `lookup` over its TTL cache |
| `MC...` | values of constants for TLC; `MCComponents` puts six components side by side |
| `RetryPolicyProofs` | theorems on `RetryPolicy` |
| `TransmissionWorkerProofs`, `DeliveryProofs` | on `TransmissionWorker`; the second also on `PartnerDelivery` |
| `ArchiveProofs`, `WebhookProofs`, `ManagedApiProofs` | on the module of that name; the last with `RateLimiter` and `AuditLog` |
| `LifecycleProofs` | on `TransmissionLifecycle` and `AckStream` |
| `ComponentProofs` | on `RetrySchedule`, `OutboxTables`, `SmpCache`, `RegistryReload` and the composition in `MCComponents` |

`PROJECT.json` maps each definition to the lines it stands for.

### TransmissionWorker

The call of `process_once` is cut at its only await. Before it, each early
return is an action: `RefuseNotReady` (`process_ready_state`),
`RefuseCircuitOpen`, `RefuseRateLimited`, `RefuseInvalidRequest`
(`SubmitRequest::new` fails), or `BeginSubmit`. After it, `ReceiveReceipt`,
`ScheduleRetry`, `DeadLetter` and `FailToDeadLetter` are the paths through the
receipt branch and `handle_gateway_error`. `lastAttempt`, `failures` and
`openUntil` are the worker's fields, which survive a dropped batch but not a
crash. `queue`, `calling` and `results` are the locals of `process_batch`:
outcomes reach the table only through `Persist`, after the batch has returned,
and `Crash` or `Cancel` loses them.

The drain (`StartBatch`, `Persist`), the gateway (`GatewayTakes`), the clock and
the process are external: modelled from what the crate requires of them. The
drain reads the clock once per batch and offers any due rows, also settled ones.
The gateway may take a document and still answer with any error. Variables from
`calls` on are history that properties read and no action tests.

Texts are reduced to one bit: whether `validate_text` accepts an error message,
which `GatewayError::new` does not check and a dead letter requires.

### AtLeastOnceDelivery

A document may reach the gateway any number of times while its row is
`reserved`; the row is settled once, as sent, delivered or rejected only after
the document did reach it, and a settled row is not offered again. The mapping
is `status <- state of the row, reached <- documents taken`.

### PartnerDelivery

The worker with `PartnerPeppolAdapter` in the place of the free gateway:
`DecodeSubmitResponse` and `ErrorKind` turn the classes of HTTP answers into the
receipts and errors the worker tells apart, and `PartnerAnswers` takes the
worker's step for them. A document that `format-ubl` cannot write (a row not in
`Serialisable`) ends as an `InvalidRequest` and is never posted; the texts of the
adapter's errors are taken to be printable. The partner may take the document and its answer be lost,
and (`Recognises`) may or may not know a document again. A 409 is an error that
is not retried, so where the partner does recognise it, a retry of a document it
has ends as a dead letter of a delivered document.

### OutboxTables

One call and its record are one step here, or the record is lost (`WriteNothing`);
how the worker gets to an outcome is the business of `TransmissionWorker`. What
remains are the tables: the unique key on tenant and idempotency key that both
have, the conflict probe and the insert of `replay`, and the drain that moves a
row from one to the other. The key is part of every `Insert`, so a second row of
a document is refused even where a probe would overlook the first. `settled`
remembers the documents whose receipt was recorded; a receipt that was lost with
its outcome leaves no trace here, as in the code. `Promote` is the step no code of the repository
takes: it moves a replayed draft on to `reserved`, and without it nothing after a
replay could be asked.

### TransmissionLifecycle

`Apply` and `Refuse` are the two results of `TransmissionStateMachine::apply`;
`ValidateTransition` and `MatchesStates` are the registry's check, with the
carve-out that lets a move shed its country code. `BaseLifecycle` holds
`can_transition_to`. That one move obeys its rule is the guard of `Apply` and no
property of its own; what the carve-out puts at risk is the whole way: a code
that was shed can be taken on again. `EntriesAreLimited` says that this does not
start a clearance over: over any history a system is entered at most once per
initial rule, because a rule names its base move and no base move comes twice.

### WebhookDelivery

`Send`, `Replied`, `TimesOut` and `WakeUp` are the loop of `deliver`; `Verify`
gives what `WebhookVerifier::verify` returns and the ledger it leaves, in its
order (window, then ledger). The receiver's side effect is a step after it
(`Handle`, or `HandlerFails`), as the module's documentation lays out. The
transport is external: it loses, delays and duplicates requests, and an attempt
may time out, answered or not. `Restart` keeps or loses the ledger: the one the
crate ships is in memory, and a receiver may supply its own.

### ArchiveStore

One bundle: its two directory entries (`.ikb.tmp`, `.ikb`), the files they name,
and the calls of `store`: `Create` truncates whatever has the temporary name,
`Write`, `SyncAll`, `Rename` (or `RenameFindsNoFile`). The disk holds its own
copy of the directory (`committed`), which catches up when it pleases; a power
loss falls back to it and keeps any part of the blocks that were not synced.

Two calls may overlap at every step. `overlapped` remembers that they did, and
the properties say what holds until then and what holds afterwards.

### RateLimiter, AuditLog, ManagedApi

`Take` is `take_at` under its lock with the reading its caller made before; it
keeps that reading as `lastRefill` even when it is older than the one before.
Levels are counted in parts of a token, so that the refill of a tick is whole; the
code computes in `f64`, and a refill or a wait may be off by up to `Rounding`
parts, which `rounded` counts. So a level may stay just short of a token after
several refusals, as ten additions of 0.1 do, and a wait may come out a tick
short: `RetryAfterSuffices` promises what the code does, service at the promised
time up to what was rounded since. Waits saturate at `WaitMax` (`u32::MAX`), and
that promises nothing. The fields of a policy are public and unchecked, so the
capacity and the refill may be 0; negative and NaN rates are left out.
`Page` is `InMemoryAuditStore::query`: filter, sort, and a page from an
offset. `ManagedApi` cuts a request where other requests interleave: `Arrive`
(the clock is read), `CheckRate` (the bucket's lock), `ReadPage` (the log's lock).
Its clients walk from the first page to the last and wait as `Retry-After` tells
them; producers append in any order of time.

### AckStream

`Publish` is idempotent on tenant and id. A connection sends what `EventsSince`
returns for its cursor; when it breaks, what was on the wire is gone, and the
client comes back with the last id it received. `late` remembers the events that
were published behind the cursor a client reads from, its connection's or, without
one, its own last id: the code never promises those.

### RegistryReload

A reading opens the directory (`List`), comes to its entries in any order
(`Look`), reads file by file in the order of the paths (`ReadFile`) and stores
(`Store`), in the watcher or in a caller of `reload_now`, while `Edit` changes
files between any two of these steps. A file that is malformed or gone ends the
reading with the old registry kept, and so does an I/O error of `read_dir`, of an
entry or of `read_to_string` (`FailReading`); the watcher has cleared `pending` by
then and drops the error, so it stays with the old registry until the next event.
`had` remembers what each file held since a reading began.
`ReceiveEvent`, `WakeUp` and `DebouncePasses` are the branches of the
watcher's `recv_timeout`, each followed by its look at the stop flag. Numbers of
edits stand for versions of the directory, so that a property can say which
reading is older.

### SmpCache

`Hit`, `Miss`, `Fetch` and `Put` cut a lookup where the cache's lock is released.
Each reading carries the time it was made, for the property only.

## 3. The runs

| run | question | result |
|---|---|---|
| `worker_recovery` | budget, earned dead letters, no resubmission, refinement, with crashes, dropped batches and unprintable errors | holds |
| `worker_pacing` | breaker, spacing, retry delays over many batches and slow calls | holds |
| `worker_liveness` | is every row decided | holds |
| `worker_unprintable` | are attempts bounded by `max_attempts` (outbox.rs:245) | violated |
| `partner_duplicates` | does the idempotency key make retries safe (lib.rs:259 of the crate) | violated |
| `replay_requeues` | is a replayed dead letter submitted (README.md:42 of `crates/cli`) | violated |
| `webhook_deliveries` | handled once, delivered is taken, backoff, termination | holds |
| `webhook_crash` | is a delivered event handled although the receiver may fail (webhook.rs:4, 172) | violated |
| `archive` | no half-written bundle, no lost acknowledgement, and every bundle stored in the end, stores in turn or overlapping | holds |
| `archive_concurrent` | is no bundle seen half-written (README.md:25 of the crate) while stores overlap | violated |
| `managed_api` | rate, promises of refusals, complete walks, walks end | holds |
| `components` | lifecycle, acknowledgement stream, registry, cache, tables, retry schedule: their safety and liveness | holds |

`components` checks six components that share nothing. Its variable `part`
chooses one per behaviour and the others stay as they are: a product of all
interleavings would say nothing more, for no step of one reads or writes what
another has.

Bounds.

* Worker: two rows (three for liveness, one of them invalid) and batches of two
  let a job fail behind one that succeeded and let rows compete for the breaker
  and the spacing; more rows add no new pair. Two or three attempts reach
  exhaustion and a growing delay; threshold 2 tells a counter from a flag, and
  `CounterMax = 3` lets it saturate past the threshold. `MaxNow` lets the breaker
  open, a probe fail and the circuit open again. `worker_pacing` has no crash:
  each crash starts a fresh worker, for which the question starts again; the
  theorems include crashes. `worker_liveness` has none either, because with one
  it exceeds the time a run may take.
* Delays: with `WordBits = 8` the seconds of the worker's runs stay far from
  saturation. The `delays` part of `components` starts from policies at the ends of
  the word (bases of 1 to `UMax`, no jitter and all of it, more attempts than
  bits), where shift, product and spread all saturate.
* Partner: one row is enough for a document that arrives twice.
* Webhooks: one event, because ledger entries of different events do not meet;
  four attempts make the power saturate (`WordMax = 3` stands for `u32::MAX`); two
  failures allow a restart after a failed side effect.
* Archive: two callers, two blocks and five files, two crashes, two power losses
  and an I/O error; content-addressed names keep different bundles apart.
* Managed API: two clients of one tenant compete for a bucket of one token whose
  refill is no divisor of it, and one result is off by a part; three events of the
  tenant and one of another can be appended between any two steps; one client
  asks for one kind of action and too large a page, the other for a page of none.
  `MaxNow = 10` lets both walks end, `MaxLag = 1` lets a reading come to the bucket
  one tick old. Saturated waits and policies of capacity or refill 0 are in the
  theorems, not in the run: with them no walk ends.
* Stream: three events of the subscriber's tenant and one of another under a
  shared id, batches of two, two broken connections: an event can be late, sent
  and lost, and sent again. A limit of 0, which the code raises to 1, is in the
  safety theorems only.
* Registry: two files with one good version, malformed or absent, the first loaded
  at the start; two edits, the watcher and one caller of `reload_now`. Two files
  tell a half-read directory from a whole one, and two edits let one come before
  the watch or during a reading and another after it. The theorems have no bound.
* Cache: two lookups, a time to live of two ticks, one move of the participant.
* Tables: one document, enqueued once (rows of different documents never meet), budget two, two
  replays, one lost outcome. `replay_requeues` has two documents and no lost one.
* Lifecycle: the registry of the crate's tests and one system without rules;
  histories end by themselves after at most seven moves.

Fairness. Every liveness property rests on steps the code or its scheduler takes
by itself.

* Worker: the caller polls the batch to its end, the gateway call returns
  (adapters carry a timeout), outcomes are written, time passes, and a drain that
  keeps running offers each due row first again and again. The last is strong
  fairness, for batches keep disabling it; a drain that always put one row behind
  others could starve it by spacing alone. `DrainMayLag = FALSE` says the same of
  the bounded clock, which must not run out while a valid row is due.
* Webhooks: `deliver` is a loop that runs, its transport returns.
* Archive: a call makes progress and a failed one is repeated.
* Lifecycle: its owner applies some allowed move while there is one.
* Managed API: a request that was sent is answered, a client that may ask does,
  time passes. Nobody has to append.
* Stream: clients reconnect, connections send, the wire delivers. Nobody has to
  publish, and connections break only `MaxDrops` times.
* Registry: threads run (`Look`, `ReadFile`, `Store`), `recv_timeout` returns, the
  system delivers its events. Nobody has to edit, watch, reload or stop, and any
  access may fail: `EditsAreRead` lets a reading that failed stand for one that
  was stored.
* Tables (`replay_requeues` only): the drain runs and operators replay. Nobody
  promotes a draft.

Deadlock is not checked where the system comes to rest: all rows decided, all
events delivered, all stores done, a transmission archived, the clock at its
bound.

## 4. Where the code and its words differ

Each is a run whose property quotes the words, and a finding in `PROJECT.json`.

* **An attempt that is not counted** (worker.rs:649, `worker_unprintable`). A
  gateway error with a blank message, or one with a control character, cannot
  become a dead letter; `process_once` returns an error and the advanced envelope
  is lost, so the next drain calls the gateway again, without end.
  `AttemptBudget` is the bound that remains: each lost outcome costs one more call.
* **A key nobody sends** (transmit-peppol-partner lib.rs:425,
  `partner_duplicates`). The adapter posts the document without the idempotency
  key, so a retry after a lost answer is a second submission for the partner.
* **A replay that ends as a draft** (replay.rs:129, `replay_requeues`). The
  command inserts the row in state `draft`; the worker takes only `reserved`, and
  nothing moves it on.
* **A webhook recorded before it is handled** (webhook.rs:279, `webhook_crash`).
  The retry after a failed side effect is answered as a duplicate.
* **One temporary name** (archive lib.rs:516, `archive_concurrent`). Overlapping
  stores of one bundle truncate each other's file; a reader can meet the torso
  under the final name.

Seen while modelling, and not contradicted by words that are definite enough for
a run:

* The breaker's deadline is computed from the clock reading its batch began with
  (worker.rs:671), so a circuit opened after slow calls is open for less than
  `open_seconds` of real time, possibly not at all. What holds, and is proved, is
  `BreakerHolds`, which measures from the same reading.
* Rows go from `reserved` to `delivered` or `rejected` without `sent`
  (worker.rs:719), which the lifecycle's own table does not allow.
* A replayed document cannot be dead-lettered again: the table keeps its first
  dead letter under a unique key, so the move is refused and the row stays due
  (`CallsPerReplay` counts those calls as unwritten).
* A 409 after a lost answer dead-letters a document the partner has.
* The rate limiter refills the time between two readings again when they reach it
  in the wrong order: `RateHolds` holds up to exactly that time (`regained`).
* A registry read by `reload_now` and the watcher at once may end with the older
  reading; an edit between loading a directory and watching it is not seen; and a
  reading of the watcher that fails is not repeated, so the registry stays stale
  until the next event. No property forbids these; `EditsAreRead` says what is left:
  an edit of a watched directory is read, or the reading of it fails.
* A caller that waits as told may be refused again because the limiter's sums are
  rounded (rate_limit.rs:139), and a policy with a refill or a capacity of 0
  answers with a wait that does not help.
* `append` of the audit log is idempotent on the event id across tenants: an id
  that another tenant has used is dropped with `Ok`.
* The archive's directory is not synced, so a power loss after `store` returned
  may forget the bundle; whether "persist" promises more is not said, and
  `AckedIsReadable` promises nothing beyond it.

## 5. What is proved

All theorems are checked by TLAPS from the constants' assumptions
(`WordAssumption`, `WorkerAssumption`, `ArchiveAssumption`,
`LifecycleAssumption`, `WebhookAssumption`, `PowerAssumption`,
`LimiterAssumption`, `ApiAssumption`, `TablesAssumption`, `CacheAssumption`,
`ScheduleAssumption`, `AckAssumption`, `ReloadAssumption`), which TLC evaluates
in the runs. None bounds the number of rows, events, clients, threads or
failures. Every invariant and every action property that a passing run checks
is proved; what is left to TLC is its eight liveness properties.

Retry policy and worker.

* `DelayBounds`: the delay lies between base and maximum for every word width,
  policy, attempt and hash. Lemmas: multiplier at least one, saturating
  multiplication by it never shrinks, jitter at most its cap.
* `SchedulesBackOff` (in `ComponentProofs`): the delays of one envelope stay in
  those bounds and none is shorter than the one before, whatever the jitter, until
  the multiplier reaches the last bit of its word. A delay is at most twice the
  exponential delay of its attempt (`DelayIsSpread`), which is what the next
  attempt has before saturation, and every saturation cuts both
  (`NextDoubles`). That `2^e` doubles is part of `ScheduleAssumption`.
* `TypeCorrect`: the worker's type invariant, with the failure counter below its
  saturation. It needs that a dead-letter or retry stays within the policy.
* `BreakerCorrect`: from `BreakerInv`. The property speaks of streak and last
  failure; the code keeps a counter and an optional deadline. The invariant ties
  them: equal counters, and from the threshold on the deadline is the last
  failure plus `open_seconds`, or was cleared by a batch that began after it.
* `SpacingCorrect`: from `SpacingInv`. Real time runs while a batch uses one old
  reading; the first call of a batch leaves a time that refuses the rest, so a
  call happens only at the moment its batch began.
* `ReceiptsAreKept` and `WorkerImplementsDelivery`: from `BatchInv`: a job is in
  one place of the batch, a collected outcome still fits its row, and a receipt
  is in the table or among the results. Without the first, a second outcome of a
  job could reopen a row.
* `AttemptsAreBudgeted`, `DeadLettersAreEarned`, `RetriesWait`: from `ChargeInv`,
  on top of `BatchInv`. A reserved row shows every call of its job but the lost
  ones and the one in flight, has attempts left, and is due no earlier than its
  last failure asked for; an outcome among the results says the same of the row it
  will become; and the queue holds only rows that were due when the batch began.
  The budget alone is not inductive: it does not say that a reserved row has an
  attempt left to spend.

* `PartnerWorkerIsWorker`: every step of the worker with the partner access
  point is a step of `TransmissionWorker`, so all of the above holds of it. Its
  hypothesis is that `Replies`, which the worker's theorems leave open, contains
  what `DecodeSubmitResponse` returns (`PartnerReplies`); the run gives it that
  very set. `DuplicatesAreBudgeted`: the duplicates that `partner_duplicates`
  finds are no more than the calls of the attempt budget, and there are none
  where the partner recognises what it has. From `SubmissionInv`, on top of the
  budget: each submission is paid by a call, and a call still on its way is not
  spent yet.

Tables and cache (`ComponentProofs`).

* `DocumentsAreKept`, `CallsArePaid`, `RecordedReceiptsAreFinal`: from `TablesInv`.
  A document is in one table unless it was replayed, a live row has calls left to
  make (`Charged`), and the row of a document whose receipt was recorded is settled
  and still there, so it is neither due nor joined by a draft. Documents whose
  receipt was lost are outside the third, and are submitted again.
* `HitsStayRecent`: from `CacheInv`: an entry expires at the latest a time to live
  and the slowest put after its access point was given up, and an answer on its
  way was true when it was read.

Registry (`ComponentProofs`). `RegistriesAreWhole`, `OnlyCallersOvertake`,
`ReloadTypeCorrect`: from `ReloadInv`. `WholeReadings` speaks of the step that
stores; it becomes inductive with what a reading knows half-way (`ReadingInv`):
what it holds of a file that is no longer to be looked at or read is among what
that file held since it began, and every file had something then. Edits add to
that and never take away. `OnlyCallersOvertake` is about the hazard that remains:
the registry shown is older than one that was shown before only where there are
callers of `reload_now`; the watcher never overtakes itself.

Acknowledgement stream (`LifecycleProofs`). `ClientsReadInOrder`,
`NothingElseIsSkipped`, `TenantsAreIsolated`, `AckTypeCorrect`: from `ClientInv`.
The wire continues what was received and ends no later than the server's cursor;
below the cursor every event of the tenant was received, is on the wire or came
late (`HasAll`); and off the wire the same holds up to the client's last id. That
the client's id is what reconnects, not the server's cursor, is what makes the
lost frames of a connection come again. The proofs need that the `limit` smallest
numbers of a finite set exist and can be listed in order (`Sorting`, `Listing`,
`GreatestNumber`). This is induction over data, which the library's theorems
cannot be used for here; it is done by a smallest counterexample instead:
`WFMin`, which takes a relation and a set rather than an operator, gives the
least number that is the size of a set that cannot be listed.

Composition (`ComponentProofs`). `ComponentsRunOnTheirOwn`: a behaviour of
`MCComponents` is a behaviour of each of its six components, so the theorems on
each hold of what the run checks; `ComponentsTypeCorrect` is one consequence.

Managed API.

* `GrantsAreBounded`: from `LimiterInv`: what was granted and what is in the bucket
  were paid for (`PaidFor`) by the burst, the time up to the last refill, the
  time unordered readings gave back and what was rounded up.
* `PromisesAreKept`: the same invariant with `Promised`: at the promised time the
  bucket will reach a token but for what was rounded since (`Reaches`), whatever
  refusals move `lastRefill` to and fro. It holds for every capacity, refill, size
  and number of roundings; a saturated wait is no promise, and a bucket without
  room for a token keeps none.
* `WalksAreComplete`, `RepeatsAreExplained`: from `WalkInv`: below a client's
  cursor, every event of its snapshot has been seen, because insertions only move
  events away from the cursor; and an event seen above it was moved there by one
  that is no later. This needs that positions in a finite sorted result are
  counted by a bijection, which the lemmas derive from `FiniteSetTheorems`.
* `ApiTypeCorrect`.

Lifecycle. `HistoriesArePaths` and `SystemsAreNotReentered` from `HistoryInv`; the
history never returns to a base state because every move climbs a fixed order of
them (`Climbing`, over `Height`). For the second, each entry is sent to a rule that
let it in; two entries get different rules, for their bases differ, so there are
no more of them than initial rules (`FS_Injection`). `LifecycleTypeCorrect`.

Webhooks. `SideEffectsRunOnce` and `DeliveredMeansTaken` from `ReceiverInv`: an
event not in the ledger has no side effect running, at most one runs
(`OneAtWork`), and each entry was handled, is being handled or failed
(`LedgerIsTrue`). `PausesNeverShrink` and `WebhookTypeCorrect` from `SenderInv`:
a delivery that is still to send has attempts left, and its last pause is no
longer than the backoff of its last attempt. That backoff is monotone
(`BackoffBounds`) because saturating in the word and capping at the ceiling both
are, and a product with a factor of at least one does not shrink. What `Factor^n`
is for the exponents used is `PowerAssumption`, the defining equation of a power.

Archive. `ArchiveTypeCorrect`, `StagingIsAtomic`, `AcksAreKept`: until stores
overlap, a final name always shows a whole bundle, and an acknowledged one is
readable until the power fails. `StagingInv` adds what induction needs, all of it
under "no two stores have overlapped": the open file is the one under the
temporary name, a file that has, or on disk has, the final name is fully synced,
and the disk's final name is never the temporary file. The `archive_concurrent`
run shows why the condition is there.

Only model-checked: liveness (`EveryRowIsDecided`, `EventuallyStored`,
`EveryDeliveryEnds`, `WalksEnd`, `LifecycleReachesArchive`,
`PublishedIsReceived`, `EditsAreRead`, `StopEnds`), for fairness and ENABLED are
outside the prover's temporal backend. Powers of two in the retry policy and of
any base in the webhooks enter the proofs by the equations that the assumptions
state, for a recursive definition's values at all arguments are out of reach.

## 6. What is not modelled

Cryptography (signatures are genuine, hashes distinct), text and formats, SQL
(rows are records, a write is atomic, unique keys are modelled), the network below a gateway adapter,
the object-store archives, and the parts listed `not_modelled` in `PROJECT.json`.

The map covers a small share of the repository's lines, and cannot cover a large
one. Nearly all of its crates are functions from one document to another or to a
list of complaints: parsers and serializers of two dozen formats, validation
rules, country reporting data, canonical JSON, decimal arithmetic, rendering.
What is right about them lies in tables and texts, which a model would have to
repeat word by word; abstracted to a few model values, they are the identity.
Other crates are mock providers and scripts for tests (`transmit-mock` is one of
the largest), placeholders that return `NotImplemented`, or sequential scaffolds
over injected traits with no state of their own (the AS4 receiver's
`process_one`, the inbound pipeline, envelope encryption). What is left is the
code with state that outlives a call, and of that the components above are
modelled. Also out, though near: the reconcile status handler and
`admin stuck`, which only read; observability, billing and tenancy records, which
only validate and render.

A client's side is modelled where the repository contains it or describes it. The
TypeScript SDK sends `limit` where the server reads `page_size`, so its pages have
the default size; the model's clients send the parameter the server reads.

## 7. The plan

Each module has one action per operation, constants with named assumptions and
no RECURSIVE operator, so that it can be proved about. The order was: worker and
retry policy with their abstract specification; archive; lifecycle; webhooks;
managed API; tables and replay; stream, registry and cache; the worker with the
partner adapter. Left:

1. What of the liveness properties needs no fairness: that a state with work left
   can always take the step that does it is ENABLED, but that no step undoes
   progress is an action property with a measure (attempts spent, frames to send,
   files to read), and can be proved.
2. The worker's outcomes as a refinement of `OutboxTables`, which now repeats
   what it needs of them. It is not step by step: `Persist` writes one row at a
   time and a crash loses several outcomes at once, while `OutboxTables` makes a
   call and its record, or the loss of it, one step. It needs a coarser abstract
   step first.
3. The reconcile API as a view over the worker's rows, and `poll` and `correct` of
   the adapters once a caller keeps their results.
