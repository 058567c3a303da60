# Sentinel Monitor: a verification project

TLA+ models of Sentinel Monitor, the TLC runs that check them, and the theorems
about them that TLAPS proves. Paths are relative to the repository.

## The system

Sentinel Monitor is one Rust server beside one MediaMTX. Administrators manage
cameras over HTTP; the server keeps the *desired* media configuration in SQLite
and a background reconciler makes MediaMTX match it. SQLite is the authority,
MediaMTX forgets its API-configured paths when it restarts, and any HTTP request
to it may be refused, lost, or executed after nobody waits for it any more.

| Component | State | Operations | Modelled |
|---|---|---|---|
| Camera requests (`src/routes.rs`) | `cameras`, `media_desired_states` | create, update, delete, resolve: one transaction each; tickets and recordings | `MediaReconciliation` (the transactions), `CameraRequests` (what comes before them) |
| Media reconciler (`src/reconciliation.rs`, `reconcile_loop`) | `media_reconciler_leases`, `media_actual_paths`, what a pass holds in memory | lease, claim, apply, complete, observe, schedule drift, recover | `MediaReconciliation`, `LeaseBudget` |
| Durable operations (Foundation crate `sarmg_operations`) | `_sarmg_operations` | enqueue, claim, transition, abandon, recover, resolve | `OperationStore`, `OperationLifecycle` (external) |
| MediaMTX and its client (`src/mediamtx.rs`) | paths | upsert, delete, inventories | in `MediaReconciliation` (external), `MediaServing` |
| Server start and stop (`src/main.rs`) | | locks, database, recovery, supervised loops, end | `ServerStartup`; `MediaReconciliation` (recovery, crash) |
| Instance lock (`src/runtime_lock.rs`) | three lock files, the PID file | acquire, refuse, release | `ServerStartup` |
| Database files (`src/sqlite.rs`) | the SQLite file, WAL, journal | initialise, snapshot, validate, open | `DatabaseFiles`, `ServerStartup`, `DatabaseService` |
| Doctor (`src/doctor.rs`) | none of its own | lock, copy, reads, write probe | `ServerStartup` (what touches the database) |
| Status and events (`src/background.rs`, `event_stream`) and the page that listens (`clients/web/src/main.tsx`) | `cameras.status`, `events`, a broadcast channel | refresh, emit, subscribe, list | `StatusEvents` |
| Audit outbox (`flush_operation_audit`, `operation_audit_loop`) | `_sarmg_operation_audit_outbox`, `audit_logs` | flush | `AuditDelivery`, `AuditLog`, `Console` |
| Media tokens (`src/auth.rs`) | none on the server | issue, decode, authorise | `MediaTokens`, `Console` |
| Web player, ONVIF, credential encryption, release, static assets, native scripts, protocol | | | no, see *Not modelled* |

They interact through SQLite only. A request commits the camera row, the next
*generation* of its desired state and a pending *operation* in one transaction and
returns. The reconciler claims the operation, reads the desired row and the camera
row, talks to MediaMTX, and completes the operation in one transaction. When there
is nothing to claim it compares MediaMTX with the desired rows, records what it saw
and enqueues an operation where they differ. The status loop and the audit loop
read and write the same tables on their own schedule. Before any of it, a server takes
its locks, and copies and validates the database it is going to open; a doctor does
the same beside a server that is running.

What is hard about it: the reads of a pass are separate statements with requests
committing between them; leases may run out under a worker that goes on working;
an HTTP timeout says nothing about the effect; a crash may come between an effect
and its record; MediaMTX may be restarted at any time; and a document promises that
an operation with an unknown outcome is never silently retried. At the edges of a
server's life it is system calls that interleave: files are locked, copied, created and
removed one by one by processes that may die at any of them. And several parts read
in one statement what they overwrite in a later one: `update_camera` merges a partial
request into a row it has read, the status loop writes a status computed from a row and
an inventory that may be outdated by then.

## Modules

`OperationStore` is the operation store as the repository uses it. The crate is
not in the repository: its operators are read off the calls in
`src/reconciliation.rs` and `src/routes.rs`, the tests beside them, the generated
schema (states, the unique index on targets that are running or unknown, the CHECK
that only running rows have a lease) and `docs/operations.md`. Times become the
comparisons the store makes: `due` for `not_before <= now`, `live` for
`lease_expiry > now`.

`MediaReconciliation` is the core. A worker is a server process with its
`reconcile_loop`. Each transaction, each single SQL read outside a transaction and
each HTTP exchange is one action, so anything can happen between two of them.

| Code | Actions | Worker at |
|---|---|---|
| `create_camera`, `update_camera`, `delete_camera`, `queue_camera_change` | `CreateCamera`, `UpdateCamera`, `DeleteCamera` | |
| `resolve_media_operation` | `ResolveOperation` | |
| `serve`: `recover_interrupted_operations` | `Start` | `down` |
| `reconcile_available`: `recover_expired` | `BeginCycle` | `idle` |
| `acquire_reconciler_lease` | `Acquire`, `LeaseBusy` | `acquire` |
| `renew_global_lease` | `RenewGlobal` | `renew`, `renewAgain` |
| `claim_next_operation` | `Claim`, `ClaimNothing`, `ClaimLost` | `claim`, `claimAgain` |
| `apply_claimed_operation` | `CheckClaim`, `Abandon` | `check`, `abandon` |
| `renew_claimed_leases` | `RenewClaim`, `VerifyClaim` | `renewClaim`, `verify` |
| `load_desired`, the camera row | `LoadDesired`, `LoadCamera` | `load`, `camera` |
| `apply_desired`, `upsert_path`, `delete_path` | `SendRequest`, `ReceiveAnswer`, `RequestTimesOut` | `main`, `mainWait`, `sub`, `subWait` |
| `finish_superseded`, `finish_success`, `finish_failure`, `complete_owned_in` | `FinishSuperseded`, `FinishSuccess`, `FinishFailure`, `FinishRefused` | `supersede`, `success`, `failure` |
| `observe_and_schedule_drift` | `StartObservation`, `Observe`, `ObserveFails`, `LoadDesiredStates`, `CompareCamera`, `ObservationDone` | `observe`, `inventory`, `desired`, `cameras` |
| `persist_observed_path` | `PersistObserved` | `persistMain`, `persistSub` |
| `ensure_drift_operation` | `CheckDrift`, `EnqueueDrift` | `drift`, `enqueue` |
| `release_reconciler_lease` | `Release` | `release`, `releaseMore` |
| the world | `MediaExecutes`, `MediaRefuses`, `MediaExecutesLate`, `MediaRestarts`, `Crash`, `LeaseRunsOut`, `ClaimRunsOut`, `RetryComesDue` | |

Abstractions of data:

- A stream source is a model value; the code compares digests of URLs with their
  credentials. `sourceOnDemand` is determined by `record` and the profile, so
  `record` stands for both.
- `committed` is a history variable: what the request that committed a generation
  asks of MediaMTX. No action reads it.
- `upsert_path` is one exchange. Its GET changes nothing; a path that appears or
  disappears between GET and PATCH is one more way to be refused.
- Comparisons of timestamps between workers are kept as sets: `since` is the
  operations completed, and `newer` the rows written, after an observation started;
  `older` the observations that started before it. `finish_success` takes its `now`
  just before its transaction; the model takes both at once. Clocks do not run
  backwards.
- A definitive failure needs a stored URL or credential that is invalid. Requests
  validate them and a pass starts with `validate_stored_camera_credentials`, so the
  model has none.
- The cap of 64 passes per cycle becomes a choice: after work a worker goes on to the
  next pass or back to the tick. `last_operation_id`, the runtime flags of a path, audit rows and
  the statuses `online` and `offline` (written by the status loop) are left out.
- A corrupt row or an I/O error of SQLite stops the server or the pass; neither is
  modelled.

`OperationLifecycle` is the abstract specification of one durable operation, as the
documents promise it: bounded attempts, one open operation per target, an unknown
outcome that only an administrator's decision ends. `MediaReconciliation`
implements it under the mapping `Lifecycle` (`LifecycleSpec`).

`MediaServing` asks whether what is recorded and reported is what MediaMTX *has*. MediaMTX knows
neither generations nor leases: it executes whatever request reaches it, also one whose worker
has lost its claim, and one that nobody awaits any more; and it forgets its paths when it
restarts. The code can notice none of these before its next observation. The module is
`MediaReconciliation` with a history variable, `disturbed`: the paths last changed in such a
way. Every other path must be what was reported (`ConvergedIsServed`) and recorded
(`RecordIsServed`). The exceptions are no wider than that: a path leaves `disturbed`
again with the next request that is executed for its claim.

`LeaseBudget` is one pass against the clock, in seconds. It justifies the way
`MediaReconciliation` treats leases: one that runs out under a live worker is a
counted *stall*, because it takes the server's own work to exceed the safety margin
of 30 s, whatever `request_timeout` is and however slowly MediaMTX answers.

### The server's life: `DatabaseFiles`, `ServerStartup`

`DatabaseFiles` holds the files at the configured path and the private copy that
`snapshot_generation_once` makes of them. A transaction is a new *version* of every page;
a content with pages of two versions mixes two transactions. `ServerStartup` has servers,
doctors and offline maintenance as processes, and one action per system call.

| Code | Actions | Process at |
|---|---|---|
| `DatabaseTarget::from_url` | `ReadTarget` | `down` |
| `ApplicationLock::acquire` | `LockInstance`, `LockShared`, `EnsureUnchanged`, `LockRuntime`, `TruncatePid`, `WritePid` | `instance` ... `writePid` |
| `DatabaseMaintenanceLock::acquire` | `LockShared` (doctor), `LockExclusive` (maintenance), `EnsureUnchanged` | `shared`, `exclusive`, `unchanged` |
| `prepare_current_database`, `initialize_current_database` | `Prepare`, `Create`, `BeginSchema`, `WriteSchema`, `SyncDatabase`, `InitialisationFails`, `RemoveGeneration` | `prepare` ... `removeSidecars` |
| `snapshot_generation`, `copy_generation_file` | `ReadSource` | `snapshot` |
| `validate_current_database` | `Validate` | `validate` |
| `open_pool`, `validate_open_database` | `Connect`, the snapshot again, `ValidateOpen` | `connect`, `validateOpen` |
| SQLite while serving (external) | `WriteFrame`, `Checkpoint` | `serving`, `closing`, `release` |
| the end of `serve`, `Drop` | `Stop`, `ClosePool`, `DropPid`, `Unlock` | `closing` ... `unlockRest` |
| `doctor::run` | `ProbeReads`, `ProbeWrite`, `ProbeRollback`, `Release` | `reads`, `write`, `rollback`, `release` |
| the world | `Restore` (maintenance replaces the files), `Crash` | |

- Symbolic links, hard links, owners and permissions are refused before any of this
  and left out. Creating and opening a lock file is part of locking it: lock files are never removed.
- A new file has a number no other had; in the code an inode number may be given out
  again once nobody has the file open, which the identity check cannot notice either way.
- A copy reads each of main file, WAL and journal, and at the end looks at each of them
  again. The hashes right before and right after each copy are left out, since those at the
  end decide; a difference shows at once instead of at the end of a pass. How often a copy
  starts over after a difference (4 attempts in the code) is left open: it starts over or fails.
- SQLite writes pages in order, a commit is the last frame of a transaction or the deletion of
  the journal. The switch of a new file to WAL mode at the first connection is left out.
- What validation reads is abstracted to "a current schema is in every page": it
  would not notice a mix of two transactions, which is what makes the copy's own checks
  matter.
- A doctor's companion, recordings and readiness probes change nothing here.
- A crash is the death of a process. What a power failure leaves of written pages is up to SQLite
  (`synchronous(Full)`) and the file system.

`DatabaseService` is the abstract specification of all this: servers that enter one at a time,
a database that its creator initialises or discards, that is served when it is complete, that grows by
one whole transaction at a time, that outlives the servers, and that only maintenance replaces, while
no server is there. `ServerStartup` implements it (`ImplementsService`) with `StageAt` for the stage
of a server, the inode the path names, and the content a reader of the files finds.

### Status and events: `StatusEvents`

Cameras with their row, the status loop with the locals of `refresh_statuses`, the table
`events`, the broadcast channel, and pages with an `EventSource`.

| Code | Actions |
|---|---|
| `update_camera`, `delete_camera`, the end of an operation | `UpdateCamera`, `DeleteCamera`, `Reconciled` |
| a publisher at MediaMTX (external) | `Publish` |
| `refresh_statuses` | `ListPaths`, `ReadRows`, `UpdateStatus` (once per camera), `EndCycle`, `CycleFails` |
| `emit_event` | `InsertEvent`, `SendEvent` |
| `event_stream`, `broadcast::Receiver` | `Subscribe`, `Receive`, `Lag` |
| `list_events` and the page's handlers | `ListEvents`, `ShowEvents` |
| the world | `Crash` |

An event is its number: events are inserted in the order of their numbers, by one loop.
`owed` counts announcements that are due and not yet stored, `since`, `delivered`
and `skipped` what a stream was opened after, delivered and left out; they are history.
`ack_event` is one idempotent `UPDATE` and left out.

### Requests, tokens, audit: `CameraRequests`, `MediaTokens`, `AuditDelivery`, `Console`

`CameraRequests` splits a request where the code does: `load_camera` in a statement of
its own (`LoadForUpdate`, `LoadForDelete`, `LoadForTicket`, `LoadForPlayback`), then the
transaction (`UpdateCamera`, `UpdateRefused`, `DeleteCamera`, `RequestFails`). A row is
kept as the fields that others read, `enabled` and the sub stream; `Patches` are the partial
updates asked for. `MediaTokens` has a clock that ticks several times a second and tokens
with the whole seconds of their claims (`issue_media_token`, `decode_media_token`,
`media_auth`). Whether a token is honoured later is settled when it is issued, so the
properties look ahead over `Later` instead of letting the time pass. `AuditDelivery` is the
outbox with the loop that empties it; `AuditLog` is what it promises. `Console` composes the
three: a committed request leaves an audit event (`Commit`), a ticket ends in a token
(`IssueToken`), time passes while a request waits (`Clock`), a restart loses the requests but
not the tokens (`RestartServer`).

### Instances and proofs

`MCMediaReconciliation`, `MCMediaServing`, `MCLeaseBudget`, `MCServerStartup` and `MCConsole` give
constants small values; `StatusEvents` needs none. The theorems are in
`MediaReconciliationProofs` (types, fencing, snapshots), `MediaObservationProofs` (what
observations record), `MediaOperationProofs` (what requests leave behind, exclusion, the
refinement, the errors shown), `MediaServingProofs` (what MediaMTX has), `LeaseBudgetProofs`,
`ServerStartupProofs`, `StatusEventsProofs` and `ConsoleProofs`. Each of the four about the
reconciler extends the one before it.

## Runs

| Run | Instance | Asks |
|---|---|---|
| `single` | 1 server, 3 configurations, 2 generations, 6 operations, 1 fault | is what is recorded and reported of a generation what its request asked for, however requests fall between the reads of a pass? is it what MediaMTX has? (and: does the inductive invariant hold?) |
| `faults` | 1 server, 1 generation, 7 operations, 3 faults, 1 stall | do retries, dead letters, recovery and decisions keep to the life of an operation, and open effects stay unknown? |
| `pair` | 2 servers, 2 generations, 5 operations, 1 stall | do passes exclude each other, and does what is recorded and reported stay honest, and true of MediaMTX, when a lease runs out? (and: do `ObservationIInv` and `ServingIInv` hold?) |
| `pairCrash` | 2 servers, 1 generation, 5 operations, 1 fault, 1 stall | is a worker that lost a lease fenced, and are its effects unknown? (and: does `EffectIInv` hold?) |
| `liveness` | 1 server, 2 configurations, 2 generations, 1 fault, fair | does MediaMTX end up with the last committed configuration? |
| `budget` | timeouts 1, 5, 7, 8, 20 and 300 s | do the leases outlast a pass? |
| `startup` | 2 servers, 1 doctor, 1 maintenance, 2 runtime directories, 2 pages, 2 versions, 1 fault | does one server serve, and is what it serves complete, named by the path, and left alone by everyone else? is it what the server before it committed? |
| `events` | 2 cameras, 1 page, a channel of 1, 4 events, 2 changes, 1 fault, fair | do statuses settle, and do streams have no gap and no page wait for ever? |
| `console` | 2 requests, 1 token, batches of 2, 2 events, 1 fault, fair | what do concurrent requests lose, how long does a token outlive its camera, is every audit event delivered once? |
| `recoverLive` | 1 server, 1 crash | *violated*: startup recovery leaves live claims alone |
| `duplicateDrift` | as `single`, and 1 stall | *violated*: one active operation per generation |
| `resync` | as `events`, no fault | *violated*: a page that lagged asks for the events before it subscribes again |

Bounds of the reconciler's runs. There is one camera: cameras share only the global lease, a pass claims one
operation and an observation treats cameras one after the other. Two attempts
(`MaxAttempts`; 8 in the code) have a first, a retried and a last one. Two
generations have a current and a replaced one. Three configurations differ in all
that the comparison can tell apart: a sub stream or none, recording or not,
enabled or not, two sources. Three owners are enough for one worker and five for
two, since owners that no lease, operation or worker carries any more are used again
(in the code they are fresh UUIDs). `MaxOps` is as large as the runs with one
server can reach: deadlock checking is on, and a worker that could not enqueue a
drift operation for want of a number would deadlock. With two servers it does cut
off long histories of drift operations. Stalls and faults are counted together with
the ways they can occur, so each run has every kind of fault, in every order the
count allows. The workers are symmetric in `pair` and `pairCrash` (safety only).
`single` has no stall: nobody takes over from a server that is alone, and `RecordIsServed` speaks
of the time before the first. `pair`, `pairCrash` and `faults` have one; in `pair` a deletion makes
the two generations differ.

Bounds of `startup` (1.65 million states, two and a half minutes). Two pages and two versions
are what a torn copy takes; two inodes allow one replacement, by maintenance or by an initialisation after one that was cleaned
up. Two servers with two directories to choose from make a server refused by the lock of the
database, by that of the directory, or by neither. `MaxFaults` is shared by crashes of
servers in service, failed initialisations and runs of maintenance; a server that holds
nothing yet, a doctor and maintenance may die at any time without limit. Servers and
directories are symmetric (safety only).

Bounds of `events`. One place in the channel is the shortest way to a lag, two cameras
make a cycle with two announcements, and the loop never runs out of events: 2 changes of
a camera allow fewer than `MaxEvents` announcements, so the guard of `InsertEvent` never
disables it. `requested` grows by one with each event received and is bounded
by them. Bounds of `console`: two requests are what an overlap takes; two ticks a
second tell a rounded time from an exact one; with two events in batches of two a flush can
meet events that arrive during it and be interrupted inside a batch, while that more
events wait than a batch holds is left to the proof, which holds for every
`BatchSize`. Its counters stop it, so deadlock is not checked there.

Fairness of the other runs. `events`: `status_loop` ticks while the server runs, whether
or not the cycle before failed (`WF(Refresh)`), and the task of a stream is woken by what is
sent, an `EventSource` reconnects by itself (`WF(StreamStep)`). `console`: the loop ticks
while its task runs (`WF(Flush)`); a task that has failed stays failed until a restart, which
nothing forces. Nothing makes requests commit, cameras publish, or faults happen.

Fairness (`liveness`): a server that is down is started again (it is a supervised
service), its loop is scheduled, MediaMTX answers a request it has received, a lease
whose owner is gone runs out, a retry becomes due, and an administrator confirms
operations that wait for a decision. All of it is weak fairness. Nothing makes
requests, refusals, lost answers, crashes or restarts happen. The administrator is
needed: an unknown operation closes its target by design. An orphaned request
need not be executed, but while it can be the property must survive it.

What the passing runs show: a torn read of the desired row and the camera row is always
caught by the generation number at completion, and a torn observation never records
a generation as applied that is not; the errors shown are those of the current
generation; two servers never work in one pass unless a lease ran out, and even then
the late one cannot complete; an effect that may still happen never belongs to an
operation that is reported as settled or retried.

`single` and `pair` show the other end of it, too: what is on record and what is reported is
what MediaMTX has, except for a restart or a request whose claim was gone; those
are what the next observation and the drift check are for (`liveness`).

`startup` shows that two servers on one database never both get past their locks, whatever
directories they were given, and that the order of acquisition and release leaves no gap in which
the PID file of a live server is missing or another's; that a copy made while a server commits
and checkpoints is one state of the database or is refused; that a database whose first
initialisation was cut short is never served; and that nothing another process does, a
refused server, a failed initialisation, a doctor's probe, takes data from the one serving.
It also shows that a database outlives its servers: what one committed, in the log or in the main
file, is what the next one finds, and nobody but its creator discards a database.
`events` shows that statuses settle although three writers overwrite each other, and exactly what
is lost on the way: an announcement for each interruption, nothing on an open stream.
`console` shows that an update is lost only to another that overlaps it, that the desired
state never departs from the row whatever order requests commit in, that a camera's
streams may be read for the lifetime of a token, a second and the delay of one request after it
was switched off, and that audit delivery refines the log.

What the violated runs show: three statements of the documents and comments are not
those of the code. Two are of `docs/feature-inventory-and-tradeoffs.md`. SEN-O-007 says starting keeps the claims whose lease is
healthy; the code marks every running operation unknown, and a test of the code fixes
that behaviour. With the instance lock a second server cannot be alive at that
moment, so no work is lost. SEN-O-004 names a unique index over active generations; there
is none, and a drift check that is overtaken by an update enqueues a second
operation of the older generation. Both are then finished as superseded. The third is the
comment of `event_stream`, that a lagged client must perform a full query before it subscribes
again: the page listens to `system-event` only, so `resync-required` goes unheard, and
it subscribes again with what it skipped still missing. The next event makes it ask for the
whole list, so the gap closes then.

A disagreement no run shows: SEN-E-008 of the same document says that there is no outbox for
audits, while the code and `docs/operations.md` have one.

## Proofs

`MediaReconciliationProofs` proves, for any workers, cameras, configurations and
bounds that satisfy `StoreAssumption` and `ModelAssumption`:

- `TypeCorrect`: `TypeOK` and `WorkIsAccounted` always hold. `TypeOK` alone is not
  inductive: that a claimed operation's attempt stays within `0..MaxAttempts` needs
  "pending operations have attempts left" (`OperationsAreAccounted`), and that a worker's
  operation is a row needs `WorkersAreAccounted`.
- `CompletionIsFenced`: `FencedCompletion`, from `TypeCorrect` and a case per action
  (`FencedStep`): only the three completions take an operation out of `running` to anything but
  `unknown`.
- `SnapshotsAreHonest`: `IInv` always holds. It adds to the above that the history
  agrees with the current rows (`HistoryIsCurrent`: no camera row changes without a new
  generation) and that what a worker read is that of the current generation or
  carries an older number (`SnapshotIsCurrent`). The argument goes through four facts about
  any step: what happens to rows (`OperationsKept`), to the catalog
  (`CatalogKept`), to the history, and to what a worker has read (`ReadsKept`).
- `ConvergenceIsHonest`: `ConvergedMeansCommitted`, from `IInv`: only `FinishSuccess` with
  `StillCurrent` reports an operation converged, and with the number the snapshot is
  current.

`MediaObservationProofs` builds on it and proves `ObservationsAreHonest`: `ObservationIInv` always
holds, and `AppliedIsHonest` from it. What an observation read of the desired states may be
older than the rows, never newer, and is the current row where the numbers agree; what it then
found to match is what that generation was committed with (`ObservationIsCurrent`). No path is on
record with a generation still to come (`AppliedIsCommitted`), so a new generation starts
with no path that claims it.

`MediaOperationProofs` is about the operations and what they leave at MediaMTX:

- `EffectsStayOpen`: `EffectIInv` always holds. `OpenEffectIsNeverReported` says
  nothing of who may still complete an operation whose request was left behind; the
  invariant does. Owners tell workers apart and a running claim with a worker's owner is
  the one the worker holds (`ClaimsAreHeld`), so a completion can only come from the worker
  that sent the request; and a worker whose request may have been left behind is at its failure,
  with an outcome that is not definite, or at its abandonment (`EffectsAreGivenUp`). Both give
  `unknown`.
- `NoOpenEffectIsReported`: `OpenEffectIsNeverReported`, from it.
- `PassesExclude`: `ExclusivePass`. While no lease ran out under a live worker, a worker in a
  pass holds the global lease (`PassHoldsLease`), and owners tell workers apart.
- `ImplementsLifecycle`, the refinement of `OperationLifecycle`. One lemma
  (`OperationsTouched`) names the actions that change rows of the store; each of them is an
  action of the abstract specification or a stutter (`LifeStep`), and `LifeLoses` collects the
  ways in which attempts are lost: a crash recovered, an expired lease, an abandoned claim,
  an indeterminate failure.
- `ErrorsAreCurrent`: `ErrorIsOfCurrentGeneration` needs that no operation exists before its
  camera (`RowsBelong`, which rests on `ObservationIsCurrent` for the drift check) and that the
  attempt of an operation never decreases, which is read off the refinement (`AttemptStep`).

`MediaServingProofs` proves what MediaMTX has, for any number of workers, stalls and late requests:

- `ServingIsKept`: `ServingIInv` always holds, on the grounds of the theorems above
  (`ServingImplements`: every step of `ServingSpec` is one of `Spec`). A request
  under way is the one that the rows its worker read ask for (`RequestsAreExpected`); a camera has one
  running or unknown operation (`OneClaimPerCamera`), which has one worker
  (`ClaimOfOneWorker`); so what a worker wrote stays while it has its claim, or is
  disturbed (`WrittenIsServed`). While no lease ran out, an observing worker is the only one
  in a pass (`ExclusivePass`), so what it saw stays until it has recorded it
  (`ObservedIsServed`); and a generation committed while an older one is applied is on no path's
  record before that is over (`ReplacedIsNotRecorded`).
- `ConvergenceIsServed`: `ConvergedIsServed`. Only a worker that has both answers and still has
  its claim reports convergence (`AppliesCommitted`, from `IInv`).
- `RecordsAreServed`: `RecordIsServed`, a part of the invariant. It speaks of the time before the
  first lease that runs out under a live worker, because after it an observation may record
  what another pass is changing; `LeaseBudget` says why that takes a server that is late by more
  than the margin.

`LeaseBudgetProofs` proves `LeasesSuffice` for every timeout and duration, by the
invariant `BudgetIInv` (`BudgetIsKept`): of each lease there is left a whole `request_timeout`
for every request still to be made, and the margin less the local work.

`ServerStartupProofs` proves `ServiceExcludes` (`ServiceIsExclusive`) and `PidFileIsHonest`
(`PidFileNamesServer`) for any processes and directories, from `LockIInv`: who is where
holds which locks, a lock has one exclusive holder or any shared ones, and past `WritePid` the file
in one's directory carries one's name until one drops it. A server between its locks
and its end is the only one in `Holding`, so no step of another touches its directory. The
steps fall into a few shapes, each a lemma: a process moves within service (`StaysInService`),
takes a lock (`AcquireSteps`), gives all up (`Exits`).

What the files hold is proved on top of the locks, for any number of pages, versions and inodes:

- `ServedIsComplete` (`ServedIsNamedAndComplete`) and `ServedIsKept` (`ServedDataIsKept`), from
  `DataIInv`: the main file holds one transaction unless a journal or the log says otherwise
  (`FilesIInv`), a first initialisation writes without a log, each server in service has
  brought its database to a stage (`ServerData`), and a copy that the server makes for itself is
  evidence of the database, since no one else initialises meanwhile (`CopiesIInv`). What a doctor
  may do to the files beside it is to roll back a journal nobody writes, or to checkpoint: both
  keep what the database holds (`Kept`).
- `CopiesAreConsistent` (`SnapshotIsConsistent`), from `LifeIInv`, the life of a file (pages
  ahead of the commit only under a journal or the log), and `CopyIInv`: the pages a
  copy has taken agree in one version not older than its beginning, or they will be refused, for
  good, by the second look at the file. The step abstraction `Evolves` says what may become of a
  file while no maintenance runs. The proof uses only the second look at the main file and that no
  inode number is given out twice.
- `ServersImplementService` (`ImplementsService`), the refinement of `DatabaseService`: each action
  is one of the abstract specification or a stutter (`ServiceStep`). Most only move a process
  within a stage, or let it leave (`QuietSteps`); of those that write, `InitialiseService` shows that a
  reader finds the empty database until the journal is deleted and the complete one after,
  `CommitStep` that a commit frame is one whole transaction, `OpenService` and `KeepsData` that
  opening, checkpoints and a doctor's probe change nothing that is read.
- `StartupTypes` is the type invariant.

`StatusEventsProofs` proves `StreamsHaveNoGap` for any capacity and number of pages. The
channel is numbered backwards from the table: position `i` of `sent` holds event
`stored - Unsent - Len(sent) + i` (`ChannelIInv`), since events are stored and sent in turn by
one loop and a crash empties the channel; a stream has delivered the positions before its own,
consecutively, from one not later than the first sent since it was opened (`StreamIInv`).
`AnnouncementsAreStored` counts: `owed` grows by one on the way to `emit`, and only `InsertEvent`
ends that without a fault (`CycleIInv`). `StatusEventsTypes` is the type invariant.

`ConsoleProofs` proves the four safety properties of `Console` and the refinement:
`DesiredStateFollowsRow` and `UpdatesAreKept` from "what a request loaded is the row, with the
fields it names changed, unless it was overtaken" (`LoadedIsCurrent`);
`DeliveryImplementsAuditLog` from "an event is in the outbox or in the table, not both, and the
batch is part of the outbox" (`DeliveryIInv`); `TokensAreGoodUntilExpiry` from the arithmetic of whole
seconds (`TokenHonoured`), for every resolution of the clock; `ReadTokensEndWithCamera` from the age
of a ticket's load and of a token (`TokensIInv`).

The provers need no assumption beyond those on the constants. The type invariant and
the inductive invariants of the reconciler and the budget are also checked by TLC (`faults`,
`single`, `pair`, `pairCrash`, `budget`).

Every safety property and refinement that a passing run checks is a theorem. Only model-checked
are `EventuallyConverged`, `StatusSettles`, `EventsReachOpenStreams` and `DeliveredOrReported`,
since liveness under fairness is out of the prover's reach.

## Not modelled

- Credential encryption, the wire protocol, most of the configuration: pure functions
  with no state, over libraries.
- The ONVIF client: request and answer with parsing and address filtering; it keeps
  nothing between calls, and the routes that use it (PTZ, discovery) change nothing here.
- Release packaging and static assets: files written or read in sequence by one process.
- `native/*.sh`: one operator's sequence of file operations. The locks and the PID file
  they rely on are those of `ServerStartup`, where backup and restore appear as
  maintenance.
- The WHEP player: browser APIs. Sessions, roles and the HTTP server belong to Foundation
  crates outside the repository.
- `/readyz` asks the database `SELECT 1`; it says nothing about what is modelled here.
- Two hazards have no property. The inventories of MediaMTX read one page of its list, and
  its page size is not in the repository. Answers to `GET /events` may arrive out of order
  and the older be shown last: `StatusEvents` lets them, but the code makes no promise that
  could be checked.

## Plan

1. Compose the server's life with the reconciler: `Start` of `MediaReconciliation` only while no
   other server is in service (`DatabaseService`), under which startup recovery meets no live claim.
2. State the promise of the event stream as an abstract specification, as `AuditLog` and
   `DatabaseService` are for theirs, and prove that `StatusEvents` implements it.
3. Page sizes of the MediaMTX inventories as a parameter of the observation, once the version
   of MediaMTX is fixed.
