# Verification of codex-agent-mesh

codex-agent-mesh lets a coding agent delegate work to other coding agents on the same Windows machine.
An MCP bridge (TypeScript) talks to one daemon (Rust, `crates/mesh-daemon`) through a helper process and a
named pipe. The daemon keeps tasks, attempts, questions and results in SQLite behind a single writer
thread, starts one adapter process per attempt, and rebuilds its state from an event log at every start.
An installation is a record, a few protected files and a scheduled task; a loopback dashboard shows the
same durable evidence.

This directory holds TLA+ modules translated from that code, TLC configurations that check them on small
instances, and TLAPS proofs that hold for every value of the constants. File names below are relative to
`src/crates/mesh-daemon/src` unless they say otherwise.

A request travels bridge, helper, pipe, connection thread, route worker, router, writer thread, store. The
dispatcher is a second client of the writer, and reads its plan through the reader pool. What is hard is
where these meet: a crash between two transactions or between a transaction and a process; a deadline
between a commit and its answer; threads that end each other; files that several processes create, lock and
replace. `PROJECT.json` lists each such place under `hazards`, with the property that watches it.

## Modules

### The store

* `Domain` is `domain.rs`: task states, dispatch phases, and the relations `Allows` and `CanAdvanceTo`.
* `TaskStore` is the durable lifecycle of `storage.rs`. A variable is a column (or a few columns, as far as
  properties tell them apart) of the row of a task's present generation; `log` is what replay derives from
  the task's events. There is one action per writer operation, each a transaction with all its statements.
  An operation that uses two transactions leaves a `handoff`, and the second one commits, fails or is lost
  in a crash. `Crash` keeps the rows. `Open` checks integrity and replaces each task's state by its
  log's. Reconciliation then settles the tasks in `todo` one by one, and may itself crash.
* `Evidence` is the rows of one task that readers verify (`reader.rs`) and that repeated commands are
  answered from: requests, dedup and operation rows, answers, deliveries, reviews, tombstones. Each
  transaction replaces the database as a whole; `owed` is the second transaction of an expiry. `derived` is what
  replay makes of the events and `reclaimed` that a slot was reclaimed, after which two questions may be open.
* `StoreOpen` opens the store: migration, the critical reserve file, the emergency row and the fence in
  memory, which change one after the other and may be cut anywhere. An open may come with a quota or, as
  `run_daemon` does it, without. `Backup` is backup and offline restore, between commits that move the mutation epoch
  and commits that do not.
* `Retention` is blobs, references, reader leases, the garbage collection of both, and the callers that
  remove the paths, two of which may hold a plan of the same path.
* `Improvement` is `improvement.rs`: observations, cases, candidates, canaries, promotion and rollback,
  with the projection rows that the store verifies against the engine at each commit.

### The daemon

* `Daemon` composes `TaskStore` with the dispatcher thread and the supervisor: the plan, the claim, the
  fence, the suspended process, its resume, the frame loop with its deadlines, and every way it ends.
  `runs` counts starts of adapter code. A client may cancel and the provider may write or exit at any step, leave
  its stdin unread while the dispatcher writes to it, and leave descendants that hold its pipe open.
* `Scheduler` is one planning scan, one candidate per step.
* `AdapterRules` is `adapters*` as operators: probing and admitting an executable, the launch it allows, and
  what each line of output decodes to. `AdapterRun` is one run with them: the executable may be replaced,
  the settings changed, and the output is read in pieces that end anywhere.
* `Writer` is the mailbox, the actor, callers and shutdowns. What an operation does is `TaskStore`'s.
* `Approvals` is the orchestrator of `approvals.rs` between its calls to the store, on the questions of one generation.
* `Worktrees` is `worktree.rs` between its Git and store calls; `GitRules` its decisions on Git's output.

### What talks to the daemon

* `Listener` is `serve_listener` with the pipe's instances, its workers and the shutdown grace, and the
  mutual handshake of `protocol_client.rs`, `protocol_handshake.rs` and `mesh-win32/src/handshake.rs`.
* `Connection` is `serve_transport`: the connection's own thread, one worker per request, the writing
  thread, the bounded channels between them, the capability registry and the shutdown fence.
* `Router` is one request against a clock that may move between any two readings: mutations that read
  their answer back, and the long poll of `wait_task`.
* `Bridge` is `NativeHelperTransport` of the MCP bridge over several helper generations.
* `EventPage` is one page of events from one snapshot; `Follow` is the console that pages through them.
* `DashboardServer` is the request guard, the bootstrap and session tokens and the settings file with
  concurrent updates; `LiveView` the page in the browser with its loads, its event stream
  and the rules of its form.

### The installation

* `InstallRecord` is the record and its relation, `ScheduledTask` the definition that is built, read back
  and compared. `Install` is every process that acts on one slot: setup, start, bridge, remove, purge and the
  daemon, over three locks, killed between any two steps.
* `InstallLifecycle` is what a slot promises, in two variables. `Install` implements it
  (`ImplementsLifecycle`, by `INSTANCE ... WITH life <- record.state, serving <- Serving`).
* `FileRules` is the admission rules of `crates/mesh-win32/src/windows.rs` on names,
  attributes and descriptors. `ControlFiles` is several processes that create, lock and publish protected
  files; `PurgeTree` the audited removal of a tree that another process may change.

`Daemon` extends `TaskStore` and implements it (`StoreSpec`): each daemon step is one store step or leaves
the store alone. `Scheduler`'s `PlanFits` is what `Daemon` assumes of a plan. The `MC` modules give the
constants their values. Several of them put components side by side that share no state that both change: a
behaviour then belongs to one `family` and the others stand still, so nothing is lost by not interleaving
them. The fairness of a component is confined to its own family.

Pure rules (adapters, files, Git, scheduled task, pages, forms, the improvement ledger's arithmetic) have no
steps of their own. The `ASSUME`s of `MCWork`, `MCFiles`, `MCInstall`, `MCClients` and `MCLedger` check them
against what they are for, on every small input; TLC evaluates them at the start of the runs.

## Runs

| Run | Question | Instance | States |
| --- | --- | --- | --- |
| `store` | do two tasks survive every order of operations, crashes and restarts, within the limits? | 2 tasks of one adapter, limit 1, 1 question, a first attempt and one retry | 2.1 M |
| `daemon` | does the dispatcher start adapter code at most once, behind the fence, and end it? | 2 tasks, crashes and recovery | 0.9 M |
| `install` | do the commands implement the lifecycle, keep evidence backed, and end? | 2 command processes, the daemon, 1 kill, error or outside change | 0.6 M |
| `connection` | does the pipe stay owned, do both ends agree, do slots come back and threads end? | 2 clients of 4 profiles, 1 worker; 4 requests, 2 slots, a client that ignores the bound | 0.7 M |
| `clients` | does whoever waits get a true answer? | 3 tool calls over 2 helpers; clock 0..20; 3 callers, 2 shutdowns, mailbox of 1; a console on 5 events | 0.2 M |
| `files` | do files stay exclusive, audited and whole? | 3 processes, 1 tree, store open and backup, 2 attempts, 2 overlapping settings updates, a page on 2 tasks | 1.0 M |
| `work` | does a plan fit, is a run decided once, a leased path kept? | 3 tasks, 2 adapters; 3 lines of output cut anywhere; 1 blob, 1 worktree, 1 lease, 2 collectors | 3.1 M |
| `ledger` | do readers accept every row, do commands replay, is a promotion earned, is consent needed? | 3 questions, 1 command key; 3 reviewed tasks; 2 callers on 2 questions | 1.9 M |

What the properties say is in the comment above each. Four more runs each check one statement that the
repository makes and the code does not keep. TLC's counterexample is a shortest way there, and
`PROJECT.json` quotes the statement.

| Run | What happens |
| --- | --- |
| `recovery` | an attempt that stopped at SPAWN_PREPARED is replayed as RUNNING, its retry is refused and startup ends |
| `completion` | a run whose provider reports success ends CANCELLED |
| `denied` | one request's error record settles its neighbours with NO_EFFECT |
| `read_back` | a committed mutation is answered with NO_EFFECT |

### Known disagreements

Further statements are defined in the modules, without a run of their own. TLC refutes each of them in the
configuration named when it takes the place of the properties there.

| Definition | Configuration | What happens |
| --- | --- | --- |
| `TaskStore!RetryWaitsForTimer` | `MCTaskStore` | a scheduled retry is lost at a restart: replay knows 'RETRY_SCHEDULED' and 'RETRY_WAIT' (`storage.rs:5634`), but the event is 'retry_scheduled' (`storage.rs:2480`) |
| `TaskStore!ExpiryIsNotConsent` | `MCTaskStore` | a question that expired just before a crash leaves a resumable task RUNNING, against `approvals.rs:10` |
| `TaskStore!AnswersRespectLimits` | `MCTaskStore` | an answer makes its task RUNNING without counting the others (`storage.rs:2344`); only the reclaim counts |
| `Daemon!EveryProcessIsReaped` | `MCDaemon` | a provider that leaves its stdin unread blocks the dispatcher in `write_all` (`dispatcher.rs:689`, `supervisor.rs:262`, `:356`), where no deadline is looked at |
| `Evidence!SnapshotsAreReadable` | `MCLedger` | a slot reclaimed on an earlier approval lets a task with an open question open a second one, and every snapshot of it is quarantined (`storage.rs:1779`, `reader.rs:908`) |
| `StoreOpen!EmergencySurvivesRestart` | `MCFiles` | opened without a quota, as by `run_daemon` (`windows_runtime.rs:535`), a store with an emergency on record admits work again after a restart |
| `Backup!RestoreKeepsEveryRow` | `MCFiles` | leases, staged blobs, emergency rows and the event of a resumed recovery do not move the mutation epoch (`storage.rs:3127`, `:3143`, `:3456`), so a restore is admitted and drops them; the rescue copy has them. `restore_backup_offline` is built for tests only |
| `Scheduler!BoundedBypass` | `MCWork` | the scan stops one blocked head earlier than `scheduler.rs:49` says |
| `AdapterRun!ExitZeroIsNotSuccess` | `MCWork` | exit code 0 without a terminal frame ends SUCCEEDED (`supervisor.rs:327`), against `adapters.rs:714` |
| `AdapterRun!StaleProbeIsRefused` | `MCWork` | an executable replaced after its probe is launched with the old admission, against `adapters.rs:401` |
| `Retention!ReopenConverges` | `MCWork` | a deletion cut between the file and its row, or a torn part file, makes every later open refuse the store |
| `Retention!UnacknowledgedBlobsAreKept` | `MCWork` | a blob that is marked for deletion is referenced by a new result and then deleted (`storage.rs:3006`) |
| `Retention!LeasesHoldPaths` | `MCWork` | two callers hold a deletion plan of one blob (`storage.rs:3239`); the first finishes, the blob is published and leased anew, the second removes it |
| `Approvals!GrantsAwaitEveryAnswer` | `MCLedger` | a caller is told to spawn on an earlier approval while a later question is open or denied (`storage.rs:1715`) |
| `Approvals!OneCallerSpawns` | `MCLedger` | two callers that resume one approved question are both told to spawn |
| `Approvals!ReclaimedIsGranted` | `MCLedger` | a snapshot that fails after the reclaim leaves the slot taken and nobody told (`approvals.rs:147`) |
| `Worktrees!UnregisteredNeverLingers` | `MCFiles` | a cleanup that fails after a refused registration leaves a directory without a row (`worktree.rs:1002`) |
| `Router!PageInHandIsReturned` | `MCClients` | a poll that holds a page ends in a deadline error, against `router.rs:496` |
| `Follow!DoneIsComplete` | `MCClients` | a console stops without the last events of a task that ended between its two reads |
| `Connection!ConformingClientIsServed` | `MCConnection`, `ClientBound = 2` | a client that keeps the negotiated bound is disconnected for exceeding it (`protocol_handshake.rs:885`) |
| `Listener!OwnedUntilIntentionalShutdown` | `MCConnection` | a client that connects and leaves before the accept ends the whole daemon (`mesh-win32/src/pipe.rs:920`), against the comment in `serve_listener` |
| `DashboardServer!SettingsAreAtomic`, `VersionsGrow` | `MCFiles` | overlapping updates share one temporary file, tear `config.toml` and restart its version, against `settings/mod.rs:285` |
| `LiveView!CompleteShowsOutcome` | `MCFiles` | a page that says it is complete still shows RUNNING |
| `Install!OwnStagesArePurgeable` | `MCInstall` | a staging file of a killed setup blocks the deletion of the record for ever (`install_store.rs:767`) |
| `Install!SourceGoesBeforeIdentity` | `MCInstall` | a second purge that resumes late makes `installs/<id>/run` again, without `install.lock` (`windows_control.rs:1113`), before the first deletes the record (`:1181`), against `install_purge.rs:79` and `:118` |
| `PurgeTree!UndisturbedTreesAreRemoved` | `MCFiles` | two hard links inside the tree make an undisturbed removal fail (`mesh-win32/src/windows.rs:581`) |

The models also contain, without a definition of their own: the dispatcher's command keys repeat between
tasks (`dispatcher.rs:584`-`656`), so the second cancel of a kind conflicts and its process is killed without it; a
drive loop that ends without a committed end leaves the task RUNNING with its slot (`dispatcher.rs:1035`);
a cancel that commits while an exit is being finalized refuses that end and leaves the task CANCEL_REQUESTED until the
next start (`supervisor.rs:335`); a deletion that FAILED keeps its intent and aborts the next batch
(`storage.rs:3219`); a removed or disabled adapter is planned anew each round (`dispatcher.rs:250`); equal adapter events
are dropped, since their digest is their operation id (`dispatcher.rs:852`); a refused ACP `authenticate` still fails
the run by its error frame (`dispatcher.rs:706`); a client that connects while a timed-out accept is being
cancelled is dropped (`mesh-win32/src/pipe.rs:1085`); a task with more than two pages of events that has ended shows
only the first two (`packages/dashboard/src/index.ts:272`).

### Bounds

Two tasks suffice for the store's relations between tasks (slots, handoffs, dedup keys), since each is
between two rows; the proofs cover any number of tasks, questions and generations. Two slots and four requests
fill the response channel and exceed the in-flight bound. One worker and two clients bring the listener to its limit
and the pipe to its last instance, and two nonces repeat. Two helper generations allow events of a replaced
helper. The clock of `Router` is long enough for a poll to sleep, to be capped by its budget and to run past both
deadlines. One fault (kill, error or outside change) per behaviour in `install`, two in the file components,
each at any step: a second one reaches what the first one left. Three processes let two meet while a third arrives. The
clock of `Retention` passes each of its horizons, which keep the order of the code's and not their ratio. Three
reviewed tasks give each arm of a canary its sample and one more. Three questions let one be approved, one stay open and
one be opened after the reclaim; two collectors hold plans of the same path.

The unbounded counters are generations, helper generations, clocks, versions, revisions, faults, events and lines of
output. `MaxGeneration`, `LastTime`, `MaxTime`, `MaxNow`, `MaxClock`, `MaxVersion`, `MaxConfig`, `MaxRev`, `MaxFaults`,
`MaxFailures`, `MaxHalts`, `MaxUpsets`, `MaxLoads`, `MaxSeq`, `MaxEvents`, `MaxOutput` and `MaxLines` bound them in guards.

Deadlock is checked in `store`, `daemon` and `install`. A connection that has ended, a call that is settled, a
writer that has stopped, a purge that is done and a finished plan really do stop, so the other runs do not check it.
Symmetry is used only in runs without liveness properties.

### Fairness

* `Daemon`: the dispatcher thread is scheduled, and the hard deadline of a run passes (it is a clock). A write to a
  provider's stdin ends only if the provider reads or exits, which it need not: `ProcessIsReaped` excepts it.
* `Writer`: the actor and each waiting caller are scheduled and operations end. Nobody must shut down.
* `Connection`: threads are scheduled; reads, writes and router calls end because each carries a deadline.
* `Listener`: the accept loop is scheduled; its accept has a timeout. A connection worker may hang for ever.
* `Router`: the clock and the worker run. `Bridge`: only that a timer that was set fires.
* `Install`: commands and the daemon take their next step, since every wait in them has a timeout.

No fairness is assumed of providers, clients, crashes or restarts.

## Proofs

Eight modules hold the proofs, each of components whose names can stand in one module: `TaskStoreProofs`,
`DaemonProofs`, `InstallProofs`, `ConnectionProofs` (Connection, Listener, Retention, StoreOpen), `WorkProofs`
(AdapterRun, Scheduler, Worktrees), `FilesProofs` (Improvement, ControlFiles, DashboardServer), `ClientsProofs`
(Bridge, Writer, LiveView, Follow) and `LedgerProofs` (Evidence, Approvals, Backup, PurgeTree). Leaves that need no
arithmetic name Zenon, which keeps a module's check short; the others go to the SMT solver. TLAPS checks all of them from the
assumptions that the modules name, which every run evaluates on its instance: `AdapterAssumption`,
`NoTaskAssumption`, `LimitAssumption`, `GenerationAssumption`, `TaskAssumption`, `BoundAssumption`,
`RetentionAssumption`, `RepoAssumption`, `SchemaAssumption`, `ListenerAssumption`, `ConnectionAssumption`,
`InstallAssumption`, `BridgeAssumption`, `WriterAssumption`, `FollowAssumption`, `LoadFitsView` (what a load reads fits
the timeline), `ControlFilesAssumption`, `TimesArePositive`, `EndingsAreTerminal`,
`ImprovementAssumption` and `LinesAreDecoded` (a decoder gives a sequence of known kinds). They say that sets are finite,
bounds are natural numbers and model values are none of the things they stand beside; none bounds the number of
tasks, processes, requests or events. Every safety invariant and action property of a passing run is proved.

*Store.* None of the safety properties is inductive, because `Open` replaces a task's state by its log's:
what must hold after a restart has to hold of the log before it. `StoreInvariant` therefore states each
fact of both. `LogAgrees` relates generation, existence and terminal state; `CancelAgrees` and
`EvidenceAgrees` keep both on the path that a cancel, or evidence of a start, allows; `QuestionAgrees` keeps
both where a question may be open. `HandoffAgrees` and `TodoAgrees` add that the second transaction of a
command will be accepted and that recovery's list holds unsettled tasks only. `StoreIsSound` proves it
invariant, one step per action. From it follow that the store always opens again (`StoreAlwaysOpens`),
cancels are durable, two-transaction commands are accepted, open questions are live, nothing started or
answered is retried, ends are final, and questions are decided once.
The limits need a second invariant. The number of tasks at work is not inductive, since a restart turns
rows that hold no slot into rows that do, and recovery releases them one at a time. `LoadInvariant` counts what
recovery has still to settle as well and bounds that; each step takes at most one slot, and only after
`SlotFree` counted the others. `LimitsAreKept` follows. An answer given without a slot is outside the bound, in the
code as in the property.

*Daemon.* `DaemonImplementsStore` maps every daemon step to a store step or a stutter, so all of the above
holds of the composition. `DaemonInvariant` adds that the dispatcher's place in an attempt agrees with the
rows of its task (`DriveAgrees`) and that starts are counted by evidence (`RunsAgree`). From it follow
`ExecutedAtMostOnce`, `ProcessesAreRecorded` and `CancelledBeforeFence`.

*Scheduler.* `SchedulerInvariant` says that the scanned candidates are a prefix of the queue order and that
the counters are what the verdicts on them add up to. From it follow that plans fit, keep the order on
each adapter, and leave a task with room behind only at the code's bypass bound, which is one below the documented one.

*Listener.* `InstancesFollowLoop` says how many instances the accept loop owns at each of its places, and that
a client is on at most one listening instance and then has no worker. With it the workers that still hold a
transport are those `Full` counts, which gives `PipeIsOwned`. `HandshakeStates` lists, for each place of a
connection's worker, where its client can be and what is on the wire between them: greeted, challenged, served,
ended. Agreement holds from the moment the worker verifies the client's proof, because a proof contains the
transcript and the key; `SessionsAgree` follows. No bound on nonces or clients is used, and nonces may repeat.

*Connection.* `ConnectionInvariant` gives every request one place (`PlacesAgree`), the reader and each worker one
request in hand (`InHand`), and says for each place whether its slot is held (`SlotsFollow`), with the number of
slots within `MaxInFlight`. So the answers queued are slots, and a full queue behind a health answer must contain an
answer that has lost its slot, that is a failed one: `FenceIsFree`. `EverySlotIsReleased` is the other half.

*Retention.* That a marked resource is not leased is not inductive: a caller may renew a lease at the
instant it expires, or take over the row of an earlier epoch with its items, and either would revive an
expired lease on a marked resource. `MarkFences` is stronger: no lease row names a marked resource at all,
since `mark_retention_gc` deletes expired leases in the transaction that marks. A plan is of a resource that was marked;
another plan of it may have ended the mark. `LeasedPathsStay` follows, with that one exception, which the code has.

*AdapterRun.* `RunInvariant` says that, unless a frame ended the run, no line read so far decides and every piece
of them is recorded; and that a run ended by a frame has the verdict of the first deciding line of the whole
output. Between two reads the buffer is empty, although within one it passes through every state: lemmas
follow `persist_new_frames` line by line and kind by kind, by induction on the lines of a read. Decoding is any
function that `LinesAreDecoded` admits. `FirstFrameDecides` and `NoPieceIsLost` follow.

*StoreOpen.* `FenceFollowsCall` adds that while a latch or a recovery is under way the fence in memory is up, that the
row says NORMAL only after the whole reserve exists, and that only a store with a quota touches the reserve. *Worktrees.* `LocksAreShared` says that every strong
reference is to the object which the registry names, so a dead entry is replaced only when nobody of that
repository holds one.

*ControlFiles.* That one process owns the lock is not inductive: a process whose creation failed unlinks the path and
could unlink an owner's file. `HandlesFollowSteps` adds that at most one process is between creating the file and
leaving it to be opened, and that an owner's handle is on the file at the path; `LockHasOneOwner` follows.
*PurgeTree.* Two entries of a fingerprint could cancel out if an identity came back. `FingerprintIsFaithful` says
that identities are older than the count of changes and none is unlinked twice, so equal fingerprints mean equal
sets; `SuccessIsAudited` follows. *Backup.* `CopiesMatchManifests` says that an epoch counts the commands of its copy
(and nothing else), and that when a restore replaces the file the database still has the epoch it was admitted at and
is the one in the rescue copy; `NoWriteIsLost` follows. *DashboardServer.* `LoneUpdates` says that an update still marked as alone has no other one beside it, and
what its own steps have made of `config.toml` and the temporary file; `LoneUpdatesAreWhole` follows.

*Bridge.* `BridgeInvariant` adds to the refusals which helper a request was written to: a request that is refused was
written to none, or to one that never started and is gone. *Writer.* `StopIsLast` says that nothing is accepted
after the stop command, so what precedes it in the mailbox is all there is; with `AcceptedIsKept` that gives
`AcceptedIsAnswered`. *Follow.* `FollowInvariant` says that what is printed, followed by what is held, is the
pieces of the events up to the cursor, each once and in order, and that text and folded thinking are never held at
once, so flushing one never overtakes the other. *LiveView.* The timeline is put together by loads and streams that
overlap with changes of page. `PageInvariant` says of the page's rows, of each load under way and of each event on the
wire that it is an unbroken stretch of the events of one task, where it may be joined to what is shown, and that what
belongs to another task or an older load is dropped; `TimelineIsWhole` follows.

*Approvals.* `ApprovalInvariant` says of each question that one call made the first answer and only this one is on its
way to forward it, and that a slot is reclaimed, and a caller granted, only once some question of the generation was
approved; approvals stay. *Evidence.* `EvidenceInvariant` relates the task row, the events, what replay derives from them,
the questions, the dedup records, the delivery and the review, before and after compaction, and says what the second
transaction of a command that is under way still owes. At most one question is open, in a state where the row and the
replayed state both wait for it, until a slot is reclaimed; from then on any number may be. It is what the readers'
checks, a restart and the replay of a command need: `NoReaderQuarantines`, `CommandsReplay`. *Improvement.*
`EngineInvariant` relates cases to the reviews they come from (`CasesFollowReviews`), canaries to the fixtures they passed
(`CanariesPassed`), samples to the configuration they ran under (`SamplesFit`) and every active configuration to its
promotion or its restoration (`ActiveHasOrigin`); `ActiveIsAlwaysEarned` follows.

*Install.* `SlotImplementsLifecycle` maps the record's state and whether the pipe is bound to `InstallLifecycle`;
only the rename of a record, its deletion and the daemon's binding and leaving are more than a stutter. The
lifecycle forbids RETAINED and PURGING while a daemon serves, which no lock alone gives: the command owns
`install.lock`, the serving daemon has let go of it. `SlotInvariant` therefore says of each place of a command
between taking the lock and giving it back that it owns it, what it is about to publish, and that before
RETAINED or PURGING it owns `daemon.lock` too; and of the daemon that from its admission to its exit it holds the
`daemon.lock` of the identity it was admitted for. The number of commands, identities and faults is arbitrary;
kills between any two steps are among the steps.

The files need more than the locks: `BackedInvariant` says what each command, at each of its places, knows of the
files it has created, staged or deleted, and that a tombstone is that of the identity being purged. It rests on
`SlotInvariant`, because only the owner of `install.lock` changes them. `EvidenceIsOnDisk` and `IdentityGoesLast` follow.
The directory `installs/<id>` is not among these files: a purge that resumes makes it again without the lock.

Where a proof needs induction over a sequence, it takes the least place at which a set of naturals fails (`SetInduction`
and `LeastOf`, which rest on the order of the naturals being well-founded), since the library's induction theorems take an
operator that the provers cannot instantiate.

Only model-checked: liveness (`ProcessIsReaped`, `EveryCallReturns`, `ConnectionEnds`, `ServerReturns`,
`EveryRequestAnswered`, `EveryRequestSettles`, `RemovalDrains`), since liveness under fairness and ENABLED are beyond
TLAPS; the four disagreements above; and the rules that are pure operators (`FileRules`, `GitRules`, `AdapterRules`,
`EventPage` and the like), which TLC evaluates over bounded inputs as assumptions of the `MC` modules.

## Abstractions

Times are reduced to whether they have passed, except where a module keeps a clock. Identities, payloads,
digests and command keys are model values or left out where no property tells them apart. A failed store call
is a refused call or a crash; SQLite is taken to commit atomically. A task's generation cannot become stale
within one life of the daemon, since only recovery and `schedule_safe_retry` raise it. No production caller opens
questions today; the store accepts them, so `TaskStore` has them. A proof of the handshake is the tuple that
is signed; a digest is what it is the digest of. A file is absent, torn or whole, with an identity where handles
outlive names. `Daemon` reduces a provider's protocol to the outcome of a frame, which `AdapterRun` derives from lines.

## Not modelled

* Frames and strict JSON (`protocol_frame.rs`, `protocol_strict_json.rs`, `mesh-win32/src/frame.rs`), the wire schemas and
  the command line: parsing of one value, without state.
* Rendering: the dashboard's elements and styles, console colours, the text of prompts and messages.
* The operating system: descriptors, encryption and signatures beyond their verdict; the Task Scheduler's interfaces.
* The two threads that drain a provider's output and their shared quota, beyond a spool that grows and may end a run.
* Packaging scripts, test support, live contract tests with real providers.
