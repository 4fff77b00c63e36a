------------------------------ MODULE Install ------------------------------
(***************************************************************************)
(* One installation slot and everything that acts on it: the setup, start, *)
(* remove and purge commands, the stable bridge, and the daemon that the   *)
(* scheduled task runs.                                                    *)
(*                                                                         *)
(* Every mutation of the record happens under install.lock, a no-share     *)
(* file handle that the system releases when its owner dies.  startup.lock *)
(* and daemon.lock lie inside the installation's own directory.  All three *)
(* are try-locks.  A command is a process: it may end with an error or be  *)
(* killed between any two of its steps (Fail), which is how a failing      *)
(* check, a full disk, a timeout or a crash shows to the others.           *)
(*                                                                         *)
(* installs/<id> is the source tree and purge/<id> its tombstone.  `arts'  *)
(* is what is left of the files setup created.                             *)
(***************************************************************************)
EXTENDS InstallRecord, ScheduledTask, FiniteSets

CONSTANTS Cmds,       \* command and bridge processes
          Daemon,     \* the process of the scheduled task
          None,       \* no process
          MaxId,      \* identities created in turn
          MaxRev,     \* a retained record is set up again only below this revision
          MaxFaults   \* bound on kills, errors and outside changes together

ASSUME InstallAssumption ==
  /\ Daemon \notin Cmds /\ None \notin Cmds /\ None # Daemon
  /\ MaxId \in Nat \ {0} /\ MaxRev \in Nat /\ MaxFaults \in Nat

VARIABLES record,     \* slots/stable/install.json
          orphans,    \* staging files of killed writers
          source,     \* identities with a directory under installs
          tomb,       \* identities with a directory under purge
          arts,       \* the artifacts present of each identity
          reg,        \* the registered task (ScheduledTask)
          lock,       \* owner of install.lock
          startup,    \* owner of each identity's startup.lock
          daemonLock, \* owner of each identity's daemon.lock
          pc, role,   \* where each process is, and which command it runs
          seen,       \* the record a process last read
          next, ret,  \* the record being published, and where to go on
          created,    \* identities created so far
          faults

filesystem == <<record, orphans, source, tomb, arts, created>>
locks == <<lock, startup, daemonLock>>
control == <<pc, role, seen, next, ret>>
vars == <<filesystem, reg, locks, control, faults>>

Procs == Cmds \union {Daemon}
Ids == 0..MaxId
\* The daemon is an instance of the task until the scheduler notices its exit.
Instances == IF pc[Daemon] = "off" THEN 0 ELSE 1

Status == TaskState(reg, Instances)

InstallInit ==
  /\ record = NoRecord /\ orphans = {} /\ source = {} /\ tomb = {} /\ created = 0
  /\ arts = [i \in Ids |-> {}]
  /\ reg = "none"
  /\ lock = None /\ startup = [i \in Ids |-> None] /\ daemonLock = [i \in Ids |-> None]
  /\ pc = [p \in Procs |-> IF p = Daemon THEN "off" ELSE "idle"]
  /\ role = [p \in Procs |-> "none"]
  /\ seen = [p \in Procs |-> NoRecord] /\ next = [p \in Procs |-> NoRecord]
  /\ ret = [p \in Procs |-> "idle"]
  /\ faults = 0

-----------------------------------------------------------------------------
(* What the commands verify.                                               *)

\* The artifact is the one setup published: it is there, at its place.
InPlace(id, a) == id \in source \ tomb /\ a \in arts[id]

VerifyKeyRecord(r) == InPlace(r.id, "key")
VerifyRuntimeRecord(r) == InPlace(r.id, "runtime")
VerifyDataRecord(r) == InPlace(r.id, "data")

VerifyArtifacts(r) == VerifyKeyRecord(r) /\ VerifyRuntimeRecord(r) /\ VerifyDataRecord(r)

VerifyTaskPresent == Startable(reg, Instances)
VerifyTaskPresentOrAbsent == Status = "Absent" \/ VerifyTaskPresent

VerifyActive(r) == VerifyArtifacts(r) /\ VerifyTaskPresent
VerifyRetained(r) == VerifyArtifacts(r) /\ Status = "Absent"

\* verify_prefix: everything that has been checkpointed is still exact.
VerifyPrefix(r) ==
  /\ \A a \in r.ev \ {"task"} : InPlace(r.id, a)
  /\ "task" \in r.ev => VerifyTaskPresentOrAbsent

\* classify_install_purge_tree
Tree(id) ==
  CASE id \in source /\ id \in tomb -> "Both"
    [] id \in source /\ id \notin tomb -> "Source"
    [] id \notin source /\ id \in tomb -> "Tombstone"
    [] id \notin source /\ id \notin tomb -> "Gone"

\* task_matches_purge_preflight: `exact' compares the digest that has the
\* enabled flag in it.
TaskMatchesPurgePreflight(state) ==
  \/ state = "ACTIVE" /\ Status \in {"Ready", "Running"} /\ ExactDigest(reg)
  \/ state \in {"REMOVING", "RETAINED"} /\ Status = "Absent"
  \/ state = "REMOVING" /\ Status \in {"Ready", "Running", "Disabled"} /\ ExactDigest(reg)

\* preflight_complete_record and verify_complete_purge_artifacts
PreflightCompleteRecord(r) ==
  /\ Validate(r) /\ IsActiveComplete(r)
  /\ VerifyArtifacts(r)
  /\ TaskMatchesPurgePreflight(r.state)

-----------------------------------------------------------------------------
(* Steps shared by the commands.                                           *)

Goto(p, l) == pc' = [pc EXCEPT ![p] = l]

\* The process gives up every lock it holds.
Released(f, p) == [i \in Ids |-> IF f[i] = p THEN None ELSE f[i]]

ReleaseAll(p) ==
  /\ lock' = IF lock = p THEN None ELSE lock
  /\ startup' = Released(startup, p)
  /\ daemonLock' = Released(daemonLock, p)

\* A command returns: its handles close.
Return(c) ==
  /\ ReleaseAll(c)
  /\ pc' = [pc EXCEPT ![c] = "idle"]
  /\ role' = [role EXCEPT ![c] = "none"]
  /\ seen' = [seen EXCEPT ![c] = NoRecord] /\ next' = [next EXCEPT ![c] = NoRecord]
  /\ ret' = [ret EXCEPT ![c] = "idle"]

\* It hands a next record to compare_and_swap_locked and goes on at `l'.
Swap(c, n, l) ==
  /\ next' = [next EXCEPT ![c] = n] /\ ret' = [ret EXCEPT ![c] = l]
  /\ Goto(c, "stage")
  /\ UNCHANGED <<role, seen>>

\* compare_and_swap_locked: what is published must follow the current record,
\* else the command fails.  The verified staging file is written.
Stage(c) ==
  /\ pc[c] = "stage"
  /\ IF AcceptsSwap(record, next[c])
     THEN Goto(c, "publish") /\ UNCHANGED <<locks, role, seen, next, ret>>
     ELSE Return(c)
  /\ UNCHANGED <<filesystem, reg, faults>>

\* The staging file replaces the record in one atomic rename.
Publish(c) ==
  /\ pc[c] = "publish"
  /\ record' = next[c]
  /\ seen' = IF role[c] = "purge" THEN [seen EXCEPT ![c] = next[c]] ELSE seen
  /\ next' = [next EXCEPT ![c] = NoRecord]
  /\ Goto(c, ret[c])
  /\ ret' = [ret EXCEPT ![c] = "idle"]
  /\ UNCHANGED <<orphans, source, tomb, arts, created, reg, locks, role, faults>>

\* What a setup that dies at work on an artifact may leave.
Torn(l) == CASE l = "makeKey" -> {"tornKey"}
             [] l = "makeRuntime" -> {"tornRuntime"}
             [] l = "makeData" -> {"tornData"}
             [] OTHER -> {}

\* The staging file that a command may leave: whole between staging and
\* publication, one that does not decode (NoRecord) while it is written.
StageLeft(c) ==
  CASE pc[c] = "publish" -> {next[c]}
    [] pc[c] = "stage" /\ AcceptsSwap(record, next[c]) -> {NoRecord}
    [] OTHER -> {}

\* A command ends early: an error returned, or the process killed.
Fail(c) ==
  /\ pc[c] # "idle" /\ faults < MaxFaults
  /\ faults' = faults + 1
  /\ Return(c)
  /\ orphans' \in {orphans, orphans \union StageLeft(c)}
  /\ arts' \in {arts, [arts EXCEPT ![record.id] = @ \union Torn(pc[c])]}
  /\ UNCHANGED <<record, source, tomb, created, reg>>

\* Somebody changes the task by hand.
DriftTask ==
  /\ reg = "enabled" /\ faults < MaxFaults
  /\ faults' = faults + 1
  /\ reg' \in {"none", "disabled", "foreign"}
  /\ UNCHANGED <<filesystem, locks, control>>

-----------------------------------------------------------------------------
(* setup (install_control.rs converge_setup_guarded).  The lock is held     *)
(* from the first read to the return.                                      *)

Begin(c, r, l) ==
  /\ pc[c] = "idle"
  /\ role' = [role EXCEPT ![c] = r]
  /\ Goto(c, l)
  /\ UNCHANGED <<next, ret>>

AcquireSetupGuard(c) == lock = None /\ lock' = c /\ UNCHANGED <<startup, daemonLock>>

SetupBegin(c) ==
  /\ ~Present(record) => created < MaxId
  /\ record.state = "RETAINED" => record.rev < MaxRev
  /\ AcquireSetupGuard(c)
  /\ Begin(c, "setup", "setup")
  /\ UNCHANGED <<filesystem, reg, seen, faults>>

SetupInitial(c) ==
  /\ pc[c] = "setup" /\ ~Present(record)
  /\ created' = created + 1
  /\ Swap(c, InitialRecord(created + 1), "setup")
  /\ UNCHANGED <<record, orphans, source, tomb, arts, reg, locks, faults>>

\* verify_prefix creates the product directory.  A step that then finds the
\* checkpointed evidence changed ends setup.
Installing(c, a) ==
  /\ pc[c] = "setup" /\ record.state = "INSTALLING" /\ ~IsActiveComplete(record)
  /\ NextEvidence(record) = a /\ VerifyPrefix(record)
  /\ source' = source \union {record.id}
  /\ UNCHANGED <<record, orphans, tomb, created, faults>>

\* An exact artifact that an earlier attempt left is adopted; else it is made.
AdoptOr(c, a, l) ==
  /\ UNCHANGED <<arts, reg, locks>>
  /\ IF a \in arts[record.id]
     THEN Swap(c, Checkpoint(record), "setup")
     ELSE Goto(c, l) /\ UNCHANGED <<role, seen, next, ret>>

EnsureExactKey(c) == Installing(c, "key") /\ AdoptOr(c, "key", "makeKey")
EnsureExactRuntime(c) == Installing(c, "runtime") /\ AdoptOr(c, "runtime", "makeRuntime")
EnsureExactData(c) == Installing(c, "data") /\ AdoptOr(c, "data", "makeData")

EnsureExactTask(c) ==
  /\ Installing(c, "task")
  /\ IF CanSetup(reg)
     THEN reg' = "enabled" /\ Swap(c, Checkpoint(record), "setup") /\ UNCHANGED locks
     ELSE Return(c) /\ UNCHANGED reg
  /\ UNCHANGED arts

\* A key file torn by a crash is removed and made again, a data root that was
\* never finished is finished, and the runtime is staged under a fresh name and
\* published without replacing, so that a torn stage stays behind.
Made(c, a, left) ==
  /\ arts' = [arts EXCEPT ![record.id] = (@ \ left) \union {a}]
  /\ Swap(c, Checkpoint(record), "setup")
  /\ UNCHANGED <<record, orphans, source, tomb, created, reg, locks, faults>>

MakeArtifact(c) ==
  \/ pc[c] = "makeKey" /\ Made(c, "key", {"tornKey"})
  \/ pc[c] = "makeRuntime" /\ Made(c, "runtime", {})
  \/ pc[c] = "makeData" /\ Made(c, "data", {"tornData"})

\* complete_installing registers an absent task and verifies all of it again.
SetupComplete(c) ==
  /\ pc[c] = "setup" /\ record.state = "INSTALLING" /\ IsActiveComplete(record)
  /\ source' = source \union {record.id}
  /\ IF VerifyPrefix(record)
     THEN /\ reg' = "enabled"
          /\ Swap(c, Transition(record, "ACTIVE"), "setup")
          /\ UNCHANGED locks
     ELSE Return(c) /\ UNCHANGED reg
  /\ UNCHANGED <<record, orphans, tomb, arts, created, faults>>

SetupRetained(c) ==
  /\ pc[c] = "setup" /\ record.state = "RETAINED" /\ VerifyRetained(record)
  /\ Swap(c, Transition(record, "INSTALLING"), "setup")
  /\ UNCHANGED <<filesystem, reg, locks, faults>>

\* ACTIVE is verified and returned; everything else is an error.
SetupReturn(c) ==
  /\ pc[c] = "setup"
  /\ \/ record.state \in {"ACTIVE", "REMOVING", "PURGING", "BROKEN"}
     \/ record.state = "INSTALLING" /\ ~IsActiveComplete(record) /\ ~VerifyPrefix(record)
     \/ record.state = "RETAINED" /\ ~VerifyRetained(record)
  /\ Return(c)
  /\ UNCHANGED <<filesystem, reg, faults>>

-----------------------------------------------------------------------------
(* The trampoline: a command of another runtime verifies the installed one  *)
(* under the lock and runs the command in it.  The lock is given back       *)
(* before the child asks for it.                                           *)

Spawn(c, r) ==
  /\ lock = None /\ VerifyRuntimeRecord(record)
  /\ Begin(c, r, "spawned")
  /\ seen' = [seen EXCEPT ![c] = record]
  /\ UNCHANGED <<filesystem, reg, locks, faults>>

\* StableControlMode: start needs ACTIVE, remove any complete record.
ModeAdmits(mode, state) ==
  CASE mode = "start" -> state = "ACTIVE"
    [] mode = "remove" -> state \in {"ACTIVE", "REMOVING", "RETAINED"}

SpawnStableControl(c) ==
  \E mode \in {"start", "remove"} :
    AdmitsRetainedControl(record) /\ ModeAdmits(mode, record.state) /\ Spawn(c, mode)

SpawnStableBridge(c) ==
  AdmitsOrdinaryTraffic(record) /\ VerifyActive(record) /\ Spawn(c, "bridge")

-----------------------------------------------------------------------------
(* remove (windows_control.rs remove_with_controller).  Purge runs it too,  *)
(* from its own loop, without asking to be the stable runtime.             *)

RemoveBegin(c) ==
  /\ pc[c] = "spawned" /\ role[c] = "remove"
  /\ IF lock = None
     THEN AcquireSetupGuard(c) /\ Goto(c, "remove") /\ UNCHANGED <<role, seen, next, ret>>
     ELSE Return(c)
  /\ UNCHANGED <<filesystem, reg, faults>>

RemoveAdmit(c) ==
  /\ pc[c] = "remove"
  /\ LET refused == \/ record.state \notin {"ACTIVE", "REMOVING", "RETAINED"}
                    \/ role[c] = "remove" /\ ~VerifyRuntimeRecord(record)
     IN \/ refused /\ Return(c)
        \/ /\ ~refused /\ record.state = "ACTIVE"
           /\ Swap(c, Transition(record, "REMOVING"), "task")
           /\ UNCHANGED locks
        \/ /\ ~refused /\ record.state # "ACTIVE"
           /\ Goto(c, "taskResumed")
           /\ UNCHANGED <<locks, role, seen, next, ret>>
  /\ UNCHANGED <<filesystem, reg, faults>>

\* The task is disabled first, so that nothing starts the daemon again.
RemoveDisable(c) ==
  /\ pc[c] \in {"task", "taskResumed"}
  /\ LET retained == record.state = "RETAINED"
         l == IF Startable(reg, Instances) \/ Status = "Disabled" THEN "drain" ELSE "drainAbsent"
     IN IF \/ Startable(reg, Instances) /\ ~retained
           \/ Status = "Disabled" /\ ~retained
           \/ Status = "Absent" /\ pc[c] = "taskResumed"
        THEN /\ reg' = IF CanDisable(reg) THEN "disabled" ELSE reg
             /\ Goto(c, l)
             /\ UNCHANGED <<locks, role, seen, next, ret>>
        ELSE Return(c) /\ UNCHANGED reg
  /\ UNCHANGED <<filesystem, faults>>

\* ensure_run_directory, then the exclusive handle.
TakeDaemonLock(c, id) ==
  /\ daemonLock[id] = None
  /\ daemonLock' = [daemonLock EXCEPT ![id] = c]
  /\ source' = source \union {id}

TakeStartupLock(c, id) ==
  /\ startup[id] = None
  /\ startup' = [startup EXCEPT ![id] = c]
  /\ source' = source \union {id}

Drain(c) ==
  /\ pc[c] \in {"drain", "drainAbsent", "stopped"}
  /\ pc[c] = "stopped" => Instances = 0
  /\ TakeDaemonLock(c, record.id)
  /\ Goto(c, IF pc[c] = "drainAbsent" THEN "retire" ELSE "delete")
  /\ UNCHANGED <<record, orphans, tomb, arts, created, reg, lock, startup,
                 role, seen, next, ret, faults>>

\* The daemon did not leave in time.  A disabled task is stopped.
DrainTimeout(c) ==
  /\ daemonLock[record.id] # None
  /\ \/ pc[c] = "drain" /\ CanStop(reg) /\ Goto(c, "stopped")
        /\ UNCHANGED <<locks, role, seen, next, ret>>
     \/ pc[c] = "drain" /\ ~CanStop(reg) /\ Return(c)
     \/ pc[c] \in {"drainAbsent", "stopped"} /\ Return(c)
  /\ UNCHANGED <<filesystem, reg, faults>>

RemoveDelete(c) ==
  /\ pc[c] = "delete"
  /\ IF CanDelete(reg, Instances)
     THEN reg' = "none" /\ Goto(c, "retire") /\ UNCHANGED <<locks, role, seen, next, ret>>
     ELSE Return(c) /\ UNCHANGED reg
  /\ UNCHANGED <<filesystem, faults>>

RemoveRetire(c) ==
  /\ pc[c] = "retire"
  /\ IF record.state = "RETAINED"
     THEN Goto(c, "removed") /\ UNCHANGED <<role, seen, next, ret>>
     ELSE Swap(c, Transition(record, "RETAINED"), "removed")
  /\ UNCHANGED <<filesystem, reg, locks, faults>>

\* The guards go.  Purge observes again.
Observed(c) ==
  /\ ReleaseAll(c)
  /\ Goto(c, "observe")
  /\ seen' = [seen EXCEPT ![c] = NoRecord]
  /\ UNCHANGED <<role, next, ret>>

RemoveReturn(c) ==
  /\ pc[c] = "removed"
  /\ IF role[c] = "purge" THEN Observed(c) ELSE Return(c)
  /\ UNCHANGED <<filesystem, reg, faults>>

-----------------------------------------------------------------------------
(* purge (install_purge.rs converge_purge; its effects are the external    *)
(* controller of windows_control.rs).  It observes without a lock, and     *)
(* every effect checks again under one.  The loop gives up after 16        *)
(* observations; here it may go on.                                        *)

PurgeBegin(c) ==
  /\ Begin(c, "purge", "observe")
  /\ UNCHANGED <<filesystem, reg, locks, seen, faults>>

PurgeEffect(r) ==
  CASE r.state = "ABSENT" -> "absence"
    [] r.state \in {"ACTIVE", "REMOVING"} /\ Tree(r.id) = "Source" /\ PreflightCompleteRecord(r)
         -> "converge"
    [] r.state = "RETAINED" /\ Tree(r.id) = "Source" /\ PreflightCompleteRecord(r)
         -> "publishPurging"
    [] r.state = "PURGING" /\ Tree(r.id) = "Source" -> "resume"
    [] r.state = "PURGING" /\ Tree(r.id) = "Tombstone" -> "tombstone"
    [] r.state = "PURGING" /\ Tree(r.id) = "Gone" -> "gone"
    [] OTHER -> "drift"

PurgeObserve(c) ==
  /\ pc[c] = "observe"
  /\ LET l == PurgeEffect(record) IN
     IF l = "drift"
     THEN Return(c)
     ELSE /\ Goto(c, l) /\ seen' = [seen EXCEPT ![c] = record]
          /\ UNCHANGED <<locks, role, next, ret>>
  /\ UNCHANGED <<filesystem, reg, faults>>

\* verify_clean_absence: looked at under the lock; nothing is changed.
PurgeAbsence(c) ==
  /\ pc[c] = "absence"
  /\ Return(c)
  /\ UNCHANGED <<filesystem, reg, faults>>

\* converge_retained
PurgeConverge(c) ==
  /\ pc[c] = "converge"
  /\ IF lock = None
     THEN AcquireSetupGuard(c) /\ Goto(c, "remove") /\ UNCHANGED <<role, seen, next, ret>>
     ELSE Return(c)
  /\ UNCHANGED <<filesystem, reg, faults>>

\* Mutant of PublishPurging: the tree is renamed before PURGING is durable.
StageEarly(c) ==
  /\ pc[c] = "publishPurging"
  /\ IF lock = None /\ record.state = "RETAINED" /\ VerifyRetained(record) /\ Tree(record.id) = "Source"
     THEN /\ lock' = c /\ UNCHANGED <<startup, daemonLock>>
          /\ source' = source \ {record.id} /\ tomb' = tomb \union {record.id}
          /\ Swap(c, Transition(record, "PURGING"), "purging")
     ELSE Return(c) /\ UNCHANGED <<source, tomb>>
  /\ UNCHANGED <<record, orphans, arts, created, reg, faults>>

\* publish_purging_and_stage_source: no daemon, no task, then PURGING.
PublishPurging(c) ==
  /\ pc[c] = "publishPurging"
  /\ IF /\ lock = None /\ record.state = "RETAINED"
        /\ VerifyRetained(record) /\ daemonLock[record.id] = None
     THEN /\ lock' = c /\ TakeDaemonLock(c, record.id) /\ UNCHANGED startup
          /\ Swap(c, Transition(record, "PURGING"), "purging")
     ELSE Return(c) /\ UNCHANGED source
  /\ UNCHANGED <<record, orphans, tomb, arts, created, reg, faults>>

\* The lock is dropped before startup.lock is asked for: starters take the
\* two the other way round.
DropGuard(c) ==
  /\ pc[c] = "purging"
  /\ lock' = None
  /\ Goto(c, "drainStarters")
  /\ UNCHANGED <<filesystem, reg, startup, daemonLock, role, seen, next, ret, faults>>

\* startup.lock, there and at the start of resume_purging_source.
DrainStarters(c) ==
  /\ pc[c] \in {"drainStarters", "resume"}
  /\ IF startup[seen[c].id] = None
     THEN /\ TakeStartupLock(c, seen[c].id)
          /\ Goto(c, IF pc[c] = "resume" THEN "resumeDaemon" ELSE "restage")
          /\ UNCHANGED <<lock, daemonLock, role, seen, next, ret>>
     ELSE Return(c) /\ UNCHANGED source
  /\ UNCHANGED <<record, orphans, tomb, arts, created, reg, faults>>

ResumeDaemonLock(c) ==
  /\ pc[c] = "resumeDaemon"
  /\ IF daemonLock[seen[c].id] = None
     THEN /\ TakeDaemonLock(c, seen[c].id)
          /\ Goto(c, "restage")
          /\ UNCHANGED <<lock, startup, role, seen, next, ret>>
     ELSE Return(c) /\ UNCHANGED source
  /\ UNCHANGED <<record, orphans, tomb, arts, created, reg, faults>>

\* Under the lock again, on the unchanged record: the in-tree handles are
\* closed and the whole tree is renamed, unless somebody has a file of it open.
StageInstallTreeForPurge(c) ==
  /\ pc[c] = "restage"
  /\ LET id == seen[c].id
         others == {startup[id], daemonLock[id]} \ {None, c}
     IN \/ /\ lock = None /\ record = seen[c] /\ Tree(id) = "Source" /\ others = {}
           /\ source' = source \ {id} /\ tomb' = tomb \union {id}
           /\ Observed(c)
        \/ /\ lock = None /\ record = seen[c] /\ Tree(id) = "Tombstone"
           /\ Observed(c)
           /\ UNCHANGED <<source, tomb>>
        \/ /\ \/ lock # None \/ record # seen[c]
              \/ Tree(id) \in {"Both", "Gone"}
              \/ Tree(id) = "Source" /\ others # {}
           /\ Return(c)
           /\ UNCHANGED <<source, tomb>>
  /\ UNCHANGED <<record, orphans, arts, created, reg, faults>>

\* audit_and_delete_tombstone: an audit without effect, then bottom-up.
AuditTombstone(c) ==
  /\ pc[c] = "tombstone"
  /\ IF lock = None /\ record.state = "PURGING" /\ Tree(record.id) = "Tombstone"
     THEN AcquireSetupGuard(c) /\ Goto(c, "removing") /\ UNCHANGED <<role, seen, next, ret>>
     ELSE Return(c)
  /\ UNCHANGED <<filesystem, reg, faults>>

\* The image of a live process cannot be unlinked.
Executing(id) ==
  \E p \in Procs : /\ seen[p].id = id
                   /\ p = Daemon \/ role[p] \in {"start", "bridge", "remove"}

RemovePurgeDirectory(c) ==
  /\ pc[c] = "removing"
  /\ \/ \E a \in arts[record.id] :
          /\ a = "runtime" => ~Executing(record.id)
          /\ arts' = [arts EXCEPT ![record.id] = @ \ {a}]
          /\ UNCHANGED <<tomb, locks, control>>
     \/ /\ arts[record.id] = {"runtime"} /\ Executing(record.id)
        /\ Return(c)
        /\ UNCHANGED <<arts, tomb>>
     \/ /\ arts[record.id] = {}
        /\ tomb' = tomb \ {record.id}
        /\ Observed(c)
        /\ UNCHANGED arts
  /\ UNCHANGED <<record, orphans, source, created, reg, faults>>

\* finalize_record_last and compare_and_delete_purging_locked.
FinalizeRecordLast(c) ==
  /\ pc[c] = "gone"
  /\ IF /\ lock = None /\ record.state = "PURGING" /\ Tree(record.id) = "Gone"
        /\ \A s \in orphans : ValidatePurgeStage(record, s)
     THEN AcquireSetupGuard(c) /\ Goto(c, "finalizing") /\ UNCHANGED <<role, seen, next, ret>>
     ELSE Return(c)
  /\ UNCHANGED <<filesystem, reg, faults>>

RemoveStage(c) ==
  /\ pc[c] = "finalizing"
  /\ \E s \in orphans : orphans' = orphans \ {s}
  /\ UNCHANGED <<record, source, tomb, arts, created, reg, locks, control, faults>>

\* Mutant of DeletePurging: the record goes before the tombstone.
DeleteEarly(c) ==
  /\ pc[c] \in {"finalizing", "tombstone"} /\ lock \in {c, None} /\ record.state = "PURGING"
  /\ record' = NoRecord
  /\ Observed(c)
  /\ UNCHANGED <<orphans, source, tomb, arts, created, reg, faults>>

DeletePurging(c) ==
  /\ pc[c] = "finalizing" /\ orphans = {}
  /\ record' = NoRecord
  /\ Observed(c)
  /\ UNCHANGED <<orphans, source, tomb, arts, created, reg, faults>>

-----------------------------------------------------------------------------
(* start (start_with) and the stable bridge (run_stable_bridge,            *)
(* connect_or_start).                                                      *)

\* A daemon of this installation answers and names it.
Healthy(r) == pc[Daemon] = "serving" /\ seen[Daemon].id = r.id

\* start reads the record without the lock.
StartBegin(c) ==
  /\ pc[c] = "spawned" /\ role[c] = "start"
  /\ IF AdmitsOrdinaryTraffic(record) /\ VerifyRuntimeRecord(record) /\ VerifyTaskPresent
     THEN /\ Goto(c, "probe") /\ seen' = [seen EXCEPT ![c] = record]
          /\ UNCHANGED <<locks, role, next, ret>>
     ELSE Return(c)
  /\ UNCHANGED <<filesystem, reg, faults>>

\* The bridge reads it under the lock, which it gives back at once.
BridgeBegin(c) ==
  /\ pc[c] = "spawned" /\ role[c] = "bridge" /\ lock = None
  /\ IF AdmitsOrdinaryTraffic(record) /\ VerifyActive(record)
     THEN /\ Goto(c, "probe") /\ seen' = [seen EXCEPT ![c] = record]
          /\ source' = source \union {record.id}
          /\ UNCHANGED <<locks, role, next, ret>>
     ELSE Return(c) /\ UNCHANGED source
  /\ UNCHANGED <<record, orphans, tomb, arts, created, reg, faults>>

\* An authenticated session: start is done, the bridge asks to be readmitted.
Connected(c) ==
  IF role[c] = "start"
  THEN Return(c)
  ELSE /\ startup' = Released(startup, c) /\ Goto(c, "readmit")
       /\ UNCHANGED <<lock, daemonLock, role, seen, next, ret>>

\* At the first attempt, after startup.lock, and while waiting.
TryAuthenticated(c) ==
  /\ \/ pc[c] \in {"probe", "wait"}
     \/ pc[c] = "request" /\ role[c] = "bridge"
  /\ Healthy(seen[c])
  /\ Connected(c)
  /\ UNCHANGED <<filesystem, reg, faults>>

\* start makes the run directory again; the bridge needs it to be there.
TryAcquireStartupLock(c) ==
  /\ pc[c] = "probe" /\ ~Healthy(seen[c])
  /\ LET id == seen[c].id IN
     \/ /\ role[c] = "bridge" => id \in source
        /\ TakeStartupLock(c, id)
        /\ Goto(c, "request")
        /\ UNCHANGED <<lock, daemonLock, role, seen, next, ret>>
     \/ /\ startup[id] # None
        /\ source' = IF role[c] = "start" THEN source \union {id} ELSE source
        /\ Goto(c, "wait")
        /\ UNCHANGED <<locks, role, seen, next, ret>>
     \/ /\ role[c] = "bridge" /\ id \notin source
        /\ Return(c)
        /\ UNCHANGED source
  /\ UNCHANGED <<record, orphans, tomb, arts, created, reg, faults>>

\* Under the lock: the same ACTIVE record and the exact task, then RunEx.
RequestStart(c) ==
  /\ pc[c] = "request"
  /\ \/ /\ lock = None /\ record = seen[c] /\ VerifyTaskPresent /\ CanRequestStart(reg)
        /\ pc' = [pc EXCEPT ![c] = "wait", ![Daemon] = IF @ = "off" THEN "launched" ELSE @]
        /\ UNCHANGED <<locks, role, seen, next, ret>>
     \/ /\ \/ lock = None /\ ~(record = seen[c] /\ VerifyTaskPresent)
           \/ lock # None /\ role[c] = "start"
        /\ Return(c)
  /\ UNCHANGED <<filesystem, reg, faults>>

\* The deadline of the whole start.
StartTimeout(c) ==
  /\ \/ pc[c] = "wait"
     \/ pc[c] \in {"spawned", "request", "readmit"} /\ role[c] = "bridge" /\ lock # None
  /\ Return(c)
  /\ UNCHANGED <<filesystem, reg, faults>>

\* Removal may have begun while the bridge was connecting.
Readmit(c) ==
  /\ pc[c] = "readmit" /\ lock = None
  /\ IF record = seen[c]
     THEN Goto(c, "relay") /\ UNCHANGED <<locks, role, seen, next, ret>>
     ELSE Return(c)
  /\ UNCHANGED <<filesystem, reg, faults>>

\* The relay ends with its client, or with the daemon.
RelayEnds(c) ==
  /\ pc[c] = "relay"
  /\ Return(c)
  /\ UNCHANGED <<filesystem, reg, faults>>

-----------------------------------------------------------------------------
(* The daemon (windows_runtime.rs run_daemon).                             *)

Exit == ReleaseAll(Daemon) /\ Goto(Daemon, "exited") /\ UNCHANGED <<role, seen, next, ret>>

\* Identity, key, task and then the singleton, all under install.lock.
DaemonAdmit ==
  /\ pc[Daemon] = "launched"
  /\ IF /\ lock = None /\ AdmitsOrdinaryTraffic(record)
        /\ VerifyActive(record)
        /\ daemonLock[record.id] = None
     THEN /\ lock' = Daemon /\ TakeDaemonLock(Daemon, record.id) /\ UNCHANGED startup
          /\ Goto(Daemon, "locked") /\ seen' = [seen EXCEPT ![Daemon] = record]
          /\ UNCHANGED <<role, next, ret>>
     ELSE Exit /\ UNCHANGED source
  /\ UNCHANGED <<record, orphans, tomb, arts, created, reg, faults>>

\* Recovery of the data happens outside the lock.
DaemonRecover ==
  /\ pc[Daemon] = "locked"
  /\ lock' = None /\ Goto(Daemon, "recovering")
  /\ UNCHANGED <<filesystem, reg, startup, daemonLock, role, seen, next, ret, faults>>

\* Mutant of DaemonBind: the daemon binds without checking the record again.
BindUnchecked ==
  /\ pc[Daemon] = "recovering"
  /\ lock' = lock /\ Goto(Daemon, "bound")
  /\ UNCHANGED <<filesystem, reg, startup, daemonLock, role, seen, next, ret, faults>>

\* Admission again, on the same record, right before the pipe is bound.
DaemonBind ==
  /\ pc[Daemon] = "recovering"
  /\ IF lock = None /\ record = seen[Daemon] /\ VerifyActive(record)
     THEN /\ lock' = Daemon /\ Goto(Daemon, "bound")
          /\ UNCHANGED <<startup, daemonLock, role, seen, next, ret>>
     ELSE Exit
  /\ UNCHANGED <<filesystem, reg, faults>>

DaemonServe ==
  /\ pc[Daemon] = "bound"
  /\ lock' = None /\ Goto(Daemon, "serving")
  /\ UNCHANGED <<filesystem, reg, startup, daemonLock, role, seen, next, ret, faults>>

\* Mutant of MonitorInstallState: only a missing record ends service.
MonitorAbsenceOnly ==
  /\ pc[Daemon] = "serving" /\ ~Present(record)
  /\ Goto(Daemon, "draining")
  /\ UNCHANGED <<filesystem, reg, locks, role, seen, next, ret, faults>>

\* monitor_install_state: any record but the admitted one asks for shutdown.
MonitorInstallState ==
  /\ pc[Daemon] = "serving" /\ record # seen[Daemon]
  /\ Goto(Daemon, "draining")
  /\ UNCHANGED <<filesystem, reg, locks, role, seen, next, ret, faults>>

DaemonDrained ==
  /\ pc[Daemon] = "draining"
  /\ Exit
  /\ UNCHANGED <<filesystem, reg, faults>>

DaemonOff == /\ pc' = [pc EXCEPT ![Daemon] = "off"]
             /\ seen' = [seen EXCEPT ![Daemon] = NoRecord]
             /\ ReleaseAll(Daemon)
             /\ UNCHANGED <<role, next, ret>>

\* The scheduler notices that the instance has ended.
InstanceEnds ==
  /\ pc[Daemon] = "exited"
  /\ DaemonOff
  /\ UNCHANGED <<filesystem, reg, faults>>

\* stop_exact was called: the scheduler ends the process.
InstanceStopped ==
  /\ pc[Daemon] # "off" /\ \E c \in Cmds : pc[c] = "stopped"
  /\ DaemonOff
  /\ UNCHANGED <<filesystem, reg, faults>>

DaemonCrash ==
  /\ pc[Daemon] # "off" /\ faults < MaxFaults
  /\ faults' = faults + 1
  /\ DaemonOff
  /\ UNCHANGED <<filesystem, reg>>

-----------------------------------------------------------------------------
CommandBegins(c) ==
  SetupBegin(c) \/ PurgeBegin(c) \/ SpawnStableControl(c) \/ SpawnStableBridge(c)

CommandStep(c) ==
  \/ Stage(c) \/ Publish(c)
  \/ SetupInitial(c) \/ EnsureExactKey(c) \/ EnsureExactRuntime(c) \/ EnsureExactData(c)
  \/ EnsureExactTask(c) \/ MakeArtifact(c) \/ SetupComplete(c) \/ SetupRetained(c) \/ SetupReturn(c)
  \/ RemoveBegin(c) \/ StartBegin(c) \/ BridgeBegin(c)
  \/ RemoveAdmit(c) \/ RemoveDisable(c) \/ Drain(c) \/ DrainTimeout(c)
  \/ RemoveDelete(c) \/ RemoveRetire(c) \/ RemoveReturn(c)
  \/ PurgeObserve(c) \/ PurgeAbsence(c) \/ PurgeConverge(c) \/ PublishPurging(c) \/ DropGuard(c)
  \/ DrainStarters(c) \/ ResumeDaemonLock(c) \/ StageInstallTreeForPurge(c)
  \/ AuditTombstone(c) \/ RemovePurgeDirectory(c) \/ FinalizeRecordLast(c)
  \/ RemoveStage(c) \/ DeletePurging(c)
  \/ TryAuthenticated(c) \/ TryAcquireStartupLock(c) \/ RequestStart(c) \/ StartTimeout(c)
  \/ Readmit(c)

DaemonStep ==
  \/ DaemonAdmit \/ DaemonRecover \/ DaemonBind \/ DaemonServe
  \/ MonitorInstallState \/ DaemonDrained \/ InstanceEnds \/ InstanceStopped

InstallNext ==
  \/ \E c \in Cmds : CommandBegins(c) \/ CommandStep(c) \/ RelayEnds(c) \/ Fail(c)
  \/ DaemonStep \/ DaemonCrash \/ DriftTask

\* Running threads keep running: a command that has begun goes on, and so
\* does the daemon with its monitor.  Nobody has to begin a command, and a
\* relay lasts as long as its client.
InstallFairness == WF_vars(DaemonStep) /\ \A c \in Cmds : WF_vars(CommandStep(c))

InstallSpec == InstallInit /\ [][InstallNext]_vars /\ InstallFairness

-----------------------------------------------------------------------------
\* The pipe of the installation is bound.
Serving == pc[Daemon] \in {"bound", "serving", "draining"}

Lifecycle == INSTANCE InstallLifecycle WITH life <- record.state, serving <- Serving

\* The commands, the daemon and every crash of theirs implement the lifecycle:
\* the record makes only legal moves, a daemon begins to serve only an ACTIVE
\* installation, and RETAINED, PURGING or absence is never reached while one
\* serves (install_record.rs:708, windows_control.rs:480, windows_runtime.rs:505).
ImplementsLifecycle == Lifecycle!LifecycleSpec

\* What a record claims is on disk, whoever was killed when: until purge has
\* published PURGING, every file in the evidence is in place.
EvidenceIsBacked ==
  record.state \in {"INSTALLING", "ACTIVE", "REMOVING", "RETAINED"} =>
    \A a \in record.ev \ {"task"} : InPlace(record.id, a)

\* The identity goes last: when the record is deleted, nothing that setup made for
\* the installation is left, wherever it lay, nor its tombstone, nor a staging file
\* (install_purge.rs:118).
IdentityDeletedLast ==
  [][Present(record) /\ ~Present(record') =>
       arts[record.id] = {} /\ record.id \notin tomb /\ orphans = {}]_vars

\* Refuted: nor is installs/<id>.  A second purge that saw the source resumes after
\* the first has deleted the tombstone: its startup.lock makes the run directory
\* again, without install.lock, and the first deletes the record.
SourceGoesBeforeIdentity ==
  [][Present(record) /\ ~Present(record') => record.id \notin source]_vars

\* A published removal drains the daemon, whichever command dies meanwhile:
\* the monitor compares the whole record (windows_runtime.rs:992).
RemovalDrains == record.state = "REMOVING" ~> ~Serving

\* The documentation of compare_and_delete_purging: "Valid same-lineage stages
\* are removed".  A staging file that one of the installation's own writers left
\* never blocks the deletion of its record.
OwnStagesArePurgeable ==
  record.state = "PURGING" =>
    \A s \in orphans : s.id = record.id => ValidatePurgeStage(record, s)

=============================================================================
