------------------------------- MODULE Daemon -------------------------------
(***************************************************************************)
(* The running daemon: the dispatcher thread (dispatcher.rs) drives one    *)
(* planned task after the other through the process supervisor             *)
(* (supervisor.rs), on the store of TaskStore, while clients submit,       *)
(* cancel and review, and the provider process writes and exits when it    *)
(* likes.                                                                  *)
(*                                                                         *)
(* Every call of the writer is a step of its own, so that client commands, *)
(* the provider and a crash come between any two of them.  The result of   *)
(* most calls is dropped by the code (let _ = ...): a refused call changes *)
(* nothing and the dispatcher goes on.                                     *)
(*                                                                         *)
(* Production opens no interactions yet, so none of their operations is    *)
(* called here.  Adapter output other than a terminal frame leaves the     *)
(* store's summary unchanged (RecordAdapterEvent) and has no step.         *)
(***************************************************************************)
EXTENDS TaskStore, Sequences

VARIABLES
    pc,             \* the dispatcher's next step
    plan,           \* planned tasks; the first one is being dispatched
    process,        \* the provider process of that task
    descendants,    \* processes it started outlive it and hold its stdout
    written,        \* the terminal frame the provider wrote to its stdout
    spooled,        \* the spool thread has copied it to the spool file
    deadline,       \* the idle or the hard deadline of the run has passed
    stdin_full,     \* the provider leaves unread what fills the pipe to its stdin
    verdict,        \* the terminal state to finalize
    command,        \* the command key of the cancel to request
    cancel_keys,    \* command rows ("cancel", key): the task each key is bound to
    runs            \* how often adapter code of the task was started

intentVars == <<verdict, command>>
driveVars == <<process, descendants, written, spooled, deadline, stdin_full, intentVars>>
ctlVars == <<pc, plan, driveVars>>
daemonVars == <<vars, ctlVars, cancel_keys, runs>>

CancelKey == {"handshake", "provider_error", "complete", "timeout"}

NoDrive ==
    /\ process' = "none" /\ descendants' = FALSE
    /\ written' = "none" /\ spooled' = FALSE /\ deadline' = FALSE /\ stdin_full' = FALSE
    /\ verdict' = "none" /\ command' = "none"

DaemonInit ==
    /\ Init
    /\ pc = "round" /\ plan = <<>>
    /\ process = "none" /\ descendants = FALSE
    /\ written = "none" /\ spooled = FALSE /\ deadline = FALSE /\ stdin_full = FALSE
    /\ verdict = "none" /\ command = "none"
    /\ cancel_keys = [k \in CancelKey |-> NoTask]
    /\ runs = [t \in Tasks |-> 0]

-----------------------------------------------------------------------------
(* The dispatcher's plan, and what its steps share. *)

cur == Head(plan)

At(label) == Idle /\ pc = label

\* What plan_dispatch promises of a plan: distinct ready tasks, and no more of
\* them than the limits leave room for.
Plans ==
    {p \in UNION {[1..n -> Tasks] : n \in 1..GlobalLimit} :
       /\ \A i, j \in DOMAIN p : p[i] = p[j] => i = j
       /\ \A i \in DOMAIN p : Ready(p[i])
       /\ Len(p) + Cardinality(Occupancy) <= GlobalLimit
       /\ \A a \in Adapters :
            Cardinality({i \in DOMAIN p : AdapterOf[p[i]] = a})
              + Cardinality(AdapterOccupancy(a)) <= AdapterLimit}

\* dispatch_one returns.  A SupervisedAttempt that is not finalized kills its
\* job when it is dropped; a finalized one has no process any more.
Return ==
    /\ plan' = Tail(plan)
    /\ pc' = IF Len(plan) = 1 THEN "round" ELSE "claim"
    /\ NoDrive

\* Faulty: the end is written without its fence, result and event.
WriteEnd(t, terminal) ==
    /\ state' = [state EXCEPT ![t] = terminal]
    /\ UNCHANGED <<generation, cancel_requested, retry_due, attemptVars, ixVars,
                   log, outbox, modeVars, handoff, emergency>>

\* succeed_task and fail_task, and every other finalize of the dispatcher.
TryFinalize(t, terminal) ==
    IF CanFinalize(t, terminal) THEN Finalize(t, terminal) ELSE UNCHANGED vars

\* dispatch_round: candidates, occupancy, plan_dispatch.
PlanRound ==
    /\ At("round")
    /\ plan' \in Plans
    /\ pc' = "claim"
    /\ UNCHANGED <<vars, driveVars, cancel_keys, runs>>

-----------------------------------------------------------------------------
(* dispatch_one, up to the running process. *)

\* The slot is reserved.
DispatchClaim ==
    /\ At("claim")
    /\ ClaimDispatchSlot(cur)
    /\ pc' = "spawn"
    /\ UNCHANGED <<plan, driveVars, cancel_keys, runs>>

\* The adapter's probe no longer enables it: the task fails.  Its record is
\* gone, the request is unreadable, the executable is missing or the claim is
\* refused: the task stays as it is and is planned again.
DispatchSkip ==
    /\ At("claim")
    /\ TryFinalize(cur, "FAILED") \/ UNCHANGED vars
    /\ Return
    /\ UNCHANGED <<cancel_keys, runs>>

\* Faulty: the process is not created suspended.
SpawnNotSuspended ==
    /\ At("spawn")
    /\ process' = "running"
    /\ runs' = [runs EXCEPT ![cur] = @ + 1]
    /\ pc' = "fence"
    /\ UNCHANGED <<vars, plan, descendants, written, spooled, deadline, stdin_full,
                   intentVars, cancel_keys>>

\* ProcessSupervisor::spawn: create suspended, assign the job, commit the
\* receipt.
Spawn ==
    /\ At("spawn")
    /\ RecordDispatchPhase(cur, "SPAWN_PREPARED", TRUE)
    /\ process' = "suspended"
    /\ pc' = "fence"
    /\ UNCHANGED <<plan, descendants, written, spooled, deadline, stdin_full, intentVars,
                   cancel_keys, runs>>

\* Faulty: the fence is not awaited.
FenceNotAwaited ==
    /\ At("fence")
    /\ pc' = "resume"
    /\ UNCHANGED <<vars, plan, driveVars, cancel_keys, runs>>

\* The post-dispatch fence commits before the process may run.
Fence ==
    /\ At("fence")
    /\ RecordDispatchPhase(cur, "PROCESS_STARTED", FALSE)
    /\ pc' = "resume"
    /\ UNCHANGED <<plan, driveVars, cancel_keys, runs>>

\* ResumeThread.  Grok and Kimi may speak ACP, which starts with a handshake: its
\* requests are written to the provider's stdin, which it may leave unread.
Resume ==
    /\ At("resume")
    /\ process' = "running"
    /\ runs' = [runs EXCEPT ![cur] = @ + 1]
    /\ \/ pc' = "handshake" /\ stdin_full' \in BOOLEAN
       \/ pc' = "poll" /\ UNCHANGED stdin_full
    /\ UNCHANGED <<vars, plan, descendants, written, spooled, deadline,
                   intentVars, cancel_keys>>

\* Any step of spawn fails or is refused: the process dies unseen.
SpawnFails ==
    /\ At("spawn") \/ At("fence") \/ At("resume")
    /\ TryFinalize(cur, "FAILED")
    /\ Return
    /\ UNCHANGED <<cancel_keys, runs>>

-----------------------------------------------------------------------------
(* drive_attempt. *)

\* write_all returns when the pipe has taken every byte, or with an error once
\* nobody can read it any more; no deadline interrupts it.
WriteBlocks == stdin_full /\ (process = "running" \/ descendants)

\* drive_acp: four requests at most.  The last, the prompt, has no answer to wait
\* for and may be what fills the pipe.
Handshake ==
    /\ At("handshake")
    /\ ~WriteBlocks
    /\ pc' = "poll"
    /\ stdin_full' \in BOOLEAN
    /\ UNCHANGED <<vars, plan, process, descendants, written, spooled, deadline,
                   intentVars, cancel_keys, runs>>

\* A call of live.cancel follows.
FailThenCancel(key) ==
    /\ TryFinalize(cur, "FAILED")
    /\ command' = key
    /\ pc' = "cancel"
    /\ UNCHANGED <<plan, process, descendants, written, spooled, deadline, stdin_full,
                   verdict, cancel_keys, runs>>

HandshakeFails ==
    /\ At("handshake")
    /\ ~WriteBlocks
    /\ FailThenCancel("handshake")

\* The terminal frame persist_new_frames finds in the spool.
Frame == IF spooled THEN written ELSE "none"

Poll ==
    /\ At("poll")
    /\ Frame = "none"
    /\ pc' = "wait"
    /\ UNCHANGED <<vars, plan, driveVars, cancel_keys, runs>>

PollFailed ==
    /\ At("poll")
    /\ Frame = "FAILED"
    /\ FailThenCancel("provider_error")

PollSucceeded ==
    /\ At("poll")
    /\ Frame = "SUCCEEDED"
    /\ TryFinalize(cur, "SUCCEEDED")
    /\ command' = "complete"
    /\ pc' = "cancel"
    /\ UNCHANGED <<plan, process, descendants, written, spooled, deadline, stdin_full,
                   verdict, cancel_keys, runs>>

\* Faulty: a run is polled for as long as its process lives.
WaitForever ==
    /\ At("wait")
    /\ process = "running"
    /\ pc' = "poll"
    /\ UNCHANGED <<vars, plan, driveVars, cancel_keys, runs>>

\* The process still runs after SPOOL_POLL.
Wait ==
    /\ At("wait")
    /\ process = "running"
    /\ IF deadline
         THEN FailThenCancel("timeout")
         ELSE /\ pc' = "poll"
              /\ UNCHANGED <<vars, plan, driveVars, cancel_keys, runs>>

Exited == process \in {"exit 0", "exit 1"}

\* The process exited, and its terminal frame has reached the spool since the
\* last poll.
ExitWithFrame ==
    /\ At("wait")
    /\ Exited /\ Frame # "none"
    /\ TryFinalize(cur, Frame)
    /\ Return
    /\ UNCHANGED <<cancel_keys, runs>>

\* The wait itself fails.
WaitFails ==
    /\ At("wait")
    /\ TryFinalize(cur, "FAILED")
    /\ Return
    /\ UNCHANGED <<cancel_keys, runs>>

\* finalize_exit up to its read of the task's state.  It first joins the spool
\* threads, which read until the last holder of the pipe has gone.  An exceeded
\* spool quota makes an exit 0 a failure.
FinalizeExit ==
    /\ At("wait")
    /\ Exited /\ Frame = "none"
    /\ ~descendants
    /\ verdict' \in (IF state[cur] = "CANCEL_REQUESTED" THEN {"CANCELLED"}
                     ELSE IF process = "exit 0" THEN {"SUCCEEDED", "FAILED"}
                     ELSE {"FAILED"})
    /\ pc' = "finalizing"
    /\ UNCHANGED <<vars, plan, process, descendants, written, spooled, deadline, stdin_full,
                   command, cancel_keys, runs>>

-----------------------------------------------------------------------------
(* SupervisedAttempt::cancel and the end of an attempt. *)

\* request_cancel of the dispatcher.  Its command key is the same for every
\* task: once it is bound to one, another task's request is a conflict.
CancelConflict == cancel_keys[command] \notin {NoTask, cur}

Cancel ==
    /\ At("cancel")
    /\ ~CancelConflict
    /\ \/ RequestCancel(cur)
       \/ state[cur] = "CANCEL_REQUESTED" /\ UNCHANGED vars
    /\ cancel_keys' = [cancel_keys EXCEPT ![command] = cur]
    /\ pc' = "stop"
    /\ UNCHANGED <<plan, driveVars, runs>>

\* The task has ended, or request_cancel is refused: the attempt is dropped.
CancelRefused ==
    /\ At("cancel")
    /\ CancelConflict \/ ~(Cancellable(cur) \/ state[cur] = "CANCEL_REQUESTED")
    /\ Return
    /\ UNCHANGED <<vars, cancel_keys, runs>>

\* Write the cancel line to the process and kill the job if it does not stop;
\* join the spool threads; then commit_cancelled.
Stop ==
    /\ At("stop")
    /\ ~WriteBlocks
    /\ process = "running" \/ ~descendants
    /\ process' = "none" /\ descendants' = FALSE
    /\ verdict' = "CANCELLED"
    /\ pc' = "finalizing"
    /\ UNCHANGED <<vars, plan, written, spooled, deadline, stdin_full, command, cancel_keys,
                   runs>>

\* transition_to_finalizing, whose StaleGeneration is not an error.
Finalizing ==
    LET from == {"PREPARING", "RUNNING"} \cup
                (IF verdict = "CANCELLED" THEN {"CANCEL_REQUESTED"} ELSE {})
    IN  /\ At("finalizing")
        /\ IF CanFinalizing(cur, from) THEN Transition(cur, from) ELSE UNCHANGED vars
        /\ pc' = "finalize"
        /\ UNCHANGED <<plan, driveVars, cancel_keys, runs>>

FinishAttempt ==
    /\ At("finalize")
    /\ TryFinalize(cur, verdict)
    /\ Return
    /\ UNCHANGED <<cancel_keys, runs>>

-----------------------------------------------------------------------------
(* The provider process, time, and everyone else. *)

ProviderWrites ==
    /\ process = "running" /\ written = "none"
    /\ written' \in {"SUCCEEDED", "FAILED"}
    /\ UNCHANGED <<vars, pc, plan, process, descendants, spooled, deadline, stdin_full,
                   intentVars, cancel_keys, runs>>

ProviderReads ==
    /\ process = "running" /\ stdin_full
    /\ stdin_full' = FALSE
    /\ UNCHANGED <<vars, pc, plan, process, descendants, written, spooled, deadline,
                   intentVars, cancel_keys, runs>>

\* A spool thread of AttemptSpools, also after the process has gone.
SpoolDrains ==
    /\ written # "none" /\ ~spooled
    /\ spooled' = TRUE
    /\ UNCHANGED <<vars, pc, plan, process, descendants, written, deadline, stdin_full,
                   intentVars, cancel_keys, runs>>

\* Also when the spool quota is exceeded, which kills the job.
ProviderExits ==
    /\ process = "running"
    /\ process' \in {"exit 0", "exit 1"}
    /\ descendants' \in BOOLEAN
    /\ UNCHANGED <<vars, pc, plan, written, spooled, deadline, stdin_full, intentVars,
                   cancel_keys, runs>>

DescendantsExit ==
    /\ descendants
    /\ descendants' = FALSE
    /\ UNCHANGED <<vars, pc, plan, process, written, spooled, deadline, stdin_full,
                   intentVars, cancel_keys, runs>>

DriveDeadlinePasses ==
    /\ pc \in {"poll", "wait"} /\ ~deadline
    /\ deadline' = TRUE
    /\ UNCHANGED <<vars, pc, plan, process, descendants, written, spooled, stdin_full,
                   intentVars, cancel_keys, runs>>

\* The daemon dies, and its job object takes the provider with it.
DaemonCrash ==
    /\ Crash
    /\ pc' = "round" /\ plan' = <<>>
    /\ NoDrive
    /\ UNCHANGED <<cancel_keys, runs>>

\* Commands of other clients, storage pressure, and the startup path.
Others ==
    /\ \/ Startup
       \/ LatchEmergency
       \/ \E t \in Tasks : \/ \E parent \in Tasks \cup {NoTask} : Submit(t, parent)
                           \/ RequestCancel(t)
                           \/ ReviewAndAck(t)
                           \/ FinishHandoff(t)
                           \/ HandoffFails(t)
    /\ UNCHANGED <<ctlVars, cancel_keys, runs>>

-----------------------------------------------------------------------------
Dispatch ==
    \/ DispatchClaim \/ DispatchSkip \/ Spawn \/ Fence \/ Resume \/ SpawnFails

Drive ==
    \/ Handshake \/ HandshakeFails
    \/ Poll \/ PollFailed \/ PollSucceeded
    \/ Wait \/ ExitWithFrame \/ WaitFails \/ FinalizeExit

End == Cancel \/ CancelRefused \/ Stop \/ Finalizing \/ FinishAttempt

Dispatcher == PlanRound \/ Dispatch \/ Drive \/ End

Provider ==
    \/ ProviderWrites \/ ProviderReads \/ SpoolDrains \/ ProviderExits
    \/ DescendantsExit \/ DriveDeadlinePasses

DaemonNext == Dispatcher \/ Provider \/ DaemonCrash \/ Others

\* The dispatcher thread is scheduled, and the hard deadline of a run comes.  The
\* provider owes nothing: it may never read, write or exit.
DaemonFairness ==
    /\ WF_daemonVars(Dispatch \/ Drive \/ End)
    /\ WF_daemonVars(DriveDeadlinePasses)

DaemonSpec == DaemonInit /\ [][DaemonNext]_daemonVars /\ DaemonFairness

-----------------------------------------------------------------------------
(* Properties. *)

Labels ==
    {"round", "claim", "spawn", "fence", "resume", "handshake", "poll", "wait",
     "cancel", "stop", "finalizing", "finalize"}

\* The dispatcher and the provider process are in one of their states.
DaemonTypeOK ==
    /\ pc \in Labels
    /\ plan \in Seq(Tasks)
    /\ pc = "round" <=> plan = <<>>
    /\ process \in {"none", "suspended", "running", "exit 0", "exit 1"}
    /\ descendants \in BOOLEAN
    /\ written \in {"none", "SUCCEEDED", "FAILED"}
    /\ spooled \in BOOLEAN
    /\ deadline \in BOOLEAN
    /\ stdin_full \in BOOLEAN
    /\ verdict \in {"none", "SUCCEEDED", "FAILED", "CANCELLED"}
    /\ command \in CancelKey \cup {"none"}
    /\ cancel_keys \in [CancelKey -> Tasks \cup {NoTask}]
    /\ runs \in [Tasks -> Nat]

\* Adapter code of a task is started at most once in the life of the store,
\* whatever crashes and however often the daemon restarts.
AtMostOnceExecution == \A t \in Tasks : runs[t] <= 1

\* While adapter code runs, the durable rows say so: the task is past the
\* fence, holds its slot, and has no recorded end.
LiveProcessIsRecorded ==
    process = "running" =>
      /\ dispatch_phase[cur] \in Started
      /\ state[cur] \in {"RUNNING", "CANCEL_REQUESTED"}

\* A cancel that commits before the fence keeps adapter code from ever running.
CancelBeforeFence ==
    [][\A t \in Tasks : cancel_requested[t] /\ dispatch_phase[t] \notin Started =>
         runs'[t] = runs[t] /\ dispatch_phase'[t] \notin Started]_daemonVars

\* No provider process outlives its deadline: it exits or is killed, also when
\* the cancel request of the dispatcher is refused, unless it leaves its full
\* stdin unread for ever.
ProcessIsReaped == process = "running" ~> (process # "running" \/ []stdin_full)

\* Every step of the daemon is a step of the store or leaves it alone.
StoreSpec == Spec

-----------------------------------------------------------------------------
(* The inductive invariant: what the dispatcher remembers of its attempt     *)
(* agrees with the durable rows.                                             *)

RunsAgree ==
    \A t \in Tasks :
        runs[t] = 0 \/ (runs[t] = 1 /\ dispatch_phase[t] \in Started)

DriveAgrees ==
    /\ pc # "round" => mode = "SERVING"
    /\ process = "running" => pc \in {"handshake", "poll", "wait", "cancel", "stop"}
    /\ pc = "resume" => runs[cur] = 0
    /\ pc = "resume" \/ process = "running" =>
         /\ dispatch_phase[cur] \in Started
         /\ state[cur] \in {"RUNNING", "CANCEL_REQUESTED"}

DaemonInvariant == StoreInvariant /\ DaemonTypeOK /\ RunsAgree /\ DriveAgrees

-----------------------------------------------------------------------------
(* What the repository says of the dispatcher and the code does not keep. *)

\* Every provider process exits or is killed.  One that never reads its stdin
\* holds the dispatcher in write_all, in the handshake or at the cancel line.
EveryProcessIsReaped == process = "running" ~> process # "running"

\* A run the provider reported as complete is not turned into a cancellation
\* that nobody asked for.
CompletionIsNotCancelled ==
    [][~(/\ pc = "cancel" /\ pc' = "stop"
         /\ command = "complete" /\ ~cancel_requested[cur])]_daemonVars

=============================================================================
