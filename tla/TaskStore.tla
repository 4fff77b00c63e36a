----------------------------- MODULE TaskStore -----------------------------
(***************************************************************************)
(* The durable task lifecycle of crates/mesh-daemon/src/storage.rs: task,  *)
(* attempt, interaction and result rows, the event log, and the startup    *)
(* path (projection replay, then reconciliation).                          *)
(*                                                                         *)
(* Every operation runs on the single writer thread inside one IMMEDIATE   *)
(* transaction, so each is one atomic action.  Two commands span several   *)
(* transactions: interaction expiry and recovery first commit FINALIZING   *)
(* and then finalize.  `handoff' holds the second half; until it commits   *)
(* no other command runs, but the process may die.                         *)
(*                                                                         *)
(* The clients are the most general ones: in any serving state any         *)
(* operation may be called with any argument.  A refused call changes      *)
(* nothing and is not a step; neither is a replay of a recorded operation  *)
(* id or command key, which returns the recorded answer.                   *)
(***************************************************************************)
EXTENDS Domain, Naturals, FiniteSets

CONSTANTS
    Tasks,          \* task ids
    Interactions,   \* interaction ids
    Adapters,       \* adapter instance ids
    NoTask,         \* "no parent" in a submission
    AdapterOf,      \* the adapter each task is assigned to
    GlobalLimit,    \* SchedulerLimits.global
    AdapterLimit,   \* SchedulerLimits.per_adapter
    MaxGeneration   \* bound of the model on a task's generation

ASSUME AdapterAssumption == AdapterOf \in [Tasks -> Adapters]
ASSUME NoTaskAssumption == NoTask \notin Tasks
ASSUME LimitAssumption == GlobalLimit \in Nat \ {0} /\ AdapterLimit \in Nat \ {0}
ASSUME GenerationAssumption == MaxGeneration \in Nat

VARIABLES
    state,              \* tasks.state, "ABSENT" before submission
    generation,         \* tasks.generation
    cancel_requested,   \* tasks.cancel_requested_at IS NOT NULL
    retry_due,          \* tasks.retry_at IS NULL or has elapsed
    attempt_state,      \* attempts.state of the row at tasks.generation
    dispatch_phase,     \* attempts.dispatch_phase of that row
    process_receipt,    \* attempts.process_receipt IS NOT NULL
    resume_proof,       \* session, capability and proof digest are stored
    interaction,        \* pending_interactions and interaction_responses
    last_answer,        \* latest answered response kind at this generation
    log,                \* what a replay of the task's events yields
    outbox,             \* results and result_outbox rows
    mode,               \* DOWN, RECOVERING (startup) or SERVING
    todo,               \* tasks reconcile_nonterminal has still to visit
    handoff,            \* the terminal state the current command still owes
    emergency           \* new work is fenced: storage emergency, or a full WAL

taskVars == <<state, generation, cancel_requested, retry_due>>
attemptVars == <<attempt_state, dispatch_phase, process_receipt, resume_proof>>
ixVars == <<interaction, last_answer>>
modeVars == <<mode, todo>>
vars == <<taskVars, attemptVars, ixVars, log, outbox, modeVars, handoff, emergency>>

InteractionRow ==
    [state : {"NONE", "PENDING", "ANSWERED", "EXPIRED", "CANCELLED"},
     task : Tasks \cup {NoTask},
     generation : Nat,
     response : ResponseKind \cup {"none"},
     due : BOOLEAN]

LogSummary ==
    [state : TaskState \cup {"ABSENT"}, generation : Nat, terminals : Nat,
     closed : BOOLEAN]

NoHandoff == [t \in Tasks |-> "none"]

Init ==
    /\ state = [t \in Tasks |-> "ABSENT"]
    /\ generation = [t \in Tasks |-> 0]
    /\ cancel_requested = [t \in Tasks |-> FALSE]
    /\ retry_due = [t \in Tasks |-> TRUE]
    /\ attempt_state = [t \in Tasks |-> "NONE"]
    /\ dispatch_phase = [t \in Tasks |-> "NONE"]
    /\ process_receipt = [t \in Tasks |-> FALSE]
    /\ resume_proof = [t \in Tasks |-> FALSE]
    /\ interaction = [i \in Interactions |->
         [state |-> "NONE", task |-> NoTask, generation |-> 0,
          response |-> "none", due |-> FALSE]]
    /\ last_answer = [t \in Tasks |-> "none"]
    /\ log = [t \in Tasks |->
         [state |-> "ABSENT", generation |-> 0, terminals |-> 0, closed |-> FALSE]]
    /\ outbox = [t \in Tasks |-> "NONE"]
    /\ mode = "DOWN"
    /\ todo = {}
    /\ handoff = NoHandoff
    /\ emergency = FALSE

-----------------------------------------------------------------------------
(* Helpers shared by the operations. *)

\* The writer actor is between commands of its clients.
Idle == mode = "SERVING" /\ handoff = NoHandoff

HasAttempt(t) == dispatch_phase[t] # "NONE"

\* derive_projection: the state a replay holds after one more event.  The
\* match is by exact event kind, and a kind it does not list keeps the state.
DeriveProjection(kind, payload, prior) ==
    CASE kind \in {"state_changed", "terminal"} -> payload
      [] kind = "attempt_started" -> "PREPARING"
      [] kind = "interaction_requested" -> "WAITING_APPROVAL"
      [] kind \in {"interaction_decided", "dispatch_phase"} -> "RUNNING"
      [] kind = "RETRY_SCHEDULED" -> "RETRY_WAIT"
      [] OTHER -> prior

\* append_event, with the log kept as the fold replay_projections computes.
\* `closed' says that the last event is the terminal one.
AppendEvent(t, g, kind, payload) ==
    log' = [log EXCEPT ![t] =
      [state |-> DeriveProjection(kind, payload, log[t].state),
       generation |-> g,
       terminals |-> log[t].terminals + (IF kind = "terminal" THEN 1 ELSE 0),
       closed |-> kind = "terminal"]]

\* Faulty: a claimed task counts only once its process runs.
OccupiesWhenStarted(t) == HasAttempt(t) /\ dispatch_phase[t] \in Started

\* OCCUPANCY_SQL: the tasks that hold a dispatch slot.
Occupies(t) ==
    /\ HasAttempt(t)
    /\ \/ state[t] \in {"PREPARING", "RUNNING", "FINALIZING", "CANCEL_REQUESTED"}
       \/ state[t] = "WAITING_APPROVAL" /\ dispatch_phase[t] \in Started

Occupancy == {t \in Tasks : Occupies(t)}
AdapterOccupancy(a) == {t \in Occupancy : AdapterOf[t] = a}

PendingOf(t) ==
    {i \in Interactions : /\ interaction[i].state = "PENDING"
                          /\ interaction[i].task = t
                          /\ interaction[i].generation = generation[t]}

-----------------------------------------------------------------------------
(* Submission and dispatch admission. *)

\* submit_inner, the path that inserts a new task.  A retry names a parent,
\* which must have ended.
Submit(t, parent) ==
    /\ Idle /\ ~emergency
    /\ state[t] = "ABSENT"
    /\ parent # NoTask => state[parent] \in Terminal
    /\ state' = [state EXCEPT ![t] = "QUEUED"]
    /\ AppendEvent(t, 0, "state_changed", "QUEUED")
    /\ UNCHANGED <<generation, cancel_requested, retry_due, attemptVars, ixVars,
                   outbox, modeVars, handoff, emergency>>

Ready(t) ==
    \/ state[t] = "QUEUED"
    \/ state[t] = "RETRY_WAIT" /\ retry_due[t]

SlotFree(t) ==
    /\ Cardinality(Occupancy) < GlobalLimit
    /\ Cardinality(AdapterOccupancy(AdapterOf[t])) < AdapterLimit

CanClaim(t) == ~emergency /\ Ready(t) /\ SlotFree(t)

\* claim_dispatch_slot, the path that answers Dispatched.
ClaimDispatchSlot(t) ==
    /\ Idle /\ CanClaim(t)
    /\ state' = [state EXCEPT ![t] = "PREPARING"]
    /\ attempt_state' = [attempt_state EXCEPT ![t] = "PREPARING"]
    /\ dispatch_phase' = [dispatch_phase EXCEPT ![t] = "PRE_DISPATCH"]
    /\ process_receipt' = [process_receipt EXCEPT ![t] = FALSE]
    /\ resume_proof' = [resume_proof EXCEPT ![t] = FALSE]
    /\ AppendEvent(t, generation[t], "attempt_started", "none")
    /\ UNCHANGED <<generation, cancel_requested, retry_due, ixVars, outbox,
                   modeVars, handoff, emergency>>

\* The approval reclaim_preflight_dispatch_slot looks for.
Approved(t) ==
    \E i \in Interactions : /\ interaction[i].state = "ANSWERED"
                            /\ interaction[i].task = t
                            /\ interaction[i].generation = generation[t]
                            /\ interaction[i].response = "approve"

\* Whether other work filled the limits while t waited.  A RUNNING task
\* already counts itself.
ReclaimBlocked(t) ==
    LET self == IF state[t] = "RUNNING" THEN 1 ELSE 0
    IN  \/ Cardinality(Occupancy) >= GlobalLimit + self
        \/ Cardinality(AdapterOccupancy(AdapterOf[t])) >= AdapterLimit + self

\* reclaim_preflight_dispatch_slot.  Blocked from WAITING_APPROVAL and granted
\* from RUNNING leave the rows as they are.
ReclaimPreflightDispatchSlot(t) ==
    /\ Idle /\ ~emergency
    /\ state[t] \in {"RUNNING", "WAITING_APPROVAL"}
    /\ dispatch_phase[t] \in EffectProvenAbsent
    /\ Approved(t)
    /\ LET next == IF ReclaimBlocked(t) THEN "WAITING_APPROVAL" ELSE "RUNNING"
       IN  /\ state[t] # next
           /\ state' = [state EXCEPT ![t] = next]
           /\ attempt_state' = [attempt_state EXCEPT ![t] =
                IF @ \in {"RUNNING", "WAITING_APPROVAL"} THEN next ELSE @]
           /\ AppendEvent(t, generation[t], "state_changed", next)
    /\ UNCHANGED <<generation, cancel_requested, retry_due, dispatch_phase,
                   process_receipt, resume_proof, ixVars, outbox, modeVars,
                   handoff, emergency>>

-----------------------------------------------------------------------------
(* Evidence of the attempt's effect. *)

\* Faulty: late evidence may replace earlier evidence.
PhaseAcceptedInAnyOrder(t, p) ==
    HasAttempt(t) /\ state[t] \in {"PREPARING", "RUNNING"}

PhaseAccepted(t, p) ==
    /\ HasAttempt(t)
    /\ state[t] \in {"PREPARING", "RUNNING"}
    /\ CanAdvanceTo(dispatch_phase[t], p)
    /\ attempt_state[t] \notin Terminal

\* record_dispatch_phase.
RecordDispatchPhase(t, p, receipt) ==
    /\ Idle /\ PhaseAccepted(t, p)
    /\ dispatch_phase' = [dispatch_phase EXCEPT ![t] = p]
    /\ process_receipt' = [process_receipt EXCEPT ![t] = @ \/ receipt]
    /\ IF p \in Started
         THEN /\ attempt_state' = [attempt_state EXCEPT ![t] = "RUNNING"]
              /\ state' = [state EXCEPT ![t] = "RUNNING"]
         ELSE UNCHANGED <<attempt_state, state>>
    /\ AppendEvent(t, generation[t], "dispatch_phase", "none")
    /\ UNCHANGED <<generation, cancel_requested, retry_due, resume_proof, ixVars,
                   outbox, modeVars, handoff, emergency>>

AdapterEventAccepted(t) ==
    state[t] \in {"PREPARING", "RUNNING", "WAITING_APPROVAL", "CANCEL_REQUESTED",
                  "FINALIZING"}

\* record_adapter_event: its five kinds carry output, never a state.
RecordAdapterEvent(t) ==
    /\ Idle /\ AdapterEventAccepted(t)
    /\ AppendEvent(t, generation[t], "text_delta", "none")
    /\ UNCHANGED <<taskVars, attemptVars, ixVars, outbox, modeVars, handoff,
                   emergency>>

\* record_resumable_session.  It writes no event and looks at the attempt
\* row only.
RecordResumableSession(t) ==
    /\ Idle
    /\ process_receipt[t]
    /\ dispatch_phase[t] = "PROVIDER_OBSERVED"
    /\ attempt_state[t] = "RUNNING"
    /\ resume_proof' = [resume_proof EXCEPT ![t] = TRUE]
    /\ UNCHANGED <<taskVars, attempt_state, dispatch_phase, process_receipt,
                   ixVars, log, outbox, modeVars, handoff, emergency>>

CanRetry(t) ==
    /\ HasAttempt(t)
    /\ state[t] \in {"PREPARING", "RETRY_WAIT"}
    /\ dispatch_phase[t] \in EffectProvenAbsent

\* The rows schedule_safe_retry writes; the attempt of the new generation does
\* not exist yet.
SafeRetryRows(t, due) ==
    /\ generation[t] < MaxGeneration
    /\ generation' = [generation EXCEPT ![t] = @ + 1]
    /\ state' = [state EXCEPT ![t] = "RETRY_WAIT"]
    /\ retry_due' = [retry_due EXCEPT ![t] = due]
    /\ attempt_state' = [attempt_state EXCEPT ![t] = "NONE"]
    /\ dispatch_phase' = [dispatch_phase EXCEPT ![t] = "NONE"]
    /\ process_receipt' = [process_receipt EXCEPT ![t] = FALSE]
    /\ resume_proof' = [resume_proof EXCEPT ![t] = FALSE]
    /\ last_answer' = [last_answer EXCEPT ![t] = "none"]
    /\ AppendEvent(t, generation[t] + 1, "retry_scheduled", "none")
    /\ UNCHANGED <<cancel_requested, interaction, outbox>>

\* schedule_safe_retry.
ScheduleSafeRetry(t, due) ==
    /\ Idle /\ ~emergency
    /\ CanRetry(t)
    /\ SafeRetryRows(t, due)
    /\ UNCHANGED <<modeVars, handoff, emergency>>

-----------------------------------------------------------------------------
(* One-shot interactions. *)

\* open_interaction.
OpenInteraction(t, i) ==
    /\ Idle
    /\ interaction[i].state = "NONE"
    /\ HasAttempt(t)
    /\ state[t] \in {"PREPARING", "RUNNING"}
    /\ interaction' = [interaction EXCEPT ![i] =
         [state |-> "PENDING", task |-> t, generation |-> generation[t],
          response |-> "none", due |-> FALSE]]
    /\ state' = [state EXCEPT ![t] = "WAITING_APPROVAL"]
    /\ attempt_state' = [attempt_state EXCEPT ![t] = "WAITING_APPROVAL"]
    /\ AppendEvent(t, generation[t], "interaction_requested", "none")
    /\ UNCHANGED <<generation, cancel_requested, retry_due, dispatch_phase,
                   process_receipt, resume_proof, last_answer, outbox, modeVars,
                   handoff, emergency>>

\* Faulty: a decided question still takes an answer.
AnswerableAgain(i) == interaction[i].state # "NONE" /\ ~interaction[i].due

Answerable(i) == interaction[i].state = "PENDING" /\ ~interaction[i].due

\* respond_interaction with the stored nonce and digests.  The task's state is
\* not part of the fence, and no slot is checked.
RespondInteraction(i, kind) ==
    LET t == interaction[i].task
        current == interaction[i].generation = generation[t]
    IN  /\ Idle /\ Answerable(i)
        /\ interaction' = [interaction EXCEPT ![i].state = "ANSWERED",
                                              ![i].response = kind]
        /\ last_answer' = [last_answer EXCEPT ![t] = IF current THEN kind ELSE @]
        /\ state' = [state EXCEPT ![t] =
             IF current /\ @ = "WAITING_APPROVAL" THEN "RUNNING" ELSE @]
        /\ attempt_state' = [attempt_state EXCEPT ![t] =
             IF current /\ @ = "WAITING_APPROVAL" THEN "RUNNING" ELSE @]
        /\ AppendEvent(t, interaction[i].generation, "interaction_decided", "none")
        /\ UNCHANGED <<generation, cancel_requested, retry_due, dispatch_phase,
                       process_receipt, resume_proof, outbox, modeVars, handoff,
                       emergency>>

Expirable(i) ==
    LET t == interaction[i].task
    IN  /\ interaction[i].state = "PENDING" /\ interaction[i].due
        /\ generation[t] = interaction[i].generation
        /\ state[t] = "WAITING_APPROVAL"

\* The first transaction of expire_interaction and, for an attempt whose
\* effect is proven absent, of expire_preflight_interaction.  It commits
\* FINALIZING in the rows but writes no state event.
ExpireInteraction(i, target) ==
    LET t == interaction[i].task
    IN  /\ Idle /\ Expirable(i)
        /\ target = "CANCELLED" => dispatch_phase[t] \in EffectProvenAbsent
        /\ interaction' = [interaction EXCEPT ![i].state = "EXPIRED"]
        /\ state' = [state EXCEPT ![t] = "FINALIZING"]
        /\ attempt_state' = [attempt_state EXCEPT ![t] = "FINALIZING"]
        /\ AppendEvent(t, generation[t], "interaction_decided", "none")
        /\ handoff' = [handoff EXCEPT ![t] = target]
        /\ UNCHANGED <<generation, cancel_requested, retry_due, dispatch_phase,
                       process_receipt, resume_proof, last_answer, outbox,
                       modeVars, emergency>>

-----------------------------------------------------------------------------
(* Cancellation and the end of a task. *)

Cancellable(t) == Allows(state[t], "CANCEL_REQUESTED")

\* request_cancel, for a task that has neither ended nor been cancelled.  The
\* decided events of its interactions precede the state event.
RequestCancel(t) ==
    /\ Idle /\ Cancellable(t)
    /\ state' = [state EXCEPT ![t] = "CANCEL_REQUESTED"]
    /\ cancel_requested' = [cancel_requested EXCEPT ![t] = TRUE]
    /\ attempt_state' = [attempt_state EXCEPT ![t] =
         IF @ \in Terminal \cup {"NONE"} THEN @ ELSE "CANCEL_REQUESTED"]
    /\ interaction' = [i \in Interactions |->
         IF i \in PendingOf(t)
           THEN [interaction[i] EXCEPT !.state = "CANCELLED"]
           ELSE interaction[i]]
    /\ AppendEvent(t, generation[t], "state_changed", "CANCEL_REQUESTED")
    /\ UNCHANGED <<generation, retry_due, dispatch_phase, process_receipt,
                   resume_proof, last_answer, outbox, modeVars, handoff,
                   emergency>>

CanFinalizing(t, from) == state[t] \in from /\ Allows(state[t], "FINALIZING")

\* transition; every caller passes FINALIZING.  The attempt row keeps its state.
ToFinalizing(t, from) ==
    /\ CanFinalizing(t, from)
    /\ state' = [state EXCEPT ![t] = "FINALIZING"]
    /\ AppendEvent(t, generation[t], "state_changed", "FINALIZING")
    /\ UNCHANGED <<generation, cancel_requested, retry_due, attemptVars, ixVars,
                   outbox>>

\* The state lists the callers pass: finalize_exit, commit_cancelled and
\* cancel_before_dispatch.
FromStates ==
    {{"PREPARING", "RUNNING"}, {"PREPARING", "RUNNING", "CANCEL_REQUESTED"},
     {"RUNNING", "WAITING_APPROVAL"}}

Transition(t, from) ==
    /\ Idle /\ ToFinalizing(t, from)
    /\ UNCHANGED <<modeVars, handoff, emergency>>

\* Faulty: the result of a finished process overrides the cancel request.
CanFinalizeDespiteCancel(t, terminal) == Allows(state[t], terminal)

\* Faulty: a task may be finalized twice.
CanFinalizeAgain(t, terminal) ==
    /\ state[t] \in {"FINALIZING"} \cup Terminal
    /\ cancel_requested[t] => terminal = "CANCELLED"

CanFinalize(t, terminal) ==
    /\ Allows(state[t], terminal)
    /\ cancel_requested[t] => terminal = "CANCELLED"

\* The rows finalize writes: result, outbox entry, terminal event, task,
\* attempt and open interactions, all or none.
FinalizeRows(t, terminal) ==
    /\ CanFinalize(t, terminal)
    /\ state' = [state EXCEPT ![t] = terminal]
    /\ attempt_state' = [attempt_state EXCEPT ![t] =
         IF @ = "NONE" THEN @ ELSE terminal]
    /\ interaction' = [i \in Interactions |->
         IF i \in PendingOf(t)
           THEN [interaction[i] EXCEPT !.state =
                   IF interaction[i].due THEN "EXPIRED" ELSE "CANCELLED"]
           ELSE interaction[i]]
    /\ outbox' = [outbox EXCEPT ![t] = "UNACKED"]
    /\ AppendEvent(t, generation[t], "terminal", terminal)
    /\ UNCHANGED <<generation, cancel_requested, retry_due, dispatch_phase,
                   process_receipt, resume_proof, last_answer>>

\* finalize, also as the second half of a replayed expiry whose first half had
\* been interrupted.
Finalize(t, terminal) ==
    /\ Idle /\ FinalizeRows(t, terminal)
    /\ UNCHANGED <<modeVars, handoff, emergency>>

\* The second transaction of an expiry or of a recovered task.
FinishHandoff(t) ==
    /\ handoff[t] # "none"
    /\ FinalizeRows(t, handoff[t])
    /\ handoff' = [handoff EXCEPT ![t] = "none"]
    /\ todo' = todo \ {t}
    /\ UNCHANGED <<mode, emergency>>

\* The second transaction fails for want of space: the writer latches the
\* emergency, and an error of reconcile_nonterminal ends the startup.
HandoffFails(t) ==
    /\ handoff[t] # "none"
    /\ emergency' = TRUE
    /\ handoff' = [handoff EXCEPT ![t] = "none"]
    /\ mode' = IF mode = "RECOVERING" THEN "DOWN" ELSE mode
    /\ todo' = {}
    /\ UNCHANGED <<taskVars, attemptVars, ixVars, log, outbox>>

\* review_and_ack with the exact result id, version and token.
ReviewAndAck(t) ==
    /\ Idle
    /\ outbox[t] = "UNACKED"
    /\ outbox' = [outbox EXCEPT ![t] = "ACKED"]
    /\ UNCHANGED <<taskVars, attemptVars, ixVars, log, modeVars, handoff,
                   emergency>>

-----------------------------------------------------------------------------
(* Crash, startup and reconciliation. *)

\* The process dies between two transactions, or the writer shuts down.
Crash ==
    /\ mode # "DOWN"
    /\ mode' = "DOWN"
    /\ todo' = {}
    /\ handoff' = NoHandoff
    /\ UNCHANGED <<taskVars, attemptVars, ixVars, log, outbox, emergency>>

\* Tasks whose log replay_projections reads.
Replayed(t) == state[t] # "ABSENT" /\ (state[t] \in Terminal => outbox[t] = "UNACKED")

\* integrity_check: an ended task has its result, outbox entry and event.
TerminalTuple(t) ==
    state[t] \in Terminal => outbox[t] # "NONE" /\ log[t].terminals = 1

\* verify_interaction_evidence: exactly the answered questions have an answer.
AnswerRecorded(i) ==
    interaction[i].state = "ANSWERED" <=> interaction[i].response # "none"

\* integrity_check and replay_projections refuse to open the store.
Quarantined(t) ==
    \/ ~TerminalTuple(t)
    \/ /\ Replayed(t)
       /\ \/ log[t].generation # generation[t]
          \/ /\ log[t].state # state[t]
             /\ {log[t].state, state[t]} \cap Terminal # {}

\* reconcile_nonterminal visits these.
Unsettled(s) == s \notin {"ABSENT", "QUEUED", "RETRY_WAIT"} \cup Terminal

\* open_with_filesystem up to the rows reconcile_nonterminal selects.  A
\* projection that differs from its log is overwritten by the log.
Open ==
    /\ mode = "DOWN"
    /\ \A t \in Tasks : ~Quarantined(t)
    /\ \A i \in Interactions : AnswerRecorded(i)
    /\ state' = [t \in Tasks |-> IF Replayed(t) THEN log[t].state ELSE state[t]]
    /\ mode' = "RECOVERING"
    /\ todo' = {t \in Tasks : Unsettled(state'[t])}
    /\ emergency' = FALSE
    /\ UNCHANGED <<generation, cancel_requested, retry_due, attemptVars, ixVars,
                   log, outbox, handoff>>

FinalizingDecision(t) ==
    IF cancel_requested[t] THEN "FinalizeCancellation" ELSE "NeedsAttention"

\* The decision reconcile_nonterminal takes.  CURRENT_DIRECTORY attempts need
\* no case of their own: once started they end in the last one as well.
RecoveryDecision(t) ==
    IF state[t] = "CANCEL_REQUESTED" THEN "FinalizeCancellation"
    ELSE IF state[t] = "FINALIZING" THEN FinalizingDecision(t)
    ELSE IF resume_proof[t] THEN "ResumeSession"
    ELSE IF dispatch_phase[t] \in EffectProvenAbsent
      THEN IF last_answer[t] = "deny" THEN "FinalizeCancellation"
           ELSE IF \/ state[t] = "WAITING_APPROVAL"
                   \/ state[t] = "RUNNING" /\ last_answer[t] # "none"
             THEN "Skip"
           ELSE "RetrySafe"
    ELSE "NeedsAttention"

Reconciling(t) == mode = "RECOVERING" /\ handoff = NoHandoff /\ t \in todo

RecoverSkip(t) ==
    /\ Reconciling(t)
    /\ RecoveryDecision(t) \in {"Skip", "ResumeSession"}
    /\ todo' = todo \ {t}
    /\ UNCHANGED <<taskVars, attemptVars, ixVars, log, outbox, mode, handoff,
                   emergency>>

RecoverRetry(t) ==
    /\ Reconciling(t)
    /\ RecoveryDecision(t) = "RetrySafe"
    /\ ~emergency /\ CanRetry(t)
    /\ SafeRetryRows(t, TRUE)
    /\ todo' = todo \ {t}
    /\ UNCHANGED <<mode, handoff, emergency>>

\* schedule_safe_retry refuses; the error leaves reconcile_nonterminal and ends
\* the daemon's startup.
RecoverAbort(t) ==
    /\ Reconciling(t)
    /\ RecoveryDecision(t) = "RetrySafe"
    /\ emergency \/ ~CanRetry(t)
    /\ mode' = "DOWN"
    /\ todo' = {}
    /\ UNCHANGED <<taskVars, attemptVars, ixVars, log, outbox, handoff, emergency>>

RecoverFinalize(t) ==
    LET target == IF RecoveryDecision(t) = "NeedsAttention"
                    THEN "NEEDS_ATTENTION" ELSE "CANCELLED"
    IN  /\ Reconciling(t)
        /\ RecoveryDecision(t) \in {"FinalizeCancellation", "NeedsAttention"}
        /\ \/ state[t] = "FINALIZING" /\ UNCHANGED <<taskVars, attemptVars, ixVars, log, outbox>>
           \/ state[t] # "FINALIZING" /\ ToFinalizing(t, {state[t]})
        /\ handoff' = [handoff EXCEPT ![t] = target]
        /\ UNCHANGED <<modeVars, emergency>>

\* reconcile_nonterminal returned; the listener and the dispatcher start.
Serve ==
    /\ mode = "RECOVERING" /\ todo = {} /\ handoff = NoHandoff
    /\ mode' = "SERVING"
    /\ UNCHANGED <<taskVars, attemptVars, ixVars, log, outbox, todo, handoff,
                   emergency>>

-----------------------------------------------------------------------------
(* The passing of time and storage pressure. *)

DeadlinePasses(i) ==
    /\ interaction[i].state = "PENDING" /\ ~interaction[i].due
    /\ interaction' = [interaction EXCEPT ![i].due = TRUE]
    /\ UNCHANGED <<taskVars, attemptVars, last_answer, log, outbox, modeVars,
                   handoff, emergency>>

RetryTimerElapses(t) ==
    /\ ~retry_due[t]
    /\ retry_due' = [retry_due EXCEPT ![t] = TRUE]
    /\ UNCHANGED <<state, generation, cancel_requested, attemptVars, ixVars, log,
                   outbox, modeVars, handoff, emergency>>

\* latch_emergency after a storage-pressure error, and recover_emergency.
LatchEmergency ==
    /\ mode # "DOWN" /\ ~emergency
    /\ emergency' = TRUE
    /\ UNCHANGED <<taskVars, attemptVars, ixVars, log, outbox, modeVars, handoff>>

RecoverEmergency ==
    /\ Idle /\ emergency
    /\ emergency' = FALSE
    /\ UNCHANGED <<taskVars, attemptVars, ixVars, log, outbox, modeVars, handoff>>

-----------------------------------------------------------------------------
Startup ==
    \/ Open
    \/ Serve
    \/ \E t \in Tasks : \/ RecoverSkip(t)
                        \/ RecoverRetry(t)
                        \/ RecoverAbort(t)
                        \/ RecoverFinalize(t)

ClientCall ==
    \/ \E t \in Tasks, parent \in Tasks \cup {NoTask} : Submit(t, parent)
    \/ \E t \in Tasks : \/ ClaimDispatchSlot(t)
                        \/ ReclaimPreflightDispatchSlot(t)
                        \/ RecordAdapterEvent(t)
                        \/ RecordResumableSession(t)
                        \/ RequestCancel(t)
                        \/ ReviewAndAck(t)
    \/ \E t \in Tasks, p \in DispatchPhase, receipt \in BOOLEAN :
         RecordDispatchPhase(t, p, receipt)
    \/ \E t \in Tasks, due \in BOOLEAN : ScheduleSafeRetry(t, due)
    \/ \E t \in Tasks, i \in Interactions : OpenInteraction(t, i)
    \/ \E i \in Interactions, kind \in ResponseKind : RespondInteraction(i, kind)
    \/ \E i \in Interactions, target \in {"NEEDS_ATTENTION", "CANCELLED"} :
         ExpireInteraction(i, target)
    \/ \E t \in Tasks, from \in FromStates : Transition(t, from)
    \/ \E t \in Tasks, terminal \in Terminal : Finalize(t, terminal)

Environment ==
    \/ Crash
    \/ LatchEmergency
    \/ RecoverEmergency
    \/ \E i \in Interactions : DeadlinePasses(i)
    \/ \E t \in Tasks : RetryTimerElapses(t)

Next ==
    \/ Startup
    \/ ClientCall
    \/ Environment
    \/ \E t \in Tasks : FinishHandoff(t) \/ HandoffFails(t)

Spec == Init /\ [][Next]_vars

-----------------------------------------------------------------------------
(* Properties. *)

RowsTypeOK ==
    /\ state \in [Tasks -> TaskState \cup {"ABSENT"}]
    /\ generation \in [Tasks -> Nat]
    /\ cancel_requested \in [Tasks -> BOOLEAN]
    /\ retry_due \in [Tasks -> BOOLEAN]
    /\ attempt_state \in [Tasks -> AttemptState \cup {"NONE"}]
    /\ dispatch_phase \in [Tasks -> DispatchPhase \cup {"NONE"}]
    /\ process_receipt \in [Tasks -> BOOLEAN]
    /\ resume_proof \in [Tasks -> BOOLEAN]
    /\ interaction \in [Interactions -> InteractionRow]
    /\ last_answer \in [Tasks -> ResponseKind \cup {"none"}]
    /\ log \in [Tasks -> LogSummary]
    /\ outbox \in [Tasks -> {"NONE", "UNACKED", "ACKED"}]

\* Every row holds a value its column can hold, and the daemon is in one of
\* its modes.
TypeOK ==
    /\ RowsTypeOK
    /\ mode \in {"DOWN", "RECOVERING", "SERVING"}
    /\ todo \in SUBSET Tasks
    /\ handoff \in [Tasks -> Terminal \cup {"none"}]
    /\ emergency \in BOOLEAN

\* Whatever the writer commits, and wherever it dies, the next start accepts
\* the store: the terminal tuples are complete, every log ends at the task's
\* generation, no ended task disagrees with its log, and every answer is there.
NeverQuarantined ==
    /\ \A t \in Tasks : ~Quarantined(t)
    /\ \A i \in Interactions : AnswerRecorded(i)

\* A committed cancel request survives every later operation, crash and
\* projection repair: the task can only finish, and only as CANCELLED.
CancelIsDurable ==
    \A t \in Tasks :
      cancel_requested[t] => state[t] \in {"CANCEL_REQUESTED", "FINALIZING", "CANCELLED"}

\* A command that committed FINALIZING in its first transaction cannot have
\* its finalize refused, and owes one task only.
HandoffCommits ==
    /\ \A t \in Tasks : handoff[t] # "none" => CanFinalize(t, handoff[t])
    /\ \A t, u \in Tasks : handoff[t] # "none" /\ handoff[u] # "none" => t = u

\* An open question belongs to the task's present generation and attempt, and
\* the task has neither been cancelled nor ended.  Otherwise its answer would
\* add an event of an old generation, or one behind the terminal event.
PendingBelongsToAttempt ==
    \A i \in Interactions : interaction[i].state = "PENDING" =>
      LET t == interaction[i].task
      IN  /\ t \in Tasks
          /\ interaction[i].generation = generation[t]
          /\ HasAttempt(t)
          /\ state[t] \in {"WAITING_APPROVAL", "RUNNING", "FINALIZING"}

\* While the daemon serves, the tasks at work never exceed the global and the
\* per-adapter limit, whatever crashed or was repaired before: only an answer
\* given without a slot, which reclaim_preflight_dispatch_slot has still to
\* settle, can go beyond them.
SlotsRespectLimits ==
    LET working == {t \in Tasks : /\ state[t] \in {"PREPARING", "RUNNING"}
                                  /\ last_answer[t] = "none"}
    IN  mode = "SERVING" =>
          /\ Cardinality(working) <= GlobalLimit
          /\ \A a \in Adapters :
               Cardinality({t \in working : AdapterOf[t] = a}) <= AdapterLimit

\* Refuted: the limits hold for all tasks at work.  respond_interaction makes a
\* task RUNNING without counting the others.
AnswersRespectLimits ==
    mode = "SERVING" =>
      Cardinality({t \in Tasks : state[t] \in {"PREPARING", "RUNNING"}}) <= GlobalLimit

\* Once adapter code may have run, the task never gets another generation and
\* the evidence never returns to a retry-safe phase, also not across restarts.
StartedIsNeverRetried ==
    [][\A t \in Tasks : dispatch_phase[t] \in Started =>
         generation'[t] = generation[t] /\ dispatch_phase'[t] \in Started]_vars

\* An ended task keeps its state, and its log gets no further event.
TerminalIsFinal ==
    [][\A t \in Tasks : state[t] \in Terminal =>
         state'[t] = state[t] /\ log'[t] = log[t]]_vars

\* A decided question is never decided again, and a deadline that has passed
\* is never answered.
AnsweredOnce ==
    [][\A i \in Interactions :
         /\ interaction[i].state \notin {"NONE", "PENDING"} => interaction'[i] = interaction[i]
         /\ interaction[i].due => interaction'[i].state # "ANSWERED"
                                  \/ interaction[i].state = "ANSWERED"]_vars

\* A task whose attempt got an answer is never retried automatically: a new
\* generation would forget the answer and take a deny for consent.
AnsweredIsNeverRetried ==
    [][\A t \in Tasks : last_answer[t] # "none" => generation'[t] = generation[t]]_vars

-----------------------------------------------------------------------------
(* The inductive invariant behind these properties.  Its point is that a    *)
(* restart replaces a task's state by its log's: whatever must survive a    *)
(* crash has to hold of both.                                               *)

CancelPath == {"CANCEL_REQUESTED", "FINALIZING", "CANCELLED"}
Interactive == {"WAITING_APPROVAL", "RUNNING", "FINALIZING"}
BeforeEffect == {"ABSENT", "QUEUED", "RETRY_WAIT", "PREPARING"}

LogAgrees(t) ==
    /\ log[t].generation = generation[t]
    /\ state[t] = "ABSENT" <=> log[t].state = "ABSENT"
    /\ state[t] = "ABSENT" => generation[t] = 0
    /\ state[t] \in Terminal \/ log[t].state \in Terminal => log[t].state = state[t]
    /\ TerminalTuple(t)
    /\ state[t] \notin Terminal => log[t].terminals = 0

CancelAgrees(t) ==
    cancel_requested[t] => state[t] \in CancelPath /\ log[t].state \in CancelPath

EvidenceAgrees(t) ==
    dispatch_phase[t] \in Started \/ last_answer[t] # "none" =>
      state[t] \notin BeforeEffect /\ log[t].state \notin BeforeEffect

TaskAgrees(t) == LogAgrees(t) /\ CancelAgrees(t) /\ EvidenceAgrees(t)

QuestionAgrees(i) ==
    interaction[i].state = "PENDING" =>
      LET t == interaction[i].task
      IN  /\ t \in Tasks
          /\ interaction[i].generation = generation[t]
          /\ HasAttempt(t)
          /\ state[t] \in Interactive /\ log[t].state \in Interactive
          /\ ~cancel_requested[t]

HandoffAgrees ==
    /\ HandoffCommits
    /\ mode = "DOWN" => handoff = NoHandoff

TodoAgrees ==
    /\ mode # "RECOVERING" => todo = {}
    /\ \A t \in todo : Unsettled(state[t])

\* The store is sound: rows, log, questions and the startup's work list agree.
StoreInvariant ==
    /\ TypeOK
    /\ \A t \in Tasks : TaskAgrees(t)
    /\ \A i \in Interactions : QuestionAgrees(i) /\ AnswerRecorded(i)
    /\ HandoffAgrees
    /\ TodoAgrees

-----------------------------------------------------------------------------
(* What the repository says of the store and the code does not keep. *)

\* A scheduled retry waits for its timer, across restarts too: a task leaves
\* RETRY_WAIT only for the attempt of a new claim or for a cancel request.
RetryWaitsForTimer ==
    [][\A t \in Tasks : state[t] = "RETRY_WAIT" =>
         \/ state'[t] \in {"RETRY_WAIT", "CANCEL_REQUESTED"}
         \/ state'[t] = "PREPARING" /\ dispatch_phase'[t] # "NONE"]_vars

\* Every attempt recovery decides to retry can be retried, so that startup does
\* not end in schedule_safe_retry's error.
RecoveryCompletes ==
    \A t \in Tasks :
      Reconciling(t) /\ ~emergency /\ RecoveryDecision(t) = "RetrySafe" => CanRetry(t)

\* A task whose question expired is not at work in a serving daemon: it is on
\* its way to its end.
ExpiryIsNotConsent ==
    mode = "SERVING" =>
      \A i \in Interactions : interaction[i].state = "EXPIRED" =>
        state[interaction[i].task] \in {"FINALIZING"} \cup Terminal

=============================================================================
