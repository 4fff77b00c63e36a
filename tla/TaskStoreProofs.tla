-------------------------- MODULE TaskStoreProofs --------------------------
(***************************************************************************)
(* Proofs about TaskStore, for any number of tasks, interactions and       *)
(* adapters and any limits.                                                *)
(***************************************************************************)
EXTENDS TaskStore, FiniteSetTheorems, TLAPS

\* derive_projection, one event kind at a time.
LEMMA DeriveProjectionCases ==
    ASSUME NEW payload, NEW prior
    PROVE  /\ DeriveProjection("state_changed", payload, prior) = payload
           /\ DeriveProjection("terminal", payload, prior) = payload
           /\ DeriveProjection("attempt_started", payload, prior) = "PREPARING"
           /\ DeriveProjection("interaction_requested", payload, prior) = "WAITING_APPROVAL"
           /\ DeriveProjection("interaction_decided", payload, prior) = "RUNNING"
           /\ DeriveProjection("dispatch_phase", payload, prior) = "RUNNING"
           /\ DeriveProjection("retry_scheduled", payload, prior) = prior
           /\ DeriveProjection("text_delta", payload, prior) = prior
  BY Zenon DEF DeriveProjection

\* A replay yields a task state if every event that carries a state carries a
\* task state (derive_projection).
LEMMA DeriveProjectionType ==
    ASSUME NEW kind, NEW payload, NEW prior \in TaskState \cup {"ABSENT"},
           kind \in {"state_changed", "terminal"} => payload \in TaskState
    PROVE  DeriveProjection(kind, payload, prior) \in TaskState \cup {"ABSENT"}
  BY Zenon DEF DeriveProjection, TaskState

\* append_event keeps the log well formed.
LEMMA AppendEventType ==
    ASSUME log \in [Tasks -> LogSummary],
           NEW t, NEW g, NEW kind, NEW payload, t \in Tasks => g \in Nat,
           kind \in {"state_changed", "terminal"} => payload \in TaskState,
           AppendEvent(t, g, kind, payload)
    PROVE  log' \in [Tasks -> LogSummary]
<1>1. CASE t \notin Tasks
  BY Zenon, <1>1 DEF AppendEvent
<1>2. CASE t \in Tasks
  <2>1. log[t] \in LogSummary
    BY Zenon, <1>2
  <2>2. log[t].state \in TaskState \cup {"ABSENT"} /\ log[t].terminals \in Nat
    BY Zenon, <2>1 DEF LogSummary
  <2>3. DeriveProjection(kind, payload, log[t].state) \in TaskState \cup {"ABSENT"}
    BY Zenon, <2>2, DeriveProjectionType
  <2>4. log[t].terminals + (IF kind = "terminal" THEN 1 ELSE 0) \in Nat
    BY <2>2
  <2> DEFINE new == [state |-> DeriveProjection(kind, payload, log[t].state),
                     generation |-> g,
                     terminals |-> log[t].terminals + (IF kind = "terminal" THEN 1 ELSE 0),
                     closed |-> kind = "terminal"]
  <2>5. new \in LogSummary
    BY Zenon, <1>2, <2>3, <2>4 DEF LogSummary
  <2>6. log' = [log EXCEPT ![t] = new]
    BY Zenon DEF AppendEvent
  <2> QED
    BY Zenon, <2>5, <2>6
<1> QED
  BY Zenon, <1>1, <1>2

\* Deciding a question, or its deadline passing, leaves a well-formed row.
LEMMA InteractionRowUpdates ==
    ASSUME NEW row \in InteractionRow
    PROVE  /\ \A kind \in ResponseKind :
                [row EXCEPT !.state = "ANSWERED", !.response = kind] \in InteractionRow
           /\ [row EXCEPT !.state = "EXPIRED"] \in InteractionRow
           /\ [row EXCEPT !.state = "CANCELLED"] \in InteractionRow
           /\ [row EXCEPT !.due = TRUE] \in InteractionRow
<1>1. ASSUME NEW kind \in ResponseKind
     PROVE  [row EXCEPT !.state = "ANSWERED", !.response = kind] \in InteractionRow
  BY Zenon DEF InteractionRow
<1>2. [row EXCEPT !.state = "EXPIRED"] \in InteractionRow
  BY Zenon DEF InteractionRow
<1>3. [row EXCEPT !.state = "CANCELLED"] \in InteractionRow
  BY Zenon DEF InteractionRow
<1>4. [row EXCEPT !.due = TRUE] \in InteractionRow
  BY Zenon DEF InteractionRow
<1> QED
  BY Zenon, <1>1, <1>2, <1>3, <1>4

\* No operation writes a value a column cannot hold.
LEMMA RowsTypePreserved ==
    ASSUME TypeOK, [Next]_vars
    PROVE  RowsTypeOK'
<1> USE DEF TypeOK, RowsTypeOK, taskVars, attemptVars, ixVars
<1>1. ASSUME NEW t \in Tasks, NEW parent \in Tasks \cup {NoTask}, Submit(t, parent)
     PROVE  RowsTypeOK'
  <2>1. log' \in [Tasks -> LogSummary]
    BY Zenon, <1>1, AppendEventType DEF Submit, TaskState
  <2> QED
    BY Zenon, <1>1, <2>1 DEF Submit, TaskState, AttemptState, DispatchPhase
<1>2. ASSUME NEW t \in Tasks, ClaimDispatchSlot(t)
     PROVE  RowsTypeOK'
  <2>1. log' \in [Tasks -> LogSummary]
    BY Zenon, <1>2, AppendEventType DEF ClaimDispatchSlot, TaskState
  <2> QED
    BY Zenon, <1>2, <2>1 DEF ClaimDispatchSlot, TaskState, AttemptState, DispatchPhase
<1>3. ASSUME NEW t \in Tasks, ReclaimPreflightDispatchSlot(t)
     PROVE  RowsTypeOK'
  <2>1. log' \in [Tasks -> LogSummary]
    BY Zenon, <1>3, AppendEventType DEF ReclaimPreflightDispatchSlot, TaskState
  <2> QED
    BY Zenon, <1>3, <2>1 DEF ReclaimPreflightDispatchSlot, TaskState, AttemptState,
       DispatchPhase
<1>4. ASSUME NEW t \in Tasks, NEW p \in DispatchPhase, NEW receipt \in BOOLEAN, RecordDispatchPhase(t, p, receipt)
     PROVE  RowsTypeOK'
  <2>1. log' \in [Tasks -> LogSummary]
    BY Zenon, <1>4, AppendEventType DEF RecordDispatchPhase, TaskState
  <2>2. process_receipt' \in [Tasks -> BOOLEAN]
    BY Zenon, <1>4 DEF RecordDispatchPhase
  <2>3. state' \in [Tasks -> TaskState \cup {"ABSENT"}]
    BY <1>4 DEF RecordDispatchPhase, TaskState
  <2>4. attempt_state' \in [Tasks -> AttemptState \cup {"NONE"}]
    BY <1>4 DEF RecordDispatchPhase, TaskState, AttemptState
  <2> QED
    BY Zenon, <1>4, <2>1, <2>2, <2>3, <2>4 DEF RecordDispatchPhase
<1>5. ASSUME NEW t \in Tasks, RecordAdapterEvent(t)
     PROVE  RowsTypeOK'
  <2>1. log' \in [Tasks -> LogSummary]
    BY Zenon, <1>5, AppendEventType DEF RecordAdapterEvent, TaskState
  <2> QED
    BY Zenon, <1>5, <2>1 DEF RecordAdapterEvent, TaskState, AttemptState, DispatchPhase
<1>6. ASSUME NEW t \in Tasks, NEW due \in BOOLEAN, SafeRetryRows(t, due)
     PROVE  RowsTypeOK'
  <2>1. generation[t] \in Nat
    BY Zenon
  <2>2. generation[t] + 1 \in Nat
    BY <2>1
  <2>3. log' \in [Tasks -> LogSummary]
    BY Zenon, <1>6, <2>2, AppendEventType DEF SafeRetryRows
  <2>4. generation' \in [Tasks -> Nat]
    BY Zenon, <1>6, <2>2 DEF SafeRetryRows
  <2> QED
    BY Zenon, <1>6, <2>3, <2>4 DEF SafeRetryRows, TaskState
<1>7. ASSUME NEW t \in Tasks, NEW i \in Interactions, OpenInteraction(t, i)
     PROVE  RowsTypeOK'
  <2>1. log' \in [Tasks -> LogSummary]
    BY Zenon, <1>7, AppendEventType DEF OpenInteraction, TaskState
  <2>2. interaction' \in [Interactions -> InteractionRow]
    BY <1>7 DEF OpenInteraction, InteractionRow
  <2> QED
    BY Zenon, <1>7, <2>1, <2>2 DEF OpenInteraction, TaskState, AttemptState, DispatchPhase
<1>8. ASSUME NEW i \in Interactions, NEW kind \in ResponseKind, RespondInteraction(i, kind)
     PROVE  RowsTypeOK'
  <2>1. log' \in [Tasks -> LogSummary]
    BY Zenon, <1>8, AppendEventType DEF RespondInteraction, TaskState, InteractionRow
  <2>2. interaction' = [interaction EXCEPT ![i] = [interaction[i] EXCEPT !.state = "ANSWERED", !.response = kind]]
    BY Zenon, <1>8 DEF RespondInteraction
  <2>3. interaction' \in [Interactions -> InteractionRow]
    BY Zenon, <1>8, <2>2, InteractionRowUpdates
  <2> QED
    BY ZenonT(60), <1>8, <2>1, <2>2, <2>3 DEF RespondInteraction, TaskState, AttemptState,
       DispatchPhase
<1>9. ASSUME NEW i \in Interactions, NEW target \in Terminal, ExpireInteraction(i, target)
     PROVE  RowsTypeOK'
  <2>1. log' \in [Tasks -> LogSummary]
    BY Zenon, <1>9, AppendEventType DEF ExpireInteraction, TaskState
  <2>2. interaction' = [interaction EXCEPT ![i] = [interaction[i] EXCEPT !.state = "EXPIRED"]]
    BY Zenon, <1>9 DEF ExpireInteraction
  <2>3. interaction' \in [Interactions -> InteractionRow]
    BY Zenon, <1>9, <2>2, InteractionRowUpdates
  <2> QED
    BY Zenon, <1>9, <2>1, <2>2, <2>3 DEF ExpireInteraction, TaskState, AttemptState,
       DispatchPhase
<1>10. ASSUME NEW t \in Tasks, RequestCancel(t)
     PROVE  RowsTypeOK'
  <2>1. log' \in [Tasks -> LogSummary]
    BY Zenon, <1>10, AppendEventType DEF RequestCancel, TaskState
  <2>2. interaction' \in [Interactions -> InteractionRow]
    BY Zenon, <1>10, InteractionRowUpdates DEF RequestCancel
  <2> QED
    BY Zenon, <1>10, <2>1, <2>2 DEF RequestCancel, TaskState, AttemptState,
       DispatchPhase, Terminal
<1>11. ASSUME NEW t \in Tasks, NEW from, ToFinalizing(t, from)
     PROVE  RowsTypeOK'
  <2>1. log' \in [Tasks -> LogSummary]
    BY Zenon, <1>11, AppendEventType DEF ToFinalizing, TaskState
  <2> QED
    BY Zenon, <1>11, <2>1 DEF ToFinalizing, TaskState, AttemptState, DispatchPhase
<1>12. ASSUME NEW t \in Tasks, NEW terminal \in Terminal, FinalizeRows(t, terminal)
     PROVE  RowsTypeOK'
  <2>1. log' \in [Tasks -> LogSummary]
    BY Zenon, <1>12, AppendEventType DEF FinalizeRows, TaskState
  <2>2. interaction' \in [Interactions -> InteractionRow]
    BY Zenon, <1>12, InteractionRowUpdates DEF FinalizeRows
  <2> QED
    BY Zenon, <1>12, <2>1, <2>2 DEF FinalizeRows, TaskState, AttemptState,
       DispatchPhase, Terminal
<1>13. ASSUME Open
      PROVE  RowsTypeOK'
  <2>1. \A t \in Tasks : log[t].state \in TaskState \cup {"ABSENT"}
    BY Zenon DEF LogSummary
  <2>2. state' \in [Tasks -> TaskState \cup {"ABSENT"}]
    BY Zenon, <1>13, <2>1 DEF Open
  <2> QED
    BY Zenon, <1>13, <2>2 DEF Open
<1>14. ASSUME NEW i \in Interactions, DeadlinePasses(i)
      PROVE  RowsTypeOK'
  <2>1. interaction' = [interaction EXCEPT ![i] = [interaction[i] EXCEPT !.due = TRUE]]
    BY Zenon, <1>14 DEF DeadlinePasses
  <2>2. interaction' \in [Interactions -> InteractionRow]
    BY Zenon, <2>1, InteractionRowUpdates
  <2> QED
    BY Zenon, <1>14, <2>2 DEF DeadlinePasses
<1>15. ASSUME ClientCall
      PROVE  RowsTypeOK'
  <2>1. ASSUME NEW t \in Tasks, RecordResumableSession(t)
        PROVE  RowsTypeOK'
    BY Zenon, <2>1 DEF RecordResumableSession
  <2>2. ASSUME NEW t \in Tasks, ReviewAndAck(t)
        PROVE  RowsTypeOK'
    BY Zenon, <2>2 DEF ReviewAndAck
  <2> QED
    BY SMTT(60), <1>1, <1>2, <1>3, <1>4, <1>5, <1>6, <1>7, <1>8, <1>9, <1>10, <1>11, <1>12,
       <1>15, <2>1, <2>2
       DEF ClientCall, ScheduleSafeRetry, Transition, Finalize, Terminal
<1>16. ASSUME NEW t \in Tasks, RecoverSkip(t) \/ RecoverRetry(t) \/ RecoverAbort(t) \/ RecoverFinalize(t)
      PROVE  RowsTypeOK'
  BY ZenonT(60), <1>6, <1>11, <1>16 DEF RecoverSkip, RecoverRetry, RecoverAbort,
     RecoverFinalize
<1>17. ASSUME NEW t \in Tasks, FinishHandoff(t)
      PROVE  RowsTypeOK'
  BY Zenon, <1>12, <1>17 DEF FinishHandoff
<1>18. ASSUME NEW t \in Tasks, RetryTimerElapses(t)
      PROVE  RowsTypeOK'
  BY Zenon, <1>18 DEF RetryTimerElapses
<1>19. ASSUME \/ Serve \/ Crash \/ LatchEmergency \/ RecoverEmergency \/ UNCHANGED vars
              \/ \E t \in Tasks : HandoffFails(t)
      PROVE  RowsTypeOK'
  BY <1>19 DEF Serve, Crash, LatchEmergency, RecoverEmergency, HandoffFails, vars
<1> QED
  BY Zenon, <1>13, <1>14, <1>15, <1>16, <1>17, <1>18, <1>19 DEF Next, Startup, Environment

\* What append_event does to one task's log, field by field.
LEMMA AppendEventEffect ==
    ASSUME log \in [Tasks -> LogSummary],
           NEW t \in Tasks, NEW g, NEW kind, NEW payload,
           AppendEvent(t, g, kind, payload)
    PROVE  /\ \A u \in Tasks \ {t} : log'[u] = log[u]
           /\ log'[t].state = DeriveProjection(kind, payload, log[t].state)
           /\ log'[t].generation = g
           /\ kind # "terminal" => log'[t].terminals = log[t].terminals
           /\ kind = "terminal" => log'[t].terminals = log[t].terminals + 1
<1>1. log[t].terminals \in Nat
  BY Zenon DEF LogSummary
<1> QED
  BY <1>1 DEF AppendEvent

\* No operation lets the rows of a task disagree with its log.
LEMMA TaskAgreesPreserved ==
    ASSUME StoreInvariant, [Next]_vars, NEW u \in Tasks
    PROVE  TaskAgrees(u)'
<1> USE DEF taskVars, attemptVars, ixVars, modeVars
<1>0. /\ RowsTypeOK
      /\ \A t \in Tasks : TaskAgrees(t)
  BY Zenon DEF StoreInvariant, TypeOK
<1>a. log \in [Tasks -> LogSummary]
  BY Zenon, <1>0 DEF RowsTypeOK
<1>1. ASSUME NEW t \in Tasks, NEW parent \in Tasks \cup {NoTask}, Submit(t, parent)
     PROVE  TaskAgrees(u)'
  <2>0. AppendEvent(t, 0, "state_changed", "QUEUED")
    BY Zenon, <1>1 DEF Submit
  <2>1. /\ \A v \in Tasks \ {t} : log'[v] = log[v]
        /\ log'[t].state = "QUEUED"
        /\ log'[t].generation = 0
        /\ log'[t].terminals = log[t].terminals
    BY SMTT(60), <1>a, <2>0, AppendEventEffect, DeriveProjectionCases
  <2> QED
    BY <1>0, <1>1, <2>1 DEF Submit, TaskAgrees, LogAgrees, CancelAgrees,
       EvidenceAgrees, TerminalTuple, CancelPath, BeforeEffect, Terminal, Started,
       RowsTypeOK
<1>2. ASSUME NEW t \in Tasks, ClaimDispatchSlot(t)
     PROVE  TaskAgrees(u)'
  <2>0. AppendEvent(t, generation[t], "attempt_started", "none")
    BY Zenon, <1>2 DEF ClaimDispatchSlot
  <2>1. /\ \A v \in Tasks \ {t} : log'[v] = log[v]
        /\ log'[t].state = "PREPARING"
        /\ log'[t].generation = generation[t]
        /\ log'[t].terminals = log[t].terminals
    BY SMTT(60), <1>a, <2>0, AppendEventEffect, DeriveProjectionCases
  <2> QED
    BY <1>0, <1>2, <2>1 DEF ClaimDispatchSlot, TaskAgrees, LogAgrees, CancelAgrees,
       EvidenceAgrees, TerminalTuple, CancelPath, BeforeEffect, Terminal, Started,
       RowsTypeOK, CanClaim, Ready
<1>3. ASSUME NEW t \in Tasks, ReclaimPreflightDispatchSlot(t)
     PROVE  TaskAgrees(u)'
  <2>1. PICK next \in {"RUNNING", "WAITING_APPROVAL"} :
          /\ state' = [state EXCEPT ![t] = next]
          /\ AppendEvent(t, generation[t], "state_changed", next)
    BY Zenon, <1>3 DEF ReclaimPreflightDispatchSlot
  <2>2. /\ \A v \in Tasks \ {t} : log'[v] = log[v]
        /\ log'[t].state = next
        /\ log'[t].generation = generation[t]
        /\ log'[t].terminals = log[t].terminals
    BY SMTT(60), <1>a, <2>1, AppendEventEffect, DeriveProjectionCases
  <2> QED
    BY SMTT(60), <1>0, <1>3, <2>1, <2>2 DEF ReclaimPreflightDispatchSlot, TaskAgrees,
       LogAgrees, CancelAgrees, EvidenceAgrees, TerminalTuple, CancelPath,
       BeforeEffect, Terminal, Started, RowsTypeOK
<1>4. ASSUME NEW t \in Tasks, NEW p \in DispatchPhase, NEW receipt \in BOOLEAN, RecordDispatchPhase(t, p, receipt)
     PROVE  TaskAgrees(u)'
  <2>0. AppendEvent(t, generation[t], "dispatch_phase", "none")
    BY Zenon, <1>4 DEF RecordDispatchPhase
  <2>1. /\ \A v \in Tasks \ {t} : log'[v] = log[v]
        /\ log'[t].state = "RUNNING"
        /\ log'[t].generation = generation[t]
        /\ log'[t].terminals = log[t].terminals
    BY SMTT(60), <1>a, <2>0, AppendEventEffect, DeriveProjectionCases
  <2> QED
    BY <1>0, <1>4, <2>1 DEF RecordDispatchPhase, TaskAgrees, LogAgrees, CancelAgrees,
       EvidenceAgrees, TerminalTuple, CancelPath, BeforeEffect, Terminal, Started,
       RowsTypeOK, PhaseAccepted
<1>5. ASSUME NEW t \in Tasks, RecordAdapterEvent(t)
     PROVE  TaskAgrees(u)'
  <2>0. AppendEvent(t, generation[t], "text_delta", "none")
    BY Zenon, <1>5 DEF RecordAdapterEvent
  <2>1. /\ \A v \in Tasks \ {t} : log'[v] = log[v]
        /\ log'[t].state = log[t].state
        /\ log'[t].generation = generation[t]
        /\ log'[t].terminals = log[t].terminals
    BY SMTT(60), <1>a, <2>0, AppendEventEffect, DeriveProjectionCases
  <2> QED
    BY <1>0, <1>5, <2>1 DEF RecordAdapterEvent, TaskAgrees, LogAgrees, CancelAgrees,
       EvidenceAgrees, TerminalTuple, CancelPath, BeforeEffect, Terminal, Started,
       RowsTypeOK, AdapterEventAccepted
<1>6. ASSUME NEW t \in Tasks, NEW due \in BOOLEAN, CanRetry(t), SafeRetryRows(t, due)
     PROVE  TaskAgrees(u)'
  <2>0. AppendEvent(t, generation[t] + 1, "retry_scheduled", "none")
    BY Zenon, <1>6 DEF SafeRetryRows
  <2>1. /\ \A v \in Tasks \ {t} : log'[v] = log[v]
        /\ log'[t].state = log[t].state
        /\ log'[t].generation = generation[t] + 1
        /\ log'[t].terminals = log[t].terminals
    BY SMTT(60), <1>a, <2>0, AppendEventEffect, DeriveProjectionCases
  <2> QED
    BY <1>0, <1>6, <2>1 DEF SafeRetryRows, TaskAgrees, LogAgrees, CancelAgrees,
       EvidenceAgrees, TerminalTuple, CancelPath, BeforeEffect, Terminal, Started,
       RowsTypeOK, CanRetry, EffectProvenAbsent
<1>7. ASSUME NEW t \in Tasks, NEW i \in Interactions, OpenInteraction(t, i)
     PROVE  TaskAgrees(u)'
  <2>0. AppendEvent(t, generation[t], "interaction_requested", "none")
    BY Zenon, <1>7 DEF OpenInteraction
  <2>1. /\ \A v \in Tasks \ {t} : log'[v] = log[v]
        /\ log'[t].state = "WAITING_APPROVAL"
        /\ log'[t].generation = generation[t]
        /\ log'[t].terminals = log[t].terminals
    BY SMTT(60), <1>a, <2>0, AppendEventEffect, DeriveProjectionCases
  <2> QED
    BY <1>0, <1>7, <2>1 DEF OpenInteraction, TaskAgrees, LogAgrees, CancelAgrees,
       EvidenceAgrees, TerminalTuple, CancelPath, BeforeEffect, Terminal, Started,
       RowsTypeOK
<1>8. ASSUME NEW i \in Interactions, NEW kind \in ResponseKind, RespondInteraction(i, kind)
     PROVE  TaskAgrees(u)'
  <2> DEFINE t == interaction[i].task
  <2>1. /\ t \in Tasks /\ interaction[i].generation = generation[t]
        /\ state[t] \in Interactive /\ ~cancel_requested[t]
    BY Zenon, <1>0, <1>8 DEF StoreInvariant, QuestionAgrees, RespondInteraction, Answerable
  <2>a. AppendEvent(t, interaction[i].generation, "interaction_decided", "none")
    BY Zenon, <1>8 DEF RespondInteraction
  <2>2. /\ \A v \in Tasks \ {t} : log'[v] = log[v]
        /\ log'[t].state = "RUNNING"
        /\ log'[t].generation = generation[t]
        /\ log'[t].terminals = log[t].terminals
    BY <1>a, <2>a, <2>1, AppendEventEffect, DeriveProjectionCases
  <2>3. /\ state'[t] \in {"RUNNING", "FINALIZING"}
        /\ \A v \in Tasks \ {t} : state'[v] = state[v] /\ last_answer'[v] = last_answer[v]
        /\ UNCHANGED <<generation, cancel_requested, dispatch_phase, outbox>>
    BY Zenon, <1>0, <1>8, <2>1 DEF RespondInteraction, RowsTypeOK, Interactive
  <2> HIDE DEF t
  <2> QED
    BY <1>0, <2>1, <2>2, <2>3 DEF TaskAgrees, LogAgrees, CancelAgrees, EvidenceAgrees,
       TerminalTuple, CancelPath, BeforeEffect, Terminal, Started, RowsTypeOK,
       Interactive
<1>9. ASSUME NEW i \in Interactions, NEW target \in Terminal, ExpireInteraction(i, target)
     PROVE  TaskAgrees(u)'
  <2> DEFINE t == interaction[i].task
  <2>1. /\ t \in Tasks /\ interaction[i].generation = generation[t]
        /\ state[t] \in Interactive /\ ~cancel_requested[t]
    BY Zenon, <1>0, <1>9 DEF StoreInvariant, QuestionAgrees, ExpireInteraction, Expirable
  <2>a. AppendEvent(t, generation[t], "interaction_decided", "none")
    BY Zenon, <1>9 DEF ExpireInteraction
  <2>2. /\ \A v \in Tasks \ {t} : log'[v] = log[v]
        /\ log'[t].state = "RUNNING"
        /\ log'[t].generation = generation[t]
        /\ log'[t].terminals = log[t].terminals
    BY <1>a, <2>a, <2>1, AppendEventEffect, DeriveProjectionCases
  <2>3. /\ state'[t] \in {"RUNNING", "FINALIZING"}
        /\ \A v \in Tasks \ {t} : state'[v] = state[v] /\ last_answer'[v] = last_answer[v]
        /\ UNCHANGED <<generation, cancel_requested, dispatch_phase, outbox>>
    BY Zenon, <1>0, <1>9, <2>1 DEF ExpireInteraction, RowsTypeOK, Interactive
  <2> HIDE DEF t
  <2> QED
    BY <1>0, <2>1, <2>2, <2>3 DEF TaskAgrees, LogAgrees, CancelAgrees, EvidenceAgrees,
       TerminalTuple, CancelPath, BeforeEffect, Terminal, Started, RowsTypeOK,
       Interactive
<1>10. ASSUME NEW t \in Tasks, RequestCancel(t)
     PROVE  TaskAgrees(u)'
  <2>0. AppendEvent(t, generation[t], "state_changed", "CANCEL_REQUESTED")
    BY Zenon, <1>10 DEF RequestCancel
  <2>1. /\ \A v \in Tasks \ {t} : log'[v] = log[v]
        /\ log'[t].state = "CANCEL_REQUESTED"
        /\ log'[t].generation = generation[t]
        /\ log'[t].terminals = log[t].terminals
    BY SMTT(60), <1>a, <2>0, AppendEventEffect, DeriveProjectionCases
  <2> QED
    BY <1>0, <1>10, <2>1 DEF RequestCancel, TaskAgrees, LogAgrees, CancelAgrees,
       EvidenceAgrees, TerminalTuple, CancelPath, BeforeEffect, Terminal, Started,
       RowsTypeOK, Cancellable, Allows
<1>11. ASSUME NEW t \in Tasks, NEW from, ToFinalizing(t, from)
     PROVE  TaskAgrees(u)'
  <2>0. AppendEvent(t, generation[t], "state_changed", "FINALIZING")
    BY Zenon, <1>11 DEF ToFinalizing
  <2>1. /\ \A v \in Tasks \ {t} : log'[v] = log[v]
        /\ log'[t].state = "FINALIZING"
        /\ log'[t].generation = generation[t]
        /\ log'[t].terminals = log[t].terminals
    BY <1>a, <2>0, AppendEventEffect, DeriveProjectionCases
  <2> QED
    BY <1>0, <1>11, <2>1 DEF ToFinalizing, TaskAgrees, LogAgrees, CancelAgrees,
       EvidenceAgrees, TerminalTuple, CancelPath, BeforeEffect, Terminal, Started,
       RowsTypeOK, CanFinalizing, Allows
<1>12. ASSUME NEW t \in Tasks, NEW terminal \in Terminal, FinalizeRows(t, terminal)
     PROVE  TaskAgrees(u)'
  <2>0. AppendEvent(t, generation[t], "terminal", terminal)
    BY Zenon, <1>12 DEF FinalizeRows
  <2>1. /\ \A v \in Tasks \ {t} : log'[v] = log[v]
        /\ log'[t].state = terminal
        /\ log'[t].generation = generation[t]
        /\ log'[t].terminals = log[t].terminals + 1
    BY <1>a, <2>0, AppendEventEffect, DeriveProjectionCases
  <2> QED
    BY <1>0, <1>12, <2>1 DEF FinalizeRows, TaskAgrees, LogAgrees, CancelAgrees,
       EvidenceAgrees, TerminalTuple, CancelPath, BeforeEffect, Terminal, Started,
       RowsTypeOK, CanFinalize, Allows
<1>13. ASSUME Open
      PROVE  TaskAgrees(u)'
  <2>1. /\ state'[u] = log[u].state \/ state'[u] = state[u]
        /\ state[u] \in Terminal => state'[u] = state[u]
        /\ UNCHANGED <<generation, cancel_requested, dispatch_phase, last_answer, log, outbox>>
    BY Zenon, <1>0, <1>13 DEF Open, TaskAgrees, LogAgrees
  <2> QED
    BY SMTT(60), <1>0, <2>1 DEF TaskAgrees, LogAgrees, CancelAgrees, EvidenceAgrees,
       TerminalTuple, CancelPath, BeforeEffect, Terminal, Started, RowsTypeOK
<1>14. ASSUME ClientCall
      PROVE  TaskAgrees(u)'
  <2>1. ASSUME NEW t \in Tasks, RecordResumableSession(t)
        PROVE  TaskAgrees(u)'
    BY Zenon, <1>0, <2>1 DEF RecordResumableSession, TaskAgrees, LogAgrees,
       CancelAgrees, EvidenceAgrees, TerminalTuple, CancelPath, BeforeEffect,
       Terminal, Started, RowsTypeOK
  <2>2. ASSUME NEW t \in Tasks, ReviewAndAck(t)
        PROVE  TaskAgrees(u)'
    BY <1>0, <2>2 DEF ReviewAndAck, TaskAgrees, LogAgrees, CancelAgrees,
       EvidenceAgrees, TerminalTuple, CancelPath, BeforeEffect, Terminal, Started,
       RowsTypeOK
  <2> QED
    BY Zenon, <1>1, <1>2, <1>3, <1>4, <1>5, <1>6, <1>7, <1>8, <1>9, <1>10, <1>11, <1>12,
       <1>14, <2>1, <2>2
       DEF ClientCall, ScheduleSafeRetry, Transition, Finalize, Terminal
<1>15. ASSUME NEW t \in Tasks, RecoverRetry(t) \/ RecoverFinalize(t)
      PROVE  TaskAgrees(u)'
  <2>1. CASE RecoverRetry(t)
    BY Zenon, <1>6, <2>1 DEF RecoverRetry
  <2>2. CASE RecoverFinalize(t) /\ state[t] = "FINALIZING"
    BY <1>0, <2>2 DEF RecoverFinalize, TaskAgrees, LogAgrees, CancelAgrees,
       EvidenceAgrees, TerminalTuple, CancelPath, BeforeEffect, Terminal, Started,
       RowsTypeOK
  <2>3. CASE RecoverFinalize(t) /\ state[t] # "FINALIZING"
    BY Zenon, <1>11, <2>3 DEF RecoverFinalize
  <2> QED
    BY Zenon, <1>15, <2>1, <2>2, <2>3
<1>16. ASSUME NEW t \in Tasks, FinishHandoff(t)
      PROVE  TaskAgrees(u)'
  <2>1. handoff[t] \in Terminal
    BY Zenon, <1>16 DEF FinishHandoff, StoreInvariant, TypeOK
  <2> QED
    BY Zenon, <1>12, <1>16, <2>1 DEF FinishHandoff
<1>17. CASE UNCHANGED <<state, generation, cancel_requested, dispatch_phase, last_answer, log, outbox>>
  BY Zenon, <1>0, <1>17 DEF TaskAgrees, LogAgrees, CancelAgrees, EvidenceAgrees, TerminalTuple,
     CancelPath, BeforeEffect, Terminal, Started, RowsTypeOK
<1>18. ASSUME \/ \E t \in Tasks : \/ RecoverSkip(t) \/ RecoverAbort(t)
                                 \/ RetryTimerElapses(t) \/ HandoffFails(t)
              \/ \E i \in Interactions : DeadlinePasses(i)
              \/ Serve \/ Crash \/ LatchEmergency \/ RecoverEmergency \/ UNCHANGED vars
      PROVE  UNCHANGED <<state, generation, cancel_requested, dispatch_phase, last_answer, log, outbox>>
  BY Zenon, <1>18 DEF RecoverSkip, RecoverAbort, RetryTimerElapses, HandoffFails,
     DeadlinePasses, Serve,
               Crash, LatchEmergency, RecoverEmergency, vars
<1> QED
  BY Zenon, <1>13, <1>14, <1>15, <1>16, <1>17, <1>18 DEF Next, Startup, Environment

\* An open question stays attached to its task's live attempt.
LEMMA QuestionAgreesPreserved ==
    ASSUME StoreInvariant, [Next]_vars, NEW j \in Interactions
    PROVE  QuestionAgrees(j)'
<1> USE DEF taskVars, attemptVars, ixVars, modeVars
<1>0. /\ RowsTypeOK /\ QuestionAgrees(j)
      /\ \A t \in Tasks : TaskAgrees(t)
      /\ interaction \in [Interactions -> InteractionRow]
  BY Zenon DEF StoreInvariant, TypeOK, RowsTypeOK
<1>a. log \in [Tasks -> LogSummary]
  BY Zenon, <1>0 DEF RowsTypeOK
<1>1. ASSUME NEW t \in Tasks, NEW parent \in Tasks \cup {NoTask}, Submit(t, parent)
     PROVE  QuestionAgrees(j)'
  <2>0. AppendEvent(t, 0, "state_changed", "QUEUED")
    BY Zenon, <1>1 DEF Submit
  <2>1. /\ \A v \in Tasks \ {t} : log'[v] = log[v]
        /\ log'[t].state = "QUEUED"
    BY SMTT(60), <1>a, <2>0, AppendEventEffect, DeriveProjectionCases
  <2> QED
    BY <1>0, <1>1, <2>1 DEF Submit, QuestionAgrees, Interactive, HasAttempt, RowsTypeOK
<1>2. ASSUME NEW t \in Tasks, ClaimDispatchSlot(t)
     PROVE  QuestionAgrees(j)'
  <2>0. AppendEvent(t, generation[t], "attempt_started", "none")
    BY Zenon, <1>2 DEF ClaimDispatchSlot
  <2>1. /\ \A v \in Tasks \ {t} : log'[v] = log[v]
        /\ log'[t].state = "PREPARING"
    BY SMTT(60), <1>a, <2>0, AppendEventEffect, DeriveProjectionCases
  <2> QED
    BY <1>0, <1>2, <2>1 DEF ClaimDispatchSlot, QuestionAgrees, Interactive,
       HasAttempt, RowsTypeOK, CanClaim, Ready
<1>3. ASSUME NEW t \in Tasks, ReclaimPreflightDispatchSlot(t)
     PROVE  QuestionAgrees(j)'
  <2>1. PICK next \in {"RUNNING", "WAITING_APPROVAL"} :
          /\ state' = [state EXCEPT ![t] = next]
          /\ AppendEvent(t, generation[t], "state_changed", next)
    BY Zenon, <1>3 DEF ReclaimPreflightDispatchSlot
  <2>2. /\ \A v \in Tasks \ {t} : log'[v] = log[v]
        /\ log'[t].state = next
    BY SMTT(60), <1>a, <2>1, AppendEventEffect, DeriveProjectionCases
  <2> QED
    BY ZenonT(60), <1>0, <1>3, <2>1, <2>2 DEF ReclaimPreflightDispatchSlot,
       QuestionAgrees, Interactive, HasAttempt, RowsTypeOK
<1>4. ASSUME NEW t \in Tasks, NEW p \in DispatchPhase, NEW receipt \in BOOLEAN, RecordDispatchPhase(t, p, receipt)
     PROVE  QuestionAgrees(j)'
  <2>0. AppendEvent(t, generation[t], "dispatch_phase", "none")
    BY Zenon, <1>4 DEF RecordDispatchPhase
  <2>1. /\ \A v \in Tasks \ {t} : log'[v] = log[v]
        /\ log'[t].state = "RUNNING"
    BY SMTT(60), <1>a, <2>0, AppendEventEffect, DeriveProjectionCases
  <2> QED
    BY <1>0, <1>4, <2>1 DEF RecordDispatchPhase, QuestionAgrees, Interactive,
       HasAttempt, RowsTypeOK, PhaseAccepted, DispatchPhase
<1>5. ASSUME NEW t \in Tasks, RecordAdapterEvent(t)
     PROVE  QuestionAgrees(j)'
  <2>0. AppendEvent(t, generation[t], "text_delta", "none")
    BY Zenon, <1>5 DEF RecordAdapterEvent
  <2>1. /\ \A v \in Tasks \ {t} : log'[v] = log[v]
        /\ log'[t].state = log[t].state
    BY SMTT(60), <1>a, <2>0, AppendEventEffect, DeriveProjectionCases
  <2> QED
    BY Zenon, <1>0, <1>5, <2>1 DEF RecordAdapterEvent, QuestionAgrees, Interactive,
       HasAttempt, RowsTypeOK, AdapterEventAccepted
<1>6. ASSUME NEW t \in Tasks, NEW due \in BOOLEAN, CanRetry(t), SafeRetryRows(t, due)
     PROVE  QuestionAgrees(j)'
  <2>0. AppendEvent(t, generation[t] + 1, "retry_scheduled", "none")
    BY Zenon, <1>6 DEF SafeRetryRows
  <2>1. /\ \A v \in Tasks \ {t} : log'[v] = log[v]
        /\ log'[t].state = log[t].state
    BY SMTT(60), <1>a, <2>0, AppendEventEffect, DeriveProjectionCases
  <2> QED
    BY <1>0, <1>6, <2>1 DEF SafeRetryRows, QuestionAgrees, Interactive, HasAttempt,
       RowsTypeOK, CanRetry
<1>7. ASSUME NEW t \in Tasks, NEW i \in Interactions, OpenInteraction(t, i)
     PROVE  QuestionAgrees(j)'
  <2>0. AppendEvent(t, generation[t], "interaction_requested", "none")
    BY Zenon, <1>7 DEF OpenInteraction
  <2>1. /\ \A v \in Tasks \ {t} : log'[v] = log[v]
        /\ log'[t].state = "WAITING_APPROVAL"
    BY SMTT(60), <1>a, <2>0, AppendEventEffect, DeriveProjectionCases
  <2> QED
    BY SMTT(60), <1>0, <1>7, <2>1 DEF OpenInteraction, QuestionAgrees, Interactive,
       HasAttempt,
       RowsTypeOK, TaskAgrees, CancelAgrees, CancelPath
<1>8. ASSUME NEW i \in Interactions, NEW kind \in ResponseKind, RespondInteraction(i, kind)
     PROVE  QuestionAgrees(j)'
  <2> DEFINE t == interaction[i].task
  <2>1. t \in Tasks /\ state[t] \in Interactive
    BY Zenon, <1>0, <1>8 DEF StoreInvariant, QuestionAgrees, RespondInteraction, Answerable
  <2>a. AppendEvent(t, interaction[i].generation, "interaction_decided", "none")
    BY Zenon, <1>8 DEF RespondInteraction
  <2>2. /\ \A v \in Tasks \ {t} : log'[v] = log[v]
        /\ log'[t].state = "RUNNING"
    BY SMTT(60), <1>a, <2>a, <2>1, AppendEventEffect, DeriveProjectionCases
  <2>3. /\ state'[t] \in Interactive
        /\ \A v \in Tasks \ {t} : state'[v] = state[v]
        /\ UNCHANGED <<generation, cancel_requested, dispatch_phase>>
    BY <1>0, <1>8, <2>1 DEF RespondInteraction, RowsTypeOK, Interactive
  <2>4. interaction'[i].state # "PENDING" /\ (j # i => interaction'[j] = interaction[j])
    BY Zenon, <1>0, <1>8 DEF RespondInteraction, InteractionRow
  <2> HIDE DEF t
  <2> QED
    BY <1>0, <2>1, <2>2, <2>3, <2>4 DEF QuestionAgrees, Interactive, HasAttempt, RowsTypeOK
<1>9. ASSUME NEW i \in Interactions, NEW target \in Terminal, ExpireInteraction(i, target)
     PROVE  QuestionAgrees(j)'
  <2> DEFINE t == interaction[i].task
  <2>1. t \in Tasks /\ state[t] \in Interactive
    BY Zenon, <1>0, <1>9 DEF StoreInvariant, QuestionAgrees, ExpireInteraction, Expirable
  <2>a. AppendEvent(t, generation[t], "interaction_decided", "none")
    BY Zenon, <1>9 DEF ExpireInteraction
  <2>2. /\ \A v \in Tasks \ {t} : log'[v] = log[v]
        /\ log'[t].state = "RUNNING"
    BY <1>a, <2>a, <2>1, AppendEventEffect, DeriveProjectionCases
  <2>3. /\ state'[t] \in Interactive
        /\ \A v \in Tasks \ {t} : state'[v] = state[v]
        /\ UNCHANGED <<generation, cancel_requested, dispatch_phase>>
    BY <1>0, <1>9, <2>1 DEF ExpireInteraction, RowsTypeOK, Interactive
  <2>4. interaction'[i].state # "PENDING" /\ (j # i => interaction'[j] = interaction[j])
    BY Zenon, <1>0, <1>9 DEF ExpireInteraction, InteractionRow
  <2> HIDE DEF t
  <2> QED
    BY <1>0, <2>1, <2>2, <2>3, <2>4 DEF QuestionAgrees, Interactive, HasAttempt, RowsTypeOK
<1>10. ASSUME NEW t \in Tasks, RequestCancel(t)
     PROVE  QuestionAgrees(j)'
  <2>1. \A v \in Tasks \ {t} : log'[v] = log[v]
    BY Zenon, <1>a, <1>10, AppendEventEffect DEF RequestCancel
  <2>2. CASE j \in PendingOf(t)
    <3>1. interaction'[j].state \in {"EXPIRED", "CANCELLED"}
      BY Zenon, <1>0, <1>10, <2>2 DEF RequestCancel, InteractionRow
    <3> QED
      BY Zenon, <3>1 DEF QuestionAgrees
  <2>3. CASE j \notin PendingOf(t)
    <3>1. interaction'[j] = interaction[j]
      BY Zenon, <1>10, <2>3 DEF RequestCancel
    <3>2. interaction[j].state = "PENDING" => interaction[j].task # t
      BY Zenon, <1>0, <2>3 DEF PendingOf, QuestionAgrees
    <3> QED
      BY <1>0, <1>10, <2>1, <3>1, <3>2 DEF RequestCancel, QuestionAgrees,
         Interactive, HasAttempt, RowsTypeOK
  <2> QED
    BY Zenon, <2>2, <2>3
<1>11. ASSUME NEW t \in Tasks, NEW from, ToFinalizing(t, from)
     PROVE  QuestionAgrees(j)'
  <2>0. AppendEvent(t, generation[t], "state_changed", "FINALIZING")
    BY Zenon, <1>11 DEF ToFinalizing
  <2>1. /\ \A v \in Tasks \ {t} : log'[v] = log[v]
        /\ log'[t].state = "FINALIZING"
    BY <1>a, <2>0, AppendEventEffect, DeriveProjectionCases
  <2> QED
    BY <1>0, <1>11, <2>1 DEF ToFinalizing, QuestionAgrees, Interactive, HasAttempt,
       RowsTypeOK, CanFinalizing, Allows
<1>12. ASSUME NEW t \in Tasks, NEW terminal \in Terminal, FinalizeRows(t, terminal)
     PROVE  QuestionAgrees(j)'
  <2>1. \A v \in Tasks \ {t} : log'[v] = log[v]
    BY Zenon, <1>a, <1>12, AppendEventEffect DEF FinalizeRows
  <2>2. CASE j \in PendingOf(t)
    <3>1. interaction'[j].state \in {"EXPIRED", "CANCELLED"}
      BY Zenon, <1>0, <1>12, <2>2 DEF FinalizeRows, InteractionRow
    <3> QED
      BY Zenon, <3>1 DEF QuestionAgrees
  <2>3. CASE j \notin PendingOf(t)
    <3>1. interaction'[j] = interaction[j]
      BY Zenon, <1>12, <2>3 DEF FinalizeRows
    <3>2. interaction[j].state = "PENDING" => interaction[j].task # t
      BY Zenon, <1>0, <2>3 DEF PendingOf, QuestionAgrees
    <3> QED
      BY <1>0, <1>12, <2>1, <3>1, <3>2 DEF FinalizeRows, QuestionAgrees,
         Interactive, HasAttempt, RowsTypeOK
  <2> QED
    BY Zenon, <2>2, <2>3
<1>13. ASSUME Open
      PROVE  QuestionAgrees(j)'
  <2>1. /\ \A t \in Tasks : state'[t] = log[t].state \/ state'[t] = state[t]
        /\ UNCHANGED <<generation, cancel_requested, dispatch_phase, interaction, log>>
    BY Zenon, <1>0, <1>13 DEF Open
  <2> QED
    BY Zenon, <1>0, <2>1 DEF QuestionAgrees, Interactive, HasAttempt, RowsTypeOK
<1>14. ASSUME NEW i \in Interactions, DeadlinePasses(i)
      PROVE  QuestionAgrees(j)'
  <2>1. /\ interaction'[j].state = interaction[j].state
        /\ interaction'[j].task = interaction[j].task
        /\ interaction'[j].generation = interaction[j].generation
    BY Zenon, <1>0, <1>14 DEF DeadlinePasses, InteractionRow
  <2> QED
    BY Zenon, <1>0, <1>14, <2>1 DEF DeadlinePasses, QuestionAgrees, Interactive, HasAttempt,
       RowsTypeOK
<1>15. CASE UNCHANGED <<state, generation, cancel_requested, dispatch_phase, interaction, log>>
  BY Zenon, <1>0, <1>15 DEF QuestionAgrees, HasAttempt
<1>16. ASSUME \/ \E t \in Tasks : \/ RecordResumableSession(t) \/ ReviewAndAck(t)
                                 \/ RecoverSkip(t) \/ RecoverAbort(t)
                                 \/ RetryTimerElapses(t) \/ HandoffFails(t)
              \/ Serve \/ Crash \/ LatchEmergency \/ RecoverEmergency \/ UNCHANGED vars
      PROVE  UNCHANGED <<state, generation, cancel_requested, dispatch_phase, interaction, log>>
  BY Zenon, <1>16 DEF RecordResumableSession, ReviewAndAck, RecoverSkip, RecoverAbort,
               RetryTimerElapses, HandoffFails, Serve, Crash, LatchEmergency,
               RecoverEmergency, vars
<1>17. ASSUME ClientCall
      PROVE  QuestionAgrees(j)'
  BY ZenonT(60), <1>1, <1>2, <1>3, <1>4, <1>5, <1>6, <1>7, <1>8, <1>9, <1>10, <1>11, <1>12,
     <1>15, <1>16, <1>17
     DEF ClientCall, ScheduleSafeRetry, Transition, Finalize, Terminal
<1>18. ASSUME NEW t \in Tasks, RecoverRetry(t) \/ RecoverFinalize(t)
      PROVE  QuestionAgrees(j)'
  <2>1. CASE RecoverRetry(t)
    BY Zenon, <1>6, <2>1 DEF RecoverRetry
  <2>2. CASE RecoverFinalize(t) /\ state[t] = "FINALIZING"
    BY Zenon, <1>15, <2>2 DEF RecoverFinalize
  <2>3. CASE RecoverFinalize(t) /\ state[t] # "FINALIZING"
    BY Zenon, <1>11, <2>3 DEF RecoverFinalize
  <2> QED
    BY Zenon, <1>18, <2>1, <2>2, <2>3
<1>19. ASSUME NEW t \in Tasks, FinishHandoff(t)
      PROVE  QuestionAgrees(j)'
  <2>1. handoff[t] \in Terminal
    BY Zenon, <1>19 DEF FinishHandoff, StoreInvariant, TypeOK
  <2> QED
    BY Zenon, <1>12, <1>19, <2>1 DEF FinishHandoff
<1> QED
  BY Zenon, <1>13, <1>14, <1>15, <1>16, <1>17, <1>18, <1>19 DEF Next, Startup, Environment

\* What a step may do to a question: nothing, open it, decide it, answer it in
\* time, or let its deadline pass.
LEMMA QuestionStep ==
    ASSUME TypeOK, [Next]_vars, NEW j \in Interactions
    PROVE  \/ interaction'[j] = interaction[j]
           \/ /\ interaction[j].state = "NONE"
              /\ interaction'[j].state = "PENDING" /\ interaction'[j].response = "none"
           \/ /\ interaction[j].state = "PENDING" /\ ~interaction[j].due
              /\ interaction'[j].state = "ANSWERED" /\ interaction'[j].response # "none"
           \/ /\ interaction[j].state = "PENDING"
              /\ interaction'[j].state \in {"PENDING", "EXPIRED", "CANCELLED"}
              /\ interaction'[j].response = interaction[j].response
<1> DEFINE Kept == interaction'[j] = interaction[j]
           Opened == /\ interaction[j].state = "NONE"
                     /\ interaction'[j].state = "PENDING" /\ interaction'[j].response = "none"
           Answered == /\ interaction[j].state = "PENDING" /\ ~interaction[j].due
                       /\ interaction'[j].state = "ANSWERED" /\ interaction'[j].response # "none"
           Closed == /\ interaction[j].state = "PENDING"
                     /\ interaction'[j].state \in {"PENDING", "EXPIRED", "CANCELLED"}
                     /\ interaction'[j].response = interaction[j].response
<1> USE DEF ixVars
<1>0. interaction \in [Interactions -> InteractionRow] /\ interaction[j] \in InteractionRow
  BY Zenon DEF TypeOK, RowsTypeOK
<1>1. CASE UNCHANGED interaction
  BY Zenon, <1>1
<1>2. ASSUME NEW t \in Tasks, NEW i \in Interactions, OpenInteraction(t, i)
     PROVE  Kept \/ Opened
  BY Zenon, <1>0, <1>2 DEF OpenInteraction
<1>3. ASSUME NEW i \in Interactions, NEW kind \in ResponseKind, RespondInteraction(i, kind)
     PROVE  Kept \/ Answered
  BY Zenon, <1>0, <1>3 DEF RespondInteraction, Answerable, InteractionRow, ResponseKind
<1>4. ASSUME NEW i \in Interactions, NEW target, ExpireInteraction(i, target)
     PROVE  Kept \/ Closed
  BY Zenon, <1>0, <1>4 DEF ExpireInteraction, Expirable, InteractionRow
<1>5. ASSUME NEW t \in Tasks, RequestCancel(t)
     PROVE  Kept \/ Closed
  BY Zenon, <1>0, <1>5 DEF RequestCancel, PendingOf, InteractionRow
<1>6. ASSUME NEW t \in Tasks, NEW terminal, FinalizeRows(t, terminal)
     PROVE  Kept \/ Closed
  BY Zenon, <1>0, <1>6 DEF FinalizeRows, PendingOf, InteractionRow
<1>7. ASSUME NEW i \in Interactions, DeadlinePasses(i)
     PROVE  Kept \/ Closed
  BY Zenon, <1>0, <1>7 DEF DeadlinePasses, InteractionRow
<1>8. UNCHANGED interaction => Kept
  BY Zenon
<1> HIDE DEF Kept, Opened, Answered, Closed
<1>9. CASE ClientCall
  <2>1. Kept \/ Opened \/ Answered \/ Closed
    BY Zenon, <1>2, <1>3, <1>4, <1>5, <1>6, <1>8, <1>9 DEF ClientCall, Submit,
       ClaimDispatchSlot,
       ReclaimPreflightDispatchSlot, RecordAdapterEvent, RecordResumableSession,
       ReviewAndAck, RecordDispatchPhase, ScheduleSafeRetry, SafeRetryRows, Transition,
       ToFinalizing, Finalize
  <2> QED
    BY Zenon, <2>1 DEF Kept, Opened, Answered, Closed
<1>10. CASE Startup
  BY Zenon, <1>1, <1>10 DEF Startup, Open, Serve, RecoverSkip, RecoverRetry,
     SafeRetryRows,
     RecoverAbort, RecoverFinalize, ToFinalizing
<1>11. CASE Environment \/ \E t \in Tasks : FinishHandoff(t) \/ HandoffFails(t)
  <2>1. Kept \/ Closed
    BY Zenon, <1>6, <1>7, <1>8, <1>11 DEF Environment, Crash, LatchEmergency,
       RecoverEmergency, RetryTimerElapses, FinishHandoff, HandoffFails
  <2> QED
    BY Zenon, <2>1 DEF Kept, Closed
<1> QED
  BY Zenon, <1>1, <1>9, <1>10, <1>11 DEF Next, vars

\* Exactly the answered questions have an answer on record.
LEMMA AnswerRecordedPreserved ==
    ASSUME StoreInvariant, [Next]_vars, NEW j \in Interactions
    PROVE  AnswerRecorded(j)'
<1>1. TypeOK /\ AnswerRecorded(j)
  BY Zenon DEF StoreInvariant
<1> QED
  BY Zenon, <1>1, QuestionStep DEF AnswerRecorded

\* The daemon's control state (its mode, the work list of a startup and the
\* second half of a command) stays well formed.
LEMMA TypePreserved ==
    ASSUME TypeOK, [Next]_vars
    PROVE  TypeOK'
<1> USE DEF TypeOK, modeVars
<1>1. RowsTypeOK'
  BY Zenon, RowsTypePreserved
<1>2. ASSUME ClientCall
     PROVE  TypeOK'
  <2>1. ASSUME NEW i \in Interactions, NEW target \in {"NEEDS_ATTENTION", "CANCELLED"},
               ExpireInteraction(i, target)
        PROVE  TypeOK'
    BY Zenon, <1>1, <2>1 DEF ExpireInteraction, Terminal
  <2>2. CASE UNCHANGED <<modeVars, handoff, emergency>>
    BY Zenon, <1>1, <2>2
  <2> QED
    BY Zenon, <1>2, <2>1, <2>2 DEF ClientCall, Submit, ClaimDispatchSlot,
       ReclaimPreflightDispatchSlot,
       RecordAdapterEvent, RecordResumableSession, RequestCancel, ReviewAndAck,
       RecordDispatchPhase, ScheduleSafeRetry, OpenInteraction, RespondInteraction,
       Transition, Finalize
<1>3. ASSUME NEW t \in Tasks, RecoverSkip(t) \/ RecoverRetry(t) \/ RecoverAbort(t) \/ RecoverFinalize(t)
     PROVE  TypeOK'
  BY Zenon, <1>1, <1>3 DEF RecoverSkip, RecoverRetry, RecoverAbort, RecoverFinalize,
     Terminal
<1>4. ASSUME Open \/ Serve \/ \E t \in Tasks : FinishHandoff(t) \/ HandoffFails(t)
     PROVE  TypeOK'
  BY Zenon, <1>1, <1>4 DEF Open, Serve, FinishHandoff, HandoffFails
<1>5. ASSUME Environment \/ UNCHANGED vars
     PROVE  TypeOK'
  BY Zenon, <1>1, <1>5 DEF Environment, Crash, LatchEmergency, RecoverEmergency,
     DeadlinePasses,
     RetryTimerElapses, NoHandoff, vars
<1> QED
  BY Zenon, <1>2, <1>3, <1>4, <1>5 DEF Next, Startup

\* An empty store is well formed.
LEMMA TypeInitial ==
    ASSUME Init
    PROVE  TypeOK
<1>1. interaction \in [Interactions -> InteractionRow]
  BY Zenon DEF Init, InteractionRow
<1>2. log \in [Tasks -> LogSummary]
  BY Zenon DEF Init, LogSummary
<1> QED
  BY Zenon, <1>1, <1>2 DEF Init, TypeOK, RowsTypeOK, NoHandoff

\* Whatever state tasks are in, every row and the daemon's mode have their types.
THEOREM TypeCorrect == Spec => []TypeOK
<1>1. Init => TypeOK
  BY Zenon, TypeInitial
<1>2. TypeOK /\ [Next]_vars => TypeOK'
  BY Zenon, TypePreserved
<1> QED
  BY <1>1, <1>2, PTL DEF Spec

\* A client's command finds the daemon serving and leaves the control state
\* alone, except that an expiry owes its finalize.
LEMMA ClientCallControl ==
    ASSUME ClientCall
    PROVE  /\ mode = "SERVING" /\ handoff = NoHandoff
           /\ UNCHANGED modeVars
           /\ \/ handoff' = handoff
              \/ \E i \in Interactions, target \in {"NEEDS_ATTENTION", "CANCELLED"} :
                   ExpireInteraction(i, target)
  BY Zenon DEF Idle, ClientCall, Submit, ClaimDispatchSlot,
     ReclaimPreflightDispatchSlot,
     RecordAdapterEvent, RecordResumableSession, RequestCancel, ReviewAndAck,
     RecordDispatchPhase, ScheduleSafeRetry, OpenInteraction, RespondInteraction,
     ExpireInteraction, Transition, Finalize, modeVars

\* The second transaction of a command never finds its finalize refused.
LEMMA HandoffAgreesPreserved ==
    ASSUME StoreInvariant, [Next]_vars
    PROVE  HandoffAgrees'
<1>0. /\ TypeOK /\ RowsTypeOK /\ HandoffAgrees /\ TodoAgrees
      /\ \A t \in Tasks : TaskAgrees(t)
      /\ state \in [Tasks -> TaskState \cup {"ABSENT"}]
      /\ handoff \in [Tasks -> Terminal \cup {"none"}]
  BY Zenon DEF StoreInvariant, TypeOK, RowsTypeOK
<1>1. CASE handoff' = NoHandoff
  BY Zenon, <1>1 DEF HandoffAgrees, HandoffCommits, NoHandoff
<1>2. CASE UNCHANGED <<state, cancel_requested, mode, handoff>>
  BY Zenon, <1>0, <1>2 DEF HandoffAgrees, HandoffCommits, CanFinalize, NoHandoff
<1>3. ASSUME NEW t \in Tasks, NEW target \in Terminal, handoff = NoHandoff,
             handoff' = [handoff EXCEPT ![t] = target], mode' # "DOWN",
             state'[t] = "FINALIZING", cancel_requested'[t] => target = "CANCELLED"
     PROVE  HandoffAgrees'
  BY Zenon, <1>3 DEF HandoffAgrees, HandoffCommits, CanFinalize, Allows, NoHandoff, Terminal
<1>4. ASSUME NEW i \in Interactions, NEW target \in {"NEEDS_ATTENTION", "CANCELLED"},
             ExpireInteraction(i, target)
     PROVE  HandoffAgrees'
  <2>1. interaction[i].task \in Tasks /\ ~cancel_requested[interaction[i].task]
    BY Zenon, <1>4 DEF StoreInvariant, QuestionAgrees, ExpireInteraction, Expirable
  <2> QED
    BY Zenon, <1>0, <1>3, <1>4, <2>1 DEF ExpireInteraction, Idle, Terminal, modeVars
<1>5. ASSUME NEW t \in Tasks, RecoverFinalize(t)
     PROVE  HandoffAgrees'
  <2>1. state'[t] = "FINALIZING" /\ cancel_requested' = cancel_requested
    BY Zenon, <1>0, <1>5 DEF RecoverFinalize, ToFinalizing, taskVars
  <2>2. cancel_requested[t] => RecoveryDecision(t) = "FinalizeCancellation"
    <3>1. cancel_requested[t] => state[t] \in {"CANCEL_REQUESTED", "FINALIZING"}
      BY Zenon, <1>0, <1>5 DEF RecoverFinalize, Reconciling, TodoAgrees, Unsettled, Terminal,
         TaskAgrees, CancelAgrees, CancelPath
    <3> QED
      BY Zenon, <3>1 DEF RecoveryDecision, FinalizingDecision
  <2>3. PICK target \in {"NEEDS_ATTENTION", "CANCELLED"} :
          /\ handoff' = [handoff EXCEPT ![t] = target]
          /\ RecoveryDecision(t) = "FinalizeCancellation" => target = "CANCELLED"
    BY Zenon, <1>5 DEF RecoverFinalize
  <2>4. handoff = NoHandoff /\ mode' # "DOWN"
    BY Zenon, <1>5 DEF RecoverFinalize, Reconciling, modeVars
  <2> QED
    BY Zenon, <1>3, <2>1, <2>2, <2>3, <2>4 DEF Terminal
<1>6. ASSUME NEW t \in Tasks, FinishHandoff(t) \/ HandoffFails(t)
     PROVE  handoff' = NoHandoff
  BY Zenon, <1>0, <1>6 DEF FinishHandoff, HandoffFails, HandoffAgrees, HandoffCommits, NoHandoff
<1>7. CASE ClientCall
  BY Zenon, <1>1, <1>4, <1>7, ClientCallControl
<1>8. CASE Startup
  <2>1. ASSUME NEW t \in Tasks, RecoverSkip(t) \/ RecoverRetry(t) \/ RecoverAbort(t)
        PROVE  handoff' = NoHandoff
    BY Zenon, <2>1 DEF RecoverSkip, RecoverRetry, RecoverAbort, Reconciling
  <2>2. ASSUME Open \/ Serve
        PROVE  handoff' = NoHandoff
    BY Zenon, <1>0, <2>2 DEF Open, Serve, HandoffAgrees
  <2> QED
    BY Zenon, <1>1, <1>5, <1>8, <2>1, <2>2 DEF Startup
<1>9. CASE Environment
  BY Zenon, <1>1, <1>2, <1>9 DEF Environment, Crash, LatchEmergency, RecoverEmergency,
     DeadlinePasses, RetryTimerElapses, taskVars, modeVars
<1> QED
  BY Zenon, <1>1, <1>2, <1>6, <1>7, <1>8, <1>9 DEF Next, vars, taskVars, modeVars

\* Startup visits no ended task.
LEMMA TodoAgreesPreserved ==
    ASSUME StoreInvariant, [Next]_vars
    PROVE  TodoAgrees'
<1>0. /\ TodoAgrees /\ todo \in SUBSET Tasks
      /\ state \in [Tasks -> TaskState \cup {"ABSENT"}]
  BY Zenon DEF StoreInvariant, TypeOK, RowsTypeOK
<1>1. CASE todo' = {}
  BY Zenon, <1>1 DEF TodoAgrees
<1>2. CASE UNCHANGED <<state, mode, todo>>
  BY Zenon, <1>0, <1>2 DEF TodoAgrees
<1>3. ASSUME NEW t \in Tasks, NEW s, todo' = todo \ {t}, mode' = mode,
             state' = [state EXCEPT ![t] = s]
     PROVE  TodoAgrees'
  BY Zenon, <1>0, <1>3 DEF TodoAgrees
<1>4. CASE ClientCall
  BY Zenon, <1>0, <1>1, <1>4, ClientCallControl DEF TodoAgrees, modeVars
<1>5. CASE Open
  BY Zenon, <1>0, <1>5 DEF Open, TodoAgrees
<1>6. ASSUME NEW t \in Tasks, RecoverSkip(t) \/ RecoverRetry(t) \/ FinishHandoff(t)
     PROVE  TodoAgrees'
  <2>1. CASE RecoverSkip(t)
    BY Zenon, <1>0, <2>1 DEF RecoverSkip, TodoAgrees, taskVars
  <2>2. CASE RecoverRetry(t)
    BY Zenon, <1>3, <2>2 DEF RecoverRetry, SafeRetryRows
  <2>3. CASE FinishHandoff(t)
    BY Zenon, <1>3, <2>3 DEF FinishHandoff, FinalizeRows
  <2> QED
    BY Zenon, <1>6, <2>1, <2>2, <2>3
<1>7. ASSUME NEW t \in Tasks, RecoverFinalize(t)
     PROVE  TodoAgrees'
  <2>1. CASE state[t] = "FINALIZING"
    BY Zenon, <1>2, <1>7, <2>1 DEF RecoverFinalize, taskVars, modeVars
  <2>2. CASE state[t] # "FINALIZING"
    BY Zenon, <1>0, <1>7, <2>2 DEF RecoverFinalize, ToFinalizing, TodoAgrees, Unsettled,
       Terminal, modeVars
  <2> QED
    BY Zenon, <2>1, <2>2
<1>8. ASSUME Serve \/ Environment \/ \E t \in Tasks : RecoverAbort(t) \/ HandoffFails(t)
     PROVE  todo' = {} \/ UNCHANGED <<state, mode, todo>>
  BY Zenon, <1>8 DEF Serve, Environment, RecoverAbort, HandoffFails, Crash, LatchEmergency,
     RecoverEmergency,
     DeadlinePasses, RetryTimerElapses, taskVars, modeVars
<1> QED
  BY Zenon, <1>1, <1>2, <1>4, <1>5, <1>6, <1>7, <1>8 DEF Next, Startup, vars, taskVars, modeVars

\* The store is sound after every operation, crash and restart.
THEOREM StoreIsSound == Spec => []StoreInvariant
<1>1. Init => StoreInvariant
  <2> SUFFICES ASSUME Init PROVE StoreInvariant
    BY Zenon
  <2>1. TypeOK
    BY Zenon, TypeInitial
  <2>2. \A t \in Tasks : TaskAgrees(t)
    BY Zenon DEF Init, TaskAgrees, LogAgrees, CancelAgrees, EvidenceAgrees,
       TerminalTuple,
       Terminal, Started
  <2>3. \A i \in Interactions : QuestionAgrees(i) /\ AnswerRecorded(i)
    BY Zenon DEF Init, QuestionAgrees, AnswerRecorded
  <2>4. HandoffAgrees /\ TodoAgrees
    BY Zenon DEF Init, HandoffAgrees, HandoffCommits, NoHandoff, TodoAgrees
  <2> QED
    BY Zenon, <2>1, <2>2, <2>3, <2>4 DEF StoreInvariant
<1>2. ASSUME StoreInvariant, [Next]_vars
      PROVE  StoreInvariant'
  <2>1. TypeOK'
    BY Zenon, <1>2, TypePreserved DEF StoreInvariant
  <2>2. \A t \in Tasks : TaskAgrees(t)'
    BY Zenon, <1>2, TaskAgreesPreserved
  <2>3. \A i \in Interactions : QuestionAgrees(i)' /\ AnswerRecorded(i)'
    BY Zenon, <1>2, QuestionAgreesPreserved, AnswerRecordedPreserved
  <2>4. HandoffAgrees' /\ TodoAgrees'
    BY Zenon, <1>2, HandoffAgreesPreserved, TodoAgreesPreserved
  <2> QED
    BY Zenon, <2>1, <2>2, <2>3, <2>4 DEF StoreInvariant
<1> QED
  BY <1>1, <1>2, PTL DEF Spec

\* No crash and no sequence of operations leaves a store that the next start
\* quarantines (integrity_check, replay_projections).
THEOREM StoreAlwaysOpens == Spec => []NeverQuarantined
<1>1. StoreInvariant => NeverQuarantined
  BY Zenon DEF StoreInvariant, TaskAgrees, LogAgrees, NeverQuarantined, Quarantined
<1> QED
  BY <1>1, StoreIsSound, PTL

\* A cancel request that was committed is never lost (request_cancel, finalize,
\* reconcile_nonterminal).
THEOREM CancelSurvives == Spec => []CancelIsDurable
<1>1. StoreInvariant => CancelIsDurable
  BY Zenon DEF StoreInvariant, TaskAgrees, CancelAgrees, CancelPath, CancelIsDurable
<1> QED
  BY <1>1, StoreIsSound, PTL

\* The finalize that follows an expiry's or a recovery's first transaction is
\* accepted.
THEOREM HandoffIsAccepted == Spec => []HandoffCommits
<1>1. StoreInvariant => HandoffCommits
  BY Zenon DEF StoreInvariant, HandoffAgrees
<1> QED
  BY <1>1, StoreIsSound, PTL

\* An open question belongs to the live attempt (open_interaction,
\* request_cancel, finalize).
THEOREM QuestionsAreLive == Spec => []PendingBelongsToAttempt
<1>1. StoreInvariant => PendingBelongsToAttempt
  BY Zenon DEF StoreInvariant, QuestionAgrees, Interactive, PendingBelongsToAttempt
<1> QED
  BY <1>1, StoreIsSound, PTL

\* What every step may do to a task's generation and evidence.
LEMMA EvidenceStep ==
    ASSUME StoreInvariant, [Next]_vars, NEW t \in Tasks,
           dispatch_phase[t] \in Started \/ last_answer[t] # "none"
    PROVE  /\ generation'[t] = generation[t]
           /\ dispatch_phase[t] \in Started => dispatch_phase'[t] \in Started
<1> USE DEF taskVars, attemptVars, ixVars
<1>0. /\ RowsTypeOK /\ state[t] \notin BeforeEffect
  BY Zenon DEF StoreInvariant, TypeOK, TaskAgrees, EvidenceAgrees
<1>1. CASE UNCHANGED <<generation, dispatch_phase>>
  BY Zenon, <1>1
<1>2. ASSUME NEW u \in Tasks, ClaimDispatchSlot(u)
     PROVE  generation' = generation /\ dispatch_phase'[t] = dispatch_phase[t]
  BY Zenon, <1>0, <1>2 DEF ClaimDispatchSlot, CanClaim, Ready, RowsTypeOK, BeforeEffect
<1>3. ASSUME NEW u \in Tasks, NEW p \in DispatchPhase, NEW receipt \in BOOLEAN,
             RecordDispatchPhase(u, p, receipt)
     PROVE  /\ generation' = generation
            /\ dispatch_phase[t] \in Started => dispatch_phase'[t] \in Started
  BY Zenon, <1>0, <1>3 DEF RecordDispatchPhase, PhaseAccepted, CanAdvanceTo, Started,
     RowsTypeOK
<1>4. ASSUME NEW u \in Tasks, NEW due \in BOOLEAN, CanRetry(u), SafeRetryRows(u, due)
     PROVE  generation'[t] = generation[t] /\ dispatch_phase'[t] = dispatch_phase[t]
  BY Zenon, <1>0, <1>4 DEF SafeRetryRows, CanRetry, RowsTypeOK, BeforeEffect
<1>5. CASE ClientCall
  BY ZenonT(30), <1>1, <1>2, <1>3, <1>4, <1>5 DEF ClientCall, Submit,
     ReclaimPreflightDispatchSlot,
     RecordAdapterEvent, RecordResumableSession, RequestCancel, ReviewAndAck,
     ScheduleSafeRetry, OpenInteraction, RespondInteraction, ExpireInteraction,
     Transition, ToFinalizing, Finalize, FinalizeRows
<1>6. CASE Startup
  BY Zenon, <1>1, <1>4, <1>6 DEF Startup, Open, Serve, RecoverSkip, RecoverRetry,
     RecoverAbort,
     RecoverFinalize, ToFinalizing
<1>7. CASE Environment \/ \E u \in Tasks : FinishHandoff(u) \/ HandoffFails(u)
  BY Zenon, <1>1, <1>7 DEF Environment, Crash, LatchEmergency, RecoverEmergency, DeadlinePasses,
     RetryTimerElapses, FinishHandoff, HandoffFails, FinalizeRows
<1> QED
  BY Zenon, <1>1, <1>5, <1>6, <1>7 DEF Next, vars

\* Adapter code that may have run is never run again by an automatic retry
\* (schedule_safe_retry, record_dispatch_phase).
THEOREM NoRetryAfterStart == Spec => StartedIsNeverRetried
<1>1. StoreInvariant /\ [Next]_vars =>
        [\A t \in Tasks : dispatch_phase[t] \in Started =>
           generation'[t] = generation[t] /\ dispatch_phase'[t] \in Started]_vars
  BY Zenon, EvidenceStep
<1> QED
  BY <1>1, StoreIsSound, PTL DEF Spec, StartedIsNeverRetried

\* An answer is never forgotten by a retry (respond_interaction,
\* reconcile_nonterminal).
THEOREM NoRetryAfterAnswer == Spec => AnsweredIsNeverRetried
<1>1. StoreInvariant /\ [Next]_vars =>
        [\A t \in Tasks : last_answer[t] # "none" => generation'[t] = generation[t]]_vars
  BY Zenon, EvidenceStep
<1> QED
  BY <1>1, StoreIsSound, PTL DEF Spec, AnsweredIsNeverRetried

\* What a step may do to an ended task: nothing that a client could see.
LEMMA TerminalStep ==
    ASSUME StoreInvariant, [Next]_vars, NEW t \in Tasks, state[t] \in Terminal
    PROVE  state'[t] = state[t] /\ log'[t] = log[t]
<1> USE DEF taskVars
<1>0. /\ RowsTypeOK /\ LogAgrees(t)
      /\ log \in [Tasks -> LogSummary]
      /\ state \in [Tasks -> TaskState \cup {"ABSENT"}]
  BY Zenon DEF StoreInvariant, TypeOK, RowsTypeOK, TaskAgrees
<1>1. CASE UNCHANGED <<state, log>>
  BY Zenon, <1>1
<1>2. ASSUME NEW u \in Tasks, u # t, NEW s, state' = [state EXCEPT ![u] = s] \/ state' = state,
             NEW g, NEW kind, NEW payload, AppendEvent(u, g, kind, payload)
     PROVE  state'[t] = state[t] /\ log'[t] = log[t]
  BY Zenon, <1>0, <1>2 DEF AppendEvent
<1>3. ASSUME NEW u \in Tasks, NEW parent, Submit(u, parent)
     PROVE  state'[t] = state[t] /\ log'[t] = log[t]
  BY Zenon, <1>2, <1>3 DEF Submit, Terminal
<1>4. ASSUME NEW u \in Tasks, ClaimDispatchSlot(u)
     PROVE  state'[t] = state[t] /\ log'[t] = log[t]
  BY Zenon, <1>2, <1>4 DEF ClaimDispatchSlot, CanClaim, Ready, Terminal
<1>5. ASSUME NEW u \in Tasks, ReclaimPreflightDispatchSlot(u)
     PROVE  state'[t] = state[t] /\ log'[t] = log[t]
  BY Zenon, <1>2, <1>5 DEF ReclaimPreflightDispatchSlot, Terminal
<1>6. ASSUME NEW u \in Tasks, NEW p, NEW receipt, RecordDispatchPhase(u, p, receipt)
     PROVE  state'[t] = state[t] /\ log'[t] = log[t]
  BY Zenon, <1>2, <1>6 DEF RecordDispatchPhase, PhaseAccepted, Terminal
<1>7. ASSUME NEW u \in Tasks, RecordAdapterEvent(u)
     PROVE  state'[t] = state[t] /\ log'[t] = log[t]
  BY Zenon, <1>2, <1>7 DEF RecordAdapterEvent, AdapterEventAccepted, Terminal
<1>8. ASSUME NEW u \in Tasks, NEW due, CanRetry(u), SafeRetryRows(u, due)
     PROVE  state'[t] = state[t] /\ log'[t] = log[t]
  BY Zenon, <1>2, <1>8 DEF SafeRetryRows, CanRetry, Terminal
<1>9. ASSUME NEW u \in Tasks, NEW i \in Interactions, OpenInteraction(u, i)
     PROVE  state'[t] = state[t] /\ log'[t] = log[t]
  BY Zenon, <1>2, <1>9 DEF OpenInteraction, Terminal
<1>10. ASSUME NEW i \in Interactions, interaction[i].state = "PENDING"
      PROVE  interaction[i].task \in Tasks /\ interaction[i].task # t
  BY Zenon, <1>10 DEF StoreInvariant, QuestionAgrees, Interactive, Terminal
<1>11. ASSUME NEW i \in Interactions, NEW kind, RespondInteraction(i, kind)
      PROVE  state'[t] = state[t] /\ log'[t] = log[t]
  BY Zenon, <1>2, <1>10, <1>11 DEF RespondInteraction, Answerable
<1>12. ASSUME NEW i \in Interactions, NEW target, ExpireInteraction(i, target)
      PROVE  state'[t] = state[t] /\ log'[t] = log[t]
  BY Zenon, <1>2, <1>10, <1>12 DEF ExpireInteraction, Expirable
<1>13. ASSUME NEW u \in Tasks, RequestCancel(u)
      PROVE  state'[t] = state[t] /\ log'[t] = log[t]
  BY Zenon, <1>2, <1>13 DEF RequestCancel, Cancellable, Allows, Terminal
<1>14. ASSUME NEW u \in Tasks, NEW from, ToFinalizing(u, from)
      PROVE  state'[t] = state[t] /\ log'[t] = log[t]
  BY Zenon, <1>2, <1>14 DEF ToFinalizing, CanFinalizing, Allows, Terminal
<1>15. ASSUME NEW u \in Tasks, NEW terminal, FinalizeRows(u, terminal)
      PROVE  state'[t] = state[t] /\ log'[t] = log[t]
  BY Zenon, <1>2, <1>15 DEF FinalizeRows, CanFinalize, Allows, Terminal
<1>16. CASE Open
  BY Zenon, <1>0, <1>16 DEF Open, LogAgrees
<1>17. CASE ClientCall
  BY ZenonT(60), <1>1, <1>3, <1>4, <1>5, <1>6, <1>7, <1>8, <1>9, <1>11, <1>12, <1>13,
     <1>14, <1>15, <1>17
     DEF ClientCall, RecordResumableSession, ReviewAndAck, ScheduleSafeRetry, Transition, Finalize
<1>18. CASE Startup
  BY Zenon, <1>1, <1>8, <1>14, <1>16, <1>18 DEF Startup, Serve, RecoverSkip, RecoverRetry,
     RecoverAbort, RecoverFinalize
<1>19. CASE Environment \/ \E u \in Tasks : FinishHandoff(u) \/ HandoffFails(u)
  BY Zenon, <1>1, <1>15, <1>19 DEF Environment, Crash, LatchEmergency, RecoverEmergency,
     DeadlinePasses, RetryTimerElapses, FinishHandoff, HandoffFails
<1> QED
  BY Zenon, <1>1, <1>17, <1>18, <1>19 DEF Next, vars

\* An ended task keeps its state and its log (finalize, replay_projections).
THEOREM TerminalStays == Spec => TerminalIsFinal
<1>1. StoreInvariant /\ [Next]_vars =>
        [\A t \in Tasks : state[t] \in Terminal =>
           state'[t] = state[t] /\ log'[t] = log[t]]_vars
  BY Zenon, TerminalStep
<1> QED
  BY <1>1, StoreIsSound, PTL DEF Spec, TerminalIsFinal

\* A question is decided once, and never answered after its deadline
\* (respond_interaction, expire_interaction).
THEOREM QuestionsAreOneShot == Spec => AnsweredOnce
<1>1. TypeOK /\ [Next]_vars =>
        [\A i \in Interactions :
           /\ interaction[i].state \notin {"NONE", "PENDING"} => interaction'[i] = interaction[i]
           /\ interaction[i].due => interaction'[i].state # "ANSWERED"
                                    \/ interaction[i].state = "ANSWERED"]_vars
  BY Zenon, QuestionStep
<1> QED
  BY <1>1, TypeCorrect, PTL DEF Spec, AnsweredOnce

-----------------------------------------------------------------------------
(* The dispatch limits.                                                    *)

\* No cancellation has been answered.
Unanswered(t) == last_answer[t] = "none"
\* The task is in a state that needs a slot.
Working(t) == Unanswered(t) /\ state[t] \in {"PREPARING", "RUNNING"}

\* An attempt that may have run keeps its slot until it ends or is answered,
\* whatever a restart does to the task's state.
KeepsSlot(t) == Unanswered(t) /\ dispatch_phase[t] \in Started /\ state[t] \notin Terminal

\* The tasks that the limits count.
Counted(t) == KeepsSlot(t) \/ (mode = "SERVING" /\ Working(t))

\* All of them.
Load == {t \in Tasks : Counted(t)}

\* A set of tasks within both limits.
Within(S) ==
    /\ Cardinality(S) <= GlobalLimit
    /\ \A a \in Adapters : Cardinality({t \in S : AdapterOf[t] = a}) <= AdapterLimit

\* The submitted tasks.
Known == {t \in Tasks : state[t] # "ABSENT"}

\* A task's phase, attempt and state agree on its slot, also half way through a
\* recovery.
SlotAgrees(t) ==
    /\ resume_proof[t] => dispatch_phase[t] \in Started
    /\ mode = "SERVING" /\ Working(t) => HasAttempt(t)
    /\ mode = "RECOVERING" /\ t \notin todo /\ Working(t) => dispatch_phase[t] \in Started

\* The inductive invariant, beside StoreInvariant.
LoadInvariant ==
    /\ \A t \in Tasks : SlotAgrees(t)
    /\ IsFiniteSet(Known) /\ Within(Load)

\* What a step may do to one task's claim on a slot.
SlotStep(u) ==
    /\ Counted(u)' => \/ Counted(u)
                      \/ ClaimDispatchSlot(u)
                      \/ ReclaimPreflightDispatchSlot(u) /\ state[u] = "WAITING_APPROVAL"
    /\ SlotAgrees(u)'
    /\ state'[u] # "ABSENT" => state[u] # "ABSENT" \/ \E parent : Submit(u, parent)

\* The task is left alone.
Stays(u) ==
    /\ state'[u] = state[u] /\ last_answer'[u] = last_answer[u]
    /\ dispatch_phase'[u] = dispatch_phase[u] /\ resume_proof'[u] = resume_proof[u]

\* A task that is left alone keeps its slot or its lack of one.
LEMMA StaysStep ==
    ASSUME NEW u \in Tasks, SlotAgrees(u), Stays(u), mode' = mode, todo' = todo
    PROVE  SlotStep(u)
  BY Zenon DEF SlotAgrees, Stays, SlotStep, Counted, KeepsSlot, Working, Unanswered, HasAttempt

\* The task goes on to a state in which it does not work.
LEMMA RestsStep ==
    ASSUME NEW u \in Tasks, SlotAgrees(u), state[u] \notin Terminal, state[u] # "ABSENT",
           state'[u] \notin {"PREPARING", "RUNNING"},
           Unanswered(u)' => Unanswered(u),
           dispatch_phase'[u] = dispatch_phase[u], resume_proof'[u] = resume_proof[u]
    PROVE  SlotStep(u)
  BY Zenon DEF SlotAgrees, SlotStep, Counted, KeepsSlot, Working, Unanswered

\* The calls of clients, dispatchers and approvals.
LEMMA ClientSlots ==
    ASSUME StoreInvariant, ClientCall, NEW u \in Tasks, SlotAgrees(u)
    PROVE  SlotStep(u)
<1> USE DEF taskVars, attemptVars, ixVars
<1>0. /\ DOMAIN state = Tasks /\ DOMAIN last_answer = Tasks /\ DOMAIN dispatch_phase = Tasks
      /\ DOMAIN resume_proof = Tasks /\ UNCHANGED <<mode, todo>> /\ mode = "SERVING"
  BY Zenon, ClientCallControl DEF StoreInvariant, TypeOK, RowsTypeOK, modeVars
<1>1. CASE Stays(u)
  BY Zenon, <1>0, <1>1, StaysStep
<1>2. ASSUME NEW t \in Tasks, NEW parent, Submit(t, parent)
      PROVE  SlotStep(u)
  <2>1. t # u => Stays(u)
    BY ZenonT(60), <1>0, <1>2 DEF Submit, Stays
  <2>2. CASE t = u
    BY <1>0, <1>2, <2>2 DEF Submit, SlotStep, SlotAgrees, Counted, KeepsSlot, Working, Unanswered, Terminal
  <2>3. QED
    BY Zenon, <1>1, <2>1, <2>2
<1>3. ASSUME NEW t \in Tasks, ClaimDispatchSlot(t)
      PROVE  SlotStep(u)
  <2>1. t # u => Stays(u)
    BY Zenon, <1>0, <1>3 DEF ClaimDispatchSlot, Stays
  <2>2. CASE t = u
    <3>1. /\ state'[u] = "PREPARING" /\ dispatch_phase'[u] = "PRE_DISPATCH" /\ ~resume_proof'[u]
          /\ state[u] # "ABSENT"
      BY <1>0, <1>3, <2>2, Zenon DEF ClaimDispatchSlot, CanClaim, Ready
    <3>2. QED
      BY Zenon, <1>0, <1>3, <2>2, <3>1 DEF SlotStep, SlotAgrees, HasAttempt
  <2>3. QED
    BY Zenon, <1>1, <2>1, <2>2
<1>4. ASSUME NEW t \in Tasks, ReclaimPreflightDispatchSlot(t)
      PROVE  SlotStep(u)
  <2>1. t # u => Stays(u)
    BY Zenon, <1>0, <1>4 DEF ReclaimPreflightDispatchSlot, Stays
  <2>2. CASE t = u
    <3>1. /\ state[u] \in {"RUNNING", "WAITING_APPROVAL"} /\ state'[u] \in {"RUNNING", "WAITING_APPROVAL"}
          /\ state'[u] # state[u] /\ dispatch_phase[u] \in EffectProvenAbsent
          /\ UNCHANGED <<last_answer, dispatch_phase, resume_proof>>
      BY Zenon, <1>0, <1>4, <2>2 DEF ReclaimPreflightDispatchSlot
    <3>2. QED
      BY Zenon, <1>0, <1>4, <2>2, <3>1 DEF SlotStep, SlotAgrees, HasAttempt, Counted, KeepsSlot, Working,
                                    Unanswered, EffectProvenAbsent, Started, Terminal
  <2>3. QED
    BY Zenon, <1>1, <2>1, <2>2
<1>5. ASSUME NEW t \in Tasks, NEW p \in DispatchPhase, NEW receipt \in BOOLEAN,
             RecordDispatchPhase(t, p, receipt)
      PROVE  SlotStep(u)
  <2>1. t # u => Stays(u)
    BY Zenon, <1>0, <1>5 DEF RecordDispatchPhase, Stays
  <2>2. CASE t = u
    <3>1. /\ state[u] \in {"PREPARING", "RUNNING"} /\ state'[u] \in {"PREPARING", "RUNNING"}
          /\ dispatch_phase'[u] = p /\ UNCHANGED <<last_answer, resume_proof>>
          /\ dispatch_phase[u] \in Started => p \in Started
      BY Zenon, <1>0, <1>5, <2>2 DEF RecordDispatchPhase, PhaseAccepted, CanAdvanceTo, Started
    <3>2. QED
      BY Zenon, <1>0, <2>2, <3>1 DEF SlotStep, SlotAgrees, HasAttempt, Counted, KeepsSlot, Working,
                              Unanswered, DispatchPhase
  <2>3. QED
    BY Zenon, <1>1, <2>1, <2>2
<1>6. ASSUME NEW t \in Tasks, RecordResumableSession(t)
      PROVE  SlotStep(u)
  <2>1. t # u => Stays(u)
    BY Zenon, <1>0, <1>6 DEF RecordResumableSession, Stays
  <2>2. CASE t = u
    BY Zenon, <1>0, <1>6, <2>2 DEF RecordResumableSession, SlotStep, SlotAgrees, HasAttempt, Counted,
                            KeepsSlot, Working, Unanswered, Started
  <2>3. QED
    BY Zenon, <1>1, <2>1, <2>2
<1>7. ASSUME NEW t \in Tasks, NEW due \in BOOLEAN, ScheduleSafeRetry(t, due)
      PROVE  SlotStep(u)
  <2>1. t # u => Stays(u)
    BY Zenon, <1>0, <1>7 DEF ScheduleSafeRetry, SafeRetryRows, Stays
  <2>2. CASE t = u
    <3>1. /\ state'[u] = "RETRY_WAIT" /\ dispatch_phase'[u] = "NONE" /\ ~resume_proof'[u]
          /\ state[u] # "ABSENT"
      BY Zenon, <1>0, <1>7, <2>2 DEF ScheduleSafeRetry, SafeRetryRows, CanRetry
    <3>2. QED
      BY Zenon, <3>1 DEF SlotStep, SlotAgrees, Counted, KeepsSlot, Working, Started
  <2>3. QED
    BY Zenon, <1>1, <2>1, <2>2
<1>8. ASSUME NEW t \in Tasks, NEW i \in Interactions, OpenInteraction(t, i)
      PROVE  SlotStep(u)
  <2>1. t # u => Stays(u)
    BY Zenon, <1>0, <1>8 DEF OpenInteraction, Stays
  <2>2. CASE t = u
    BY Zenon, <1>0, <1>8, <2>2, RestsStep DEF OpenInteraction, Unanswered, Terminal
  <2>3. QED
    BY Zenon, <1>1, <2>1, <2>2
<1>9. ASSUME NEW i \in Interactions, NEW kind \in ResponseKind, RespondInteraction(i, kind)
      PROVE  SlotStep(u)
  <2> DEFINE t == interaction[i].task
  <2>1. t \in Tasks /\ interaction[i].generation = generation[t] /\ state[t] \in Interactive
    BY Zenon, <1>9 DEF RespondInteraction, Answerable, StoreInvariant, QuestionAgrees
  <2>2. t # u => Stays(u)
    BY Zenon, <1>0, <1>9 DEF RespondInteraction, Stays
  <2>3. CASE t = u
    <3>1. last_answer'[u] = kind /\ kind # "none" /\ UNCHANGED <<dispatch_phase, resume_proof>>
      BY Zenon, <1>0, <1>9, <2>1, <2>3 DEF RespondInteraction, ResponseKind
    <3>2. QED
      BY Zenon, <2>1, <2>3, <3>1 DEF SlotStep, SlotAgrees, Counted, KeepsSlot, Working, Unanswered, Interactive
  <2>4. QED
    BY Zenon, <1>1, <2>2, <2>3
<1>10. ASSUME NEW i \in Interactions, NEW target, ExpireInteraction(i, target)
      PROVE  SlotStep(u)
  <2> DEFINE t == interaction[i].task
  <2>1. t # u => Stays(u)
    BY Zenon, <1>0, <1>10 DEF ExpireInteraction, Stays
  <2>2. CASE t = u
    BY <1>0, <1>10, <2>2, RestsStep DEF ExpireInteraction, Expirable, Unanswered, Terminal
  <2>3. QED
    BY Zenon, <1>1, <2>1, <2>2
<1>11. ASSUME NEW t \in Tasks, RequestCancel(t)
      PROVE  SlotStep(u)
  <2>1. t # u => Stays(u)
    BY Zenon, <1>0, <1>11 DEF RequestCancel, Stays
  <2>2. CASE t = u
    BY <1>0, <1>11, <2>2, RestsStep DEF RequestCancel, Cancellable, Allows, Unanswered, Terminal
  <2>3. QED
    BY Zenon, <1>1, <2>1, <2>2
<1>12. ASSUME NEW t \in Tasks, NEW from, Transition(t, from)
      PROVE  SlotStep(u)
  <2>1. t # u => Stays(u)
    BY Zenon, <1>0, <1>12 DEF Transition, ToFinalizing, Stays
  <2>2. CASE t = u
    BY Zenon, <1>0, <1>12, <2>2, RestsStep DEF Transition, ToFinalizing, CanFinalizing, Allows, Unanswered,
                                        Terminal
  <2>3. QED
    BY Zenon, <1>1, <2>1, <2>2
<1>13. ASSUME NEW t \in Tasks, NEW terminal \in Terminal, Finalize(t, terminal)
      PROVE  SlotStep(u)
  <2>1. t # u => Stays(u)
    BY Zenon, <1>0, <1>13 DEF Finalize, FinalizeRows, Stays
  <2>2. CASE t = u
    BY Zenon, <1>0, <1>13, <2>2, RestsStep DEF Finalize, FinalizeRows, CanFinalize, Allows, Unanswered,
                                        Terminal
  <2>3. QED
    BY Zenon, <1>1, <2>1, <2>2
<1>14. ASSUME NEW t \in Tasks, RecordAdapterEvent(t) \/ ReviewAndAck(t)
      PROVE  SlotStep(u)
  BY Zenon, <1>1, <1>14 DEF RecordAdapterEvent, ReviewAndAck, Stays
<1>15. QED
  BY SMTT(60), <1>2, <1>3, <1>4, <1>5, <1>6, <1>7, <1>8, <1>9, <1>10, <1>11, <1>12, <1>13, <1>14 DEF ClientCall

\* The rows of the task stay, and it is no longer served: nothing more is counted.
LEMMA UnservedStep ==
    ASSUME NEW u \in Tasks, SlotAgrees(u), Stays(u), mode' = "DOWN"
    PROVE  SlotStep(u)
  BY Zenon DEF SlotAgrees, Stays, SlotStep, Counted, KeepsSlot, Working, Unanswered

\* The steps of the recovery after a start.
LEMMA StartupSlots ==
    ASSUME StoreInvariant, Startup, NEW u \in Tasks, \A t \in Tasks : SlotAgrees(t)
    PROVE  SlotStep(u)
<1> USE DEF taskVars, attemptVars, ixVars, modeVars
<1>0. /\ DOMAIN state = Tasks /\ DOMAIN last_answer = Tasks /\ DOMAIN dispatch_phase = Tasks
      /\ DOMAIN resume_proof = Tasks /\ SlotAgrees(u)
  BY Zenon DEF StoreInvariant, TypeOK, RowsTypeOK
<1>1. CASE Open
  <2>1. /\ state'[u] = IF Replayed(u) THEN log[u].state ELSE state[u]
        /\ mode' = "RECOVERING" /\ todo' = {t \in Tasks : Unsettled(state'[t])}
        /\ UNCHANGED <<last_answer, dispatch_phase, resume_proof>>
    BY Zenon, <1>1 DEF Open
  <2>2. LogAgrees(u)
    BY Zenon DEF StoreInvariant, TaskAgrees
  <2>3. /\ state'[u] \in Terminal <=> state[u] \in Terminal
        /\ state'[u] # "ABSENT" => state[u] # "ABSENT"
    BY Zenon, <2>1, <2>2 DEF LogAgrees, Replayed
  <2>4. u \notin todo' => state'[u] \notin {"PREPARING", "RUNNING"}
    BY Zenon, <2>1 DEF Unsettled, Terminal
  <2>5. QED
    BY Zenon, <1>0, <2>1, <2>3, <2>4 DEF SlotStep, SlotAgrees, Counted, KeepsSlot, Working, Unanswered
<1>2. CASE Serve
  <2>1. Stays(u) /\ mode = "RECOVERING" /\ mode' = "SERVING" /\ u \notin todo
    BY Zenon, <1>2 DEF Serve, Stays
  <2>2. Working(u) => dispatch_phase[u] \in Started
    BY Zenon, <1>0, <2>1 DEF SlotAgrees
  <2>3. Working(u)' => Working(u)
    BY Zenon, <2>1 DEF Working, Stays, Unanswered
  <2>4. QED
    BY Zenon, <1>0, <2>1, <2>2, <2>3 DEF SlotStep, SlotAgrees, Counted, KeepsSlot, Working, Unanswered, Stays,
                                  HasAttempt, Started, Terminal
<1>3. ASSUME NEW t \in Tasks, RecoverSkip(t)
      PROVE  SlotStep(u)
  <2>1. Stays(u) /\ mode = "RECOVERING" /\ mode' = "RECOVERING" /\ todo' = todo \ {t}
    BY Zenon, <1>3 DEF RecoverSkip, Reconciling, Stays
  <2>2. CASE t # u
    BY Zenon, <1>0, <2>1, <2>2 DEF SlotStep, SlotAgrees, Counted, KeepsSlot, Working, Unanswered, Stays
  <2>3. CASE t = u
    <3>1. Working(u) => dispatch_phase[u] \in Started
      BY Zenon, <1>0, <1>3, <2>3 DEF RecoverSkip, RecoveryDecision, FinalizingDecision, Working, Unanswered, SlotAgrees
    <3>2. QED
      BY Zenon, <1>0, <2>1, <3>1 DEF SlotStep, SlotAgrees, Counted, KeepsSlot, Working, Unanswered, Stays
  <2>4. QED
    BY Zenon, <2>2, <2>3
<1>4. ASSUME NEW t \in Tasks, RecoverRetry(t)
      PROVE  SlotStep(u)
  <2>1. mode = "RECOVERING" /\ mode' = "RECOVERING" /\ todo' = todo \ {t}
    BY Zenon, <1>4 DEF RecoverRetry, Reconciling
  <2>2. CASE t # u
    <3>1. Stays(u)
      BY Zenon, <1>0, <1>4, <2>2 DEF RecoverRetry, SafeRetryRows, Stays
    <3>2. QED
      BY Zenon, <1>0, <2>1, <2>2, <3>1 DEF SlotStep, SlotAgrees, Counted, KeepsSlot, Working, Unanswered, Stays
  <2>3. CASE t = u
    <3>1. /\ state'[u] = "RETRY_WAIT" /\ dispatch_phase'[u] = "NONE" /\ ~resume_proof'[u]
          /\ state[u] # "ABSENT"
      BY Zenon, <1>0, <1>4, <2>3 DEF RecoverRetry, SafeRetryRows, CanRetry
    <3>2. QED
      BY Zenon, <3>1 DEF SlotStep, SlotAgrees, Counted, KeepsSlot, Working, Started
  <2>4. QED
    BY Zenon, <2>2, <2>3
<1>5. ASSUME NEW t \in Tasks, RecoverAbort(t)
      PROVE  SlotStep(u)
  BY Zenon, <1>0, <1>5, UnservedStep DEF RecoverAbort, Stays
<1>6. ASSUME NEW t \in Tasks, RecoverFinalize(t)
      PROVE  SlotStep(u)
  <2>1. UNCHANGED <<mode, todo>>
    BY Zenon, <1>6 DEF RecoverFinalize
  <2>2. CASE Stays(u)
    BY Zenon, <1>0, <2>1, <2>2, StaysStep
  <2>3. CASE ToFinalizing(t, {state[t]})
    <3>1. t # u => Stays(u)
      BY Zenon, <1>0, <2>3 DEF ToFinalizing, Stays
    <3>2. CASE t = u
      BY Zenon, <1>0, <2>3, <3>2, RestsStep DEF ToFinalizing, CanFinalizing, Allows, Unanswered, Terminal
    <3>3. QED
      BY Zenon, <2>2, <3>1, <3>2
  <2>4. CASE UNCHANGED <<taskVars, attemptVars, ixVars>>
    BY Zenon, <2>2, <2>4 DEF Stays
  <2>5. QED
    BY Zenon, <1>6, <2>3, <2>4 DEF RecoverFinalize
<1>7. QED
  BY Zenon, <1>1, <1>2, <1>3, <1>4, <1>5, <1>6 DEF Startup

\* The other steps.
LEMMA OtherSlots ==
    ASSUME StoreInvariant, NEW u \in Tasks, SlotAgrees(u),
           Environment \/ UNCHANGED vars \/ \E t \in Tasks : FinishHandoff(t) \/ HandoffFails(t)
    PROVE  SlotStep(u)
<1> USE DEF taskVars, attemptVars, ixVars, modeVars
<1>0. /\ DOMAIN state = Tasks /\ DOMAIN last_answer = Tasks /\ DOMAIN dispatch_phase = Tasks
      /\ DOMAIN resume_proof = Tasks
  BY Zenon DEF StoreInvariant, TypeOK, RowsTypeOK
<1>1. CASE Crash
  BY Zenon, <1>1, UnservedStep DEF Crash, Stays
<1>2. ASSUME NEW t \in Tasks, FinishHandoff(t)
      PROVE  SlotStep(u)
  <2>1. CASE t # u
    BY ZenonT(60), <1>0, <1>2, <2>1 DEF FinishHandoff, FinalizeRows, SlotStep, SlotAgrees, Counted, KeepsSlot,
                            Working, Unanswered, HasAttempt
  <2>2. CASE t = u
    <3>1. handoff[t] \in Terminal /\ CanFinalize(t, handoff[t])
      BY Zenon, <1>2 DEF FinishHandoff, FinalizeRows, StoreInvariant, TypeOK
    <3>2. QED
      BY <1>0, <1>2, <2>2, <3>1, RestsStep DEF FinishHandoff, FinalizeRows, CanFinalize, Allows,
                                               Unanswered, Terminal
  <2>3. QED
    BY Zenon, <2>1, <2>2
<1>3. ASSUME NEW t \in Tasks, HandoffFails(t)
      PROVE  SlotStep(u)
  <2>1. Stays(u)
    BY Zenon, <1>3 DEF HandoffFails, Stays
  <2>2. CASE mode = "RECOVERING"
    BY Zenon, <1>3, <2>1, <2>2, UnservedStep DEF HandoffFails
  <2>3. CASE mode # "RECOVERING"
    BY Zenon, <1>3, <2>1, <2>3, StaysStep DEF HandoffFails, StoreInvariant, TodoAgrees
  <2>4. QED
    BY Zenon, <2>2, <2>3
<1>4. ASSUME UNCHANGED <<state, dispatch_phase, resume_proof, last_answer, mode, todo>>
      PROVE  SlotStep(u)
  BY Zenon, <1>4, StaysStep DEF Stays
<1>5. QED
  BY Zenon, <1>1, <1>2, <1>3, <1>4 DEF Environment, LatchEmergency, RecoverEmergency, DeadlinePasses,
                                RetryTimerElapses, vars

-----------------------------------------------------------------------------
\* A load that does not grow stays within the limits.
LEMMA LoadShrinks ==
    ASSUME NEW S, NEW T, IsFiniteSet(T), S \subseteq T, Within(T)
    PROVE  Within(S)
<1> DEFINE On(R, a) == {t \in R : AdapterOf[t] = a}
<1>1. ASSUME NEW P, NEW Q, P \subseteq Q, IsFiniteSet(Q)
      PROVE  Cardinality(P) \in Nat /\ Cardinality(Q) \in Nat /\ Cardinality(P) <= Cardinality(Q)
  BY Zenon, <1>1, FS_Subset, FS_CardinalityType
<1>2. Cardinality(S) <= GlobalLimit
  BY <1>1, LimitAssumption DEF Within
<1>3. ASSUME NEW a \in Adapters PROVE Cardinality(On(S, a)) <= AdapterLimit
  <2>1. On(S, a) \subseteq On(T, a) /\ On(T, a) \subseteq T
    BY Zenon
  <2>2. IsFiniteSet(On(T, a))
    BY Zenon, <2>1, FS_Subset
  <2>3. Cardinality(On(T, a)) <= AdapterLimit
    BY Zenon DEF Within
  <2> HIDE DEF On
  <2>4. QED
    BY <1>1, <2>1, <2>2, <2>3, LimitAssumption
<1>4. QED
  BY Zenon, <1>2, <1>3 DEF Within

\* A slot is taken only where both counts are below their limits.
LEMMA LoadGrows ==
    ASSUME NEW S, NEW T, NEW t \in Tasks, IsFiniteSet(T), S \subseteq T \union {t}, T \subseteq Tasks,
           Within(T),
           Cardinality(T) < GlobalLimit,
           Cardinality({s \in T : AdapterOf[s] = AdapterOf[t]}) < AdapterLimit
    PROVE  Within(S)
<1>1. ASSUME NEW R, NEW n \in Nat, IsFiniteSet(R), Cardinality(R) < n
      PROVE  IsFiniteSet(R \union {t}) /\ Cardinality(R \union {t}) <= n
  <2>1. IsFiniteSet(R \union {t}) /\ Cardinality(R) \in Nat
    BY Zenon, <1>1, FS_AddElement, FS_CardinalityType
  <2>2. Cardinality(R \union {t}) = Cardinality(R) \/ Cardinality(R \union {t}) = Cardinality(R) + 1
    BY Zenon, <1>1, FS_AddElement
  <2>3. QED
    BY <1>1, <2>1, <2>2
<1> DEFINE U == T \union {t}
<1> DEFINE Here == {s \in T : AdapterOf[s] = AdapterOf[t]}
<1>2. IsFiniteSet(U) /\ Cardinality(U) <= GlobalLimit
  BY Zenon, <1>1, LimitAssumption
<1>3. ASSUME NEW a \in Adapters
      PROVE  Cardinality({s \in U : AdapterOf[s] = a}) <= AdapterLimit
  <2>1. CASE a = AdapterOf[t]
    <3>1. {s \in U : AdapterOf[s] = a} = Here \union {t}
      BY Zenon, <2>1
    <3>2. IsFiniteSet(Here) /\ Cardinality(Here) < AdapterLimit
      BY Zenon, FS_Subset
    <3> HIDE DEF Here, U
    <3>3. QED
      BY Zenon, <1>1, <3>1, <3>2, LimitAssumption
  <2>2. CASE a # AdapterOf[t]
    <3>1. {s \in U : AdapterOf[s] = a} = {s \in T : AdapterOf[s] = a}
      BY Zenon, <2>2
    <3>2. QED
      BY Zenon, <3>1 DEF Within
  <2>3. QED
    BY Zenon, <2>1, <2>2
<1>4. Within(U)
  BY Zenon, <1>2, <1>3 DEF Within
<1> HIDE DEF U
<1>5. QED
  BY Zenon, <1>2, <1>4, LoadShrinks DEF U

\* The task takes a slot.
TakesSlot(t) ==
    ClaimDispatchSlot(t) \/ (ReclaimPreflightDispatchSlot(t) /\ state[t] = "WAITING_APPROVAL")

\* claim_dispatch_slot and reclaim_preflight_dispatch_slot look at both counts, and
\* what they count holds all of the load.
LEMMA SlotIsFree ==
    ASSUME StoreInvariant, LoadInvariant, NEW t \in Tasks, TakesSlot(t)
    PROVE  /\ Cardinality(Load) < GlobalLimit
           /\ Cardinality({s \in Load : AdapterOf[s] = AdapterOf[t]}) < AdapterLimit
<1> DEFINE here == {s \in Load : AdapterOf[s] = AdapterOf[t]}
<1>1. mode = "SERVING"
  BY Zenon DEF TakesSlot, ClaimDispatchSlot, ReclaimPreflightDispatchSlot, Idle
<1>2. Load \subseteq Occupancy
  <2> SUFFICES ASSUME NEW s \in Tasks, Counted(s) PROVE Occupies(s)
    BY Zenon DEF Load, Occupancy
  <2>1. /\ dispatch_phase[s] \in Started => state[s] \notin BeforeEffect
        /\ state[s] \in TaskState \union {"ABSENT"} /\ SlotAgrees(s)
    BY Zenon DEF StoreInvariant, TaskAgrees, EvidenceAgrees, TypeOK, RowsTypeOK, LoadInvariant
  <2>2. QED
    BY Zenon, <1>1, <2>1 DEF Counted, KeepsSlot, Working, Occupies, SlotAgrees, HasAttempt, Started, BeforeEffect,
                      TaskState
<1>3. IsFiniteSet(Occupancy) /\ IsFiniteSet(AdapterOccupancy(AdapterOf[t]))
  <2>1. Occupancy \subseteq Known /\ AdapterOccupancy(AdapterOf[t]) \subseteq Known
    BY Zenon DEF Occupancy, Occupies, Known, AdapterOccupancy
  <2>2. QED
    BY Zenon, <2>1, FS_Subset DEF LoadInvariant
<1>4. /\ Cardinality(Load) <= Cardinality(Occupancy)
      /\ Cardinality(Load) \in Nat /\ Cardinality(Occupancy) \in Nat
  BY Zenon, <1>2, <1>3, FS_Subset, FS_CardinalityType
<1>5. /\ Cardinality(here) <= Cardinality(AdapterOccupancy(AdapterOf[t]))
      /\ Cardinality(here) \in Nat /\ Cardinality(AdapterOccupancy(AdapterOf[t])) \in Nat
  <2>1. here \subseteq AdapterOccupancy(AdapterOf[t])
    BY Zenon, <1>2 DEF AdapterOccupancy
  <2>2. QED
    BY Zenon, <1>3, <2>1, FS_Subset, FS_CardinalityType
<1>6. SlotFree(t)
  <2>1. CASE ClaimDispatchSlot(t)
    BY Zenon, <2>1 DEF ClaimDispatchSlot, CanClaim
  <2>2. CASE ReclaimPreflightDispatchSlot(t) /\ state[t] = "WAITING_APPROVAL"
    <3>1. ~ReclaimBlocked(t)
      BY Zenon, <2>2 DEF ReclaimPreflightDispatchSlot
    <3>2. QED
      BY <1>4, <1>5, <2>2, <3>1, LimitAssumption DEF ReclaimBlocked, SlotFree
  <2>3. QED
    BY Zenon, <2>1, <2>2 DEF TakesSlot
<1>7. QED
  BY <1>4, <1>5, <1>6, LimitAssumption DEF SlotFree

\* One step takes one slot at most.
LEMMA OneTakes ==
    ASSUME StoreInvariant, NEW t \in Tasks, NEW u \in Tasks, TakesSlot(t), TakesSlot(u)
    PROVE  t = u
<1>1. DOMAIN state = Tasks
  BY Zenon DEF StoreInvariant, TypeOK, RowsTypeOK
<1>2. /\ state' = [state EXCEPT ![t] = state'[t]]
      /\ state'[u] # state[u]
  BY Zenon, <1>1 DEF TakesSlot, ClaimDispatchSlot, CanClaim, Ready, ReclaimPreflightDispatchSlot
<1>3. QED
  BY Zenon, <1>1, <1>2

\* Every step keeps the load within its limits.
LEMMA LoadStep ==
    ASSUME StoreInvariant, StoreInvariant', LoadInvariant, [Next]_vars
    PROVE  LoadInvariant'
<1>1. ASSUME NEW u \in Tasks PROVE SlotStep(u)
  BY Zenon, ClientSlots, StartupSlots, OtherSlots DEF LoadInvariant, Next
<1>2. IsFiniteSet(Load) /\ IsFiniteSet(Known)
  <2>1. Load \subseteq Known
    BY Zenon DEF Load, Counted, KeepsSlot, Working, Known, StoreInvariant, TaskAgrees, EvidenceAgrees, BeforeEffect
  <2>2. QED
    BY Zenon, <2>1, FS_Subset DEF LoadInvariant
<1>3. IsFiniteSet(Known)'
  <2>1. CASE \E t \in Tasks : \E parent : Submit(t, parent)
    <3>0. PICK t \in Tasks : \E parent : Submit(t, parent)
      BY Zenon, <2>1
    <3>1. PICK parent : Submit(t, parent)
      BY Zenon, <3>0
    <3>2. Known' \subseteq Known \union {t}
      <4>1. DOMAIN state = Tasks
        BY Zenon DEF StoreInvariant, TypeOK, RowsTypeOK
      <4>2. \A u \in Tasks \ {t} : state'[u] = state[u]
        BY Zenon, <3>1, <4>1 DEF Submit
      <4>3. QED
        BY Zenon, <4>2 DEF Known
    <3>3. IsFiniteSet(Known \union {t})
      BY Zenon, <1>2, FS_AddElement
    <3>4. QED
      BY Zenon, <3>2, <3>3, FS_Subset
  <2>2. CASE ~\E t \in Tasks : \E parent : Submit(t, parent)
    <3>1. Known' \subseteq Known
      BY Zenon, <1>1, <2>2 DEF Known, SlotStep
    <3>2. QED
      BY Zenon, <1>2, <3>1, FS_Subset
  <2>3. QED
    BY Zenon, <2>1, <2>2
<1>4. Within(Load')
  <2>1. CASE \E t \in Tasks : TakesSlot(t)
    <3>1. PICK t \in Tasks : TakesSlot(t)
      BY Zenon, <2>1
    <3>2. Load' \subseteq Load \union {t}
      BY Zenon, <1>1, <3>1, OneTakes DEF Load, SlotStep, TakesSlot
    <3>3. QED
      BY Zenon, <1>2, <3>1, <3>2, SlotIsFree, LoadGrows DEF LoadInvariant, Load
  <2>2. CASE ~\E t \in Tasks : TakesSlot(t)
    <3>1. Load' \subseteq Load
      BY Zenon, <1>1, <2>2 DEF Load, SlotStep, TakesSlot
    <3>2. QED
      BY Zenon, <1>2, <3>1, LoadShrinks DEF LoadInvariant
  <2>3. QED
    BY Zenon, <2>1, <2>2
<1>5. Within(Load)'
  BY Zenon, <1>4 DEF Within
<1>6. QED
  BY Zenon, <1>1, <1>3, <1>5 DEF LoadInvariant, SlotStep

\* It does in an empty store.
LEMMA LoadStarts == Init => LoadInvariant
<1> SUFFICES ASSUME Init PROVE LoadInvariant
  BY Zenon
<1>1. \A t \in Tasks : ~resume_proof[t] /\ state[t] = "ABSENT" /\ dispatch_phase[t] = "NONE"
  BY Zenon DEF Init
<1>2. Load = {} /\ Known = {}
  BY Zenon, <1>1 DEF Load, Counted, KeepsSlot, Working, Known, Started
<1>3. \A t \in Tasks : SlotAgrees(t)
  BY Zenon, <1>1 DEF SlotAgrees, Working
<1>4. Within({})
  BY FS_EmptySet, LimitAssumption DEF Within
<1>5. QED
  BY Zenon, <1>2, <1>3, <1>4, FS_EmptySet DEF LoadInvariant

\* For any tasks, adapters and limits: what holds a slot, counting attempts
\* that a crash left behind, is within both limits (storage.rs).
THEOREM LoadIsBounded == Spec => []LoadInvariant
<1>1. Init => LoadInvariant
  BY Zenon, LoadStarts
<1>2. StoreInvariant /\ StoreInvariant' /\ LoadInvariant /\ [Next]_vars => LoadInvariant'
  BY Zenon, LoadStep
<1>3. QED
  BY <1>1, <1>2, StoreIsSound, PTL DEF Spec

\* While the daemon serves, the tasks at work are within the global limit and
\* that of their adapter, whatever crashed before; an answer given without a
\* slot, still to be settled, is not counted (storage.rs).
THEOREM LimitsAreKept == Spec => []SlotsRespectLimits
<1>1. StoreInvariant /\ LoadInvariant => SlotsRespectLimits
  <2> SUFFICES ASSUME StoreInvariant, LoadInvariant, mode = "SERVING" PROVE SlotsRespectLimits
    BY Zenon DEF SlotsRespectLimits
  <2> DEFINE working == {t \in Tasks : state[t] \in {"PREPARING", "RUNNING"} /\ last_answer[t] = "none"}
  <2>1. working \subseteq Load /\ Load \subseteq Known
    BY Zenon DEF Load, Counted, KeepsSlot, Working, Unanswered, Known, StoreInvariant, TaskAgrees, EvidenceAgrees,
           BeforeEffect
  <2>2. IsFiniteSet(Load)
    BY Zenon, <2>1, FS_Subset DEF LoadInvariant
  <2>3. Within(working)
    BY Zenon, <2>1, <2>2, LoadShrinks DEF LoadInvariant
  <2>4. QED
    BY Zenon, <2>3 DEF Within, SlotsRespectLimits
<1>2. QED
  BY <1>1, LoadIsBounded, StoreIsSound, PTL

=============================================================================
