---------------------------- MODULE DaemonProofs ----------------------------
(***************************************************************************)
(* Proofs about Daemon, for any number of tasks, adapters and restarts.    *)
(***************************************************************************)
EXTENDS Daemon, TaskStoreProofs, SequenceTheorems

\* The plan a dispatcher works on (dispatch_round).
LEMMA PlanFacts ==
    ASSUME NEW p \in Seq(Tasks), p # <<>>
    PROVE  /\ Head(p) \in Tasks
           /\ Tail(p) \in Seq(Tasks)
           /\ Tail(p) = <<>> <=> Len(p) = 1
<1>1. Head(p) \in Tasks /\ Tail(p) \in Seq(Tasks) /\ Len(Tail(p)) = Len(p) - 1
  BY HeadTailProperties
<1>2. Len(p) \in Nat /\ Len(<<>>) = 0
  BY EmptySeq
<1>3. Tail(p) # <<>> => Len(Tail(p)) \in Nat \ {0}
  BY <1>1, EmptySeq
<1>4. Tail(p) = <<>> => Len(Tail(p)) = 0
  BY Zenon, <1>2
<1>5. Tail(p) = <<>> <=> Len(Tail(p)) = 0
  BY <1>3, <1>4
<1>6. Len(Tail(p)) = 0 <=> Len(p) = 1
  <2> DEFINE l == Len(p)  k == Len(Tail(p))
  <2>1. l \in Nat /\ k = l - 1
    BY <1>1, <1>2
  <2> HIDE DEF l, k
  <2>2. k = 0 <=> l = 1
    BY <2>1
  <2> QED
    BY Zenon, <2>2 DEF l, k
<1> QED
  BY Zenon, <1>1, <1>5, <1>6

\* dispatch_one returns to a well-formed control state.
LEMMA ReturnType ==
    ASSUME DaemonTypeOK, pc # "round", Return
    PROVE  /\ pc' \in Labels
           /\ plan' \in Seq(Tasks)
           /\ pc' = "round" <=> plan' = <<>>
           /\ process' = "none" /\ descendants' = FALSE
           /\ written' = "none" /\ spooled' = FALSE /\ deadline' = FALSE /\ stdin_full' = FALSE
           /\ verdict' = "none" /\ command' = "none"
<1>1. plan \in Seq(Tasks) /\ plan # <<>>
  BY ZenonT(60) DEF DaemonTypeOK
<1>2. Tail(plan) \in Seq(Tasks) /\ (Tail(plan) = <<>> <=> Len(plan) = 1)
  BY <1>1, PlanFacts
<1> QED
  BY <1>2 DEF Return, NoDrive, Labels

\* A finalize of the dispatcher is a finalize of the store, or refused.
LEMMA TryFinalizeStep ==
    ASSUME NEW t \in Tasks, NEW terminal \in Terminal, TryFinalize(t, terminal)
    PROVE  \/ Finalize(t, terminal)
           \/ UNCHANGED vars
  BY Zenon DEF TryFinalize

\* The task the dispatcher works on.
LEMMA CurIsTask ==
    ASSUME DaemonTypeOK, pc # "round"
    PROVE  cur \in Tasks
  BY ZenonT(60), PlanFacts DEF DaemonTypeOK, cur

\* The verdict of an attempt is finalized or refused (finalize_exit,
\* commit_cancelled).
LEMMA VerdictStep ==
    ASSUME NEW t \in Tasks, NEW v \in {"none", "SUCCEEDED", "FAILED", "CANCELLED"},
           TryFinalize(t, v)
    PROVE  [Next]_vars
<1>1. CASE CanFinalize(t, v)
  <2>1. v \in Terminal
    BY <1>1 DEF CanFinalize, Allows, Terminal
  <2>2. Finalize(t, v)
    BY Zenon, <1>1 DEF TryFinalize
  <2> QED
    BY Zenon, <2>1, <2>2 DEF Next, ClientCall
<1>2. CASE ~CanFinalize(t, v)
  BY Zenon, <1>2 DEF TryFinalize
<1> QED
  BY <1>1, <1>2

\* Every step of the daemon is one call of the store, or leaves it alone.
LEMMA DaemonStoreStep ==
    ASSUME DaemonTypeOK, [DaemonNext]_daemonVars
    PROVE  [Next]_vars
<1>0. pc # "round" => cur \in Tasks
  BY Zenon, CurIsTask
<1>1. CASE UNCHANGED vars
  BY Zenon, <1>1
<1>2. ASSUME NEW v \in {"none", "SUCCEEDED", "FAILED", "CANCELLED"},
             pc # "round", TryFinalize(cur, v)
      PROVE  [Next]_vars
  BY Zenon, <1>0, <1>2, VerdictStep
<1>3. CASE Dispatch
  <2>1. CASE DispatchClaim
    BY Zenon, <1>0, <2>1 DEF DispatchClaim, At, Next, ClientCall
  <2>2. ASSUME NEW p \in DispatchPhase, NEW r \in BOOLEAN, pc # "round",
               RecordDispatchPhase(cur, p, r)
        PROVE  [Next]_vars
    BY Zenon, <1>0, <2>2 DEF Next, ClientCall
  <2>3. CASE Spawn \/ Fence
    BY Zenon, <2>2, <2>3 DEF Spawn, Fence, At, DispatchPhase
  <2>4. CASE DispatchSkip \/ SpawnFails
    BY Zenon, <1>2, <2>4 DEF DispatchSkip, SpawnFails, At
  <2>5. CASE Resume
    BY Zenon, <1>1, <2>5 DEF Resume
  <2> QED
    BY Zenon, <1>3, <2>1, <2>3, <2>4, <2>5 DEF Dispatch
<1>4. CASE Drive
  <2>1. CASE HandshakeFails \/ PollFailed \/ PollSucceeded \/ WaitFails
    BY Zenon, <1>2, <2>1 DEF HandshakeFails, PollFailed, PollSucceeded, WaitFails,
       FailThenCancel, At
  <2>2. CASE Wait
    BY Zenon, <1>1, <1>2, <2>2 DEF Wait, FailThenCancel, At
  <2>3. CASE ExitWithFrame
    <3>1. Frame \in {"none", "SUCCEEDED", "FAILED", "CANCELLED"}
      BY Zenon DEF Frame, DaemonTypeOK
    <3> QED
      BY Zenon, <1>2, <2>3, <3>1 DEF ExitWithFrame, At
  <2>4. CASE Handshake \/ Poll \/ FinalizeExit
    BY Zenon, <1>1, <2>4 DEF Handshake, Poll, FinalizeExit
  <2> QED
    BY Zenon, <1>4, <2>1, <2>2, <2>3, <2>4 DEF Drive
<1>5. CASE End
  <2>1. CASE Cancel
    BY Zenon, <1>0, <1>1, <2>1 DEF Cancel, At, Next, ClientCall
  <2>2. CASE CancelRefused \/ Stop
    BY Zenon, <1>1, <2>2 DEF CancelRefused, Stop
  <2>3. CASE Finalizing
    <3> DEFINE from == {"PREPARING", "RUNNING"} \cup
                       (IF verdict = "CANCELLED" THEN {"CANCEL_REQUESTED"} ELSE {})
    <3>1. from \in FromStates
      BY DEF FromStates
    <3>2. Transition(cur, from) \/ UNCHANGED vars
      BY Zenon, <2>3 DEF Finalizing
    <3>3. cur \in Tasks
      BY Zenon, <1>0, <2>3 DEF Finalizing, At
    <3> QED
      BY ZenonT(60), <1>1, <3>1, <3>2, <3>3 DEF Next, ClientCall
  <2>4. CASE FinishAttempt
    BY Zenon, <1>2, <2>4 DEF FinishAttempt, At, DaemonTypeOK
  <2> QED
    BY Zenon, <1>5, <2>1, <2>2, <2>3, <2>4 DEF End
<1>6. CASE PlanRound \/ Provider
  BY Zenon, <1>1, <1>6 DEF PlanRound, Provider, ProviderWrites, ProviderReads, SpoolDrains,
     ProviderExits, DescendantsExit, DriveDeadlinePasses
<1>7. CASE DaemonCrash
  BY Zenon, <1>7 DEF DaemonCrash, Next, Environment
<1>8. CASE Others
  BY Zenon, <1>8 DEF Others, Next, ClientCall, Environment
<1>9. CASE UNCHANGED daemonVars
  BY Zenon, <1>1, <1>9 DEF daemonVars
<1> QED
  BY Zenon, <1>3, <1>4, <1>5, <1>6, <1>7, <1>8, <1>9 DEF DaemonNext, Dispatcher

\* The control variables stay well formed.
LEMMA DaemonTypePreserved ==
    ASSUME DaemonTypeOK, [DaemonNext]_daemonVars
    PROVE  DaemonTypeOK'
<1>0. pc # "round" => cur \in Tasks
  BY Zenon, CurIsTask
<1>1. CASE pc # "round" /\ Return /\ UNCHANGED <<cancel_keys, runs>>
  <2>1. /\ pc' \in Labels /\ plan' \in Seq(Tasks) /\ (pc' = "round" <=> plan' = <<>>)
        /\ process' = "none" /\ descendants' = FALSE
        /\ written' = "none" /\ spooled' = FALSE /\ deadline' = FALSE /\ stdin_full' = FALSE
        /\ verdict' = "none" /\ command' = "none"
    BY Zenon, <1>1, ReturnType
  <2> QED
    BY Zenon, <1>1, <2>1 DEF DaemonTypeOK
<1>2. CASE DispatchSkip \/ SpawnFails \/ ExitWithFrame \/ WaitFails \/ CancelRefused
             \/ FinishAttempt
  BY Zenon, <1>1, <1>2 DEF DispatchSkip, SpawnFails, ExitWithFrame, WaitFails,
     CancelRefused, FinishAttempt, At
<1>3. ASSUME pc # "round", plan' = plan, pc' \in Labels \ {"round"},
             process' \in {"none", "suspended", "running", "exit 0", "exit 1"},
             descendants' \in BOOLEAN,
             written' \in {"none", "SUCCEEDED", "FAILED"},
             spooled' \in BOOLEAN, deadline' \in BOOLEAN, stdin_full' \in BOOLEAN,
             verdict' \in {"none", "SUCCEEDED", "FAILED", "CANCELLED"},
             command' \in CancelKey \cup {"none"},
             cancel_keys' \in [CancelKey -> Tasks \cup {NoTask}],
             runs' \in [Tasks -> Nat]
      PROVE  DaemonTypeOK'
  BY Zenon, <1>3 DEF DaemonTypeOK
<1>4. runs \in [Tasks -> Nat]
  BY Zenon DEF DaemonTypeOK
<1>5. CASE \/ DispatchClaim \/ Spawn \/ Fence \/ Handshake \/ HandshakeFails \/ Poll
           \/ PollFailed \/ PollSucceeded \/ Wait
  <2>1. CASE UNCHANGED <<plan, driveVars, cancel_keys, runs>> /\ pc # "round"
             /\ pc' \in {"spawn", "resume", "poll", "wait", "finalize"}
    <3>1. pc' \in Labels \ {"round"}
      BY <2>1 DEF Labels
    <3> QED
      BY ZenonT(60), <1>3, <2>1, <3>1 DEF driveVars, intentVars, DaemonTypeOK
  <2>2. CASE DispatchClaim \/ Fence \/ Poll
    BY Zenon, <2>1, <2>2 DEF DispatchClaim, Fence, Poll, At
  <2>8. CASE Handshake
    BY ZenonT(60), <1>3, <2>8 DEF Handshake, At, intentVars, DaemonTypeOK, Labels
  <2>3. CASE Spawn
    BY Zenon, <1>3, <2>3 DEF Spawn, At, intentVars, DaemonTypeOK, Labels
  <2>4. ASSUME NEW key \in CancelKey, FailThenCancel(key), pc # "round"
        PROVE  DaemonTypeOK'
    BY ZenonT(60), <1>3, <2>4 DEF FailThenCancel, DaemonTypeOK, Labels
  <2>5. CASE HandshakeFails \/ PollFailed
    BY Zenon, <2>4, <2>5 DEF HandshakeFails, PollFailed, At, CancelKey
  <2>6. CASE PollSucceeded
    BY ZenonT(60), <1>3, <2>6 DEF PollSucceeded, At, DaemonTypeOK, Labels, CancelKey
  <2>7. CASE Wait
    BY Zenon, <2>1, <2>4, <2>7 DEF Wait, At, CancelKey
  <2> QED
    BY ZenonT(60), <1>5, <2>2, <2>3, <2>5, <2>6, <2>7, <2>8
<1>6. CASE Resume
  <2>0. cur \in Tasks
    BY Zenon, <1>0, <1>6 DEF Resume, At
  <2>a. \A t \in Tasks : runs[t] + 1 \in Nat
    BY <1>4
  <2>1. [runs EXCEPT ![cur] = @ + 1] \in [Tasks -> Nat]
    BY Zenon, <1>4, <2>0, <2>a
  <2> QED
    BY ZenonT(60), <1>3, <1>6, <2>1 DEF Resume, At, intentVars, DaemonTypeOK, Labels
<1>7. CASE FinalizeExit \/ Stop \/ Finalizing
  <2>1. CASE FinalizeExit
    <3>1. verdict' \in {"none", "SUCCEEDED", "FAILED", "CANCELLED"}
      BY Zenon, <2>1 DEF FinalizeExit
    <3> QED
      BY Zenon, <1>3, <2>1, <3>1 DEF FinalizeExit, At, DaemonTypeOK, Labels
  <2>2. CASE Stop
    BY Zenon, <1>3, <2>2 DEF Stop, At, DaemonTypeOK, Labels
  <2>3. CASE Finalizing
    BY ZenonT(60), <1>3, <2>3 DEF Finalizing, At, driveVars, intentVars, DaemonTypeOK, Labels
  <2> QED
    BY Zenon, <1>7, <2>1, <2>2, <2>3
<1>8. CASE Cancel
  <2>1. [cancel_keys EXCEPT ![command] = cur] \in [CancelKey -> Tasks \cup {NoTask}]
    BY ZenonT(60), <1>0, <1>8 DEF DaemonTypeOK, Cancel, At
  <2> QED
    BY ZenonT(60), <1>3, <1>8, <2>1 DEF Cancel, At, driveVars, intentVars, DaemonTypeOK, Labels
<1>9. CASE PlanRound
  <2>1. PICK n \in 1..GlobalLimit : plan' \in [1..n -> Tasks]
    BY Zenon, <1>9 DEF PlanRound, Plans
  <2>2. n \in Nat /\ n # 0
    BY <2>1, LimitAssumption
  <2>3. plan' \in Seq(Tasks) /\ plan' # <<>>
    BY <2>1, <2>2
  <2> QED
    BY ZenonT(60), <1>9, <2>3 DEF PlanRound, At, driveVars, intentVars, DaemonTypeOK, Labels
<1>10. CASE Provider
  BY ZenonT(60), <1>10 DEF Provider, ProviderWrites, ProviderReads, SpoolDrains, ProviderExits,
     DescendantsExit, DriveDeadlinePasses, intentVars, DaemonTypeOK
<1>11. CASE DaemonCrash
  <2>1. <<>> \in Seq(Tasks)
    BY EmptySeq
  <2> QED
    BY Zenon, <1>11, <2>1 DEF DaemonCrash, NoDrive, DaemonTypeOK, Labels
<1>12. CASE Others \/ UNCHANGED daemonVars
  BY ZenonT(60), <1>12 DEF Others, daemonVars, ctlVars, driveVars, intentVars, DaemonTypeOK
<1> QED
  BY ZenonT(60), <1>2, <1>5, <1>6, <1>7, <1>8, <1>9, <1>10, <1>11, <1>12 DEF DaemonNext,
     Dispatcher, Dispatch, Drive, End

\* ResumeThread is the only step that starts adapter code.
LEMMA OnlyResumeRuns ==
    ASSUME [DaemonNext]_daemonVars
    PROVE  Resume \/ runs' = runs
<1>1. CASE Dispatch
  BY Zenon, <1>1 DEF Dispatch, DispatchClaim, DispatchSkip, Spawn, Fence, SpawnFails
<1>2. CASE Drive \/ End
  BY Zenon, <1>2 DEF Drive, Handshake, HandshakeFails, Poll, PollFailed,
     PollSucceeded, Wait, FailThenCancel, ExitWithFrame, WaitFails, FinalizeExit, End,
     Cancel, CancelRefused, Stop, Finalizing, FinishAttempt
<1>3. CASE PlanRound \/ Provider \/ DaemonCrash \/ Others \/ UNCHANGED daemonVars
  BY Zenon, <1>3 DEF PlanRound, Provider, ProviderWrites, ProviderReads, SpoolDrains,
     ProviderExits, DescendantsExit, DriveDeadlinePasses, DaemonCrash, Others, daemonVars
<1> QED
  BY Zenon, <1>1, <1>2, <1>3 DEF DaemonNext, Dispatcher

\* What was started has its evidence in the store: only ResumeThread starts
\* adapter code, only once the fence has committed, and no step of the store
\* takes the evidence back.
LEMMA RunsAgreePreserved ==
    ASSUME DaemonInvariant, [DaemonNext]_daemonVars
    PROVE  RunsAgree'
<1>0. StoreInvariant /\ DaemonTypeOK /\ RunsAgree /\ DriveAgrees
  BY Zenon DEF DaemonInvariant
<1>1. [Next]_vars
  BY Zenon, <1>0, DaemonStoreStep
<1>2. \A t \in Tasks : dispatch_phase[t] \in Started => dispatch_phase'[t] \in Started
  BY Zenon, <1>0, <1>1, EvidenceStep
<1>3. CASE runs' = runs
  BY Zenon, <1>0, <1>2, <1>3 DEF RunsAgree
<1>4. CASE Resume
  <2>1. /\ pc = "resume" /\ runs[cur] = 0 /\ dispatch_phase[cur] \in Started
        /\ cur \in Tasks /\ runs \in [Tasks -> Nat]
    BY Zenon, <1>0, <1>4, CurIsTask DEF Resume, At, DriveAgrees, DaemonTypeOK
  <2>2. runs' = [runs EXCEPT ![cur] = 1]
    <3>1. runs[cur] + 1 = 1
      BY <2>1
    <3> QED
      BY Zenon, <1>4, <3>1 DEF Resume
  <2> QED
    BY Zenon, <1>0, <1>2, <2>1, <2>2 DEF RunsAgree
<1> QED
  BY Zenon, <1>3, <1>4, OnlyResumeRuns

\* finalize refuses a task that is not FINALIZING, so that fail_task and
\* succeed_task of a live attempt leave the store alone.
LEMMA FinalizeRefused ==
    ASSUME NEW t, NEW terminal, state[t] \in {"RUNNING", "CANCEL_REQUESTED"},
           terminal \in {"SUCCEEDED", "FAILED"}, TryFinalize(t, terminal)
    PROVE  UNCHANGED vars
<1>1. ~Allows(state[t], terminal)
  BY DEF Allows, Terminal
<1> QED
  BY Zenon, <1>1 DEF TryFinalize, CanFinalize

\* Neither takes a serving daemon out of service.
LEMMA OthersMode ==
    ASSUME Others, mode = "SERVING"
    PROVE  mode' = "SERVING"
  BY Zenon DEF Others, Startup, Open, Serve, RecoverSkip, RecoverRetry, RecoverAbort,
     RecoverFinalize, Reconciling, LatchEmergency, Submit, RequestCancel, ReviewAndAck,
     FinishHandoff, HandoffFails, modeVars

\* Other clients and the startup path leave the state of a live attempt alone,
\* but for a cancel request.
LEMMA OthersStep ==
    ASSUME StoreInvariant, Others, mode = "SERVING", NEW t \in Tasks,
           state[t] \in {"RUNNING", "CANCEL_REQUESTED"}
    PROVE  mode' = "SERVING" /\ state'[t] \in {"RUNNING", "CANCEL_REQUESTED"}
<1>0. state \in [Tasks -> TaskState \cup {"ABSENT"}]
  BY Zenon DEF StoreInvariant, TypeOK, RowsTypeOK
<1>1. ~Startup
  BY Zenon DEF Startup, Open, Serve, RecoverSkip, RecoverRetry, RecoverAbort,
     RecoverFinalize, Reconciling
<1>2. ASSUME NEW u \in Tasks, NEW parent, Submit(u, parent)
      PROVE  mode' = mode /\ state'[t] = state[t]
  BY Zenon, <1>0, <1>2 DEF Submit, modeVars
<1>3. ASSUME NEW u \in Tasks, RequestCancel(u)
      PROVE  mode' = mode /\ state'[t] \in {state[t], "CANCEL_REQUESTED"}
  BY Zenon, <1>0, <1>3 DEF RequestCancel, modeVars
<1>4. ASSUME NEW u \in Tasks, FinishHandoff(u)
      PROVE  mode' = mode /\ state'[t] = state[t]
  <2>1. state[u] = "FINALIZING"
    <3>1. handoff[u] \in Terminal
      BY Zenon, <1>4 DEF FinishHandoff, StoreInvariant, TypeOK
    <3>2. Allows(state[u], handoff[u])
      BY Zenon, <1>4 DEF FinishHandoff, FinalizeRows, CanFinalize
    <3> QED
      BY <3>1, <3>2 DEF Allows, Terminal
  <2> QED
    BY Zenon, <1>0, <1>4, <2>1 DEF FinishHandoff, FinalizeRows
<1>5. ASSUME NEW u \in Tasks, ReviewAndAck(u) \/ HandoffFails(u)
      PROVE  mode' = mode /\ state' = state
  BY Zenon, <1>5 DEF ReviewAndAck, HandoffFails, taskVars, modeVars
<1>6. LatchEmergency => mode' = mode /\ state' = state
  BY Zenon DEF LatchEmergency, taskVars, modeVars
<1> QED
  BY Zenon, <1>1, <1>2, <1>3, <1>4, <1>5, <1>6 DEF Others

\* The dispatcher and the rows of its task agree after every step.
LEMMA DriveAgreesPreserved ==
    ASSUME DaemonInvariant, [DaemonNext]_daemonVars
    PROVE  DriveAgrees'
<1>0. StoreInvariant /\ DaemonTypeOK /\ RunsAgree /\ DriveAgrees
  BY Zenon DEF DaemonInvariant
<1>1. /\ state \in [Tasks -> TaskState \cup {"ABSENT"}]
      /\ dispatch_phase \in [Tasks -> DispatchPhase \cup {"NONE"}]
  BY ZenonT(60), <1>0 DEF StoreInvariant, TypeOK, RowsTypeOK
<1>2. [Next]_vars
  BY Zenon, <1>0, DaemonStoreStep
<1>3. \A t \in Tasks : dispatch_phase[t] \in Started => dispatch_phase'[t] \in Started
  BY Zenon, <1>0, <1>2, EvidenceStep
<1>4. pc # "round" => cur \in Tasks
  BY Zenon, <1>0, CurIsTask
<1>5. ASSUME NEW t, NEW v, TryFinalize(t, v)
      PROVE  mode' = mode
  BY Zenon, <1>5 DEF TryFinalize, Finalize, vars, modeVars
<1>6. CASE pc # "round" /\ mode = "SERVING" /\ mode' = mode /\ process' # "running"
           /\ pc' # "resume"
  BY Zenon, <1>6 DEF DriveAgrees
<1>7. CASE \/ DispatchSkip \/ SpawnFails \/ ExitWithFrame \/ WaitFails
           \/ CancelRefused \/ FinishAttempt
  <2>1. mode' = mode /\ mode = "SERVING" /\ pc # "round"
    BY Zenon, <1>5, <1>7 DEF DispatchSkip, SpawnFails, ExitWithFrame, WaitFails,
       CancelRefused, FinishAttempt, At, Idle, vars, modeVars
  <2>2. process' = "none" /\ pc' \in {"round", "claim"}
    BY Zenon, <1>7 DEF DispatchSkip, SpawnFails, ExitWithFrame, WaitFails,
       CancelRefused, FinishAttempt, Return, NoDrive
  <2> QED
    BY <1>6, <2>1, <2>2
<1>8. CASE DispatchClaim \/ Spawn
  <2>1. mode' = mode /\ mode = "SERVING" /\ pc \in {"claim", "spawn"}
        /\ pc' \in {"spawn", "fence"}
    BY Zenon, <1>8 DEF DispatchClaim, Spawn, At, Idle, ClaimDispatchSlot,
       RecordDispatchPhase, modeVars
  <2>2. process' # "running"
    <3>1. process # "running"
      BY <1>0, <2>1 DEF DriveAgrees
    <3> QED
      BY ZenonT(60), <1>8, <3>1 DEF DispatchClaim, Spawn, driveVars
  <2> QED
    BY <1>6, <2>1, <2>2
<1>9. CASE Fence
  <2>1. /\ mode' = "SERVING" /\ pc = "fence" /\ pc' = "resume" /\ plan' = plan
        /\ process' = process /\ runs' = runs /\ cur \in Tasks
        /\ RecordDispatchPhase(cur, "PROCESS_STARTED", FALSE)
    BY Zenon, <1>4, <1>9 DEF Fence, At, Idle, driveVars, RecordDispatchPhase, modeVars
  <2>2. process' # "running"
    BY <1>0, <2>1 DEF DriveAgrees
  <2>3. runs[cur] = 0
    <3>1. dispatch_phase[cur] \notin Started
      BY <2>1 DEF RecordDispatchPhase, PhaseAccepted, CanAdvanceTo, Started
    <3> QED
      BY Zenon, <1>0, <2>1, <3>1 DEF RunsAgree
  <2>4. dispatch_phase'[cur] \in Started /\ state'[cur] = "RUNNING"
    BY Zenon, <1>1, <2>1 DEF RecordDispatchPhase, Started
  <2>5. cur' = cur
    BY Zenon, <2>1 DEF cur
  <2> QED
    BY Zenon, <2>1, <2>2, <2>3, <2>4, <2>5 DEF DriveAgrees
<1>10. CASE Resume
  <2>1. /\ mode' = "SERVING" /\ pc = "resume" /\ pc' \in {"handshake", "poll"}
        /\ plan' = plan /\ state' = state /\ dispatch_phase' = dispatch_phase
    BY Zenon, <1>10 DEF Resume, At, Idle, vars, taskVars, attemptVars, modeVars
  <2>2. cur' = cur
    BY Zenon, <2>1 DEF cur
  <2>3. /\ dispatch_phase[cur] \in Started
        /\ state[cur] \in {"RUNNING", "CANCEL_REQUESTED"}
    BY Zenon, <1>0, <2>1 DEF DriveAgrees
  <2>4. pc' # "resume" /\ pc' \in {"handshake", "poll", "wait", "cancel", "stop"}
    BY <2>1
  <2> QED
    BY ZenonT(60), <2>1, <2>2, <2>3, <2>4 DEF DriveAgrees
<1>11. ASSUME pc # "round", mode' = "SERVING", pc' # "resume", plan' = plan,
              process' = "running" =>
                /\ process = "running"
                /\ pc' \in {"handshake", "poll", "wait", "cancel", "stop"}
                /\ state'[cur] \in {"RUNNING", "CANCEL_REQUESTED"}
       PROVE  DriveAgrees'
  <2>1. cur' = cur
    BY Zenon, <1>11 DEF cur
  <2>2. process' = "running" => dispatch_phase'[cur] \in Started
    BY Zenon, <1>0, <1>3, <1>4, <1>11 DEF DriveAgrees
  <2> QED
    BY Zenon, <1>11, <2>1, <2>2 DEF DriveAgrees
<1>12. ASSUME pc # "round", mode = "SERVING", plan' = plan, process' = process,
              pc' \in {"handshake", "poll", "wait", "cancel", "stop"},
              \/ UNCHANGED vars
              \/ TryFinalize(cur, "SUCCEEDED")
              \/ TryFinalize(cur, "FAILED")
              \/ RequestCancel(cur)
       PROVE  DriveAgrees'
  <2>1. mode' = "SERVING" /\ pc' # "resume"
    BY <1>5, <1>12 DEF vars, modeVars, RequestCancel
  <2>2. process = "running" => state[cur] \in {"RUNNING", "CANCEL_REQUESTED"}
    BY Zenon, <1>0 DEF DriveAgrees
  <2>3. ASSUME process = "running"
        PROVE  UNCHANGED vars \/ RequestCancel(cur)
    <3>1. state[cur] \in {"RUNNING", "CANCEL_REQUESTED"}
      BY Zenon, <2>2, <2>3
    <3>2. TryFinalize(cur, "SUCCEEDED") => UNCHANGED vars
      BY <3>1, FinalizeRefused
    <3>3. TryFinalize(cur, "FAILED") => UNCHANGED vars
      BY <3>1, FinalizeRefused
    <3> QED
      BY Zenon, <1>12, <3>2, <3>3
  <2>4. UNCHANGED vars => state' = state
    BY Zenon DEF vars, taskVars
  <2>5. RequestCancel(cur) => state'[cur] = "CANCEL_REQUESTED"
    BY Zenon, <1>1, <1>4, <1>12 DEF RequestCancel
  <2>6. process' = "running" => state'[cur] \in {"RUNNING", "CANCEL_REQUESTED"}
    BY Zenon, <1>12, <2>2, <2>3, <2>4, <2>5
  <2> QED
    BY Zenon, <1>11, <1>12, <2>1, <2>6
<1>13. CASE Handshake \/ Poll \/ Wait \/ Cancel
  <2>1. ASSUME NEW key, FailThenCancel(key)
        PROVE  plan' = plan /\ process' = process /\ pc' = "cancel"
               /\ TryFinalize(cur, "FAILED")
    BY Zenon, <2>1 DEF FailThenCancel
  <2>2. /\ pc # "round" /\ mode = "SERVING" /\ plan' = plan /\ process' = process
        /\ pc' \in {"handshake", "poll", "wait", "cancel", "stop"}
        /\ \/ UNCHANGED vars
           \/ TryFinalize(cur, "FAILED")
           \/ RequestCancel(cur)
    BY Zenon, <1>13, <2>1 DEF Handshake, Poll, Wait, Cancel, At, Idle, driveVars
  <2> QED
    BY Zenon, <1>12, <2>2
<1>14. CASE HandshakeFails \/ PollFailed \/ PollSucceeded
  BY Zenon, <1>12, <1>14 DEF HandshakeFails, PollFailed, PollSucceeded, FailThenCancel,
     At, Idle
<1>15. CASE FinalizeExit \/ Stop \/ Finalizing
  <2>1. pc # "round" /\ mode = "SERVING" /\ mode' = mode
        /\ pc' \in {"finalizing", "finalize"}
    BY Zenon, <1>15 DEF FinalizeExit, Stop, Finalizing, At, Idle, Transition, vars,
       modeVars
  <2>2. process' # "running"
    <3>1. CASE FinalizeExit \/ Stop
      BY ZenonT(60), <3>1 DEF FinalizeExit, Stop, Exited
    <3>2. CASE Finalizing
      <4>1. pc = "finalizing" /\ process' = process
        BY Zenon, <3>2 DEF Finalizing, At, driveVars
      <4> QED
        BY <1>0, <4>1 DEF DriveAgrees
    <3> QED
      BY Zenon, <1>15, <3>1, <3>2
  <2> QED
    BY <1>6, <2>1, <2>2
<1>16. CASE PlanRound
  <2>1. /\ mode' = "SERVING" /\ pc = "round" /\ pc' = "claim" /\ process' = process
    BY Zenon, <1>16 DEF PlanRound, At, Idle, vars, modeVars, driveVars
  <2>2. process' # "running" /\ pc' # "resume"
    BY <1>0, <2>1 DEF DriveAgrees
  <2> QED
    BY Zenon, <2>1, <2>2 DEF DriveAgrees
<1>17. CASE Provider
  <2>1. /\ UNCHANGED <<vars, pc, plan, runs>>
        /\ process' = process \/ process' \in {"exit 0", "exit 1"}
    BY Zenon, <1>17 DEF Provider, ProviderWrites, ProviderReads, SpoolDrains, ProviderExits,
       DescendantsExit, DriveDeadlinePasses
  <2>2. /\ mode' = mode /\ state' = state /\ dispatch_phase' = dispatch_phase
        /\ cur' = cur
    BY Zenon, <2>1 DEF vars, modeVars, taskVars, attemptVars, cur
  <2>3. process' = "running" => process = "running"
    BY <2>1
  <2> QED
    BY ZenonT(60), <1>0, <2>1, <2>2, <2>3 DEF DriveAgrees
<1>18. CASE DaemonCrash
  <2>1. pc' = "round" /\ process' = "none"
    BY Zenon, <1>18 DEF DaemonCrash, NoDrive
  <2> QED
    BY <2>1 DEF DriveAgrees
<1>19. CASE Others
  <2>1. /\ pc' = pc /\ plan' = plan /\ process' = process /\ runs' = runs
        /\ cur' = cur
    BY Zenon, <1>19 DEF Others, ctlVars, driveVars, cur
  <2>2. CASE pc = "round"
    <3>1. process # "running" /\ pc # "resume"
      BY <1>0, <2>2 DEF DriveAgrees
    <3> QED
      BY Zenon, <2>1, <2>2, <3>1 DEF DriveAgrees
  <2>3. CASE pc # "round"
    <3>1. mode = "SERVING" /\ cur \in Tasks
      BY Zenon, <1>0, <1>4, <2>3 DEF DriveAgrees
    <3>2. mode' = "SERVING"
      BY Zenon, <1>0, <1>19, <3>1, OthersMode
    <3>3. state[cur] \in {"RUNNING", "CANCEL_REQUESTED"} =>
            state'[cur] \in {"RUNNING", "CANCEL_REQUESTED"}
      BY ZenonT(60), <1>0, <1>19, <3>1, OthersStep
    <3> QED
      BY ZenonT(60), <1>0, <1>3, <2>1, <3>1, <3>2, <3>3 DEF DriveAgrees
  <2> QED
    BY Zenon, <2>2, <2>3
<1>20. CASE UNCHANGED daemonVars
  <2>1. /\ pc' = pc /\ plan' = plan /\ process' = process /\ runs' = runs
        /\ mode' = mode /\ state' = state /\ dispatch_phase' = dispatch_phase
    BY Zenon, <1>20 DEF daemonVars, ctlVars, driveVars, vars, modeVars, taskVars,
       attemptVars
  <2> QED
    BY Zenon, <1>0, <2>1 DEF DriveAgrees, cur
<1> QED
  BY ZenonT(60), <1>7, <1>8, <1>9, <1>10, <1>13, <1>14, <1>15, <1>16, <1>17, <1>18, <1>19,
     <1>20 DEF DaemonNext, Dispatcher, Dispatch, Drive, End

-----------------------------------------------------------------------------
(* The theorems. *)

\* The dispatcher, the supervisor and the provider only ever move the store by
\* the calls of TaskStore, so that every theorem about the store holds of the
\* running daemon.
THEOREM DaemonImplementsStore == DaemonSpec => StoreSpec
<1>1. DaemonInit => Init /\ DaemonTypeOK
  <2> SUFFICES ASSUME DaemonInit PROVE Init /\ DaemonTypeOK
    OBVIOUS
  <2>1. <<>> \in Seq(Tasks)
    BY EmptySeq
  <2>2. runs \in [Tasks -> Nat]
    BY DEF DaemonInit
  <2>3. cancel_keys \in [CancelKey -> Tasks \cup {NoTask}]
    BY Zenon DEF DaemonInit
  <2> QED
    BY Zenon, <2>1, <2>2, <2>3 DEF DaemonInit, DaemonTypeOK, Labels
<1>2. DaemonTypeOK /\ [DaemonNext]_daemonVars => DaemonTypeOK' /\ [Next]_vars
  BY DaemonTypePreserved, DaemonStoreStep
<1> QED
  BY <1>1, <1>2, PTL DEF DaemonSpec, StoreSpec, Spec

\* What the dispatcher remembers of an attempt agrees with the durable rows,
\* also while other clients cancel and after any crash.
THEOREM DaemonIsSound == DaemonSpec => []DaemonInvariant
<1>1. DaemonInit => DaemonTypeOK /\ RunsAgree /\ DriveAgrees
  <2> SUFFICES ASSUME DaemonInit PROVE DaemonTypeOK /\ RunsAgree /\ DriveAgrees
    OBVIOUS
  <2>1. DaemonTypeOK
    <3>1. <<>> \in Seq(Tasks)
      BY EmptySeq
    <3>2. runs \in [Tasks -> Nat]
      BY DEF DaemonInit
    <3>3. cancel_keys \in [CancelKey -> Tasks \cup {NoTask}]
      BY Zenon DEF DaemonInit
    <3> QED
      BY ZenonT(60), <3>1, <3>2, <3>3 DEF DaemonInit, DaemonTypeOK, Labels
  <2>2. RunsAgree
    BY Zenon DEF DaemonInit, RunsAgree
  <2>3. DriveAgrees
    BY DEF DaemonInit, DriveAgrees
  <2> QED
    BY Zenon, <2>1, <2>2, <2>3
<1>2. DaemonSpec => []StoreInvariant
  BY DaemonImplementsStore, StoreIsSound, PTL DEF StoreSpec
<1>3. ASSUME StoreInvariant, StoreInvariant', DaemonTypeOK, RunsAgree, DriveAgrees,
             [DaemonNext]_daemonVars
      PROVE  DaemonTypeOK' /\ RunsAgree' /\ DriveAgrees'
  <2>1. DaemonInvariant
    BY Zenon, <1>3 DEF DaemonInvariant
  <2> QED
    BY ZenonT(60), <1>3, <2>1, DaemonTypePreserved, RunsAgreePreserved, DriveAgreesPreserved
<1> QED
  BY <1>1, <1>2, <1>3, PTL DEF DaemonSpec, DaemonInvariant

\* Adapter code is started at most once for each task.
THEOREM ExecutedAtMostOnce == DaemonSpec => []AtMostOnceExecution
<1>1. DaemonInvariant => AtMostOnceExecution
  <2>1. DaemonInvariant => RunsAgree
    BY Zenon DEF DaemonInvariant
  <2>2. RunsAgree => AtMostOnceExecution
    BY DEF RunsAgree, AtMostOnceExecution
  <2> QED
    BY Zenon, <2>1, <2>2
<1> QED
  BY <1>1, DaemonIsSound, PTL

\* A running provider has its evidence and its slot in the store.
THEOREM ProcessesAreRecorded == DaemonSpec => []LiveProcessIsRecorded
<1>1. DaemonInvariant => LiveProcessIsRecorded
  BY Zenon DEF DaemonInvariant, DriveAgrees, LiveProcessIsRecorded
<1> QED
  BY <1>1, DaemonIsSound, PTL

\* The store gives a cancelled task no new evidence.
LEMMA CancelledStep ==
    ASSUME StoreInvariant, [Next]_vars, NEW t \in Tasks, cancel_requested[t],
           dispatch_phase[t] \notin Started
    PROVE  dispatch_phase'[t] \notin Started
<1> USE DEF attemptVars
<1>0. /\ RowsTypeOK /\ state[t] \notin {"PREPARING", "RUNNING"}
  <2>1. RowsTypeOK /\ state[t] \in CancelPath
    BY Zenon DEF StoreInvariant, TypeOK, TaskAgrees, CancelAgrees
  <2> QED
    BY <2>1 DEF CancelPath, Terminal
<1>1. CASE dispatch_phase' = dispatch_phase
  BY Zenon, <1>1
<1>2. ASSUME NEW u \in Tasks, ClaimDispatchSlot(u)
      PROVE  dispatch_phase'[t] \notin Started
  BY <1>0, <1>2 DEF ClaimDispatchSlot, RowsTypeOK, Started
<1>3. ASSUME NEW u \in Tasks, NEW p \in DispatchPhase, NEW receipt \in BOOLEAN,
             RecordDispatchPhase(u, p, receipt)
      PROVE  dispatch_phase'[t] \notin Started
  BY Zenon, <1>0, <1>3 DEF RecordDispatchPhase, PhaseAccepted, RowsTypeOK
<1>4. ASSUME NEW u \in Tasks, NEW due \in BOOLEAN, SafeRetryRows(u, due)
      PROVE  dispatch_phase'[t] \notin Started
  BY <1>0, <1>4 DEF SafeRetryRows, RowsTypeOK, Started
<1>5. CASE ClientCall
  BY ZenonT(60), <1>1, <1>2, <1>3, <1>4, <1>5 DEF ClientCall, Submit,
     ReclaimPreflightDispatchSlot,
     RecordAdapterEvent, RecordResumableSession, RequestCancel, ReviewAndAck,
     ScheduleSafeRetry, OpenInteraction, RespondInteraction, ExpireInteraction,
     Transition, ToFinalizing, Finalize, FinalizeRows
<1>6. CASE Startup
  BY Zenon, <1>1, <1>4, <1>6 DEF Startup, Open, Serve, RecoverSkip, RecoverRetry,
     RecoverAbort, RecoverFinalize, ToFinalizing
<1>7. CASE Environment \/ \E u \in Tasks : FinishHandoff(u) \/ HandoffFails(u)
  BY Zenon, <1>1, <1>7 DEF Environment, Crash, LatchEmergency, RecoverEmergency,
     DeadlinePasses, RetryTimerElapses, FinishHandoff, HandoffFails, FinalizeRows
<1> QED
  BY ZenonT(60), <1>1, <1>5, <1>6, <1>7 DEF Next, vars

\* A task that is cancelled before its fence never runs.
THEOREM CancelledBeforeFence == DaemonSpec => CancelBeforeFence
<1>1. ASSUME DaemonInvariant, [DaemonNext]_daemonVars, NEW t \in Tasks,
             cancel_requested[t], dispatch_phase[t] \notin Started
      PROVE  runs'[t] = runs[t] /\ dispatch_phase'[t] \notin Started
  <2>1. StoreInvariant /\ DaemonTypeOK /\ DriveAgrees
    BY Zenon, <1>1 DEF DaemonInvariant
  <2>2. dispatch_phase'[t] \notin Started
    BY Zenon, <1>1, <2>1, CancelledStep, DaemonStoreStep
  <2>3. Resume => t # cur
    BY Zenon, <1>1, <2>1 DEF Resume, At, DriveAgrees
  <2>4. Resume \/ runs' = runs
    BY Zenon, <1>1, OnlyResumeRuns
  <2>5. runs \in [Tasks -> Nat]
    BY Zenon, <2>1 DEF DaemonTypeOK
  <2> QED
    BY Zenon, <2>2, <2>3, <2>4, <2>5 DEF Resume
<1>2. DaemonInvariant /\ [DaemonNext]_daemonVars =>
        [\A t \in Tasks : cancel_requested[t] /\ dispatch_phase[t] \notin Started =>
           runs'[t] = runs[t] /\ dispatch_phase'[t] \notin Started]_daemonVars
  BY Zenon, <1>1
<1> QED
  BY <1>2, DaemonIsSound, PTL DEF DaemonSpec, CancelBeforeFence

=============================================================================
