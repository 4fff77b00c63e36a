----------------------------- MODULE Approvals -----------------------------
(***************************************************************************)
(* ApprovalOrchestrator (approvals.rs): what follows the commit of an      *)
(* answer.  Each call is a sequence of writer commands and snapshots, so   *)
(* calls of several clients, expiries and cancellations interleave between *)
(* them, and a snapshot that finds the pool busy ends the call half way.   *)
(* A client that sends an answer again uses the command key of that answer.*)
(***************************************************************************)
EXTENDS Domain, Integers, FiniteSets

CONSTANTS
  Callers,
  Asked       \* the questions of one generation

VARIABLES
  row,        \* the committed rows of the task
  call,       \* caller -> its call in progress
  due,        \* question -> its deadline has passed
  crowded,    \* other tasks hold every slot
  granted,    \* history: the calls that were told to spawn
  forwards    \* history: question -> answers written to the child's stdin

approvalVars == <<row, call, due, crowded, granted, forwards>>

NoCall == [at |-> "idle", of |-> "none", kind |-> "none", replayed |-> FALSE, before |-> "none"]

\* An attempt before its spawn, or a running child.
ApprovalInit ==
  /\ \E started \in BOOLEAN :
       row = [state |-> IF started THEN "RUNNING" ELSE "PREPARING",
              phase |-> IF started THEN "running" ELSE "absent",
              question |-> [q \in Asked |-> "NONE"], kind |-> [q \in Asked |-> "none"],
              finalizing |-> FALSE, denied |-> FALSE, reclaimed |-> FALSE]
  /\ call = [c \in Callers |-> NoCall]
  /\ due = [q \in Asked |-> FALSE] /\ crowded = FALSE
  /\ granted = {} /\ forwards = [q \in Asked |-> 0]

At(c, place) == call[c].at = place
Move(c, place) == call' = [call EXCEPT ![c].at = place]
Return(c) == call' = [call EXCEPT ![c] = NoCall]

\* open_pending.
OpenPending(q) ==
  /\ row.question[q] = "NONE" /\ row.state \in {"PREPARING", "RUNNING"}
  /\ row' = [row EXCEPT !.question[q] = "PENDING", !.state = "WAITING_APPROVAL"]
  /\ UNCHANGED <<call, due, crowded, granted, forwards>>

\* The open questions once the task has ended.
SettledQuestions == [q \in Asked |-> IF row.question[q] # "PENDING" THEN row.question[q]
                            ELSE IF due[q] THEN "EXPIRED" ELSE "CANCELLED"]

-----------------------------------------------------------------------------
(* apply_response                                                           *)

\* The writer's respond_interaction: a first answer, the same one again, or a
\* conflict that ends the call.
Respond(c, q, kind) ==
  /\ At(c, "idle")
  /\ \/ /\ row.question[q] = "PENDING" /\ ~due[q]
        /\ row' = [row EXCEPT !.question[q] = "ANSWERED", !.kind[q] = kind,
                              !.state = IF @ = "WAITING_APPROVAL" THEN "RUNNING" ELSE @]
        /\ call' = [call EXCEPT ![c] = [NoCall EXCEPT !.at = "phase", !.of = q, !.kind = kind]]
     \/ /\ row.kind[q] = kind
        /\ call' = [call EXCEPT ![c] = [NoCall EXCEPT !.at = "phase", !.of = q, !.kind = kind,
                                                      !.replayed = TRUE]]
        /\ UNCHANGED row
  /\ UNCHANGED <<due, crowded, granted, forwards>>

\* dispatch_phase, read after the commit.
ReadPhase(c) ==
  /\ At(c, "phase")
  /\ \/ row.phase = "absent" /\ Move(c, "state")
     \/ row.phase # "absent" /\ call[c].replayed /\ Return(c)
     \/ row.phase # "absent" /\ ~call[c].replayed /\ Move(c, "forward")
  /\ UNCHANGED <<row, due, crowded, granted, forwards>>

\* task_state, read before the effect.
ReadState(c) ==
  /\ At(c, "state")
  /\ call' = [call EXCEPT ![c].before = row.state,
                          ![c].at = IF call[c].kind = "deny" THEN "finalizing" ELSE "reclaim"]
  /\ UNCHANGED <<row, due, crowded, granted, forwards>>

\* A snapshot that fails returns the error to a client that may try again.
SnapshotFails(c) ==
  /\ call[c].at \in {"phase", "state"}
  /\ Return(c)
  /\ UNCHANGED <<row, due, crowded, granted, forwards>>

\* Faulty: a reclaim asks neither for the approval nor for the state.
ReclaimUnapproved(c) ==
  /\ row.phase = "absent" /\ ~crowded
  /\ row' = [row EXCEPT !.state = "RUNNING", !.reclaimed = TRUE]

\* The store looks for any approval of the generation, not for this call's.
Approved == \E q \in Asked : row.question[q] = "ANSWERED" /\ row.kind[q] = "approve"

\* What reclaim_preflight_dispatch_slot asks for, besides a slot.
Reclaimable ==
  row.state \in {"RUNNING", "WAITING_APPROVAL"} /\ row.phase = "absent" /\ Approved

\* reclaim_preflight_dispatch_slot grants the slot once; called again it
\* answers as before.
Reclaims(c) ==
  \/ row.reclaimed /\ UNCHANGED row
  \/ /\ ~row.reclaimed /\ ~crowded /\ Reclaimable
     /\ row' = [row EXCEPT !.state = "RUNNING", !.reclaimed = TRUE]

\* apply_preflight of an answer that is no denial.  The caller is told to spawn, or that its
\* answer was a repetition if the task was running before the reclaim.
ReclaimSlot(c) ==
  /\ At(c, "reclaim")
  /\ Reclaims(c)
  /\ granted' = IF call[c].replayed /\ call[c].before = "RUNNING" THEN granted
                ELSE granted \cup {c}
  /\ Return(c)
  /\ UNCHANGED <<due, crowded, forwards>>

\* The reclaim finds no slot, and puts a running task back to waiting.
ReclaimBlocked(c) ==
  /\ At(c, "reclaim") /\ ~row.reclaimed /\ crowded /\ Reclaimable
  /\ row' = [row EXCEPT !.state = "WAITING_APPROVAL"]
  /\ Return(c)
  /\ UNCHANGED <<due, crowded, granted, forwards>>

\* The reclaim is refused: another state, a dispatched attempt, no approval.
ReclaimRefused(c) ==
  /\ At(c, "reclaim") /\ ~row.reclaimed /\ ~Reclaimable
  /\ Return(c)
  /\ UNCHANGED <<row, due, crowded, granted, forwards>>

\* cancel_before_dispatch: the transition, whose refusal is ignored.
DenyFinalizing(c) ==
  /\ At(c, "finalizing")
  /\ row' = IF ~row.finalizing /\ row.state \in {"RUNNING", "WAITING_APPROVAL"}
            THEN [row EXCEPT !.state = "FINALIZING", !.finalizing = TRUE] ELSE row
  /\ Move(c, "cancel")
  /\ UNCHANGED <<due, crowded, granted, forwards>>

\* cancel_before_dispatch: the finalize under a key of the task.
DenyFinalize(c) ==
  /\ At(c, "cancel")
  /\ row' = IF ~row.denied /\ ~(row.state \in Terminal) /\ Allows(row.state, "CANCELLED")
            THEN [row EXCEPT !.state = "CANCELLED", !.denied = TRUE, !.question = SettledQuestions]
            ELSE row
  /\ Return(c)
  /\ UNCHANGED <<due, crowded, granted, forwards>>

\* A new answer to a running child goes to its stdin, if it still has one.
Forward(c) ==
  /\ At(c, "forward")
  /\ forwards' = [forwards EXCEPT ![call[c].of] = @ + IF row.phase = "running" THEN 1 ELSE 0]
  /\ Return(c)
  /\ UNCHANGED <<row, due, crowded, granted>>

-----------------------------------------------------------------------------
(* expire_pending                                                           *)

ExpireReads(c, q) ==
  /\ At(c, "idle") /\ due[q]
  /\ call' = [call EXCEPT ![c] = [NoCall EXCEPT !.of = q,
       !.at = IF row.phase = "absent" THEN "expire_preflight" ELSE "expire_runtime"]]
  /\ UNCHANGED <<row, due, crowded, granted, forwards>>

\* The writer's command finds a pending question of a waiting task or fails; the
\* child of a running task is terminated.
ExpirePending(c) ==
  /\ call[c].at \in {"expire_preflight", "expire_runtime"}
  /\ row' = IF \/ row.question[call[c].of] # "PENDING" \/ row.state # "WAITING_APPROVAL"
               \/ At(c, "expire_preflight") /\ row.phase # "absent"
            THEN row
            ELSE [row EXCEPT !.question = SettledQuestions,
                             !.state = IF At(c, "expire_preflight") THEN "CANCELLED"
                                       ELSE "NEEDS_ATTENTION",
                             !.phase = IF At(c, "expire_runtime") /\ @ = "running" THEN "gone" ELSE @]
  /\ Return(c)
  /\ UNCHANGED <<due, crowded, granted, forwards>>

-----------------------------------------------------------------------------
(* Around the calls                                                         *)

\* A deadline passes, and other tasks take and leave the slots.
TimeAndSlots ==
  /\ \/ \E q \in Asked : /\ row.question[q] # "NONE" /\ ~due[q]
                        /\ due' = [due EXCEPT ![q] = TRUE] /\ UNCHANGED crowded
     \/ crowded' = ~crowded /\ UNCHANGED due
  /\ UNCHANGED <<row, call, granted, forwards>>

\* request_cancel.
RequestCancel ==
  /\ row.state \notin Terminal \cup {"CANCEL_REQUESTED"}
  /\ Allows(row.state, "CANCEL_REQUESTED")
  /\ row' = [row EXCEPT !.state = "CANCEL_REQUESTED",
                        !.question = [q \in Asked |-> IF @[q] = "PENDING" THEN "CANCELLED" ELSE @[q]]]
  /\ UNCHANGED <<call, due, crowded, granted, forwards>>

\* A caller that was told so spawns the child, while the supervisor finds the
\* attempt before its spawn; a child exits.
ChildStartsOrEnds ==
  /\ \/ row.phase = "absent" /\ granted # {} /\ row.state = "RUNNING"
        /\ row' = [row EXCEPT !.phase = "running"]
     \/ row.phase = "running" /\ row' = [row EXCEPT !.phase = "gone"]
  /\ UNCHANGED <<call, due, crowded, granted, forwards>>

ApprovalNext ==
  \/ \E c \in Callers :
       \/ \E q \in Asked, kind \in ResponseKind : Respond(c, q, kind)
       \/ ReadPhase(c) \/ ReadState(c) \/ SnapshotFails(c)
       \/ ReclaimSlot(c) \/ ReclaimBlocked(c) \/ ReclaimRefused(c)
       \/ DenyFinalizing(c) \/ DenyFinalize(c) \/ Forward(c)
       \/ \E q \in Asked : ExpireReads(c, q)
       \/ ExpirePending(c)
  \/ \E q \in Asked : OpenPending(q)
  \/ TimeAndSlots
  \/ RequestCancel
  \/ ChildStartsOrEnds

ApprovalSpec == ApprovalInit /\ [][ApprovalNext]_approvalVars

-----------------------------------------------------------------------------
(* Properties                                                               *)

\* Silence is not consent: whatever repetitions, expiries, denials, blocked
\* slots, cancellations and further questions come between, a caller is told to
\* spawn only after an approval of the generation was committed; no answer to an
\* expired or cancelled question reaches the child's stdin, and no answer twice.
OnlyConsentActs ==
  /\ granted # {} => Approved
  /\ \A q \in Asked :
       /\ row.question[q] \in {"EXPIRED", "CANCELLED"} => forwards[q] = 0
       /\ forwards[q] <= 1

\* Refuted: nobody is told to spawn while a question is open or denied.  The
\* store accepts any approval of the generation, so an earlier one is enough.
GrantsAwaitEveryAnswer ==
  [][granted' # granted =>
       \A q \in Asked : row.question[q] # "PENDING" /\ row.kind[q] # "deny"]_approvalVars

\* A granted slot is granted to one caller, who spawns.
OneCallerSpawns == Cardinality(granted) <= 1

\* Once the slot of an approved task is taken, somebody was told to spawn, or a
\* call that will be told is still going on.
ReclaimedIsGranted ==
  row.reclaimed => granted # {} \/ \E c \in Callers : ~At(c, "idle")
=============================================================================
