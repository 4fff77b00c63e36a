------------------------------- MODULE Domain -------------------------------
(***************************************************************************)
(* The vocabulary of crates/mesh-daemon/src/domain.rs: task states, the    *)
(* dispatch phases that record how much of an attempt's effect is proven,  *)
(* and the two relations every other module is fenced by.                  *)
(***************************************************************************)

Terminal == {"SUCCEEDED", "FAILED", "CANCELLED", "NEEDS_ATTENTION"}

TaskState ==
    {"QUEUED", "PREPARING", "RUNNING", "WAITING_APPROVAL", "RETRY_WAIT",
     "CANCEL_REQUESTED", "FINALIZING"} \cup Terminal

\* An attempt row has every state of a task but QUEUED.
AttemptState == TaskState \ {"QUEUED"}

\* TaskState::allows.
Allows(s, next) ==
    \/ /\ s \in {"QUEUED", "RETRY_WAIT"}
       /\ next \in {"PREPARING", "CANCEL_REQUESTED"}
    \/ /\ s = "PREPARING"
       /\ next \in {"RUNNING", "WAITING_APPROVAL", "RETRY_WAIT",
                    "CANCEL_REQUESTED", "FINALIZING"}
    \/ /\ s = "RUNNING"
       /\ next \in {"WAITING_APPROVAL", "RETRY_WAIT", "CANCEL_REQUESTED",
                    "FINALIZING"}
    \/ /\ s = "WAITING_APPROVAL"
       /\ next \in {"RUNNING", "CANCEL_REQUESTED", "FINALIZING"}
    \/ s = "CANCEL_REQUESTED" /\ next = "FINALIZING"
    \/ s = "FINALIZING" /\ next \in Terminal

DispatchPhase ==
    {"PRE_DISPATCH", "SPAWN_PREPARED", "PROCESS_STARTED", "PROVIDER_OBSERVED"}

\* DispatchPhase::effect_is_proven_absent: no adapter code can have run.
EffectProvenAbsent == {"PRE_DISPATCH", "SPAWN_PREPARED"}

Started == {"PROCESS_STARTED", "PROVIDER_OBSERVED"}

\* DispatchPhase::can_advance_to: evidence only grows.
CanAdvanceTo(p, next) ==
    \/ p = "PRE_DISPATCH" /\ next \in {"SPAWN_PREPARED"} \cup Started
    \/ p = "SPAWN_PREPARED" /\ next \in Started
    \/ p = "PROCESS_STARTED" /\ next = "PROVIDER_OBSERVED"

ResponseKind == {"approve", "deny", "text"}

=============================================================================
