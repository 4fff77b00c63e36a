--------------------------- MODULE ScheduledTask ---------------------------
(***************************************************************************)
(* mesh-win32/task.rs: the one scheduled task an installation owns.        *)
(*                                                                         *)
(* `reg' is what the scheduler has registered under the task's name:       *)
(* nothing, the exact definition enabled or disabled, or another           *)
(* definition.  The number of live instances is a parameter: the scheduler *)
(* keeps at most one (TASK_INSTANCES_IGNORE_NEW).                          *)
(***************************************************************************)
EXTENDS Naturals, Sequences

-----------------------------------------------------------------------------
(* The definition and its read-back.                                        *)

\* expected_snapshot
ExpectedSnapshot(spec) ==
  [uri |-> spec.path, owner |-> spec.owner, user |-> spec.user, logon |-> "interactive",
   level |-> "lua", triggers |-> 0, actions |-> 1, type |-> "exec", exec |-> spec.daemon,
   args |-> "daemon", cwd |-> spec.dir, onDemand |-> TRUE, multiple |-> "ignore_new",
   limit |-> "PT0S", stopOnBattery |-> FALSE, notOnBattery |-> FALSE, idleOnly |-> FALSE,
   networkOnly |-> FALSE, enabled |-> TRUE, restarts |-> 0, whenAvailable |-> FALSE,
   secure |-> TRUE]

\* build_definition and task_sddl: what is registered, with its access list.
BuildDefinition(spec) ==
  [fields |-> [ExpectedSnapshot(spec) EXCEPT !.secure = FALSE],
   dacl |-> <<[allow |-> TRUE, flags |-> {}, sid |-> "system", mask |-> {"read", "write", "execute"}],
              [allow |-> TRUE, flags |-> {}, sid |-> spec.user, mask |-> {"read", "write", "execute"}]>>]

\* verify_task_dacl: only plain grants to the user and to the system, whose
\* union per principal is full access (the scheduler may split a grant).
VerifyTaskDacl(dacl, user) ==
  LET Mask(sid) == UNION {dacl[i].mask : i \in {j \in DOMAIN dacl : dacl[j].sid = sid}}
  IN /\ Len(dacl) >= 2
     /\ \A i \in DOMAIN dacl :
          dacl[i].allow /\ dacl[i].flags = {} /\ dacl[i].sid \in {user, "system"}
     /\ \A sid \in {user, "system"} : Mask(sid) = {"read", "write", "execute"}

\* invalid_snapshot: a definition without exactly one action matches nothing.
InvalidSnapshot(f) ==
  [f EXCEPT !.type = "none", !.exec = "none", !.args = "none", !.cwd = "none", !.onDemand = FALSE,
            !.multiple = "none", !.limit = "none", !.stopOnBattery = TRUE, !.notOnBattery = TRUE,
            !.idleOnly = TRUE, !.networkOnly = TRUE, !.enabled = FALSE, !.restarts = 999,
            !.whenAvailable = TRUE, !.secure = FALSE]

\* read_snapshot: field by field, the principal as a SID (principal_sid_string:
\* the scheduler returns an account name for the SID it was given).
ReadSnapshot(def, Sid, user) ==
  IF def.fields.actions # 1 THEN InvalidSnapshot(def.fields)
  ELSE [def.fields EXCEPT !.user = Sid[@], !.secure = VerifyTaskDacl(def.dacl, user)]

\* TaskDefinitionSnapshot::digest covers every field, each with its length.
Digest(snapshot) == snapshot

\* status_of_registered: the enabled flag is put aside for ownership, so that a
\* disabled task is still the owned one, but it stays in the digest.
MatchesDefinition(snapshot, spec, binary) ==
  [snapshot EXCEPT !.enabled = TRUE] = ExpectedSnapshot(spec) /\ binary

-----------------------------------------------------------------------------
(* The states of the registration the commands tell apart.                  *)

OwnedDefinition(reg) == reg \in {"enabled", "disabled"}

\* status_of_registered, and status for a missing task.
TaskState(reg, instances) ==
  CASE reg = "none" -> "Absent"
    [] ~OwnedDefinition(reg) /\ reg # "none" -> "Drifted"
    [] reg = "disabled" -> "Disabled"
    [] reg = "enabled" /\ instances > 0 -> "Running"
    [] reg = "enabled" /\ instances = 0 -> "Ready"

\* The digest of the definition as it is, the enabled flag included.
ExactDigest(reg) == reg = "enabled"

Startable(reg, instances) ==
  TaskState(reg, instances) \in {"Ready", "Running"} /\ ExactDigest(reg)

\* setup: register when absent; an exact task is kept and any other refused.
CanSetup(reg) == reg \in {"none", "enabled"}

\* request_start: a running task is left alone, a ready one is run.
CanRequestStart(reg) == reg = "enabled"

\* disable_exact
CanDisable(reg) == OwnedDefinition(reg)

\* stop_exact: only a disabled owned task is stopped.
CanStop(reg) == reg = "disabled"

\* delete_exact: only a disabled owned task without instances is deleted.
CanDelete(reg, instances) == reg = "disabled" /\ instances = 0
=============================================================================
