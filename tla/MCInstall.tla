----------------------------- MODULE MCInstall -----------------------------
(***************************************************************************)
(* Two command processes and the daemon on one slot.                       *)
(***************************************************************************)
EXTENDS Install

TaskSpec == [path |-> "task", owner |-> "owner", user |-> "user", daemon |-> "daemon", dir |-> "dir"]
SidOf == [u \in {"user", "other"} |-> u]
Read(def) == ReadSnapshot(def, SidOf, TaskSpec.user)
Built == BuildDefinition(TaskSpec)

\* The definition setup registers reads back as the expected one.  Disabling
\* it keeps the ownership and loses the digest; every other change of a field
\* or of the access list loses both.
ASSUME /\ Read(Built) = ExpectedSnapshot(TaskSpec)
       /\ MatchesDefinition(Read(Built), TaskSpec, TRUE)
       /\ ~MatchesDefinition(Read(Built), TaskSpec, FALSE)

ASSUME LET disabled == Read([Built EXCEPT !.fields.enabled = FALSE])
       IN MatchesDefinition(disabled, TaskSpec, TRUE)
          /\ Digest(disabled) # Digest(ExpectedSnapshot(TaskSpec))

ASSUME \A def \in {[Built EXCEPT !.fields.actions = 2], [Built EXCEPT !.fields.triggers = 1],
                   [Built EXCEPT !.fields.user = "other"], [Built EXCEPT !.fields.restarts = 1],
                   [Built EXCEPT !.dacl = Append(@, [@[2] EXCEPT !.sid = "other"])],
                   [Built EXCEPT !.dacl = Tail(@)],
                   [Built EXCEPT !.dacl[1].flags = {"inherited"}]} :
  ~MatchesDefinition(Read(def), TaskSpec, TRUE)

ASSUME MatchesDefinition(Read([Built EXCEPT !.dacl = Append(@, [@[2] EXCEPT !.mask = {"read"}])]),
                         TaskSpec, TRUE)
=============================================================================
