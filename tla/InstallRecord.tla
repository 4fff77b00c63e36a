--------------------------- MODULE InstallRecord ---------------------------
(***************************************************************************)
(* The durable record of one installation slot (install_record.rs) and the *)
(* rules by which the store accepts a next record (install_store.rs).      *)
(*                                                                         *)
(* Evidence is published in one order: protected key, runtime, data        *)
(* (path and schema together), scheduled task.  `ev' is the set a record   *)
(* carries.  Times are left out: two records of one revision written by    *)
(* different attempts carry different times and so different bytes.        *)
(***************************************************************************)
EXTENDS Naturals

InstallState == {"ABSENT", "INSTALLING", "ACTIVE", "REMOVING", "RETAINED", "PURGING", "BROKEN"}

EvidenceSequence == <<"key", "runtime", "data", "task">>

Evidence == {EvidenceSequence[i] : i \in 1..4}

\* The record file does not exist.
NoRecord == [state |-> "ABSENT", id |-> 0, rev |-> 0, ev |-> {}]

Present(r) == r.state # "ABSENT"

\* is_active_complete: identity, key, runtime, data, schema and task are all set.
IsActiveComplete(r) == r.ev = Evidence

\* validate_evidence_order: the evidence is a prefix of the sequence.
EvidenceOrder(r) ==
  \A i, j \in 1..4 : j < i /\ EvidenceSequence[i] \in r.ev => EvidenceSequence[j] \in r.ev

\* validate: only INSTALLING and BROKEN may lack evidence; a revision is never 0.
Validate(r) ==
  /\ Present(r) /\ r.rev > 0 /\ EvidenceOrder(r)
  /\ r.state \in {"ACTIVE", "REMOVING", "RETAINED", "PURGING"} => IsActiveComplete(r)

\* validate_initial: revision one, INSTALLING, the product path and nothing else.
ValidateInitial(r) == Validate(r) /\ r.state = "INSTALLING" /\ r.rev = 1 /\ r.ev = {}

IsLegalTransition(from, to) ==
  \/ from = "INSTALLING" /\ to \in {"ACTIVE", "BROKEN"}
  \/ from = "ACTIVE"     /\ to = "REMOVING"
  \/ from = "REMOVING"   /\ to \in {"RETAINED", "BROKEN"}
  \/ from = "RETAINED"   /\ to \in {"INSTALLING", "PURGING"}

\* checkpoint: the first artifact that is missing, while INSTALLING.
NextEvidence(r) ==
  EvidenceSequence[CHOOSE i \in 1..4 :
    /\ EvidenceSequence[i] \notin r.ev
    /\ \A j \in 1..4 : j < i => EvidenceSequence[j] \in r.ev]

Checkpoint(r) == [r EXCEPT !.rev = @ + 1, !.ev = @ \union {NextEvidence(r)}]

Transition(r, to) == [r EXCEPT !.rev = @ + 1, !.state = to]

\* validate_successor: same identity, next revision, and either one checkpoint
\* more or one legal transition with the evidence untouched.
ValidateSuccessor(r, n) ==
  /\ Validate(n)
  /\ n.id = r.id /\ n.rev = r.rev + 1
  /\ \/ r.state = "INSTALLING" /\ ~IsActiveComplete(r) /\ n = Checkpoint(r)
     \/ IsLegalTransition(r.state, n.state) /\ n.ev = r.ev

\* The initial record of a fresh identity (windows_install.rs initial_record).
InitialRecord(id) == [state |-> "INSTALLING", id |-> id, rev |-> 1, ev |-> {}]

\* compare_and_swap_locked up to the staging: what may replace the current record.
AcceptsSwap(current, n) ==
  IF Present(current) THEN ValidateSuccessor(current, n) ELSE ValidateInitial(n)

AdmitsOrdinaryTraffic(r) == r.state = "ACTIVE" /\ IsActiveComplete(r)

\* control guard: a complete record that a retained runtime may act on.
AdmitsRetainedControl(r) ==
  r.state \in {"ACTIVE", "REMOVING", "RETAINED"} /\ Validate(r) /\ IsActiveComplete(r)

\* validate_purge_stage: a staging file left behind that purge may delete.  It
\* carries exactly the evidence of the purging record, and an older revision: a
\* file of the same revision is another attempt's and has other bytes.
ValidatePurgeStage(purging, staged) ==
  staged.id = purging.id /\ staged.rev < purging.rev /\ staged.ev = purging.ev
=============================================================================
