----------------------------- MODULE PurgeTree -----------------------------
(***************************************************************************)
(* The removal of one installation tree, as mesh-win32/src/windows.rs      *)
(* carries it out: installs/<id> is renamed to purge/<id>, the tombstone   *)
(* is audited twice, and then unlinked entry by entry, bottom up.  Another *)
(* process of the same user may change the tree between any two steps, and *)
(* the purging process may crash and begin again.                           *)
(***************************************************************************)
EXTENDS FileRules

CONSTANTS Absent,        \* no object at a path
          MaxEntries,    \* MAX_PURGE_ENTRIES, scaled down
          MaxChanges,    \* bound on what the other process does
          MaxCrashes     \* bound on crashes of the purging process

VARIABLES tree,          \* the tree's objects by path below its root; <<>> is the root
          where,         \* "source" (installs/<id>), "tombstone" (purge/<id>)
          outside,       \* identities with another hard-link name outside the tree
          phase,         \* the next step of audit_and_remove_install_tree
          audited,       \* report and fingerprint of the first audit
          removed,       \* report and fingerprint of what was unlinked
          unlinked,      \* every object unlinked by this call
          touched,       \* the other process changed the tree during this call
          changes, crashes

treeVars == <<tree, where, outside, phase, audited, removed, unlinked, touched, changes,
              crashes>>

Key == <<"k","e","y">>
Data == <<"d","a","t","a">>
FileA == <<Data, <<"a">>>>
FileB == <<Data, <<"b">>>>

TreePaths == {<<>>, <<Key>>, <<Data>>, FileA, FileB}

Node(id, kind, acl) == [id |-> id, kind |-> kind, reparse |-> FALSE, acl |-> acl]

DataFile(id) == Node(id, "file", ChildAcl(DataRootAcl, FALSE))

\* An installation as setup leaves it: control objects with the user's own
\* descriptor, a data root, and data files that may be one file by two names.
InstallTrees ==
  {[p \in TreePaths |->
      CASE p = <<>> -> Node(1, "dir", ApplyUserOnlyAcl(Inherit))
        [] p = <<Key>> -> Node(2, "file", ApplyUserOnlyAcl({}))
        [] p = <<Data>> -> Node(3, "dir", DataRootAcl)
        [] p = FileA -> DataFile(4)
        [] p = FileB -> b] : b \in {Absent, DataFile(5), DataFile(4)}}

Nothing == [entries |-> {}, directories |-> 0, files |-> 0, links |-> 0]

-----------------------------------------------------------------------------
PathsIn(t) == {p \in DOMAIN t : t[p] # Absent}

Parent(p) == SubSeq(p, 1, Len(p) - 1)

Children(t, p) == {q \in PathsIn(t) : q # <<>> /\ Parent(q) = p}

\* nNumberOfLinks of the object at p.
Links(t, out, p) ==
  Cardinality({q \in PathsIn(t) : t[q].id = t[p].id}) + (IF t[p].id \in out THEN 1 ELSE 0)

\* The contract child_contract passes down to p.
Contract(p) ==
  CASE p = <<>> -> "tombstoneRoot"
    [] Len(p) = 1 -> ChildContract("tombstoneRoot", p[1])
    [] OTHER -> ChildContract(ChildContract("tombstoneRoot", p[1]), p[2])

\* PurgeFingerprint::add folds in the path, identity, attributes and link
\* count of an entry; equal entries cancel out.
Fingerprint(entries, t, out, p) ==
  LET e == [path |-> p, id |-> t[p].id, kind |-> t[p].kind, links |-> Links(t, out, p)]
  IN IF e \in entries THEN entries \ {e} ELSE entries \cup {e}

AddReport(r, t, out, p) ==
  [entries |-> Fingerprint(r.entries, t, out, p),
   directories |-> r.directories + (IF t[p].kind = "dir" THEN 1 ELSE 0),
   files |-> r.files + (IF t[p].kind = "file" THEN 1 ELSE 0),
   links |-> r.links + (IF t[p].kind = "file" /\ Links(t, out, p) > 1 THEN 1 ELSE 0)]

HasCapacity(r) == r.directories + r.files < MaxEntries

\* audit_purge_directory: everything meets its contract, within the limit.
AuditPasses(t) ==
  /\ \A p \in PathsIn(t) : VerifyPurgeHandle(t[p], t[p], Contract(p))
  /\ Cardinality(PathsIn(t)) <= MaxEntries

AuditReport(t, out) ==
  FoldSet(LAMBDA p, r : AddReport(r, t, out, p), Nothing, PathsIn(t))

-----------------------------------------------------------------------------
TreeInit ==
  /\ tree \in InstallTrees
  /\ where = "source"
  /\ outside \in {{}, {4}}
  /\ phase = "idle"
  /\ audited = Nothing /\ removed = Nothing /\ unlinked = {}
  /\ touched = FALSE /\ changes = 0 /\ crashes = 0

\* classify_install_purge_tree
Classify == IF <<>> \notin PathsIn(tree) THEN "gone" ELSE where

\* stage_install_tree_for_purge: the root is renamed through its handle, no
\* replacement; a tree already staged is left where it is.
StageTree ==
  /\ phase = "idle"
  /\ Classify \in {"source", "tombstone"}
  /\ VerifyControlAcl(tree[<<>>].acl, TRUE)
  /\ where' = "tombstone"
  /\ UNCHANGED <<tree, outside, phase, audited, removed, unlinked, touched, changes, crashes>>

\* A call begins, the first one or one after an error: a tree that is gone is
\* a success with an empty report.
AuditBegin ==
  /\ phase \in {"idle", "refused", "changed", "done"}
  /\ Classify # "source"
  /\ phase' = IF Classify = "gone" THEN "done"
              ELSE IF AuditPasses(tree) THEN "audited" ELSE "refused"
  /\ audited' = IF phase' = "audited" THEN AuditReport(tree, outside) ELSE Nothing
  /\ removed' = Nothing /\ unlinked' = {} /\ touched' = FALSE
  /\ UNCHANGED <<tree, where, outside, changes, crashes>>

\* The second audit must see exactly what the first one saw.
Reaudit ==
  /\ phase = "audited"
  /\ phase' = IF /\ Classify = "tombstone"
                 /\ AuditPasses(tree)
                 /\ AuditReport(tree, outside) = audited
              THEN "removing" ELSE "refused"
  /\ UNCHANGED <<tree, where, outside, audited, removed, unlinked, touched, changes, crashes>>

\* remove_purge_directory takes whatever entry it finds, verifies its handle
\* and unlinks it; a directory only once it is empty.
RemoveEntry ==
  /\ phase = "removing"
  /\ \E p \in PathsIn(tree) :
       /\ Children(tree, p) = {}
       /\ IF VerifyPurgeHandle(tree[p], tree[p], Contract(p)) /\ (p = <<>> \/ HasCapacity(removed))
          THEN /\ tree' = [tree EXCEPT ![p] = Absent]
               /\ removed' = AddReport(removed, tree, outside, p)
               /\ unlinked' = unlinked \cup {[path |-> p, id |-> tree[p].id]}
               /\ phase' = IF p = <<>> THEN "compare" ELSE phase
          ELSE /\ phase' = "refused"
               /\ UNCHANGED <<tree, removed, unlinked>>
  /\ UNCHANGED <<where, outside, audited, touched, changes, crashes>>

\* Mutant of Compare: the reports are compared, the fingerprints are not.
CompareCounts ==
  /\ phase = "compare"
  /\ phase' = IF removed.files = audited.files /\ removed.directories = audited.directories
              THEN "done" ELSE "changed"
  /\ UNCHANGED <<tree, where, outside, audited, removed, unlinked, touched, changes, crashes>>

\* Only a removal equal to the audit is reported as a success.
Compare ==
  /\ phase = "compare"
  /\ phase' = IF removed = audited THEN "done" ELSE "changed"
  /\ UNCHANGED <<tree, where, outside, audited, removed, unlinked, touched, changes, crashes>>

CrashPurger ==
  /\ phase \in {"audited", "removing", "compare"}
  /\ crashes < MaxCrashes
  /\ crashes' = crashes + 1
  /\ phase' = "idle"
  /\ audited' = Nothing /\ removed' = Nothing /\ unlinked' = {} /\ touched' = FALSE
  /\ UNCHANGED <<tree, where, outside, changes>>

\* Another process of the same user adds, replaces, unlinks or re-protects a
\* data file, or gives it a name outside the tree.
OtherProcess ==
  /\ changes < MaxChanges
  /\ <<Data>> \in PathsIn(tree)
  /\ changes' = changes + 1
  /\ touched' = TRUE
  /\ \E p \in {FileA, FileB} :
       \/ /\ tree' = [tree EXCEPT ![p] = DataFile(6 + changes)]
          /\ UNCHANGED outside
       \/ /\ tree[p] # Absent
          /\ tree' = [tree EXCEPT ![p] = Absent]
          /\ UNCHANGED outside
       \/ /\ tree[p] # Absent
          /\ tree' = [tree EXCEPT ![p].acl = ApplyUserOnlyAcl({})]
          /\ UNCHANGED outside
       \/ /\ tree[p] # Absent
          /\ outside' = outside \cup {tree[p].id}
          /\ UNCHANGED tree
  /\ UNCHANGED <<where, phase, audited, removed, unlinked, crashes>>

TreeNext ==
  \/ StageTree \/ AuditBegin \/ Reaudit \/ RemoveEntry \/ Compare
  \/ CrashPurger \/ OtherProcess

TreeSpec == TreeInit /\ [][TreeNext]_treeVars

-----------------------------------------------------------------------------
\* When the call reports success, what it unlinked is exactly what the first
\* audit recorded, whatever the other process did in between
\* (windows.rs:651-664).
SuccessMeansAudited ==
  phase = "done" =>
    unlinked = {[path |-> e.path, id |-> e.id] : e \in audited.entries}

\* A tree that nobody else touched and that passed the audit is removed with
\* a success: its hard-linked files are accepted entries.
UndisturbedTreesAreRemoved == ~touched => phase # "changed"
=============================================================================
