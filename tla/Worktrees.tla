----------------------------- MODULE Worktrees -----------------------------
(***************************************************************************)
(* The worktree manager (worktree.rs): every attempt prepares a detached   *)
(* worktree of its own under the administrative lock of its repository,    *)
(* registers it through the writer, and may later remove it.  A user may   *)
(* remove a directory or prune the repository at any time.                 *)
(***************************************************************************)
EXTENDS GitRules

CONSTANTS Attempts, Repos, RepoOf, NoLock, MaxLocks, MaxUpsets

ASSUME RepoAssumption == RepoOf \in [Attempts -> Repos]

VARIABLES
  repo,      \* what reverify_admission sees: usable or not
  pc,        \* where the attempt's prepare or remove call stands
  slot,      \* AdminLockRegistry: the lock object a repository's entry names
  arc,       \* the lock object the attempt holds a strong reference to
  inside,    \* attempts that hold the mutex of their lock object
  drawn,     \* lock objects made so far
  onDisk, listed,     \* directories, and Git's administration of them
  rowed,     \* worktrees rows
  prepared, removedTrees,  \* PreparedRegistry
  upsets     \* failures and interferences so far

worktreeVars == <<repo, pc, slot, arc, inside, drawn, onDisk, listed, rowed, prepared, removedTrees, upsets>>

WorktreesInit ==
  /\ repo = [r \in Repos |-> TRUE]
  /\ pc = [w \in Attempts |-> "new"]
  /\ slot = [r \in Repos |-> NoLock]
  /\ arc = [w \in Attempts |-> NoLock]
  /\ inside = {}
  /\ drawn = 0
  /\ onDisk = {} /\ listed = {} /\ rowed = {} /\ prepared = {} /\ removedTrees = {}
  /\ upsets = 0

MayUpset == upsets < MaxUpsets /\ upsets' = upsets + 1

Calm == UNCHANGED upsets

Move(w, to) == pc' = [pc EXCEPT ![w] = to]

\* reverify_admission runs before the lock is taken.
Reverify(w) ==
  /\ pc[w] = "new"
  /\ Move(w, IF repo[RepoOf[w]] THEN "lock" ELSE "done")
  /\ UNCHANGED <<repo, slot, arc, inside, drawn, onDisk, listed, rowed, prepared, removedTrees, upsets>>

\* A lock object is alive while someone holds a strong reference to it.
Alive(k) == k # NoLock /\ \E w \in Attempts : arc[w] = k

\* Mutant of AcquireLock: the entry is replaced on every call.
AcquireFresh(w) ==
  /\ pc[w] \in {"lock", "remove"} /\ arc[w] = NoLock
  /\ drawn < MaxLocks
  /\ slot' = [slot EXCEPT ![RepoOf[w]] = drawn]
  /\ arc' = [arc EXCEPT ![w] = drawn]
  /\ drawn' = drawn + 1
  /\ UNCHANGED <<repo, pc, inside, onDisk, listed, rowed, prepared, removedTrees, upsets>>

\* AdminLockRegistry::acquire: an entry whose lock is still alive is shared, a
\* dead one replaced.
AcquireLock(w) ==
  /\ pc[w] \in {"lock", "remove"} /\ arc[w] = NoLock
  /\ LET r == RepoOf[w]
     IN IF Alive(slot[r])
        THEN arc' = [arc EXCEPT ![w] = slot[r]] /\ UNCHANGED <<slot, drawn>>
        ELSE /\ drawn < MaxLocks
             /\ slot' = [slot EXCEPT ![r] = drawn]
             /\ arc' = [arc EXCEPT ![w] = drawn]
             /\ drawn' = drawn + 1
  /\ UNCHANGED <<repo, pc, inside, onDisk, listed, rowed, prepared, removedTrees, upsets>>

\* with_admin_lock: the mutex of the shared object.
EnterLock(w) ==
  /\ pc[w] \in {"lock", "remove"} /\ arc[w] # NoLock
  /\ \A v \in inside : arc[v] # arc[w]
  /\ inside' = inside \cup {w}
  /\ Move(w, IF pc[w] = "lock" THEN "add" ELSE "verify")
  /\ UNCHANGED <<repo, slot, arc, drawn, onDisk, listed, rowed, prepared, removedTrees, upsets>>

\* The guard is dropped, then the strong reference.
LeaveLock(w) ==
  /\ pc[w] \in {"leave", "leaveFailed", "leaveRemoved"}
  /\ IF w \in inside THEN inside' = inside \ {w} /\ UNCHANGED <<arc, pc, prepared>>
     ELSE /\ arc' = [arc EXCEPT ![w] = NoLock]
          /\ prepared' = IF pc[w] = "leave" THEN prepared \cup {w} ELSE prepared
          /\ Move(w, IF pc[w] = "leave" \/ (pc[w] = "leaveFailed" /\ w \in prepared)
                     THEN "ready" ELSE "done")
          /\ UNCHANGED inside
  /\ UNCHANGED <<repo, slot, drawn, onDisk, listed, rowed, removedTrees, upsets>>

\* git worktree add --detach at the pinned commit.
AddWorktree(w) ==
  /\ pc[w] = "add"
  /\ \/ /\ onDisk' = onDisk \cup {w} /\ listed' = listed \cup {w}
        /\ Move(w, "register") /\ Calm
     \/ MayUpset /\ Move(w, "leaveFailed") /\ UNCHANGED <<onDisk, listed>>
  /\ UNCHANGED <<repo, slot, arc, inside, drawn, rowed, prepared, removedTrees>>

\* WriterHandle::register_worktree commits the row or returns an error.
RegisterRow(w) ==
  /\ pc[w] = "register"
  /\ \/ rowed' = rowed \cup {w} /\ Move(w, "leave") /\ Calm
     \/ MayUpset /\ Move(w, "undo") /\ UNCHANGED rowed
  /\ UNCHANGED <<repo, slot, arc, inside, drawn, onDisk, listed, prepared, removedTrees>>

\* The directory of a failed registration is removed; the outcome of that is
\* not looked at.
UndoAdd(w) ==
  /\ pc[w] = "undo"
  /\ \/ onDisk' = onDisk \ {w} /\ listed' = listed \ {w} /\ Calm
     \/ MayUpset /\ UNCHANGED <<onDisk, listed>>
  /\ Move(w, "leaveFailed")
  /\ UNCHANGED <<repo, slot, arc, inside, drawn, rowed, prepared, removedTrees>>

\* remove_worktree of a path this manager recorded.
BeginRemove(w) ==
  /\ pc[w] = "ready" /\ w \in prepared
  /\ Move(w, "remove")
  /\ UNCHANGED <<repo, slot, arc, inside, drawn, onDisk, listed, rowed, prepared, removedTrees, upsets>>

\* verify_intact_for_removal: the filesystem and Git still agree.
VerifyIntact(w) ==
  /\ pc[w] = "verify"
  /\ Move(w, IF w \in removedTrees THEN "leaveRemoved"
             ELSE IF w \in onDisk /\ w \in listed THEN "delete" ELSE "leaveFailed")
  /\ UNCHANGED <<repo, slot, arc, inside, drawn, onDisk, listed, rowed, prepared, removedTrees, upsets>>

\* git worktree remove --force: all of it, or only its administration, or none.
DeleteWorktree(w) ==
  /\ pc[w] = "delete"
  /\ \/ onDisk' = onDisk \ {w} /\ listed' = listed \ {w} /\ Move(w, "converge") /\ Calm
     \/ MayUpset /\ listed' = listed \ {w} /\ Move(w, "converge") /\ UNCHANGED onDisk
     \/ MayUpset /\ Move(w, "leaveFailed") /\ UNCHANGED <<onDisk, listed>>
  /\ UNCHANGED <<repo, slot, arc, inside, drawn, rowed, prepared, removedTrees>>

\* The directory and the listing must both be gone before the removal counts.
Converge(w) ==
  /\ pc[w] = "converge"
  /\ IF w \in onDisk \/ w \in listed
     THEN Move(w, "leaveFailed") /\ UNCHANGED removedTrees
     ELSE removedTrees' = removedTrees \cup {w} /\ Move(w, "leaveRemoved")
  /\ UNCHANGED <<repo, slot, arc, inside, drawn, onDisk, listed, rowed, prepared, upsets>>

\* A user removes the directory, prunes the listing, or leaves the checkout dirty.
UserInterferes ==
  /\ MayUpset
  /\ \/ \E w \in onDisk : onDisk' = onDisk \ {w} /\ UNCHANGED <<listed, repo>>
     \/ \E w \in listed : listed' = listed \ {w} /\ UNCHANGED <<onDisk, repo>>
     \/ \E r \in Repos : repo' = [repo EXCEPT ![r] = ~@] /\ UNCHANGED <<onDisk, listed>>
  /\ UNCHANGED <<pc, slot, arc, inside, drawn, rowed, prepared, removedTrees>>

\* The process stops; the ownership records are of this generation only.
StopManager ==
  /\ MayUpset
  /\ pc' = [w \in Attempts |-> IF pc[w] = "new" THEN "new" ELSE "done"]
  /\ slot' = [r \in Repos |-> NoLock]
  /\ arc' = [w \in Attempts |-> NoLock]
  /\ inside' = {} /\ prepared' = {} /\ removedTrees' = {}
  /\ UNCHANGED <<repo, drawn, onDisk, listed, rowed>>

WorktreesNext ==
  \/ \E w \in Attempts :
       \/ Reverify(w) \/ AcquireLock(w) \/ EnterLock(w) \/ LeaveLock(w)
       \/ AddWorktree(w) \/ RegisterRow(w) \/ UndoAdd(w)
       \/ BeginRemove(w) \/ VerifyIntact(w) \/ DeleteWorktree(w) \/ Converge(w)
  \/ UserInterferes
  \/ StopManager

WorktreesSpec == WorktreesInit /\ [][WorktreesNext]_worktreeVars

-----------------------------------------------------------------------------

\* Mesh-owned add and remove operations of one repository never overlap,
\* although the lock object is dropped and made anew whenever nobody holds it.
AdminOperationsExclude ==
  \A v, w \in inside : RepoOf[v] = RepoOf[w] => v = w

\* If registration fails the fresh worktree is removed: no call that has
\* returned leaves a directory without a row.
UnregisteredNeverLingers ==
  \A w \in onDisk : pc[w] = "done" => w \in rowed

=============================================================================
