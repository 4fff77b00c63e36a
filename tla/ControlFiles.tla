---------------------------- MODULE ControlFiles ----------------------------
(***************************************************************************)
(* The protected control root of mesh-win32/src/windows.rs as its callers  *)
(* use it: several processes create the same directories, create and take  *)
(* the same lifetime lock, and the holder stages a file and publishes it.   *)
(* The steps of one call interleave with those of the others; a call may   *)
(* fail at any step and cleans up after itself, and a process may crash.    *)
(***************************************************************************)
EXTENDS FileRules

CONSTANTS Procs,         \* processes
          None,          \* no object, no process
          MaxFailures,   \* bound on failed steps
          MaxStops       \* bound on crashes

VARIABLES dirs,          \* the two nested directories: None or a security descriptor
          lock,          \* the lock file: None or [id, acl]
          held,          \* by process, the identity its exclusive handle is open on
          writing,       \* by process, the identity its create-new handle is open on
          stage,         \* by process, its staged file: None or [acl, body]
          final,         \* the published file: None or [acl, body]
          at,            \* by process, the next step of its call
          made,          \* by process, the directories its call created
          failures, stops

fileVars == <<dirs, lock, held, writing, stage, final, at, made, failures, stops>>

Levels == 1..2

\* A file identity no open handle refers to.
FreshId ==
  CHOOSE i \in 1..(2 * Cardinality(Procs) + 1) : \A p \in Procs : held[p] # i /\ writing[p] # i

ExactDir == ApplyUserOnlyAcl(Inherit)
ExactFile == ApplyUserOnlyAcl({})

\* The lock file, with what it inherits or with the exact descriptor.
LockFiles == [id : Nat, acl : {ChildAcl(ExactDir, FALSE), ExactFile}]

ASSUME ControlFilesAssumption ==
  IsFiniteSet(Procs) /\ None \notin Nat /\ None \notin LockFiles

FilesInit ==
  /\ dirs = [l \in Levels |-> None]
  /\ lock = None
  /\ held = [p \in Procs |-> None]
  /\ writing = [p \in Procs |-> None]
  /\ stage = [p \in Procs |-> None]
  /\ final = None
  /\ at = [p \in Procs |-> "idle"]
  /\ made = [p \in Procs |-> {}]
  /\ failures = 0 /\ stops = 0

-----------------------------------------------------------------------------
To(p, step) == at' = [at EXCEPT ![p] = step]

\* Whether an exclusive (share-none) handle is open on the lock file.
LockBusy == \E p \in Procs : lock # None /\ held[p] = lock.id

\* resolve_control_path: every parent is a plain directory with the exact
\* descriptor.
Resolves == \A l \in Levels : dirs[l] = ExactDir

DirEmpty(l) ==
  IF l = 1 THEN dirs[2] = None
  ELSE lock = None /\ final = None /\ \A p \in Procs : stage[p] = None

Step(l, name) ==
  [create |-> <<"create1", "create2">>, verify |-> <<"verify1", "verify2">>,
   protect |-> <<"protect1", "protect2">>][name][l]

\* create_relative_directories: an absent component is created with what it
\* inherits; one that another process created first is taken as it is.
MakeDirectory(p, l) ==
  /\ at[p] = Step(l, "create")
  /\ l = 1 \/ dirs[1] # None
  /\ IF dirs[l] = None
     THEN /\ dirs' = [dirs EXCEPT ![l] = ChildAcl(ExactDir, TRUE)]
          /\ made' = [made EXCEPT ![p] = @ \cup {l}]
     ELSE UNCHANGED <<dirs, made>>
  /\ To(p, Step(l, "verify"))
  /\ UNCHANGED <<lock, held, writing, stage, final, failures, stops>>

\* ensure_control_directory_acl: an exact descriptor is enough ...
VerifyDirectory(p, l) ==
  /\ at[p] = Step(l, "verify")
  /\ dirs[l] # None
  /\ To(p, IF dirs[l] # ExactDir THEN Step(l, "protect")
           ELSE IF l = 1 THEN Step(2, "create") ELSE "look")
  /\ UNCHANGED <<dirs, lock, held, writing, stage, final, made, failures, stops>>

\* ... otherwise an empty directory is given one and a filled one refused.
ProtectDirectory(p, l) ==
  /\ at[p] = Step(l, "protect")
  /\ dirs[l] # None
  /\ IF DirEmpty(l)
     THEN /\ dirs' = [dirs EXCEPT ![l] = ProtectRoot(dirs[l], TRUE, ExactDir, None)]
          /\ To(p, IF l = 1 THEN Step(2, "create") ELSE "look")
     ELSE UNCHANGED dirs /\ To(p, "undo")
  /\ UNCHANGED <<lock, held, writing, stage, final, made, failures, stops>>

\* A directory step that finds its parent or itself gone, or fails.
DirectoryFails(p) ==
  /\ \E l \in Levels :
       \/ at[p] = Step(l, "create") /\ l = 2 /\ dirs[1] = None
       \/ at[p] \in {Step(l, "verify"), Step(l, "protect")} /\ dirs[l] = None
       \/ at[p] = Step(l, "create") /\ failures < MaxFailures
  /\ failures' = IF failures < MaxFailures THEN failures + 1 ELSE failures
  /\ To(p, "undo")
  /\ UNCHANGED <<dirs, lock, held, writing, stage, final, made, stops>>

\* cleanup_created_directories: the call's own directories, the deepest first;
\* one that is no longer empty stays.
UndoDirectories(p) ==
  /\ at[p] = "undo"
  /\ LET deep == 2 \in made[p] /\ dirs[2] # None /\ DirEmpty(2)
         stuck == 2 \in made[p] /\ dirs[2] # None /\ ~DirEmpty(2)
         shallow == 1 \in made[p] /\ ~stuck /\ (deep \/ dirs[2] = None)
     IN dirs' = [l \in Levels |->
                   IF (l = 2 /\ deep) \/ (l = 1 /\ shallow) THEN None ELSE dirs[l]]
  /\ made' = [made EXCEPT ![p] = {}]
  /\ To(p, "idle")
  /\ UNCHANGED <<lock, held, writing, stage, final, failures, stops>>

Begin(p) ==
  /\ at[p] = "idle"
  /\ To(p, Step(1, "create"))
  /\ UNCHANGED <<dirs, lock, held, writing, stage, final, made, failures, stops>>

-----------------------------------------------------------------------------
(* acquire_lifetime_lock                                                    *)

Look(p) ==
  /\ at[p] = "look"
  /\ made' = [made EXCEPT ![p] = {}]
  /\ To(p, IF ~Resolves THEN "idle" ELSE IF lock = None THEN "create" ELSE "open")
  /\ UNCHANGED <<dirs, lock, held, writing, stage, final, failures, stops>>

\* create_protected_file(lock): create-new; losing the race is an error, not
\* a reason to open the winner's file.
CreateLock(p) ==
  /\ at[p] = "create"
  /\ IF Resolves /\ lock = None
     THEN /\ lock' = [id |-> FreshId, acl |-> ChildAcl(ExactDir, FALSE)]
          /\ writing' = [writing EXCEPT ![p] = FreshId]
          /\ To(p, "protect")
     ELSE UNCHANGED <<lock, writing>> /\ To(p, "idle")
  /\ UNCHANGED <<dirs, held, stage, final, made, failures, stops>>

\* The descriptor is set by path before any byte is written; then the file is
\* flushed and its handle closed.
ProtectLock(p) ==
  /\ at[p] = "protect"
  /\ lock' = [lock EXCEPT !.acl = ExactFile]
  /\ writing' = [writing EXCEPT ![p] = None]
  /\ To(p, "readback")
  /\ UNCHANGED <<dirs, held, stage, final, made, failures, stops>>

\* The read back opens the file by path: an exclusive handle of another
\* process fails it.
ReadBackLock(p) ==
  /\ at[p] = "readback"
  /\ To(p, IF lock # None /\ ~LockBusy /\ lock.acl = ExactFile THEN "open" ELSE "cleanup")
  /\ UNCHANGED <<dirs, lock, held, writing, stage, final, made, failures, stops>>

\* Mutant of CleanupLock: the lock handle shares deletion.
CleanupShared(p) ==
  /\ at[p] = "cleanup"
  /\ lock' = None
  /\ writing' = [writing EXCEPT ![p] = None]
  /\ To(p, "idle")
  /\ UNCHANGED <<dirs, held, stage, final, made, failures, stops>>

\* CreatedFileGuard::cleanup unlinks by path, which an exclusive handle
\* refuses because it does not share deletion.
CleanupLock(p) ==
  /\ at[p] = "cleanup"
  /\ lock' = IF LockBusy THEN lock ELSE None
  /\ writing' = [writing EXCEPT ![p] = None]
  /\ To(p, "idle")
  /\ UNCHANGED <<dirs, held, stage, final, made, failures, stops>>

\* A failed step of the creation leads to its cleanup.
CreationFails(p) ==
  /\ at[p] \in {"protect", "readback"}
  /\ failures < MaxFailures
  /\ failures' = failures + 1
  /\ writing' = [writing EXCEPT ![p] = None]
  /\ To(p, "cleanup")
  /\ UNCHANGED <<dirs, lock, held, stage, final, made, stops>>

\* ExclusiveFileLock::acquire_existing: CreateFileW with share mode zero
\* fails while any other handle is open on the file.
OpenLock(p) ==
  /\ at[p] = "open"
  /\ IF lock # None /\ ~LockBusy /\ \A q \in Procs : writing[q] # lock.id
     THEN held' = [held EXCEPT ![p] = lock.id] /\ To(p, "check")
     ELSE UNCHANGED held /\ To(p, "idle")
  /\ UNCHANGED <<dirs, lock, writing, stage, final, made, failures, stops>>

\* verify_user_only_handle_acl on the open handle, then the path once more.
CheckLock(p) ==
  /\ at[p] = "check"
  /\ IF lock # None /\ lock.acl = ExactFile /\ Resolves
     THEN To(p, "held") /\ UNCHANGED held
     ELSE To(p, "idle") /\ held' = [held EXCEPT ![p] = None]
  /\ UNCHANGED <<dirs, lock, writing, stage, final, made, failures, stops>>

Unlock(p) ==
  /\ at[p] = "held"
  /\ held' = [held EXCEPT ![p] = None]
  /\ To(p, "idle")
  /\ UNCHANGED <<dirs, lock, writing, stage, final, made, failures, stops>>

-----------------------------------------------------------------------------
(* The holder publishes a file.                                             *)

\* create_protected_file, create_endpoint_key_file, copy_reader_verified:
\* create-new at a name of its own, the descriptor first.
CreateStage(p) ==
  /\ at[p] = "held" /\ stage[p] = None
  /\ stage' = [stage EXCEPT ![p] = [acl |-> ExactFile, body |-> "empty"]]
  /\ To(p, "copy")
  /\ UNCHANGED <<dirs, lock, held, writing, final, made, failures, stops>>

\* The stream may be the expected one or not; only the digest tells.
CopyStage(p) ==
  /\ at[p] = "copy"
  /\ \E body \in {"expected", "other"} :
       stage' = [stage EXCEPT ![p].body = body]
  /\ To(p, "digest")
  /\ UNCHANGED <<dirs, lock, held, writing, final, made, failures, stops>>

\* The digest of the stream and that of the file on disk must both be the
\* expected one, or the file this call created is removed.
VerifyStage(p) ==
  /\ at[p] = "digest"
  /\ IF stage[p].body = "expected" /\ stage[p].acl = ExactFile
     THEN UNCHANGED stage /\ To(p, "move")
     ELSE stage' = [stage EXCEPT ![p] = None] /\ To(p, "held")
  /\ UNCHANGED <<dirs, lock, held, writing, final, made, failures, stops>>

\* with_created_file after a failed step: the created file is removed.
StageFails(p) ==
  /\ at[p] \in {"copy", "digest"}
  /\ failures < MaxFailures
  /\ failures' = failures + 1
  /\ stage' = [stage EXCEPT ![p] = None]
  /\ To(p, "held")
  /\ UNCHANGED <<dirs, lock, held, writing, final, made, stops>>

\* move_protected_file: a move that may not replace fails on an existing file
\* and leaves the stage; one that may replaces an exact file only.
MoveStage(p, replace) ==
  /\ at[p] = "move"
  /\ IF stage[p].acl = ExactFile /\ (final = None \/ (replace /\ final.acl = ExactFile))
     THEN /\ final' = [acl |-> stage[p].acl, body |-> stage[p].body]
          /\ stage' = [stage EXCEPT ![p] = None]
     ELSE UNCHANGED <<final, stage>>
  /\ To(p, "held")
  /\ UNCHANGED <<dirs, lock, held, writing, made, failures, stops>>

\* remove_regular_file of a stage left behind.
RemoveStaged(p) ==
  /\ at[p] = "held"
  /\ \E q \in Procs : stage[q] # None /\ stage' = [stage EXCEPT ![q] = None]
  /\ UNCHANGED <<dirs, lock, held, writing, final, at, made, failures, stops>>

\* A crash closes every handle of the process and leaves its files.
Crash(p) ==
  /\ stops < MaxStops
  /\ at[p] # "idle"
  /\ stops' = stops + 1
  /\ held' = [held EXCEPT ![p] = None]
  /\ writing' = [writing EXCEPT ![p] = None]
  /\ made' = [made EXCEPT ![p] = {}]
  /\ To(p, "idle")
  /\ UNCHANGED <<dirs, lock, stage, final, failures>>

FilesNext ==
  \E p \in Procs :
    \/ Begin(p)
    \/ \E l \in Levels : MakeDirectory(p, l) \/ VerifyDirectory(p, l) \/ ProtectDirectory(p, l)
    \/ DirectoryFails(p) \/ UndoDirectories(p)
    \/ Look(p) \/ CreateLock(p) \/ ProtectLock(p) \/ ReadBackLock(p) \/ CleanupLock(p)
    \/ CreationFails(p) \/ OpenLock(p) \/ CheckLock(p) \/ Unlock(p)
    \/ CreateStage(p) \/ CopyStage(p) \/ VerifyStage(p) \/ StageFails(p)
    \/ \E replace \in BOOLEAN : MoveStage(p, replace)
    \/ RemoveStaged(p) \/ Crash(p)

FilesSpec == FilesInit /\ [][FilesNext]_fileVars

-----------------------------------------------------------------------------
\* Two processes never own the lifetime lock at once, and the file an owner
\* holds is the one the next process will find at the path, although a failed
\* creation unlinks that path (CreatedFileGuard::cleanup, ExclusiveFileLock).
LockIsExclusive ==
  \A p, q \in Procs :
    at[p] \in {"held", "copy", "digest", "move"} =>
      /\ lock # None /\ held[p] = lock.id
      /\ at[q] \in {"held", "copy", "digest", "move"} => p = q

=============================================================================
