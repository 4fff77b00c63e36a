----------------------------- MODULE Retention -----------------------------
(***************************************************************************)
(* The content-addressed blobs, reader leases and retention collector of   *)
(* the store (storage.rs).  Every storage call runs on the one writer      *)
(* thread; the caller that carries out a deletion plan removes the file or *)
(* directory outside of it, and the process may stop at any step.          *)
(* Time is counted in units of which the horizons are multiples.           *)
(***************************************************************************)
EXTENDS Integers, FiniteSets

CONSTANTS Blobs, KeptTasks, Leases, Unset,
          Collectors,             \* callers that carry out deletion plans
          Grace,                  \* DAY_US: an unreferenced blob is kept this long
          BlobAfterTerminal,      \* 14 * DAY_US
          BlobAfterAck,           \* 7 * DAY_US
          WorktreeAfterAck,       \* 7 * DAY_US
          WorktreeAfterTerminal,  \* 30 * DAY_US
          CompactAfter,           \* 90 * DAY_US
          LeaseTtl, LeaseHeartbeat,
          BatchRows,              \* GC_BATCH_ROWS
          MaxNow, MaxFaults

ASSUME RetentionAssumption ==
  /\ {Grace, BlobAfterTerminal, BlobAfterAck, WorktreeAfterAck, WorktreeAfterTerminal,
      CompactAfter, LeaseTtl, LeaseHeartbeat, BatchRows} \subseteq Nat \ {0}
  /\ LeaseHeartbeat <= LeaseTtl
  /\ WorktreeAfterAck <= WorktreeAfterTerminal

VARIABLES
  now,       \* the clock the callers pass in
  task,      \* tasks, results and outbox: phase, outcome, terminal_at, acked_at
  worktree,  \* worktrees.state of the task's worktree
  dir,       \* its directory is on disk
  object,    \* blob_objects: published_at, or None
  file,      \* the blob's file is on disk
  ref,       \* blob_refs: the blob of the task's result and its eligible_at
  staging,   \* blob_staging left by earlier calls: what their .part files hold
  lease,     \* reader_leases with their items
  epoch,     \* storage_meta.lease_epoch
  intent,    \* gc_intents.state per resource, or None
  plan,      \* collector -> the deletion it is carrying out
  op,        \* the publication the writer thread is in
  mode,      \* "up", "down", or "refused" when open failed
  faults     \* failed calls and stops so far

retentionVars == <<now, task, worktree, dir, object, file, ref, staging, lease, epoch, intent,
          plan, op, mode, faults>>

rows == <<task, worktree, ref, lease, epoch, intent>>

Resources == [kind : {"blob"}, id : Blobs] \cup [kind : {"worktree", "task"}, id : KeptTasks]

BlobOf(b) == [kind |-> "blob", id |-> b]
WorktreeOf(t) == [kind |-> "worktree", id |-> t]
TaskOf(t) == [kind |-> "task", id |-> t]

RetentionInit ==
  /\ now = 0
  /\ task = [t \in KeptTasks |-> [phase |-> "open", outcome |-> Unset, term |-> Unset, ack |-> Unset]]
  /\ worktree = [t \in KeptTasks |-> "none"]
  /\ dir = [t \in KeptTasks |-> FALSE]
  /\ object = [b \in Blobs |-> Unset]
  /\ file = [b \in Blobs |-> FALSE]
  /\ ref = [t \in KeptTasks |-> Unset]
  /\ staging = [b \in Blobs |-> {}]
  /\ lease = [l \in Leases |-> Unset]
  /\ epoch = 1
  /\ intent = [r \in Resources |-> Unset]
  /\ plan = [c \in Collectors |-> Unset]
  /\ op = Unset
  /\ mode = "up"
  /\ faults = 0

\* The writer thread takes the next call.
Ready == mode = "up" /\ op = Unset

Tick ==
  /\ now < MaxNow
  /\ now' = now + 1
  /\ UNCHANGED <<task, worktree, dir, object, file, ref, staging, lease, epoch, intent,
                 plan, op, mode, faults>>

-----------------------------------------------------------------------------
(* KeptTasks and their worktrees, as far as retention depends on them           *)

\* register_worktree: one ACTIVE worktree of an existing task.
RegisterWorktree(t) ==
  /\ Ready /\ task[t].phase = "open" /\ worktree[t] = "none"
  /\ worktree' = [worktree EXCEPT ![t] = "ACTIVE"]
  /\ dir' = [dir EXCEPT ![t] = TRUE]
  /\ UNCHANGED <<now, task, object, file, ref, staging, lease, epoch, intent,
                 plan, op, mode, faults>>

\* finalize: the terminal tuple, and the worktree is retained.
Finalize(t, outcome) ==
  /\ Ready /\ task[t].phase = "open"
  /\ task' = [task EXCEPT ![t] = [phase |-> "terminal", outcome |-> outcome,
                                  term |-> now, ack |-> Unset]]
  /\ worktree' = [worktree EXCEPT ![t] = IF @ = "none" THEN @ ELSE "RETAINED"]
  /\ UNCHANGED <<now, dir, object, file, ref, staging, lease, epoch, intent, plan,
                 op, mode, faults>>

\* ack_reviewed_result: the blobs of the result get their deadline.
Acknowledge(t) ==
  /\ Ready /\ task[t].phase = "terminal" /\ task[t].ack = Unset
  /\ task' = [task EXCEPT ![t].ack = now]
  /\ ref' = [ref EXCEPT ![t] =
       IF @ = Unset THEN @
       ELSE [@ EXCEPT !.eligible =
               LET a == task[t].term + BlobAfterTerminal
                   b == now + BlobAfterAck
               IN IF a > b THEN a ELSE b]]
  /\ worktree' = [worktree EXCEPT ![t] = IF @ = "ACTIVE" THEN "RETAINED" ELSE @]
  /\ UNCHANGED <<now, dir, object, file, staging, lease, epoch, intent, plan, op,
                 mode, faults>>

-----------------------------------------------------------------------------
(* publish_blob and reference_blob                                          *)

Published(b) ==
  object' = [object EXCEPT ![b] = IF @ = Unset THEN now ELSE @]

\* The file is there already: it is verified and its row made sure of.
PublishExisting(b) ==
  /\ Ready /\ file[b]
  /\ Published(b)
  /\ UNCHANGED <<now, dir, file, staging, plan, op, mode, faults, rows>>

\* No file: the staging row commits on its own, before the .part file exists.
PublishStage(b) ==
  /\ Ready /\ ~file[b]
  /\ op' = [blob |-> b, at |-> "write", part |-> "absent"]
  /\ UNCHANGED <<now, dir, object, file, staging, plan, mode, faults, rows>>

Fault ==
  /\ faults < MaxFaults
  /\ faults' = faults + 1

\* The call returns its error and leaves its staging row behind.
PublishFails(part) ==
  /\ Fault
  /\ staging' = [staging EXCEPT ![op.blob] = @ \cup {part}]
  /\ op' = Unset

\* write_all, sync_all and verify_blob, or an error that leaves some of the bytes.
PublishWrite ==
  /\ op # Unset /\ op.at = "write"
  /\ \/ op' = [op EXCEPT !.at = "move", !.part = "whole"] /\ UNCHANGED <<staging, faults>>
     \/ \E part \in {"absent", "torn"} : PublishFails(part)
  /\ UNCHANGED <<now, dir, object, file, plan, mode, rows>>

\* atomic_publish: the part file becomes the blob's file, or the call fails.
PublishMove ==
  /\ op # Unset /\ op.at = "move"
  /\ \/ /\ op' = [op EXCEPT !.at = "commit", !.part = "absent"]
        /\ file' = [file EXCEPT ![op.blob] = TRUE]
        /\ UNCHANGED <<staging, faults>>
     \/ PublishFails("whole") /\ UNCHANGED file
  /\ UNCHANGED <<now, dir, object, plan, mode, rows>>

\* The published file is verified once more; the object row and the end of the
\* staging row commit together.
PublishCommit ==
  /\ op # Unset /\ op.at = "commit"
  /\ IF file[op.blob]
     THEN Published(op.blob) /\ op' = Unset /\ UNCHANGED staging
     ELSE /\ op' = Unset
          /\ staging' = [staging EXCEPT ![op.blob] = @ \cup {"absent"}]
          /\ UNCHANGED object
  /\ UNCHANGED <<now, dir, file, plan, mode, faults, rows>>

\* reference_blob: the file must read back and its row exist (the foreign key);
\* replacing the blob of an owner keeps the owner's eligible_at.
ReferenceBlob(t, b) ==
  /\ Ready /\ file[b] /\ object[b] # Unset
  /\ ref' = [ref EXCEPT ![t] = [blob |-> b,
                                eligible |-> IF @ = Unset THEN Unset ELSE @.eligible]]
  /\ UNCHANGED <<now, dir, object, file, staging, plan, op, mode, faults,
                 task, worktree, lease, epoch, intent>>

-----------------------------------------------------------------------------
(* Reader leases                                                            *)

Live(l, instant) == lease[l] # Unset /\ lease[l].expires > instant

Leased(r, instant) == \E l \in Leases : Live(l, instant) /\ r \in lease[l].items

Marked(r) == intent[r] = "MARKED"

\* Mutant of AcquireLease: the fence of a marked resource is not consulted.
AcquireUnfenced(l, r) ==
  /\ Ready
  /\ lease' = [lease EXCEPT ![l] =
       [epoch |-> epoch, heartbeat |-> now, expires |-> now + LeaseTtl,
        items |-> (IF @ = Unset THEN {} ELSE @.items) \cup {r}]]
  /\ UNCHANGED <<now, task, worktree, dir, object, file, ref, staging, epoch, intent,
                 plan, op, mode, faults>>

\* acquire_lease with the current epoch; a lease of this epoch is renewed only
\* within its heartbeat, and a marked resource is fenced.  A lease row of an
\* earlier epoch is taken over with its items.
AcquireLease(l, r) ==
  /\ Ready
  /\ (lease[l] # Unset /\ lease[l].epoch = epoch) =>
       /\ now <= lease[l].expires
       /\ now <= lease[l].heartbeat + LeaseHeartbeat
  /\ ~Marked(r)
  /\ lease' = [lease EXCEPT ![l] =
       [epoch |-> epoch, heartbeat |-> now, expires |-> now + LeaseTtl,
        items |-> (IF @ = Unset THEN {} ELSE @.items) \cup {r}]]
  /\ UNCHANGED <<now, task, worktree, dir, object, file, ref, staging, epoch, intent,
                 plan, op, mode, faults>>

\* release_lease: a lease of another epoch is not this caller's.
ReleaseLease(l) ==
  /\ Ready /\ lease[l] # Unset /\ lease[l].epoch = epoch
  /\ lease' = [lease EXCEPT ![l] = Unset]
  /\ UNCHANGED <<now, task, worktree, dir, object, file, ref, staging, epoch, intent,
                 plan, op, mode, faults>>

-----------------------------------------------------------------------------
(* mark_retention_gc                                                        *)

\* compact_eligible_tasks: acknowledged, terminal for the whole horizon, not
\* leased, and no worktree of it left.
Compactable(t) ==
  /\ task[t].phase = "terminal" /\ task[t].ack # Unset
  /\ task[t].term + CompactAfter <= now
  /\ ~Leased(TaskOf(t), now)
  /\ worktree[t] \in {"none", "DELETED"}

\* Compaction leaves a tombstone and releases the task's references.
RefsAfterCompaction ==
  [t \in KeptTasks |-> IF Compactable(t) THEN Unset ELSE ref[t]]

BlobEligible(b) ==
  LET owners == {t \in KeptTasks : RefsAfterCompaction[t] # Unset /\ RefsAfterCompaction[t].blob = b}
  IN /\ object[b] # Unset
     /\ IF owners = {} THEN object[b] + Grace <= now
        ELSE \A t \in owners : ref[t].eligible # Unset /\ ref[t].eligible <= now
     /\ ~Leased(BlobOf(b), now)
     /\ ~Marked(BlobOf(b))

WorktreeEligible(t) ==
  /\ worktree[t] = "RETAINED"
  /\ \/ /\ task[t].outcome = "SUCCEEDED" /\ task[t].ack # Unset
        /\ task[t].ack + WorktreeAfterAck <= now
     \/ task[t].outcome # "SUCCEEDED" /\ task[t].term + WorktreeAfterTerminal <= now
  /\ ~Leased(WorktreeOf(t), now)
  /\ ~Marked(WorktreeOf(t))

\* The first rows of a query ordered by age: no row left out is older.
Oldest(all, limit, age) ==
  {S \in SUBSET all :
     /\ Cardinality(S) = IF Cardinality(all) < limit THEN Cardinality(all) ELSE limit
     /\ \A x \in S, y \in all \ S : age[x] <= age[y]}

Batches ==
  LET terminal_at == [t \in KeptTasks |-> task[t].term]
  IN UNION {{{BlobOf(b) : b \in bs} \cup {WorktreeOf(t) : t \in ts} :
               ts \in Oldest({t \in KeptTasks : WorktreeEligible(t)},
                             BatchRows - Cardinality(bs), terminal_at)} :
             bs \in Oldest({b \in Blobs : BlobEligible(b)}, BatchRows, object)}

\* One transaction.  gc_intents has one row per resource: a candidate with an
\* earlier intent, whatever became of it, fails the insert and with it the
\* whole transaction.
MarkRetentionGc ==
  /\ Ready
  /\ \E batch \in Batches :
       /\ \A r \in batch : intent[r] = Unset
       /\ intent' = [r \in Resources |->
            IF r \in batch THEN "MARKED" ELSE intent[r]]
       /\ worktree' = [t \in KeptTasks |->
            IF WorktreeOf(t) \in batch THEN "GC_MARKED"
            ELSE IF Compactable(t) THEN "none" ELSE worktree[t]]
  /\ lease' = [l \in Leases |-> IF Live(l, now) THEN lease[l] ELSE Unset]
  /\ ref' = RefsAfterCompaction
  /\ task' = [t \in KeptTasks |-> IF Compactable(t) THEN [task[t] EXCEPT !.phase = "compacted"]
                              ELSE task[t]]
  /\ UNCHANGED <<now, dir, object, file, staging, epoch, plan, op, mode, faults>>

-----------------------------------------------------------------------------
(* The deletion of one marked resource                                      *)

\* prepare_gc_deletion hands the exact path and the fence token to any caller
\* that asks, also while another one has them.  A resource is marked once in its
\* life, so its token is the intent itself.
PrepareGcDeletion(c, r) ==
  /\ Ready /\ plan[c] = Unset /\ Marked(r)
  /\ plan' = [plan EXCEPT ![c] = [resource |-> r, outcome |-> "pending"]]
  /\ UNCHANGED <<now, dir, object, file, staging, op, mode, faults, rows>>

\* The caller removes the path, or cannot.
RemovePath(c, removed) ==
  /\ mode = "up" /\ plan[c] # Unset /\ plan[c].outcome = "pending"
  /\ IF removed THEN UNCHANGED faults ELSE Fault
  /\ plan' = [plan EXCEPT ![c].outcome = IF removed THEN "removed" ELSE "failed"]
  /\ file' = IF removed /\ plan[c].resource.kind = "blob"
             THEN [file EXCEPT ![plan[c].resource.id] = FALSE] ELSE file
  /\ dir' = IF removed /\ plan[c].resource.kind = "worktree"
            THEN [dir EXCEPT ![plan[c].resource.id] = FALSE] ELSE dir
  /\ UNCHANGED <<now, object, staging, op, mode, rows>>

\* finish_gc_deletion, if the fence token is still the intent's.
FinishGcDeletion(c) ==
  /\ Ready /\ plan[c] # Unset /\ plan[c].outcome # "pending"
  /\ plan' = [plan EXCEPT ![c] = Unset]
  /\ LET r == plan[c].resource
         gone == plan[c].outcome = "removed"
     IN IF ~Marked(r) THEN UNCHANGED <<intent, object, ref, worktree>>
        ELSE /\ intent' = [intent EXCEPT ![r] = IF gone THEN "DELETED" ELSE "FAILED"]
             /\ object' = IF gone /\ r.kind = "blob"
                          THEN [object EXCEPT ![r.id] = Unset] ELSE object
             /\ ref' = IF gone /\ r.kind = "blob"
                       THEN [t \in KeptTasks |-> IF ref[t] # Unset /\ ref[t].blob = r.id
                                             THEN Unset ELSE ref[t]]
                       ELSE ref
             /\ worktree' = IF gone /\ r.kind = "worktree"
                            THEN [worktree EXCEPT ![r.id] = "DELETED"] ELSE worktree
  /\ UNCHANGED <<now, task, dir, file, staging, lease, epoch, op, mode, faults>>

-----------------------------------------------------------------------------
(* Stop and start                                                           *)

\* The process stops: the call in progress leaves its staging row, a write in
\* progress any part of its file, the deletion plans are forgotten.
StopRetention ==
  /\ mode = "up"
  /\ Fault
  /\ mode' = "down"
  /\ plan' = [c \in Collectors |-> Unset]
  /\ op' = Unset
  /\ IF op = Unset THEN UNCHANGED staging
     ELSE \E part \in IF op.at = "write" THEN {"absent", "torn", "whole"} ELSE {op.part} :
            staging' = [staging EXCEPT ![op.blob] = @ \cup {part}]
  /\ UNCHANGED <<now, dir, object, file, rows>>

\* recover_staged_blobs: a blob with a file drops its staging rows; a whole part
\* file is published; a torn one fails its verification.
StagedFile(b) == file[b] \/ "whole" \in staging[b]

StagedRefused(b) == ~file[b] /\ "torn" \in staging[b]

RecoverStaged(b) ==
  IF object[b] = Unset /\ staging[b] # {} /\ StagedFile(b) THEN now ELSE object[b]

\* verify_mandatory_blob_refs: the file of every referenced blob must be exact.
RefsVerify == \A t \in KeptTasks : ref[t] # Unset => StagedFile(ref[t].blob)

\* open_with_filesystem: the lease epoch moves first; a failed check of
\* startup_integrity_check refuses the store.
Reopen ==
  /\ mode = "down"
  /\ epoch' = epoch + 1
  /\ IF \E b \in Blobs : StagedRefused(b)
     THEN mode' = "refused" /\ UNCHANGED <<object, file, staging>>
     ELSE /\ file' = [b \in Blobs |-> StagedFile(b)]
          /\ object' = [b \in Blobs |-> RecoverStaged(b)]
          /\ staging' = [b \in Blobs |-> {}]
          /\ mode' = IF RefsVerify THEN "up" ELSE "refused"
  /\ UNCHANGED <<now, task, worktree, dir, ref, lease, intent, plan, op, faults>>

RetentionNext ==
  \/ Tick
  \/ \E t \in KeptTasks : \/ RegisterWorktree(t)
                      \/ \E outcome \in {"SUCCEEDED", "FAILED"} : Finalize(t, outcome)
                      \/ Acknowledge(t)
  \/ \E b \in Blobs : \/ PublishExisting(b)
                      \/ PublishStage(b)
                      \/ \E t \in KeptTasks : ReferenceBlob(t, b)
  \/ PublishWrite \/ PublishMove \/ PublishCommit
  \/ \E l \in Leases : \/ \E r \in Resources : AcquireLease(l, r)
                       \/ ReleaseLease(l)
  \/ MarkRetentionGc
  \/ \E c \in Collectors : \/ \E r \in Resources : PrepareGcDeletion(c, r)
                          \/ \E removed \in BOOLEAN : RemovePath(c, removed)
                          \/ FinishGcDeletion(c)
  \/ StopRetention \/ Reopen

RetentionSpec == RetentionInit /\ [][RetentionNext]_retentionVars

-----------------------------------------------------------------------------
(* Properties                                                               *)

\* A step takes the resource off the disk.
Removed(r) ==
  \/ r.kind = "blob" /\ file[r.id] /\ ~file'[r.id]
  \/ r.kind = "worktree" /\ dir[r.id] /\ ~dir'[r.id]

\* A path is removed while a live lease names it only by a plan that another one
\* of the same resource has overtaken: acquire_lease refuses a marked resource and
\* mark_retention_gc passes over a leased one, across renewals, restarts and
\* failed deletions.
LeasedPathsAreKept ==
  [][\A r \in Resources :
       Removed(r) /\ Leased(r, now) => intent[r] \in {"DELETED", "FAILED"}]_retentionVars

\* Refuted: no path is removed while a live lease names it.  Two callers get a plan
\* of one blob; the first finishes, the blob is published again and leased, and
\* the second removes it.
LeasesHoldPaths == [][\A r \in Resources : Removed(r) => ~Leased(r, now)]_retentionVars

\* The store opens again after a publication or a deletion was cut short.
ReopenConverges == mode # "refused"

\* A blob of a result nobody acknowledged stays on disk.
UnacknowledgedBlobsAreKept ==
  \A t \in KeptTasks : (mode = "up" /\ ref[t] # Unset /\ task[t].ack = Unset) => file[ref[t].blob]

=============================================================================
