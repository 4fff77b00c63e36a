------------------------------- MODULE Backup -------------------------------
(***************************************************************************)
(* Migration backups: create_backup, verify_restore_allowed and            *)
(* restore_backup_offline (storage.rs).  The database is its mutation      *)
(* epoch, the commands committed in it, the writes that leave the epoch    *)
(* alone, and its migration_backups rows.                                  *)
(***************************************************************************)
EXTENDS Integers, FiniteSets

CONSTANTS Backups,       \* backup ids
          NoBackup, MaxMutations, MaxHalts

VARIABLES
  base,       \* [epoch, writes, quiet, recorded]: mesh.sqlite3
  snapshot,   \* backups/<id>.sqlite3: NoBackup, or the database it holds
  manifest,   \* backups/<id>.manifest.json: NoBackup, or [epoch, hash]
  working,    \* the backup or restore in progress
  running,    \* the daemon holds the database
  rescued,    \* rescue-<id>.sqlite3 of the last restore
  halts

backupVars == <<base, snapshot, manifest, working, running, rescued, halts>>

BackupInit ==
  /\ base = [epoch |-> 0, writes |-> 0, quiet |-> 0, recorded |-> {}]
  /\ snapshot = [i \in Backups |-> NoBackup]
  /\ manifest = [i \in Backups |-> NoBackup]
  /\ working = NoBackup
  /\ running = TRUE
  /\ rescued = NoBackup
  /\ halts = 0

Free == running /\ working = NoBackup

\* A committed command: its transaction ends with bump_mutation_epoch.
Mutate ==
  /\ Free /\ base.writes < MaxMutations
  /\ base' = [base EXCEPT !.epoch = @ + 1, !.writes = @ + 1]
  /\ UNCHANGED <<snapshot, manifest, working, running, rescued, halts>>

\* A commit without it: acquire_lease, release_lease, the resumption event of
\* reconcile_nonterminal, the rows of an emergency, a staged blob.
MutateQuietly ==
  /\ Free /\ base.quiet < MaxMutations
  /\ base' = [base EXCEPT !.quiet = @ + 1]
  /\ UNCHANGED <<snapshot, manifest, working, running, rescued, halts>>

\* create_backup holds the writer thread: the copy, its publication under the
\* final name, the manifest, and the row, in that order.
CopyDatabase(i) ==
  /\ Free /\ snapshot[i] = NoBackup
  /\ working' = [id |-> i, at |-> "publish", copy |-> base]
  /\ UNCHANGED <<base, snapshot, manifest, running, rescued, halts>>

PublishSnapshot ==
  /\ working # NoBackup /\ working.at = "publish"
  /\ snapshot' = [snapshot EXCEPT ![working.id] = working.copy]
  /\ working' = [working EXCEPT !.at = "manifest"]
  /\ UNCHANGED <<base, manifest, running, rescued, halts>>

PublishManifest ==
  /\ working # NoBackup /\ working.at = "manifest"
  /\ manifest' = [manifest EXCEPT ![working.id] =
                    [epoch |-> working.copy.epoch, hash |-> snapshot[working.id]]]
  /\ working' = [working EXCEPT !.at = "row"]
  /\ UNCHANGED <<base, snapshot, running, rescued, halts>>

RecordBackup ==
  /\ working # NoBackup /\ working.at = "row"
  /\ base' = [base EXCEPT !.recorded = @ \cup {working.id}]
  /\ working' = NoBackup
  /\ UNCHANGED <<snapshot, manifest, running, rescued, halts>>

\* Mutant of RestoreAllowed: the mutation epoch is not compared.
RestoreAllowedAnyEpoch(i) ==
  /\ manifest[i] # NoBackup /\ snapshot[i] # NoBackup
  /\ snapshot[i] = manifest[i].hash
  /\ i \in base.recorded

\* The tests verify_restore_allowed and restore_backup_offline share: the same
\* install and schema, the epoch of the manifest, its published copy, its row,
\* and the digest of the snapshot.
RestoreAllowed(i) ==
  /\ manifest[i] # NoBackup /\ snapshot[i] # NoBackup
  /\ base.epoch = manifest[i].epoch
  /\ snapshot[i] = manifest[i].hash
  /\ i \in base.recorded

\* The daemon stops, or is cut short.
StopDaemon ==
  /\ halts < MaxHalts
  /\ halts' = halts + 1
  /\ running' = FALSE
  /\ working' = NoBackup
  /\ UNCHANGED <<base, snapshot, manifest, rescued>>

\* open_with_filesystem moves the lease epoch, and no other.
StartDaemon ==
  /\ ~running /\ working = NoBackup
  /\ running' = TRUE
  /\ base' = [base EXCEPT !.quiet = @ + 1]
  /\ UNCHANGED <<snapshot, manifest, working, rescued, halts>>

\* restore_backup_offline: all tests again, the rescue copy, the staged copy and
\* the removal of the emptied sidecars, then the replacement.
BeginRestore(i) ==
  /\ ~running /\ working = NoBackup
  /\ RestoreAllowed(i)
  /\ rescued' = base
  /\ working' = [id |-> i, at |-> "replace", copy |-> snapshot[i]]
  /\ UNCHANGED <<base, snapshot, manifest, running, halts>>

ReplaceDatabase ==
  /\ working # NoBackup /\ working.at = "replace"
  /\ base' = working.copy
  /\ working' = NoBackup
  /\ UNCHANGED <<snapshot, manifest, running, rescued, halts>>

BackupNext ==
  \/ Mutate \/ MutateQuietly
  \/ \E i \in Backups : CopyDatabase(i) \/ BeginRestore(i)
  \/ PublishSnapshot \/ PublishManifest \/ RecordBackup
  \/ StopDaemon \/ StartDaemon \/ ReplaceDatabase

BackupSpec == BackupInit /\ [][BackupNext]_backupVars

-----------------------------------------------------------------------------

\* A restore takes back no command: none that moved the epoch has committed since
\* the backup, however often the restore was cut short and repeated.  What else
\* was written since is gone from the database and kept in the rescue copy.
RestoreLosesNothing ==
  [][/\ base'.writes >= base.writes
     /\ base'.quiet < base.quiet => rescued = base]_backupVars

\* Refuted: a restore takes back nothing at all.  A lease granted since the backup
\* does not move the epoch, and the restore drops it.
RestoreKeepsEveryRow == [][base'.quiet >= base.quiet]_backupVars

=============================================================================
