----------------------------- MODULE StoreOpen -----------------------------
(***************************************************************************)
(* Opening the store, its schema migrations, its quota, and the critical   *)
(* reserve that a storage emergency releases (storage.rs, with the Windows *)
(* filesystem's create_reserve and release_reserve).                       *)
(***************************************************************************)
EXTENDS Integers, FiniteSets

CONSTANTS Schema,        \* SCHEMA_VERSION
          MaxOpenStops

ASSUME SchemaAssumption == Schema \in Nat \ {0}

VARIABLES
  db,        \* "none", "bare" (no application id), "tagged", "migrated"
  reserve,   \* critical.reserve: "none", "short" or "full"
  stored,    \* storage_meta.emergency_state
  mem,       \* Storage::emergency, or "closed"
  step,      \* where the open, latch or recovery call stands
  existed,   \* database_existed, as the open in progress saw it
  has_quota, \* the caller of open passed a QuotaPolicy
  openStops

openVars == <<db, reserve, stored, mem, step, existed, has_quota, openStops>>

OpenInit ==
  /\ db = "none" /\ reserve = "none" /\ stored = "NORMAL" /\ mem = "closed"
  /\ step = "idle" /\ existed = FALSE /\ has_quota = FALSE /\ openStops = 0

-----------------------------------------------------------------------------
(* Pure parts                                                               *)

\* QuotaPolicy::validate, ensure_capacity and the guard of recover_emergency,
\* in u64 arithmetic that saturates.
Minus(a, b) == IF a < b THEN 0 ELSE a - b

\* Amounts in units of 8 MiB.
QuotaValid(quota, res, concurrency) ==
  /\ quota # 0
  /\ res >= 8 /\ res >= concurrency
  /\ res <= 64 /\ res <= quota \div 10

EnsureCapacity(used, free, quota, res, declared) ==
  /\ used + declared <= Minus(quota, res)
  /\ Minus(free, declared) >= res

RecoveryCapacity(used, free, quota, res) == used + res <= quota /\ free >= 2 * res

\* ensure_mutation_allowed: commands that an emergency must not stop pass.
MutationAllowed(emergency, walFull, emergencySafe) ==
  emergencySafe \/ (emergency = "NORMAL" /\ ~walFull)

\* migrate: the steps a database of version v takes in the one transaction, or
\* none when it is newer than the binary.
MigrationSteps(v) == {k \in 1 .. Schema : k > v}

Migrate(v, install, wanted, features, applied) ==
  IF v > Schema THEN "newer"
  ELSE IF install # wanted \/ features # 0 THEN "foreign"
  ELSE IF applied \cup MigrationSteps(v) # 1 .. Schema THEN "mismatch"
  ELSE "migrated"

\* verify_migration_checksums: as many rows as versions, each with its checksum.
ChecksumsVerify(version, sums, expected) ==
  /\ version = Schema
  /\ DOMAIN sums = 1 .. Schema
  /\ \A k \in 1 .. Schema : sums[k] = expected[k]

\* ensure_empty_config_v1: the one immutable configuration row.
EnsureEmptyConfig(configs, allowed) ==
  IF ~allowed THEN "refused"
  ELSE IF configs = {} THEN "installed"
  ELSE IF configs = {[version |-> 1, exact |-> TRUE]} THEN "present"
  ELSE "quarantined"

-----------------------------------------------------------------------------
(* open_with_filesystem                                                     *)

\* The database file appears with its first write, the journal mode, before the
\* application id that marks it as this program's.  The quota is optional, and
\* run_daemon passes none.
OpenDatabase ==
  /\ mem = "closed" /\ step = "idle"
  /\ has_quota' \in BOOLEAN
  /\ existed' = (db # "none")
  /\ db' = IF db = "none" THEN "bare" ELSE db
  /\ step' = IF db = "bare" THEN "idle" ELSE "tag"
  /\ UNCHANGED <<reserve, stored, mem, openStops>>

TagDatabase ==
  /\ step = "tag"
  /\ db' = IF existed THEN db ELSE "tagged"
  /\ step' = "migrate"
  /\ UNCHANGED <<reserve, stored, mem, existed, has_quota, openStops>>

\* migrate and verify_migration_checksums: one exclusive transaction.
MigrateDatabase ==
  /\ step = "migrate"
  /\ db' = "migrated"
  /\ step' = "reserve"
  /\ UNCHANGED <<reserve, stored, mem, existed, has_quota, openStops>>

\* Mutant of DecideEmergency: the stored state alone is believed.
DecideByRow ==
  /\ step = "reserve"
  /\ IF stored = "NORMAL"
     THEN mem' = "NORMAL" /\ step' = "idle"
     ELSE mem' = "LATCHED" /\ step' = "idle"
  /\ UNCHANGED <<db, reserve, stored, existed, has_quota, openStops>>

\* A full reserve and a NORMAL row, or a first open that may create it; anything
\* else starts fenced.  Without a quota neither is looked at.
DecideEmergency ==
  /\ step = "reserve"
  /\ IF ~has_quota \/ (reserve = "full" /\ stored = "NORMAL") THEN mem' = "NORMAL" /\ step' = "idle"
     ELSE IF ~existed /\ reserve = "none" THEN step' = "first" /\ UNCHANGED mem
     ELSE mem' = "LATCHED" /\ step' = "idle"
  /\ UNCHANGED <<db, reserve, stored, existed, has_quota, openStops>>

\* create_reserve: a new file is extended and flushed; an existing one fails.
CreateReserve(from, to) ==
  /\ step = from
  /\ IF reserve = "none" THEN reserve' = "short" /\ step' = to
     ELSE UNCHANGED reserve /\ step' = "idle"
  /\ UNCHANGED <<db, stored, mem, existed, has_quota, openStops>>

FirstReserve == CreateReserve("first", "firstFill")

FillFirst ==
  /\ step = "firstFill"
  /\ reserve' = "full" /\ mem' = "NORMAL" /\ step' = "idle"
  /\ UNCHANGED <<db, stored, existed, has_quota, openStops>>

-----------------------------------------------------------------------------
(* latch_emergency and recover_emergency                                    *)

\* The fence is set in memory before anything else; there is a reserve to release
\* only with a quota.
Latch ==
  /\ mem \in {"NORMAL", "LATCHED"} /\ step = "idle"
  /\ mem' = "LATCHED"
  /\ step' = IF has_quota THEN "release" ELSE "record"
  /\ UNCHANGED <<db, reserve, stored, existed, has_quota, openStops>>

\* release_reserve removes the file or fails and leaves the store latched.
ReleaseReserve ==
  /\ step = "release"
  /\ \/ reserve' = "none" /\ mem' = "RESERVE_RELEASED" /\ step' = "record"
     \/ step' = "idle" /\ UNCHANGED <<reserve, mem>>
  /\ UNCHANGED <<db, stored, existed, has_quota, openStops>>

\* The row and its audit record; with no space left the commit may fail.
RecordRelease ==
  /\ step = "record"
  /\ stored' \in {stored, IF has_quota THEN "RESERVE_RELEASED" ELSE "LATCHED"}
  /\ step' = "idle"
  /\ UNCHANGED <<db, reserve, mem, existed, has_quota, openStops>>

\* integrity_check, the checkpoint and the capacity test may each refuse.  Without
\* a quota the fence is lifted, and the row stays as it is.
Recover ==
  /\ mem # "closed" /\ step = "idle"
  /\ IF has_quota THEN step' = "recreate" /\ UNCHANGED mem
     ELSE mem' = "NORMAL" /\ UNCHANGED step
  /\ UNCHANGED <<db, reserve, stored, existed, has_quota, openStops>>

RecreateReserve == CreateReserve("recreate", "refill")

RefillReserve ==
  /\ step = "refill"
  /\ reserve' = "full" /\ step' = "normal"
  /\ UNCHANGED <<db, stored, mem, existed, has_quota, openStops>>

\* The row, then its audit record: either commit may fail.
RecordNormal ==
  /\ step = "normal"
  /\ \/ stored' = "NORMAL" /\ mem' = "NORMAL"
     \/ stored' \in {stored, "NORMAL"} /\ UNCHANGED mem
  /\ step' = "idle"
  /\ UNCHANGED <<db, reserve, existed, has_quota, openStops>>

StopStore ==
  /\ openStops < MaxOpenStops
  /\ openStops' = openStops + 1
  /\ mem' = "closed" /\ step' = "idle"
  /\ UNCHANGED <<db, reserve, stored, existed, has_quota>>

OpenNext ==
  \/ OpenDatabase \/ TagDatabase \/ MigrateDatabase \/ DecideEmergency
  \/ FirstReserve \/ FillFirst
  \/ Latch \/ ReleaseReserve \/ RecordRelease
  \/ Recover \/ RecreateReserve \/ RefillReserve \/ RecordNormal
  \/ StopStore

OpenSpec == OpenInit /\ [][OpenNext]_openVars

-----------------------------------------------------------------------------

\* A store that has a quota and admits new work has its whole critical reserve on
\* disk and no emergency on record; one whose reserve was given up stays fenced
\* through every restart with a quota and every failed commit until
\* recover_emergency has recreated it.
NormalMeansReserve ==
  has_quota /\ mem = "NORMAL" => reserve = "full" /\ stored = "NORMAL"

\* Refuted: an emergency on record keeps every later open from admitting work.
\* Without a quota, as run_daemon opens it, the store forgets it at a restart.
EmergencySurvivesRestart ==
  mem = "NORMAL" => stored = "NORMAL"

=============================================================================
