--------------------------- MODULE InstallProofs ---------------------------
(***************************************************************************)
(* One installation slot implements its lifecycle, its record claims only  *)
(* what is on disk and its identity goes last, for any number of command   *)
(* processes, identities and faults.                                       *)
(***************************************************************************)
EXTENDS Install, TLAPS

-----------------------------------------------------------------------------
(* Records.                                                                *)

IsRecord(r) ==
  DOMAIN r = {"state", "id", "rev", "ev"} /\ r.state \in InstallState /\ r.id \in Ids

LEMMA TransitionFields ==
  ASSUME NEW r, IsRecord(r), NEW s \in InstallState
  PROVE  /\ IsRecord(Transition(r, s))
         /\ Transition(r, s).state = s /\ Transition(r, s).id = r.id
BY Zenon DEF IsRecord, Transition

LEMMA CheckpointFields ==
  ASSUME NEW r, IsRecord(r)
  PROVE  /\ IsRecord(Checkpoint(r))
         /\ Checkpoint(r).state = r.state /\ Checkpoint(r).id = r.id
BY Zenon DEF IsRecord, Checkpoint

LEMMA InitialFields ==
  ASSUME NEW i \in Ids
  PROVE  IsRecord(InitialRecord(i)) /\ InitialRecord(i).state = "INSTALLING"
BY Zenon DEF IsRecord, InitialRecord, InstallState

LEMMA NoRecordFields == IsRecord(NoRecord) /\ NoRecord.state = "ABSENT"
BY InstallAssumption DEF IsRecord, NoRecord, InstallState, Ids

\* What a swap may do to a record: a checkpoint keeps its state, a transition is
\* one of the relation, and an identity never changes.
LEMMA SwapFields ==
  ASSUME NEW r, NEW n, IsRecord(r), AcceptsSwap(r, n)
  PROVE  IF r.state = "ABSENT" THEN n.state = "INSTALLING"
         ELSE n.id = r.id /\ (n.state = r.state \/ IsLegalTransition(r.state, n.state))
<1>1. CASE r.state = "ABSENT"
  BY Zenon, <1>1 DEF AcceptsSwap, Present, ValidateInitial
<1>2. CASE r.state # "ABSENT"
  <2>1. ValidateSuccessor(r, n)
    BY Zenon, <1>2 DEF AcceptsSwap, Present
  <2>2. QED
    BY Zenon, <1>2, <2>1, CheckpointFields DEF ValidateSuccessor
<1>3. QED
  BY Zenon, <1>1, <1>2

\* Where an observation of purge sends it: to no place that needs a lock.
LEMMA EffectPlaces ==
  ASSUME NEW r
  PROVE  PurgeEffect(r) \in {"absence", "converge", "publishPurging", "resume", "tombstone",
                             "gone", "drift"}
BY Zenon DEF PurgeEffect

-----------------------------------------------------------------------------
(* The inductive invariant.                                                *)

\* The places of a command between taking install.lock and giving it back.
Held == {"setup", "makeKey", "makeRuntime", "makeData", "remove", "task", "taskResumed",
         "drain", "drainAbsent", "stopped", "delete", "retire", "removed", "stage", "publish",
         "purging", "removing", "finalizing"}

\* A command there owns the lock; what it will publish is a record that fits its
\* place; and before RETAINED or PURGING it owns the daemon's lock as well.
HeldPlace(c) ==
  /\ lock = c
  /\ pc[c] \in {"stage", "publish"} =>
       /\ ret[c] \in {"setup", "task", "removed", "purging"}
       /\ IsRecord(next[c])
       /\ next[c].state \in {"INSTALLING", "ACTIVE", "REMOVING", "RETAINED", "PURGING"}
       /\ next[c].state \in {"RETAINED", "PURGING"} => daemonLock[record.id] = c
  /\ pc[c] = "publish" => AcceptsSwap(record, next[c])
  /\ pc[c] \in {"delete", "retire"} => daemonLock[record.id] = c
  /\ pc[c] = "finalizing" => record.state = "PURGING"
  /\ pc[c] \in {"makeKey", "makeRuntime", "makeData"} => record.state = "INSTALLING"
  /\ pc[c] = "setup" /\ record.state = "ABSENT" => created < MaxId

\* From its admission to its exit the daemon holds the lock of the identity it
\* was admitted for, and it serves only while that is ACTIVE or being removed.
DaemonPlace ==
  /\ pc[Daemon] \in {"off", "launched", "locked", "recovering", "bound", "serving", "draining",
                     "exited"}
  /\ pc[Daemon] \in {"locked", "bound"} => lock = Daemon
  /\ pc[Daemon] \in {"locked", "recovering", "bound", "serving", "draining"} =>
       /\ seen[Daemon].state = "ACTIVE" /\ seen[Daemon].id \in Ids
       /\ daemonLock[seen[Daemon].id] = Daemon
  /\ Serving => record.id = seen[Daemon].id /\ record.state \in {"ACTIVE", "REMOVING"}

Shape ==
  /\ DOMAIN pc = Procs /\ DOMAIN role = Procs /\ DOMAIN seen = Procs
  /\ DOMAIN next = Procs /\ DOMAIN ret = Procs
  /\ DOMAIN daemonLock = Ids
  /\ IsRecord(record) /\ created \in Nat

SlotInvariant ==
  /\ Shape
  /\ \A c \in Cmds : pc[c] \in Held => HeldPlace(c)
  /\ DaemonPlace

KeepsHandles(d) ==
  /\ lock = d => lock' = d
  /\ \A i \in Ids : daemonLock[i] = d => daemonLock'[i] = d

\* A step of one process leaves what another one holds and where it is.
Keeps(d) ==
  /\ pc'[d] = pc[d] /\ ret'[d] = ret[d] /\ next'[d] = next[d] /\ seen'[d] = seen[d]
  /\ KeepsHandles(d)

LEMMA OtherPlaces ==
  ASSUME SlotInvariant, NEW d \in Cmds, Keeps(d), pc'[d] \in Held,
         UNCHANGED <<record, created>> \/ lock # d
  PROVE  HeldPlace(d)'
<1>1. HeldPlace(d) /\ record.id \in Ids
  BY Zenon DEF SlotInvariant, Keeps, Shape, IsRecord
<1>2. QED
  BY Zenon, <1>1 DEF HeldPlace, Keeps, KeepsHandles

LEMMA DaemonStays ==
  ASSUME SlotInvariant, Keeps(Daemon), UNCHANGED record
  PROVE  DaemonPlace'
BY Zenon DEF SlotInvariant, DaemonPlace, Keeps, KeepsHandles, Serving

\* A step of one command that does not touch the record.
LEMMA CommandMoves ==
  ASSUME SlotInvariant, NEW c \in Cmds, Shape',
         UNCHANGED record, UNCHANGED created \/ lock = c,
         \A d \in Procs \ {c} : Keeps(d),
         pc'[c] \in Held => HeldPlace(c)'
  PROVE  SlotInvariant'
<1>1. \A d \in Cmds : pc'[d] \in Held => HeldPlace(d)'
  BY Zenon, OtherPlaces DEF Procs
<1>2. DaemonPlace'
  BY Zenon, DaemonStays, InstallAssumption DEF Procs
<1>3. QED
  BY Zenon, <1>1, <1>2 DEF SlotInvariant

\* A command that returns, or that observes again, holds nothing.
LEMMA CommandReturns ==
  ASSUME SlotInvariant, NEW c \in Cmds, Return(c) \/ Observed(c), UNCHANGED <<record, created>>
  PROVE  SlotInvariant'
<1>1. c \in Procs
  BY Zenon DEF Procs
<1>2. Shape'
  <2>1. Shape
    BY Zenon DEF SlotInvariant
  <2>2. DOMAIN daemonLock' = Ids
    BY Zenon DEF Return, Observed, ReleaseAll, Released
  <2>3. CASE Return(c)
    BY Zenon, <2>1, <2>2, <2>3 DEF Shape, Return
  <2>4. CASE Observed(c)
    BY Zenon, <2>1, <2>2, <2>4 DEF Shape, Observed, Goto
  <2>5. QED
    BY Zenon, <2>3, <2>4
<1>3. \A d \in Procs \ {c} : Keeps(d)
  BY <1>1 DEF SlotInvariant, Shape, Return, Observed, ReleaseAll, Released, Goto, Keeps,
           KeepsHandles
<1>4. pc'[c] \notin Held
  BY Zenon, <1>1 DEF SlotInvariant, Shape, Return, Observed, Goto, Held
<1>5. QED
  BY Zenon, <1>2, <1>3, <1>4, CommandMoves

\* What a command may take in one step: locks that are free.
TakesFree(c) ==
  /\ UNCHANGED lock \/ lock \in {None, c}
  /\ \/ UNCHANGED daemonLock
     \/ \E i : daemonLock[i] = None /\ daemonLock' = [daemonLock EXCEPT ![i] = c]

LEMMA FreeIsNobodys ==
  ASSUME SlotInvariant, NEW c \in Cmds, TakesFree(c)
  PROVE  /\ \A d \in Procs \ {c} : KeepsHandles(d)
         /\ DOMAIN daemonLock' = Ids
<1>1. \A d \in Procs : d # None
  BY Zenon, InstallAssumption DEF Procs
<1>2. DOMAIN daemonLock = Ids
  BY Zenon DEF SlotInvariant, Shape
<1>3. QED
  BY Zenon, <1>1, <1>2 DEF TakesFree, KeepsHandles

\* What a command must have to walk to the place l.
Admits(c, l) ==
  l \in Held =>
    /\ lock' = c /\ l \notin {"stage", "publish"}
    /\ l \in {"delete", "retire"} => daemonLock'[record.id] = c
    /\ l = "finalizing" => record.state = "PURGING"
    /\ l \in {"makeKey", "makeRuntime", "makeData"} => record.state = "INSTALLING"
    /\ l = "setup" /\ record.state = "ABSENT" => created < MaxId

Walk(c, l) ==
  /\ Goto(c, l) /\ UNCHANGED <<record, created, next, ret>>
  /\ UNCHANGED role \/ \E r : role' = [role EXCEPT ![c] = r]
  /\ UNCHANGED seen \/ \E r : seen' = [seen EXCEPT ![c] = r]
  /\ TakesFree(c) /\ Admits(c, l)

LEMMA CommandWalks ==
  ASSUME SlotInvariant, NEW c \in Cmds, NEW l, Walk(c, l)
  PROVE  SlotInvariant'
<1>1. c \in Procs
  BY Zenon DEF Procs
<1>2. DOMAIN daemonLock' = Ids /\ \A d \in Procs \ {c} : KeepsHandles(d)
  BY Zenon, FreeIsNobodys DEF Walk
<1>3. Shape'
  BY Zenon, <1>1, <1>2 DEF SlotInvariant, Shape, Walk, Goto
<1>4. ASSUME NEW d \in Procs \ {c}
      PROVE  Keeps(d)
  <2>1. KeepsHandles(d)
    BY Zenon, <1>2
  <2>2. pc'[d] = pc[d] /\ ret'[d] = ret[d] /\ next'[d] = next[d] /\ seen'[d] = seen[d]
    BY Zenon, <1>1 DEF SlotInvariant, Shape, Walk, Goto
  <2>3. QED
    BY Zenon, <2>1, <2>2 DEF Keeps
<1>5. pc'[c] = l
  BY Zenon, <1>1 DEF SlotInvariant, Shape, Walk, Goto
<1>6. pc'[c] \in Held => HeldPlace(c)'
  BY Zenon, <1>5 DEF Walk, Admits, HeldPlace
<1>7. QED
  BY Zenon, <1>3, <1>4, <1>6, CommandMoves DEF Walk

\* A command that owns the lock hands a record to the store.
LEMMA CommandSwaps ==
  ASSUME SlotInvariant, NEW c \in Cmds, NEW n, NEW l \in {"setup", "task", "removed", "purging"},
         Swap(c, n, l), UNCHANGED record, created' \in Nat, UNCHANGED created \/ lock = c,
         TakesFree(c), lock' = c, IsRecord(n),
         n.state \in {"INSTALLING", "ACTIVE", "REMOVING", "RETAINED", "PURGING"},
         n.state \in {"RETAINED", "PURGING"} => daemonLock'[record.id] = c
  PROVE  SlotInvariant'
<1>1. c \in Procs
  BY Zenon DEF Procs
<1>2. DOMAIN daemonLock' = Ids /\ \A d \in Procs \ {c} : KeepsHandles(d)
  BY Zenon, FreeIsNobodys
<1>3. Shape'
  BY Zenon, <1>1, <1>2 DEF SlotInvariant, Shape, Swap, Goto
<1>4. \A d \in Procs \ {c} : Keeps(d)
  BY Zenon, <1>1, <1>2 DEF SlotInvariant, Shape, Swap, Goto, Keeps
<1>5. pc'[c] = "stage" /\ next'[c] = n /\ ret'[c] = l
  BY Zenon, <1>1 DEF SlotInvariant, Shape, Swap, Goto
<1>6. HeldPlace(c)'
  BY Zenon, <1>5 DEF HeldPlace
<1>7. QED
  BY Zenon, <1>3, <1>4, <1>6, CommandMoves

-----------------------------------------------------------------------------
(* The commands, one lemma for each.                                        *)

LEMMA BeginKeeps ==
  ASSUME SlotInvariant, NEW c \in Cmds, CommandBegins(c)
  PROVE  SlotInvariant'
<1> USE DEF Held, Admits, TakesFree
<1>1. CASE SetupBegin(c)
  <2>1. Walk(c, "setup")
    BY Zenon, <1>1 DEF SetupBegin, Begin, AcquireSetupGuard, Walk, Present, filesystem
  <2>2. QED
    BY Zenon, <2>1, CommandWalks
<1>2. CASE PurgeBegin(c)
  <2>1. Walk(c, "observe")
    BY Zenon, <1>2 DEF PurgeBegin, Begin, Walk, filesystem, locks
  <2>2. QED
    BY Zenon, <2>1, CommandWalks
<1>3. ASSUME NEW r, Spawn(c, r)
      PROVE  SlotInvariant'
  <2>1. Walk(c, "spawned")
    BY Zenon, <1>3 DEF Spawn, Begin, Walk, filesystem, locks
  <2>2. QED
    BY Zenon, <2>1, CommandWalks
<1>4. QED
  BY Zenon, <1>1, <1>2, <1>3 DEF CommandBegins, SpawnStableControl, SpawnStableBridge

LEMMA SetupKeeps ==
  ASSUME SlotInvariant, NEW c \in Cmds,
         \/ SetupInitial(c) \/ EnsureExactKey(c) \/ EnsureExactRuntime(c) \/ EnsureExactData(c)
         \/ EnsureExactTask(c) \/ MakeArtifact(c) \/ SetupComplete(c) \/ SetupRetained(c)
         \/ SetupReturn(c)
  PROVE  SlotInvariant'
<1>1. /\ pc[c] \in Held => HeldPlace(c)
      /\ IsRecord(record) /\ created \in Nat
  BY Zenon DEF SlotInvariant, Shape
<1>2. ASSUME pc[c] \in Held, record.state = "INSTALLING", Swap(c, Checkpoint(record), "setup"),
             UNCHANGED <<record, created, lock, daemonLock>>
      PROVE  SlotInvariant'
  <2>1. IsRecord(Checkpoint(record)) /\ Checkpoint(record).state = "INSTALLING"
    BY Zenon, <1>1, <1>2, CheckpointFields
  <2>2. TakesFree(c) /\ lock' = c /\ created' \in Nat
    BY Zenon, <1>1, <1>2 DEF TakesFree, HeldPlace
  <2>3. QED
    BY Zenon, <1>2, <2>1, <2>2, CommandSwaps
<1>3. CASE SetupInitial(c)
  <2>1. /\ lock = c /\ created + 1 \in Ids /\ lock' = c /\ TakesFree(c)
        /\ created' = created + 1 /\ created' \in Nat /\ UNCHANGED record
    BY <1>1, <1>3, InstallAssumption DEF SetupInitial, Held, HeldPlace, Present, Ids, locks, TakesFree
  <2>2. Swap(c, InitialRecord(created + 1), "setup")
    BY Zenon, <1>3 DEF SetupInitial
  <2>3. QED
    BY Zenon, <2>1, <2>2, InitialFields, CommandSwaps
<1>4. ASSUME NEW a, NEW l \in {"makeKey", "makeRuntime", "makeData"},
             Installing(c, a), AdoptOr(c, a, l)
      PROVE  SlotInvariant'
  <2>1. /\ pc[c] \in Held /\ record.state = "INSTALLING"
        /\ UNCHANGED <<record, created, lock, daemonLock>>
    BY Zenon, <1>4 DEF Installing, AdoptOr, Held, locks
  <2>2. CASE Swap(c, Checkpoint(record), "setup")
    BY Zenon, <1>2, <2>1, <2>2
  <2>3. CASE Goto(c, l) /\ UNCHANGED <<role, seen, next, ret>>
    <3>1. Walk(c, l)
      BY Zenon, <1>1, <2>1, <2>3 DEF Walk, Admits, TakesFree, HeldPlace
    <3>2. QED
      BY Zenon, <3>1, CommandWalks
  <2>4. QED
    BY Zenon, <1>4, <2>2, <2>3 DEF AdoptOr
<1>5. CASE EnsureExactTask(c)
  <2>1. /\ pc[c] \in Held /\ record.state = "INSTALLING" /\ UNCHANGED <<record, created>>
    BY Zenon, <1>5 DEF EnsureExactTask, Installing, Held
  <2>2. CASE Return(c)
    BY Zenon, <2>1, <2>2, CommandReturns
  <2>3. CASE Swap(c, Checkpoint(record), "setup") /\ UNCHANGED locks
    BY Zenon, <1>2, <2>1, <2>3 DEF locks
  <2>4. QED
    BY Zenon, <1>5, <2>2, <2>3 DEF EnsureExactTask
<1>6. CASE MakeArtifact(c)
  <2>1. /\ pc[c] \in {"makeKey", "makeRuntime", "makeData"}
        /\ Swap(c, Checkpoint(record), "setup") /\ UNCHANGED <<record, created, lock, daemonLock>>
    BY Zenon, <1>6 DEF MakeArtifact, Made, locks
  <2>2. pc[c] \in Held /\ record.state = "INSTALLING"
    BY Zenon, <1>1, <2>1 DEF Held, HeldPlace
  <2>3. QED
    BY Zenon, <1>2, <2>1, <2>2
<1>7. ASSUME NEW to \in {"ACTIVE", "INSTALLING"}, pc[c] \in Held,
             Swap(c, Transition(record, to), "setup"),
             UNCHANGED <<record, created, lock, daemonLock>>
      PROVE  SlotInvariant'
  <2>1. IsRecord(Transition(record, to)) /\ Transition(record, to).state = to
    BY <1>1, TransitionFields DEF InstallState
  <2>2. TakesFree(c) /\ lock' = c /\ created' \in Nat
    BY Zenon, <1>1, <1>7 DEF TakesFree, HeldPlace
  <2>3. QED
    BY Zenon, <1>7, <2>1, <2>2, CommandSwaps
<1>8. CASE SetupComplete(c)
  <2>1. pc[c] \in Held /\ UNCHANGED <<record, created>>
    BY Zenon, <1>8 DEF SetupComplete, Held
  <2>2. CASE Return(c)
    BY Zenon, <2>1, <2>2, CommandReturns
  <2>3. CASE Swap(c, Transition(record, "ACTIVE"), "setup") /\ UNCHANGED locks
    BY Zenon, <1>7, <2>1, <2>3 DEF locks
  <2>4. QED
    BY Zenon, <1>8, <2>2, <2>3 DEF SetupComplete
<1>9. CASE SetupRetained(c)
  BY Zenon, <1>7, <1>9 DEF SetupRetained, Held, filesystem, locks
<1>10. CASE SetupReturn(c)
  BY Zenon, <1>10, CommandReturns DEF SetupReturn, filesystem
<1>11. QED
  BY Zenon, <1>3, <1>4, <1>5, <1>6, <1>8, <1>9, <1>10
  DEF EnsureExactKey, EnsureExactRuntime, EnsureExactData

LEMMA RemoveKeeps ==
  ASSUME SlotInvariant, NEW c \in Cmds,
         \/ RemoveBegin(c) \/ RemoveAdmit(c) \/ RemoveDisable(c) \/ Drain(c) \/ DrainTimeout(c)
         \/ RemoveDelete(c) \/ RemoveRetire(c) \/ RemoveReturn(c)
  PROVE  SlotInvariant'
<1>1. /\ pc[c] \in Held => HeldPlace(c)
      /\ IsRecord(record) /\ record.id \in Ids /\ created \in Nat
      /\ DOMAIN daemonLock = Ids
  BY Zenon DEF SlotInvariant, Shape, IsRecord
<1> USE DEF Held, Admits, TakesFree, Walk, filesystem, locks
<1>2. CASE RemoveBegin(c)
  <2>1. CASE lock = None
    <3>1. Walk(c, "remove")
      BY Zenon, <1>2, <2>1 DEF RemoveBegin, AcquireSetupGuard
    <3>2. QED
      BY Zenon, <3>1, CommandWalks
  <2>2. CASE lock # None
    BY Zenon, <1>2, <2>2, CommandReturns DEF RemoveBegin
  <2>3. QED
    BY Zenon, <2>1, <2>2
<1>3. CASE RemoveAdmit(c)
  <2>1. lock = c /\ UNCHANGED <<record, created>>
    BY Zenon, <1>1, <1>3 DEF RemoveAdmit, HeldPlace
  <2>2. CASE Return(c)
    BY Zenon, <2>1, <2>2, CommandReturns
  <2>3. CASE Goto(c, "taskResumed") /\ UNCHANGED <<locks, role, seen, next, ret>>
    <3>1. Walk(c, "taskResumed")
      BY Zenon, <2>1, <2>3
    <3>2. QED
      BY Zenon, <3>1, CommandWalks
  <2>4. CASE Swap(c, Transition(record, "REMOVING"), "task") /\ UNCHANGED locks
    <3>1. IsRecord(Transition(record, "REMOVING")) /\ Transition(record, "REMOVING").state = "REMOVING"
      BY Zenon, <1>1, TransitionFields DEF InstallState
    <3>2. TakesFree(c) /\ lock' = c /\ created' \in Nat
      BY Zenon, <1>1, <2>1, <2>4
    <3>3. QED
      BY Zenon, <2>1, <2>4, <3>1, <3>2, CommandSwaps
  <2>5. QED
    BY Zenon, <1>3, <2>2, <2>3, <2>4 DEF RemoveAdmit
<1>4. CASE RemoveDisable(c)
  <2>1. lock = c /\ UNCHANGED <<record, created>>
    BY Zenon, <1>1, <1>4 DEF RemoveDisable, HeldPlace
  <2>2. CASE Return(c)
    BY Zenon, <2>1, <2>2, CommandReturns
  <2>3. ASSUME NEW l \in {"drain", "drainAbsent"}, Goto(c, l),
               UNCHANGED <<locks, role, seen, next, ret>>
        PROVE  SlotInvariant'
    <3>1. Walk(c, l)
      BY Zenon, <2>1, <2>3
    <3>2. QED
      BY Zenon, <3>1, CommandWalks
  <2>4. QED
    BY Zenon, <1>4, <2>2, <2>3 DEF RemoveDisable
<1>5. CASE Drain(c)
  <2>1. lock = c /\ UNCHANGED <<record, created, lock, role, seen, next, ret>>
    BY Zenon, <1>1, <1>5 DEF Drain, HeldPlace
  <2>2. /\ daemonLock[record.id] = None
        /\ daemonLock' = [daemonLock EXCEPT ![record.id] = c]
    BY Zenon, <1>5 DEF Drain, TakeDaemonLock
  <2>3. PICK l \in {"retire", "delete"} : Goto(c, l)
    BY Zenon, <1>5 DEF Drain
  <2>4. Walk(c, l)
    BY Zenon, <1>1, <2>1, <2>2, <2>3
  <2>5. QED
    BY Zenon, <2>4, CommandWalks
<1>6. CASE DrainTimeout(c)
  <2>1. lock = c /\ UNCHANGED <<record, created>>
    BY Zenon, <1>1, <1>6 DEF DrainTimeout, HeldPlace
  <2>2. CASE Return(c)
    BY Zenon, <2>1, <2>2, CommandReturns
  <2>3. CASE Goto(c, "stopped") /\ UNCHANGED <<locks, role, seen, next, ret>>
    <3>1. Walk(c, "stopped")
      BY Zenon, <2>1, <2>3
    <3>2. QED
      BY Zenon, <3>1, CommandWalks
  <2>4. QED
    BY Zenon, <1>6, <2>2, <2>3 DEF DrainTimeout
<1>7. CASE RemoveDelete(c)
  <2>1. lock = c /\ daemonLock[record.id] = c /\ UNCHANGED <<record, created>>
    BY Zenon, <1>1, <1>7 DEF RemoveDelete, HeldPlace
  <2>2. CASE Return(c)
    BY Zenon, <2>1, <2>2, CommandReturns
  <2>3. CASE Goto(c, "retire") /\ UNCHANGED <<locks, role, seen, next, ret>>
    <3>1. Walk(c, "retire")
      BY Zenon, <2>1, <2>3
    <3>2. QED
      BY Zenon, <3>1, CommandWalks
  <2>4. QED
    BY Zenon, <1>7, <2>2, <2>3 DEF RemoveDelete
<1>8. CASE RemoveRetire(c)
  <2>1. /\ lock = c /\ daemonLock[record.id] = c
        /\ UNCHANGED <<record, created, lock, daemonLock>>
    BY Zenon, <1>1, <1>8 DEF RemoveRetire, HeldPlace
  <2>2. CASE Goto(c, "removed") /\ UNCHANGED <<role, seen, next, ret>>
    <3>1. Walk(c, "removed")
      BY Zenon, <2>1, <2>2
    <3>2. QED
      BY Zenon, <3>1, CommandWalks
  <2>3. CASE Swap(c, Transition(record, "RETAINED"), "removed")
    <3>1. IsRecord(Transition(record, "RETAINED")) /\ Transition(record, "RETAINED").state = "RETAINED"
      BY Zenon, <1>1, TransitionFields DEF InstallState
    <3>2. TakesFree(c) /\ lock' = c /\ created' \in Nat /\ daemonLock'[record.id] = c
      BY Zenon, <1>1, <2>1
    <3>3. QED
      BY Zenon, <2>1, <2>3, <3>1, <3>2, CommandSwaps
  <2>4. QED
    BY Zenon, <1>8, <2>2, <2>3 DEF RemoveRetire
<1>9. CASE RemoveReturn(c)
  BY Zenon, <1>9, CommandReturns DEF RemoveReturn
<1>10. QED
  BY Zenon, <1>2, <1>3, <1>4, <1>5, <1>6, <1>7, <1>8, <1>9

LEMMA StartKeeps ==
  ASSUME SlotInvariant, NEW c \in Cmds,
         \/ StartBegin(c) \/ BridgeBegin(c) \/ TryAuthenticated(c) \/ TryAcquireStartupLock(c)
         \/ StartTimeout(c) \/ Readmit(c) \/ RelayEnds(c) \/ Fail(c)
  PROVE  SlotInvariant'
<1> USE DEF filesystem, locks
<1>1. UNCHANGED <<record, created>>
  BY Zenon DEF StartBegin, BridgeBegin, TryAuthenticated, TryAcquireStartupLock, StartTimeout, Readmit,
         RelayEnds, Fail
<1>2. CASE Return(c)
  BY Zenon, <1>1, <1>2, CommandReturns
<1>3. ASSUME NEW l \in {"probe", "readmit", "request", "wait", "relay"}, Goto(c, l),
             UNCHANGED <<lock, daemonLock, role, next, ret>>,
             UNCHANGED seen \/ seen' = [seen EXCEPT ![c] = record]
      PROVE  SlotInvariant'
  <2>1. Walk(c, l)
    BY Zenon, <1>1, <1>3 DEF Walk, TakesFree, Admits, Held
  <2>2. QED
    BY Zenon, <2>1, CommandWalks
<1>4. CASE StartBegin(c) \/ BridgeBegin(c) \/ Readmit(c)
  BY Zenon, <1>2, <1>3, <1>4 DEF StartBegin, BridgeBegin, Readmit
<1>5. CASE TryAuthenticated(c) \/ TryAcquireStartupLock(c)
  BY Zenon, <1>2, <1>3, <1>5 DEF TryAuthenticated, Connected, TryAcquireStartupLock
<1>6. CASE StartTimeout(c) \/ RelayEnds(c) \/ Fail(c)
  BY Zenon, <1>2, <1>6 DEF StartTimeout, RelayEnds, Fail
<1>7. QED
  BY Zenon, <1>4, <1>5, <1>6

LEMMA PurgeKeeps ==
  ASSUME SlotInvariant, NEW c \in Cmds,
         \/ PurgeObserve(c) \/ PurgeAbsence(c) \/ PurgeConverge(c) \/ PublishPurging(c)
         \/ DropGuard(c) \/ DrainStarters(c) \/ ResumeDaemonLock(c)
         \/ StageInstallTreeForPurge(c) \/ AuditTombstone(c) \/ RemovePurgeDirectory(c)
         \/ FinalizeRecordLast(c) \/ RemoveStage(c)
  PROVE  SlotInvariant'
<1>1. /\ pc[c] \in Held => HeldPlace(c)
      /\ IsRecord(record) /\ record.id \in Ids /\ created \in Nat
      /\ DOMAIN daemonLock = Ids
  BY Zenon DEF SlotInvariant, Shape, IsRecord
<1> USE DEF Held, Admits, TakesFree, Walk, filesystem, locks
<1>2. UNCHANGED <<record, created>>
  BY Zenon DEF PurgeObserve, PurgeAbsence, PurgeConverge, PublishPurging, DropGuard, DrainStarters,
         ResumeDaemonLock, StageInstallTreeForPurge, AuditTombstone, RemovePurgeDirectory,
         FinalizeRecordLast, RemoveStage
<1>3. CASE Return(c) \/ Observed(c)
  BY Zenon, <1>2, <1>3, CommandReturns
<1>4. CASE PurgeObserve(c)
  <2>1. CASE ~Return(c)
    <3>1. Walk(c, PurgeEffect(record))
      BY Zenon, <1>2, <1>4, <2>1, EffectPlaces DEF PurgeObserve
    <3>2. QED
      BY Zenon, <3>1, CommandWalks
  <2>2. QED
    BY Zenon, <1>3, <2>1
<1>5. ASSUME NEW l \in {"remove", "removing"}, lock = None, AcquireSetupGuard(c), Goto(c, l),
             UNCHANGED <<role, seen, next, ret>>
      PROVE  SlotInvariant'
  <2>1. Walk(c, l)
    BY Zenon, <1>2, <1>5 DEF AcquireSetupGuard
  <2>2. QED
    BY Zenon, <2>1, CommandWalks
<1>6. CASE PublishPurging(c)
  <2>1. CASE ~Return(c)
    <3>1. /\ lock = None /\ lock' = c /\ daemonLock[record.id] = None
          /\ daemonLock' = [daemonLock EXCEPT ![record.id] = c]
          /\ Swap(c, Transition(record, "PURGING"), "purging")
      BY Zenon, <1>6, <2>1 DEF PublishPurging, TakeDaemonLock
    <3>2. IsRecord(Transition(record, "PURGING")) /\ Transition(record, "PURGING").state = "PURGING"
      BY Zenon, <1>1, TransitionFields DEF InstallState
    <3>3. TakesFree(c) /\ created' \in Nat /\ daemonLock'[record.id] = c
      BY Zenon, <1>1, <1>2, <3>1
    <3>4. QED
      BY Zenon, <1>2, <3>1, <3>2, <3>3, CommandSwaps
  <2>2. QED
    BY Zenon, <1>3, <2>1
<1>7. CASE DropGuard(c)
  <2>1. Walk(c, "drainStarters")
    BY Zenon, <1>1, <1>2, <1>7 DEF DropGuard, HeldPlace
  <2>2. QED
    BY Zenon, <2>1, CommandWalks
<1>8. CASE DrainStarters(c)
  <2>1. CASE ~Return(c)
    <3>1. PICK l \in {"resumeDaemon", "restage"} : Goto(c, l)
      BY Zenon, <1>8, <2>1 DEF DrainStarters
    <3>2. Walk(c, l)
      BY Zenon, <1>2, <1>8, <2>1, <3>1 DEF DrainStarters
    <3>3. QED
      BY Zenon, <3>2, CommandWalks
  <2>2. QED
    BY Zenon, <1>3, <2>1
<1>9. CASE ResumeDaemonLock(c)
  <2>1. CASE ~Return(c)
    <3>1. /\ daemonLock[seen[c].id] = None
          /\ daemonLock' = [daemonLock EXCEPT ![seen[c].id] = c]
          /\ Goto(c, "restage") /\ UNCHANGED <<lock, role, seen, next, ret>>
      BY Zenon, <1>9, <2>1 DEF ResumeDaemonLock, TakeDaemonLock
    <3>2. TakesFree(c)
      BY Zenon, <1>1, <3>1
    <3>3. Walk(c, "restage")
      BY Zenon, <1>2, <3>1, <3>2
    <3>4. QED
      BY Zenon, <3>3, CommandWalks
  <2>2. QED
    BY Zenon, <1>3, <2>1
<1>10. CASE FinalizeRecordLast(c)
  <2>1. CASE ~Return(c)
    <3>1. Walk(c, "finalizing")
      BY Zenon, <1>2, <1>10, <2>1 DEF FinalizeRecordLast, AcquireSetupGuard
    <3>2. QED
      BY Zenon, <3>1, CommandWalks
  <2>2. QED
    BY Zenon, <1>3, <2>1
<1>11. CASE UNCHANGED <<lock, daemonLock, pc, role, seen, next, ret>>
  BY <1>2, <1>11 DEF SlotInvariant, Shape, HeldPlace, DaemonPlace, Serving
<1>12. CASE PurgeAbsence(c) \/ PurgeConverge(c) \/ StageInstallTreeForPurge(c)
            \/ AuditTombstone(c) \/ RemovePurgeDirectory(c) \/ RemoveStage(c)
  BY Zenon, <1>3, <1>5, <1>11, <1>12
  DEF PurgeAbsence, PurgeConverge, StageInstallTreeForPurge, AuditTombstone,
      RemovePurgeDirectory, RemoveStage, control
<1>13. QED
  BY Zenon, <1>4, <1>6, <1>7, <1>8, <1>9, <1>10, <1>12

\* RunEx starts the task's process, if none is running.
LEMMA RequestKeeps ==
  ASSUME SlotInvariant, NEW c \in Cmds, RequestStart(c)
  PROVE  SlotInvariant'
<1>1. CASE Return(c)
  BY Zenon, <1>1, CommandReturns DEF RequestStart, filesystem
<1>2. CASE ~Return(c)
  <2>1. /\ c \in Procs /\ Daemon \in Procs /\ c # Daemon
        /\ pc' = [pc EXCEPT ![c] = "wait", ![Daemon] = IF @ = "off" THEN "launched" ELSE @]
        /\ UNCHANGED <<record, created, lock, daemonLock, role, seen, next, ret>>
    BY Zenon, <1>2, InstallAssumption DEF RequestStart, Procs, filesystem, locks
  <2>2. /\ DOMAIN pc' = Procs /\ pc'[c] = "wait"
        /\ pc'[Daemon] = IF pc[Daemon] = "off" THEN "launched" ELSE pc[Daemon]
        /\ \A d \in Cmds \ {c} : pc'[d] = pc[d]
    BY Zenon, <2>1, InstallAssumption DEF SlotInvariant, Shape, Procs
  <2>3. Shape'
    BY Zenon, <2>1, <2>2 DEF SlotInvariant, Shape
  <2>4. \A d \in Cmds \ {c} : Keeps(d)
    BY Zenon, <2>1, <2>2 DEF Keeps, KeepsHandles
  <2>5. \A d \in Cmds : pc'[d] \in Held => HeldPlace(d)'
    BY Zenon, <2>1, <2>2, <2>4, OtherPlaces DEF Held
  <2>6. DaemonPlace'
    BY Zenon, <2>1, <2>2 DEF SlotInvariant, DaemonPlace, Serving
  <2>7. QED
    BY Zenon, <2>3, <2>5, <2>6 DEF SlotInvariant
<1>3. QED
  BY Zenon, <1>1, <1>2

LEMMA StageKeeps ==
  ASSUME SlotInvariant, NEW c \in Cmds, Stage(c)
  PROVE  SlotInvariant'
<1>1. CASE Return(c)
  BY Zenon, <1>1, CommandReturns DEF Stage, filesystem
<1>2. CASE ~Return(c)
  <2>1. /\ c \in Procs /\ pc[c] = "stage" /\ AcceptsSwap(record, next[c]) /\ Goto(c, "publish")
        /\ UNCHANGED <<record, created, lock, daemonLock, role, seen, next, ret>>
    BY Zenon, <1>2 DEF Stage, Procs, filesystem, locks
  <2>2. HeldPlace(c)
    BY Zenon, <2>1 DEF SlotInvariant, Held
  <2>3. pc'[c] = "publish" /\ Shape' /\ \A d \in Procs \ {c} : Keeps(d)
    BY Zenon, <2>1 DEF SlotInvariant, Shape, Goto, Keeps, KeepsHandles
  <2>4. HeldPlace(c)'
    BY Zenon, <2>1, <2>2, <2>3 DEF HeldPlace
  <2>5. QED
    BY Zenon, <2>1, <2>3, <2>4, CommandMoves
<1>3. QED
  BY Zenon, <1>1, <1>2

-----------------------------------------------------------------------------
(* The two steps that change the record.                                   *)

\* What the rename makes of the slot, for a command that owns install.lock: a
\* daemon that serves sees its record go from ACTIVE to REMOVING and no further,
\* since daemon.lock, which the command needs for RETAINED, is the daemon's.
LEMMA PublishEffect ==
  ASSUME SlotInvariant, NEW c \in Cmds, Publish(c)
  PROVE  /\ lock = c /\ IsRecord(record') /\ ret[c] \in {"setup", "task", "removed", "purging"}
         /\ record'.state \in {"INSTALLING", "ACTIVE", "REMOVING", "RETAINED", "PURGING"}
         /\ IF record.state = "ABSENT" THEN record'.state = "INSTALLING"
            ELSE /\ record'.id = record.id
                 /\ \/ record'.state = record.state
                    \/ IsLegalTransition(record.state, record'.state)
         /\ Serving => record'.id = record.id /\ record'.state \in {"ACTIVE", "REMOVING"}
<1>1. pc[c] = "publish" /\ record' = next[c]
  BY Zenon DEF Publish
<1>2. HeldPlace(c) /\ IsRecord(record) /\ DaemonPlace
  BY Zenon, <1>1 DEF SlotInvariant, Shape, Held
<1>3. /\ lock = c /\ ret[c] \in {"setup", "task", "removed", "purging"} /\ IsRecord(next[c])
      /\ next[c].state \in {"INSTALLING", "ACTIVE", "REMOVING", "RETAINED", "PURGING"}
      /\ next[c].state \in {"RETAINED", "PURGING"} => daemonLock[record.id] = c
      /\ AcceptsSwap(record, next[c])
  BY Zenon, <1>1, <1>2 DEF HeldPlace
<1>4. IF record.state = "ABSENT" THEN next[c].state = "INSTALLING"
      ELSE /\ next[c].id = record.id
           /\ next[c].state = record.state \/ IsLegalTransition(record.state, next[c].state)
  BY Zenon, <1>2, <1>3, SwapFields
<1>5. ASSUME Serving
      PROVE  next[c].id = record.id /\ next[c].state \in {"ACTIVE", "REMOVING"}
  <2>1. record.state \in {"ACTIVE", "REMOVING"} /\ daemonLock[record.id] = Daemon /\ c # Daemon
    BY Zenon, <1>2, <1>5, InstallAssumption DEF DaemonPlace, Serving
  <2>2. QED
    BY Zenon, <1>3, <1>4, <2>1 DEF IsLegalTransition
<1>6. QED
  BY Zenon, <1>1, <1>3, <1>4, <1>5

LEMMA PublishKeeps ==
  ASSUME SlotInvariant, NEW c \in Cmds, Publish(c)
  PROVE  SlotInvariant' /\ UNCHANGED Serving
<1>1. /\ c \in Procs /\ Daemon \in Procs /\ c # Daemon
      /\ pc' = [pc EXCEPT ![c] = ret[c]] /\ ret' = [ret EXCEPT ![c] = "idle"]
      /\ next' = [next EXCEPT ![c] = NoRecord]
      /\ seen' = seen \/ seen' = [seen EXCEPT ![c] = next[c]]
      /\ UNCHANGED <<created, lock, daemonLock, role>>
  BY Zenon, InstallAssumption DEF Publish, Goto, Procs, locks
<1>2. Shape'
  BY Zenon, <1>1, PublishEffect DEF SlotInvariant, Shape
<1>3. \A d \in Procs \ {c} : Keeps(d)
  <2>1. TAKE d \in Procs \ {c}
  <2>2. pc'[d] = pc[d] /\ ret'[d] = ret[d] /\ next'[d] = next[d] /\ seen'[d] = seen[d]
    BY Zenon, <1>1 DEF SlotInvariant, Shape
  <2>3. QED
    BY Zenon, <1>1, <2>2 DEF Keeps, KeepsHandles
<1>4. pc'[c] \in {"setup", "task", "removed", "purging"} /\ lock' = c /\ record'.state # "ABSENT"
  BY Zenon, <1>1, PublishEffect DEF SlotInvariant, Shape
<1>5. \A d \in Cmds : pc'[d] \in Held => HeldPlace(d)'
  <2>1. HeldPlace(c)'
    BY Zenon, <1>4 DEF HeldPlace
  <2>2. lock = c
    BY Zenon, PublishEffect
  <2>3. QED
    BY Zenon, <1>3, <2>1, <2>2, OtherPlaces DEF Procs
<1>6. pc'[Daemon] = pc[Daemon] /\ seen'[Daemon] = seen[Daemon]
  BY Zenon, <1>1, <1>3 DEF Keeps
<1>7. Serving' = Serving
  BY Zenon, <1>6 DEF Serving
<1>8. DaemonPlace'
  BY Zenon, <1>1, <1>6, <1>7, PublishEffect DEF SlotInvariant, DaemonPlace
<1>9. QED
  BY Zenon, <1>2, <1>5, <1>7, <1>8 DEF SlotInvariant

LEMMA DeleteKeeps ==
  ASSUME SlotInvariant, NEW c \in Cmds, DeletePurging(c)
  PROVE  /\ SlotInvariant' /\ UNCHANGED Serving
         /\ record.state = "PURGING" /\ record'.state = "ABSENT" /\ ~Serving
<1>1. pc[c] = "finalizing" /\ Observed(c) /\ record' = NoRecord /\ UNCHANGED created
  BY Zenon DEF DeletePurging
<1>2. c \in Procs /\ Daemon \in Procs /\ c # Daemon
  BY Zenon, InstallAssumption DEF Procs
<1>3. lock = c /\ record.state = "PURGING"
  BY Zenon, <1>1 DEF SlotInvariant, Held, HeldPlace
<1>4. ~Serving
  BY Zenon, <1>3 DEF SlotInvariant, DaemonPlace
<1>5. DOMAIN daemonLock' = Ids
  BY Zenon, <1>1 DEF Observed, ReleaseAll, Released
<1>6. Shape'
  BY Zenon, <1>1, <1>5, NoRecordFields DEF SlotInvariant, Shape, Observed, Goto
<1>7. \A d \in Procs \ {c} : Keeps(d)
  BY <1>1, <1>2 DEF SlotInvariant, Shape, Observed, ReleaseAll, Released, Goto, Keeps, KeepsHandles
<1>8. pc'[c] \notin Held
  BY Zenon, <1>1, <1>2 DEF SlotInvariant, Shape, Observed, Goto, Held
<1>9. \A d \in Cmds : pc'[d] \in Held => HeldPlace(d)'
  BY Zenon, <1>3, <1>7, <1>8, OtherPlaces DEF Procs
<1>10. Serving' = Serving
  BY Zenon, <1>2, <1>7 DEF Serving, Keeps
<1>11. DaemonPlace'
  BY <1>2, <1>4, <1>7, <1>10 DEF SlotInvariant, DaemonPlace, Keeps, KeepsHandles
<1>12. QED
  BY Zenon, <1>1, <1>3, <1>4, <1>6, <1>9, <1>10, <1>11, NoRecordFields DEF SlotInvariant

-----------------------------------------------------------------------------
(* The daemon.                                                             *)

LEMMA DaemonMoves ==
  ASSUME SlotInvariant, Shape', UNCHANGED <<record, created>>, \A d \in Cmds : Keeps(d),
         DaemonPlace'
  PROVE  SlotInvariant'
<1>1. \A d \in Cmds : pc'[d] \in Held => HeldPlace(d)'
  BY Zenon, OtherPlaces
<1>2. QED
  BY Zenon, <1>1 DEF SlotInvariant

LEMMA DaemonLeaves ==
  ASSUME SlotInvariant, UNCHANGED <<record, created>>, Exit \/ DaemonOff
  PROVE  SlotInvariant' /\ ~Serving'
<1>1. Daemon \in Procs /\ \A d \in Cmds : d \in Procs /\ d # Daemon
  BY Zenon, InstallAssumption DEF Procs
<1>2. DOMAIN daemonLock' = Ids
  BY Zenon DEF Exit, DaemonOff, ReleaseAll, Released
<1>3. pc'[Daemon] \in {"off", "exited"} /\ Shape'
  BY Zenon, <1>1, <1>2 DEF SlotInvariant, Shape, Exit, DaemonOff, Goto
<1>4. \A d \in Cmds : Keeps(d)
  BY Zenon, <1>1 DEF SlotInvariant, Shape, Exit, DaemonOff, Goto, ReleaseAll, Released, Keeps, KeepsHandles
<1>5. DaemonPlace' /\ ~Serving'
  BY Zenon, <1>3 DEF DaemonPlace, Serving
<1>6. QED
  BY Zenon, <1>3, <1>4, <1>5, DaemonMoves

\* The daemon walks from one of its places to another.
LEMMA DaemonWalks ==
  ASSUME SlotInvariant, UNCHANGED <<record, created, role, next, ret>>, NEW l, Goto(Daemon, l),
         seen' = seen \/ seen' = [seen EXCEPT ![Daemon] = record],
         UNCHANGED lock \/ lock \in {None, Daemon},
         \/ UNCHANGED daemonLock
         \/ /\ daemonLock[record.id] = None
            /\ daemonLock' = [daemonLock EXCEPT ![record.id] = Daemon],
         DaemonPlace'
  PROVE  SlotInvariant'
<1>1. Daemon \in Procs /\ \A d \in Cmds : d \in Procs /\ d # Daemon /\ d # None
  BY Zenon, InstallAssumption DEF Procs
<1>2. Shape'
  BY Zenon, <1>1 DEF SlotInvariant, Shape, Goto
<1>3. ASSUME NEW d \in Cmds
      PROVE  Keeps(d)
  <2>1. pc'[d] = pc[d] /\ ret'[d] = ret[d] /\ next'[d] = next[d] /\ seen'[d] = seen[d]
    BY Zenon, <1>1 DEF SlotInvariant, Shape, Goto
  <2>2. KeepsHandles(d)
    BY Zenon, <1>1 DEF SlotInvariant, Shape, KeepsHandles
  <2>3. QED
    BY Zenon, <2>1, <2>2 DEF Keeps
<1>4. QED
  BY Zenon, <1>2, <1>3, DaemonMoves

\* What a daemon step does to the slot: service begins only on an ACTIVE record.
LEMMA DaemonKeeps ==
  ASSUME SlotInvariant, DaemonStep \/ DaemonCrash
  PROVE  /\ SlotInvariant' /\ UNCHANGED record
         /\ Serving' => Serving \/ record.state = "ACTIVE"
<1>1. UNCHANGED <<record, created>>
  BY Zenon DEF DaemonStep, DaemonCrash, DaemonAdmit, DaemonRecover, DaemonBind, DaemonServe,
         MonitorInstallState, DaemonDrained, InstanceEnds, InstanceStopped, filesystem
<1>2. CASE Exit \/ DaemonOff
  BY Zenon, <1>1, <1>2, DaemonLeaves
<1>3. /\ Daemon \in DOMAIN pc /\ Daemon \in DOMAIN seen /\ DOMAIN daemonLock = Ids
      /\ record.id \in Ids /\ DaemonPlace
  BY Zenon DEF SlotInvariant, Shape, Procs, IsRecord
<1>4. CASE DaemonAdmit /\ ~Exit
  <2>1. /\ lock = None /\ lock' = Daemon /\ record.state = "ACTIVE" /\ Goto(Daemon, "locked")
        /\ daemonLock[record.id] = None
        /\ daemonLock' = [daemonLock EXCEPT ![record.id] = Daemon]
        /\ seen' = [seen EXCEPT ![Daemon] = record] /\ UNCHANGED <<role, next, ret>>
    BY Zenon, <1>4 DEF DaemonAdmit, TakeDaemonLock, AdmitsOrdinaryTraffic
  <2>2. pc'[Daemon] = "locked" /\ seen'[Daemon] = record /\ daemonLock'[record.id] = Daemon
    BY Zenon, <1>3, <2>1 DEF Goto
  <2>3. DaemonPlace' /\ ~Serving'
    BY Zenon, <1>1, <1>3, <2>1, <2>2 DEF DaemonPlace, Serving
  <2>4. QED
    BY Zenon, <1>1, <2>1, <2>3, DaemonWalks
<1>5. ASSUME NEW l, l \in {"recovering", "bound", "serving", "draining"}, Goto(Daemon, l),
             pc[Daemon] \in {"locked", "recovering", "bound", "serving"},
             UNCHANGED <<daemonLock, role, seen, next, ret>>,
             UNCHANGED lock \/ lock \in {None, Daemon},
             l = "bound" => lock' = Daemon /\ record = seen[Daemon],
             l \in {"serving", "draining"} => Serving
      PROVE  /\ SlotInvariant' /\ UNCHANGED record
             /\ Serving' => Serving \/ record.state = "ACTIVE"
  <2>1. pc'[Daemon] = l
    BY Zenon, <1>3, <1>5 DEF Goto
  <2>2. DaemonPlace'
    BY Zenon, <1>1, <1>3, <1>5, <2>1 DEF DaemonPlace, Serving
  <2>3. Serving' => Serving \/ record.state = "ACTIVE"
    BY Zenon, <1>3, <1>5, <2>1 DEF DaemonPlace, Serving
  <2>4. QED
    BY Zenon, <1>1, <1>5, <2>2, <2>3, DaemonWalks
<1>6. CASE DaemonRecover \/ DaemonServe
  BY Zenon, <1>3, <1>5, <1>6 DEF DaemonRecover, DaemonServe, DaemonPlace, Serving
<1>7. CASE DaemonBind /\ ~Exit
  BY Zenon, <1>5, <1>7 DEF DaemonBind
<1>8. CASE MonitorInstallState
  BY Zenon, <1>5, <1>8 DEF MonitorInstallState, Serving, locks
<1>9. QED
  BY Zenon, <1>2, <1>4, <1>6, <1>7, <1>8
  DEF DaemonStep, DaemonCrash, DaemonDrained, InstanceEnds, InstanceStopped

-----------------------------------------------------------------------------
(* The theorems.                                                           *)

\* Every other step of a command leaves the record and the daemon's service.
Walks(c) ==
  \/ CommandBegins(c) \/ Stage(c) \/ RelayEnds(c) \/ Fail(c)
  \/ SetupInitial(c) \/ EnsureExactKey(c) \/ EnsureExactRuntime(c) \/ EnsureExactData(c)
  \/ EnsureExactTask(c) \/ MakeArtifact(c) \/ SetupComplete(c) \/ SetupRetained(c) \/ SetupReturn(c)
  \/ RemoveBegin(c) \/ StartBegin(c) \/ BridgeBegin(c)
  \/ RemoveAdmit(c) \/ RemoveDisable(c) \/ Drain(c) \/ DrainTimeout(c)
  \/ RemoveDelete(c) \/ RemoveRetire(c) \/ RemoveReturn(c)
  \/ PurgeObserve(c) \/ PurgeAbsence(c) \/ PurgeConverge(c) \/ PublishPurging(c) \/ DropGuard(c)
  \/ DrainStarters(c) \/ ResumeDaemonLock(c) \/ StageInstallTreeForPurge(c)
  \/ AuditTombstone(c) \/ RemovePurgeDirectory(c) \/ FinalizeRecordLast(c) \/ RemoveStage(c)
  \/ TryAuthenticated(c) \/ TryAcquireStartupLock(c) \/ RequestStart(c) \/ StartTimeout(c)
  \/ Readmit(c)

LEMMA WalksKeep ==
  ASSUME SlotInvariant, NEW c \in Cmds, Walks(c)
  PROVE  SlotInvariant'
BY Zenon, BeginKeeps, StageKeeps, SetupKeeps, RemoveKeeps, PurgeKeeps, StartKeeps, RequestKeeps DEF Walks

LEMMA WalksStutter ==
  ASSUME SlotInvariant, NEW c \in Cmds, Walks(c)
  PROVE  UNCHANGED <<record, Serving>>
<1>1. c \in Procs /\ Daemon \in Procs /\ c # Daemon /\ DOMAIN pc = Procs
  BY Zenon, InstallAssumption DEF SlotInvariant, Shape, Procs
<1>2. ASSUME UNCHANGED record,
             \/ UNCHANGED pc
             \/ \E l : pc' = [pc EXCEPT ![c] = l]
             \/ \E l, m : pc' = [pc EXCEPT ![c] = l, ![Daemon] = m]
                          /\ (m = pc[Daemon] \/ {m, pc[Daemon]} \subseteq {"off", "launched"})
      PROVE  UNCHANGED <<record, Serving>>
  BY <1>1, <1>2 DEF Serving
<1> USE DEF Goto, Return, Observed, filesystem
<1>3. CASE CommandBegins(c) \/ Stage(c) \/ RelayEnds(c) \/ Fail(c)
  BY Zenon, <1>2, <1>3
  DEF CommandBegins, SetupBegin, PurgeBegin, SpawnStableControl, SpawnStableBridge, Spawn, Begin,
      Stage, RelayEnds, Fail
<1>4. CASE \/ SetupInitial(c) \/ EnsureExactKey(c) \/ EnsureExactRuntime(c) \/ EnsureExactData(c)
           \/ EnsureExactTask(c) \/ MakeArtifact(c) \/ SetupComplete(c) \/ SetupRetained(c)
           \/ SetupReturn(c)
  BY Zenon, <1>2, <1>4
  DEF SetupInitial, EnsureExactKey, EnsureExactRuntime, EnsureExactData, EnsureExactTask, MakeArtifact,
      SetupComplete, SetupRetained, SetupReturn, Installing, AdoptOr, Made, Swap
<1>5. CASE \/ RemoveBegin(c) \/ RemoveAdmit(c) \/ RemoveDisable(c) \/ Drain(c) \/ DrainTimeout(c)
           \/ RemoveDelete(c) \/ RemoveRetire(c) \/ RemoveReturn(c)
  BY Zenon, <1>2, <1>5
  DEF RemoveBegin, RemoveAdmit, RemoveDisable, Drain, DrainTimeout, RemoveDelete, RemoveRetire,
      RemoveReturn, Swap
<1>6. CASE \/ PurgeObserve(c) \/ PurgeAbsence(c) \/ PurgeConverge(c) \/ PublishPurging(c)
           \/ DropGuard(c) \/ DrainStarters(c) \/ ResumeDaemonLock(c)
  BY Zenon, <1>2, <1>6
  DEF PurgeObserve, PurgeAbsence, PurgeConverge, PublishPurging, DropGuard, DrainStarters,
      ResumeDaemonLock, Swap
<1>7. CASE \/ StageInstallTreeForPurge(c) \/ AuditTombstone(c) \/ RemovePurgeDirectory(c)
           \/ FinalizeRecordLast(c) \/ RemoveStage(c)
  BY Zenon, <1>2, <1>7
  DEF StageInstallTreeForPurge, AuditTombstone, RemovePurgeDirectory, FinalizeRecordLast,
      RemoveStage, control
<1>8. CASE \/ StartBegin(c) \/ BridgeBegin(c) \/ TryAuthenticated(c) \/ TryAcquireStartupLock(c)
           \/ StartTimeout(c) \/ Readmit(c)
  BY Zenon, <1>2, <1>8
  DEF StartBegin, BridgeBegin, TryAuthenticated, Connected, TryAcquireStartupLock, StartTimeout,
      Readmit
<1>9. CASE RequestStart(c)
  BY <1>1, <1>9 DEF RequestStart, Serving
<1>10. QED
  BY Zenon, <1>3, <1>4, <1>5, <1>6, <1>7, <1>8, <1>9 DEF Walks

LEMMA NextKeeps ==
  ASSUME SlotInvariant, [InstallNext]_vars
  PROVE  SlotInvariant'
<1>1. CASE UNCHANGED vars \/ DriftTask
  BY <1>1 DEF DriftTask, vars, filesystem, locks, control, SlotInvariant, Shape, HeldPlace,
              DaemonPlace, Serving
<1>2. CASE DaemonStep \/ DaemonCrash
  BY Zenon, <1>2, DaemonKeeps
<1>3. ASSUME NEW c \in Cmds, CommandBegins(c) \/ CommandStep(c) \/ RelayEnds(c) \/ Fail(c)
      PROVE  SlotInvariant'
  BY Zenon, <1>3, WalksKeep, PublishKeeps, DeleteKeeps DEF CommandStep, Walks
<1>4. QED
  BY Zenon, <1>1, <1>2, <1>3 DEF InstallNext

LEMMA InitSound == InstallInit => SlotInvariant
<1> SUFFICES ASSUME InstallInit PROVE SlotInvariant
  BY Zenon
<1>1. Shape
  BY Zenon, NoRecordFields DEF InstallInit, Shape
<1>2. pc[Daemon] = "off" /\ \A c \in Cmds : pc[c] = "idle"
  BY Zenon, InstallAssumption DEF InstallInit, Procs
<1>3. QED
  BY Zenon, <1>1, <1>2 DEF SlotInvariant, DaemonPlace, Serving, Held

\* Whoever acts on the slot, and whoever dies meanwhile: every change of the record
\* is made under install.lock, RETAINED and PURGING under daemon.lock as well, and
\* a daemon serves only the identity it was admitted for.
THEOREM SlotIsSound == InstallSpec => []SlotInvariant
<1>1. InstallInit => SlotInvariant
  BY Zenon, InitSound
<1>2. SlotInvariant /\ [InstallNext]_vars => SlotInvariant'
  BY Zenon, NextKeeps
<1>3. QED
  BY <1>1, <1>2, PTL DEF InstallSpec

LEMMA NextSimulates ==
  ASSUME SlotInvariant, [InstallNext]_vars
  PROVE  [Lifecycle!LifecycleNext]_<<record.state, Serving>>
<1>1. CASE UNCHANGED vars \/ DriftTask
  BY Zenon, <1>1 DEF DriftTask, vars, filesystem, control, Serving
<1>2. CASE DaemonStep \/ DaemonCrash
  <2>1. UNCHANGED record.state /\ (Serving' => Serving \/ record.state = "ACTIVE")
    BY Zenon, <1>2, DaemonKeeps
  <2>2. Serving \in BOOLEAN /\ Serving' \in BOOLEAN
    BY DEF Serving
  <2>3. QED
    BY Zenon, <2>1, <2>2 DEF Lifecycle!LifecycleNext, Lifecycle!BeginServing, Lifecycle!StopServing
<1>3. ASSUME NEW c \in Cmds, Publish(c)
      PROVE  [Lifecycle!LifecycleNext]_<<record.state, Serving>>
  <2> DEFINE to == record'.state
  <2>1. UNCHANGED Serving
    BY Zenon, <1>3, PublishKeeps
  <2>2. to = record.state \/ (<<record.state, to>> \in Lifecycle!Moves /\ (to \in Lifecycle!Quiet => ~Serving))
    BY Zenon, <1>3, PublishEffect DEF IsLegalTransition, Lifecycle!Moves, Lifecycle!Quiet
  <2>3. to \in Lifecycle!Quiet \union {"ACTIVE", "REMOVING"}
    BY Zenon, <1>3, PublishEffect DEF Lifecycle!Quiet
  <2>4. QED
    BY Zenon, <2>1, <2>2, <2>3 DEF Lifecycle!LifecycleNext, Lifecycle!Move
<1>4. ASSUME NEW c \in Cmds, DeletePurging(c)
      PROVE  [Lifecycle!LifecycleNext]_<<record.state, Serving>>
  <2>1. UNCHANGED Serving /\ record.state = "PURGING" /\ record'.state = "ABSENT" /\ ~Serving
    BY Zenon, <1>4, DeleteKeeps
  <2>2. Lifecycle!Move("ABSENT")
    BY Zenon, <2>1 DEF Lifecycle!Move, Lifecycle!Moves
  <2>3. QED
    BY Zenon, <2>2 DEF Lifecycle!LifecycleNext, Lifecycle!Quiet
<1>5. ASSUME NEW c \in Cmds, Walks(c)
      PROVE  [Lifecycle!LifecycleNext]_<<record.state, Serving>>
  BY Zenon, <1>5, WalksStutter
<1>6. QED
  BY <1>1, <1>2, <1>3, <1>4, <1>5 DEF InstallNext, CommandStep, Walks

\* The commands, the daemon and every crash of theirs implement the lifecycle
\* (install_record.rs:708, windows_control.rs:480, windows_runtime.rs:505).
THEOREM SlotImplementsLifecycle == InstallSpec => ImplementsLifecycle
<1>1. InstallInit => Lifecycle!LifecycleInit
  BY InstallAssumption DEF InstallInit, Lifecycle!LifecycleInit, Serving, Procs, NoRecord
<1>2. SlotInvariant /\ [InstallNext]_vars => [Lifecycle!LifecycleNext]_(Lifecycle!lifecycleVars)
  BY Zenon, NextSimulates DEF Lifecycle!lifecycleVars
<1>3. QED
  BY <1>1, <1>2, SlotIsSound, PTL DEF InstallSpec, ImplementsLifecycle, Lifecycle!LifecycleSpec

-----------------------------------------------------------------------------
(* What a record claims is on disk, and the identity goes last.            *)

\* What the record claims, but for the scheduled task, is there.
Backed(r) ==
  r.state \in {"INSTALLING", "ACTIVE", "REMOVING", "RETAINED"} =>
    \A a \in r.ev \ {"task"} : InPlace(r.id, a)

\* The places of purge alone, and those at which it has seen PURGING.
PurgePlaces == {"observe", "absence", "converge", "publishPurging", "purging", "drainStarters",
                "restage", "resume", "resumeDaemon", "tombstone", "removing", "gone", "finalizing"}
\* The places at which purge has seen PURGING in the record.
PurgingPlaces == {"purging", "drainStarters", "restage", "resume", "resumeDaemon"}

\* The places of remove that follow its admission.
RemovePlaces == {"task", "taskResumed", "drain", "drainAbsent", "stopped", "delete", "retire"}

\* The artifact a command is about to make.
Making(l) == CASE l = "makeKey" -> "key" [] l = "makeRuntime" -> "runtime" [] l = "makeData" -> "data"

\* What a command knows of the files at its place.
Work(c) ==
  /\ pc[c] \in PurgePlaces => role[c] = "purge"
  /\ pc[c] \in PurgingPlaces => seen[c].state = "PURGING"
  /\ pc[c] \in {"stage", "publish"} =>
       /\ next[c].ev \subseteq Evidence /\ Backed(next[c])
       /\ ret[c] = "purging" => role[c] = "purge" /\ next[c].state = "PURGING"
       /\ ret[c] = "task" => next[c].state = "REMOVING"
  /\ pc[c] \in RemovePlaces => record.state \in {"REMOVING", "RETAINED"}
  /\ pc[c] \in {"makeKey", "makeRuntime", "makeData"} =>
       record.id \in source /\ NextEvidence(record) = Making(pc[c])
  /\ pc[c] = "removing" => record.state = "PURGING"
  /\ pc[c] = "finalizing" => record.id \notin tomb /\ arts[record.id] = {}

\* A tombstone is that of the record being purged, and every file is in a tree.
FilesFollowRecord ==
  /\ arts = [i \in Ids |-> arts[i]]
  /\ record.ev \subseteq Evidence /\ Backed(record)
  /\ \A i \in tomb : i = record.id /\ record.state = "PURGING"
  /\ \A i \in Ids : arts[i] # {} => i \in source \union tomb

\* The inductive invariant, beside SlotInvariant.
BackedInvariant == FilesFollowRecord /\ \A c \in Cmds : Work(c)

\* The four pieces of evidence.
LEMMA EvidenceIs == Evidence = {"key", "runtime", "data", "task"}
<1>1. /\ EvidenceSequence[1] = "key" /\ EvidenceSequence[2] = "runtime"
      /\ EvidenceSequence[3] = "data" /\ EvidenceSequence[4] = "task"
  BY Zenon DEF EvidenceSequence
<1>2. \A i \in 1..4 : i = 1 \/ i = 2 \/ i = 3 \/ i = 4
  OBVIOUS
<1>3. 1 \in 1..4 /\ 2 \in 1..4 /\ 3 \in 1..4 /\ 4 \in 1..4
  OBVIOUS
<1>4. QED
  BY <1>1, <1>2, <1>3 DEF Evidence

\* A command is left where it is.
ControlKept(d) ==
  pc'[d] = pc[d] /\ role'[d] = role[d] /\ seen'[d] = seen[d] /\ next'[d] = next[d] /\ ret'[d] = ret[d]

\* Nothing that backs a record goes away.
Quiet == UNCHANGED <<record, tomb, arts>> /\ source \subseteq source'

\* Then a command that stays knows what it knew.
LEMMA QuietKeeps ==
  ASSUME BackedInvariant, Quiet, NEW d \in Cmds, ControlKept(d)
  PROVE  Work(d)'
<1> DEFINE n == next[d]
<1>1. Work(d)
  BY Zenon DEF BackedInvariant
<1>2. ASSUME Backed(n) PROVE Backed(n)'
  BY Zenon, <1>2 DEF Backed, InPlace, Quiet, ControlKept
<1>3. QED
  BY <1>1, <1>2 DEF Work, Quiet, ControlKept, Backed

\* And the invariant is kept if the ones that move do so too.
LEMMA QuietStep ==
  ASSUME BackedInvariant, Quiet, \A d \in Cmds : ControlKept(d) \/ Work(d)'
  PROVE  BackedInvariant'
<1>1. FilesFollowRecord'
  BY Zenon DEF BackedInvariant, FilesFollowRecord, Quiet, Backed, InPlace
<1>2. QED
  BY Zenon, <1>1, QuietKeeps DEF BackedInvariant

\* A step that needs install.lock meets nobody at work on the record.
LEMMA NobodyElseHolds ==
  ASSUME SlotInvariant, BackedInvariant, NEW c \in Cmds, lock \in {None, c},
         NEW d \in Cmds \ {c}, ControlKept(d)
  PROVE  Work(d)'
<1>1. pc[d] \notin Held
  BY Zenon, InstallAssumption DEF SlotInvariant, HeldPlace
<1>2. Work(d)
  BY Zenon DEF BackedInvariant
<1>3. QED
  BY Zenon, <1>1, <1>2 DEF Work, ControlKept, Held, RemovePlaces

\* Only this command moves.
Others(c) == \A d \in Cmds \ {c} : ControlKept(d)

\* A place at which a command claims nothing of the files.
Idles(c) ==
  /\ pc'[c] \notin {"stage", "publish", "makeKey", "makeRuntime", "makeData", "removing", "finalizing"}
  /\ pc'[c] \in PurgePlaces => role'[c] = "purge"
  /\ pc'[c] \in PurgingPlaces => seen'[c].state = "PURGING"
  /\ pc'[c] \in RemovePlaces => record'.state \in {"REMOVING", "RETAINED"}

\* A quiet step to a place that claims nothing.
LEMMA IdleWalks ==
  ASSUME BackedInvariant, NEW c \in Cmds, Quiet, Others(c), Idles(c)
  PROVE  BackedInvariant'
BY Zenon, QuietStep DEF Work, Idles, Others

\* A command that returns claims nothing.
LEMMA Returning ==
  ASSUME SlotInvariant, NEW c \in Cmds, Return(c)
  PROVE  Others(c) /\ Idles(c)
BY Zenon DEF SlotInvariant, Shape, Return, Others, ControlKept, Idles, PurgePlaces, PurgingPlaces, RemovePlaces, Procs

\* Nor does one that has looked at the record.
LEMMA Observing ==
  ASSUME SlotInvariant, NEW c \in Cmds, Observed(c), role[c] = "purge"
  PROVE  Others(c) /\ Idles(c)
BY Zenon DEF SlotInvariant, Shape, Observed, Goto, Others, ControlKept, Idles, PurgePlaces, PurgingPlaces, RemovePlaces, Procs

\* A command hands over a record: it is backed by what the step leaves.
LEMMA Swapping ==
  ASSUME SlotInvariant, NEW c \in Cmds, NEW n, NEW l, Swap(c, n, l),
         n.ev \subseteq Evidence, Backed(n)',
         l = "purging" => role[c] = "purge" /\ n.state = "PURGING",
         l = "task" => n.state = "REMOVING"
  PROVE  Others(c) /\ Work(c)'
<1>1. /\ Others(c) /\ pc'[c] = "stage" /\ next'[c] = n /\ ret'[c] = l /\ role'[c] = role[c]
  BY Zenon DEF SlotInvariant, Shape, Swap, Goto, Others, ControlKept, Procs
<1>2. QED
  BY Zenon, <1>1 DEF Work, PurgePlaces, PurgingPlaces, RemovePlaces, Backed, InPlace

\* A quiet step that hands over a record.
LEMMA SwapWalks ==
  ASSUME SlotInvariant, BackedInvariant, NEW c \in Cmds, NEW n, NEW l, Quiet, Swap(c, n, l),
         n.ev \subseteq Evidence, Backed(n)',
         l = "purging" => role[c] = "purge" /\ n.state = "PURGING",
         l = "task" => n.state = "REMOVING"
  PROVE  BackedInvariant'
BY Zenon, Swapping, QuietStep DEF Others

\* A transition claims what its record did.
LEMMA TransitionBacked ==
  ASSUME SlotInvariant, BackedInvariant, Quiet, NEW s \in InstallState, NEW n,
         n = Transition(record, s),
         record.state \in {"INSTALLING", "ACTIVE", "REMOVING", "RETAINED"}
  PROVE  n.ev \subseteq Evidence /\ Backed(n)' /\ n.state = s
<1>1. n.ev = record.ev /\ n.id = record.id /\ n.state = s
  BY Zenon DEF SlotInvariant, Shape, IsRecord, Transition
<1>2. \A a \in record.ev \ {"task"} : InPlace(record.id, a)'
  BY Zenon DEF BackedInvariant, FilesFollowRecord, Backed, InPlace, Quiet
<1>3. n.ev \subseteq Evidence /\ UNCHANGED record
  BY Zenon, <1>1 DEF BackedInvariant, FilesFollowRecord, Quiet
<1>4. Backed(n)'
  BY Zenon, <1>1, <1>2, <1>3 DEF Backed
<1>5. QED
  BY Zenon, <1>1, <1>3, <1>4

\* A checkpoint adds the one artifact that has just been found or made.
LEMMA CheckpointBacked ==
  ASSUME SlotInvariant, BackedInvariant, UNCHANGED <<record, tomb>>, record.id \in source',
         NEW n, n = Checkpoint(record),
         record.state = "INSTALLING", NextEvidence(record) \in Evidence,
         NextEvidence(record) # "task" => NextEvidence(record) \in arts'[record.id],
         arts[record.id] \ {"tornKey", "tornData"} \subseteq arts'[record.id]
  PROVE  n.ev \subseteq Evidence /\ Backed(n)'
<1>1. n.ev = record.ev \union {NextEvidence(record)} /\ n.id = record.id /\ n.state = record.state
  BY Zenon DEF SlotInvariant, Shape, IsRecord, Checkpoint
<1>2. record.id \notin tomb /\ record.ev \subseteq Evidence
  BY Zenon DEF BackedInvariant, FilesFollowRecord
<1>3. \A a \in record.ev \ {"task"} : a \in arts'[record.id]
  BY Zenon, EvidenceIs DEF BackedInvariant, FilesFollowRecord, Backed, InPlace
<1>4. \A a \in n.ev \ {"task"} : InPlace(record.id, a)'
  BY Zenon, <1>1, <1>2, <1>3 DEF InPlace
<1>5. n.ev \subseteq Evidence
  BY Zenon, <1>1, <1>2
<1>6. Backed(n)'
  BY Zenon, <1>1, <1>4 DEF Backed
<1>7. QED
  BY Zenon, <1>5, <1>6

-----------------------------------------------------------------------------
\* A command begins.
LEMMA BeginBacked ==
  ASSUME SlotInvariant, BackedInvariant, NEW c \in Cmds, CommandBegins(c)
  PROVE  BackedInvariant'
<1>1. Quiet
  BY Zenon DEF CommandBegins, SetupBegin, PurgeBegin, SpawnStableControl, SpawnStableBridge, Spawn, Quiet,
         filesystem
<1>2. ASSUME NEW r, NEW l \in {"setup", "observe", "spawned"}, Begin(c, r, l),
             l = "observe" => r = "purge", UNCHANGED seen \/ seen' = [seen EXCEPT ![c] = record]
      PROVE  BackedInvariant'
  <2>1. Others(c) /\ Idles(c)
    BY Zenon, <1>2 DEF SlotInvariant, Shape, Begin, Goto, Others, ControlKept, Idles, PurgePlaces,
                PurgingPlaces, RemovePlaces, Procs
  <2>2. QED
    BY Zenon, <1>1, <2>1, IdleWalks
<1>3. CASE SetupBegin(c)
  BY Zenon, <1>2, <1>3 DEF SetupBegin
<1>4. CASE PurgeBegin(c)
  BY Zenon, <1>2, <1>4 DEF PurgeBegin
<1>5. ASSUME NEW r, Spawn(c, r)
      PROVE  BackedInvariant'
  BY Zenon, <1>2, <1>5 DEF Spawn
<1>6. QED
  BY Zenon, <1>3, <1>4, <1>5 DEF CommandBegins, SpawnStableControl, SpawnStableBridge

\* The next record is staged beside the old one.
LEMMA StageBacked ==
  ASSUME SlotInvariant, BackedInvariant, NEW c \in Cmds, Stage(c)
  PROVE  BackedInvariant'
<1>1. Quiet
  BY Zenon DEF Stage, Quiet, filesystem
<1>2. CASE Return(c)
  BY Zenon, <1>1, <1>2, Returning, IdleWalks
<1>3. CASE Goto(c, "publish") /\ UNCHANGED <<role, seen, next, ret>>
  <2>1. Others(c) /\ pc'[c] = "publish"
    BY Zenon, <1>3 DEF SlotInvariant, Shape, Goto, Others, ControlKept, Procs
  <2>2. pc[c] = "stage" /\ Work(c) /\ (Backed(next[c]) => Backed(next[c])')
    BY Zenon, <1>1, <1>3 DEF Stage, BackedInvariant, Backed, InPlace, Quiet
  <2>3. Work(c)'
    BY Zenon, <1>3, <2>1, <2>2 DEF Work, PurgePlaces, PurgingPlaces, RemovePlaces
  <2>4. QED
    BY Zenon, <1>1, <2>1, <2>3, QuietStep DEF Others
<1>4. QED
  BY Zenon, <1>2, <1>3 DEF Stage

\* PublishEffect: a purging record is never replaced, and no record replaces it but
\* a backed one.
LEMMA PublishBacked ==
  ASSUME SlotInvariant, BackedInvariant, NEW c \in Cmds, Publish(c)
  PROVE  BackedInvariant'
<1> DEFINE n == next[c]
<1>1. /\ pc[c] = "publish" /\ lock = c /\ IsRecord(n) /\ AcceptsSwap(record, n)
      /\ n.state \in {"INSTALLING", "ACTIVE", "REMOVING", "RETAINED", "PURGING"}
      /\ ret[c] \in {"setup", "task", "removed", "purging"}
  BY Zenon DEF Publish, SlotInvariant, HeldPlace, Held
<1>2. /\ n.ev \subseteq Evidence /\ Backed(n)
      /\ ret[c] = "purging" => role[c] = "purge" /\ n.state = "PURGING"
      /\ ret[c] = "task" => n.state = "REMOVING"
  BY Zenon, <1>1 DEF BackedInvariant, Work
<1>3. record' = n /\ UNCHANGED <<source, tomb, arts, role>>
  BY Zenon DEF Publish
<1>4. record.state # "PURGING"
  <2> SUFFICES ASSUME record.state = "PURGING" PROVE FALSE
    BY Zenon
  <2>1. ValidateSuccessor(record, n)
    BY Zenon, <1>1 DEF AcceptsSwap, Present
  <2>2. QED
    BY Zenon, <2>1 DEF ValidateSuccessor, IsLegalTransition
<1>5. tomb = {}
  BY Zenon, <1>4 DEF BackedInvariant, FilesFollowRecord
<1>6. FilesFollowRecord'
  <2>1. Backed(record)'
    BY Zenon, <1>2, <1>3 DEF Backed, InPlace
  <2>2. QED
    BY Zenon, <1>2, <1>3, <1>5, <2>1 DEF BackedInvariant, FilesFollowRecord
<1>7. Others(c) /\ pc'[c] = ret[c] /\ (role[c] = "purge" => seen'[c] = n)
  BY Zenon DEF SlotInvariant, Shape, Publish, Goto, Others, ControlKept, Procs
<1>8. Work(c)'
  BY Zenon, <1>1, <1>2, <1>3, <1>7 DEF Work, PurgePlaces, PurgingPlaces, RemovePlaces
<1>9. QED
  BY Zenon, <1>1, <1>6, <1>7, <1>8, NobodyElseHolds DEF BackedInvariant, Others

-----------------------------------------------------------------------------
\* The steps of setup that make nothing.
LEMMA SetupBacked ==
  ASSUME SlotInvariant, BackedInvariant, NEW c \in Cmds,
         \/ SetupInitial(c) \/ EnsureExactKey(c) \/ EnsureExactRuntime(c) \/ EnsureExactData(c)
         \/ EnsureExactTask(c) \/ SetupComplete(c) \/ SetupRetained(c) \/ SetupReturn(c)
  PROVE  BackedInvariant'
<1>1. Quiet
  BY Zenon DEF SetupInitial, EnsureExactKey, EnsureExactRuntime, EnsureExactData, EnsureExactTask,
         SetupComplete, SetupRetained, SetupReturn, Installing, AdoptOr, Quiet, filesystem
<1>2. CASE Return(c)
  BY Zenon, <1>1, <1>2, Returning, IdleWalks
<1>3. CASE SetupInitial(c)
  <2>1. PICK n : n = InitialRecord(created + 1)
    BY Zenon
  <2>2. Swap(c, n, "setup") /\ n.ev = {}
    BY Zenon, <1>3, <2>1 DEF SetupInitial, InitialRecord
  <2>3. Backed(n)' /\ n.ev \subseteq Evidence
    BY Zenon, <2>2 DEF Backed
  <2>4. QED
    BY Zenon, <1>1, <2>2, <2>3, SwapWalks
<1>4. ASSUME NEW a \in {"key", "runtime", "data"}, NEW l \in {"makeKey", "makeRuntime", "makeData"},
             Making(l) = a, Installing(c, a), AdoptOr(c, a, l)
      PROVE  BackedInvariant'
  <2>1. /\ record.state = "INSTALLING" /\ NextEvidence(record) = a /\ record.id \in source'
        /\ UNCHANGED <<record, tomb, arts>>
    BY Zenon, <1>4 DEF Installing, AdoptOr
  <2>2. CASE a \in arts[record.id]
    <3>1. PICK n : n = Checkpoint(record)
      BY Zenon
    <3>2. n.ev \subseteq Evidence /\ Backed(n)'
      BY Zenon, <1>4, <2>1, <2>2, <3>1, CheckpointBacked, EvidenceIs
    <3>3. Swap(c, n, "setup")
      BY Zenon, <1>4, <2>2, <3>1 DEF AdoptOr
    <3>4. QED
      BY Zenon, <1>1, <3>2, <3>3, SwapWalks
  <2>3. CASE a \notin arts[record.id]
    <3>1. Goto(c, l) /\ UNCHANGED <<role, seen, next, ret>>
      BY Zenon, <1>4, <2>3 DEF AdoptOr
    <3>2. Others(c) /\ pc'[c] = l
      BY Zenon, <3>1 DEF SlotInvariant, Shape, Goto, Others, ControlKept, Procs
    <3>3. NextEvidence(record)' = a
      BY Zenon, <2>1 DEF NextEvidence
    <3>4. Work(c)'
      BY Zenon, <1>4, <2>1, <3>2, <3>3 DEF Work, PurgePlaces, PurgingPlaces, RemovePlaces
    <3>5. QED
      BY Zenon, <1>1, <3>2, <3>4, QuietStep DEF Others
  <2>4. QED
    BY Zenon, <2>2, <2>3
<1>5. CASE EnsureExactTask(c) /\ ~Return(c)
  <2>1. /\ record.state = "INSTALLING" /\ NextEvidence(record) = "task" /\ record.id \in source'
        /\ UNCHANGED <<record, tomb, arts>> /\ Swap(c, Checkpoint(record), "setup")
    BY Zenon, <1>5 DEF EnsureExactTask, Installing
  <2>2. PICK n : n = Checkpoint(record)
    BY Zenon
  <2>3. n.ev \subseteq Evidence /\ Backed(n)'
    BY Zenon, <2>1, <2>2, CheckpointBacked, EvidenceIs
  <2>4. QED
    BY Zenon, <1>1, <2>1, <2>2, <2>3, SwapWalks
<1>6. ASSUME NEW s \in InstallState, NEW l \in {"setup"}, Swap(c, Transition(record, s), l),
             record.state \in {"INSTALLING", "ACTIVE", "REMOVING", "RETAINED"}
      PROVE  BackedInvariant'
  <2>1. PICK n : n = Transition(record, s)
    BY Zenon
  <2>2. n.ev \subseteq Evidence /\ Backed(n)' /\ n.state = s
    BY <1>1, <1>6, <2>1, TransitionBacked
  <2>3. QED
    BY Zenon, <1>1, <1>6, <2>1, <2>2, SwapWalks
<1>7. CASE SetupComplete(c) /\ ~Return(c)
  BY Zenon, <1>6, <1>7 DEF SetupComplete, InstallState
<1>8. CASE SetupRetained(c)
  BY Zenon, <1>6, <1>8 DEF SetupRetained, InstallState
<1>9. Making("makeKey") = "key" /\ Making("makeRuntime") = "runtime" /\ Making("makeData") = "data"
  BY Zenon DEF Making
<1>10. CASE EnsureExactKey(c) \/ EnsureExactRuntime(c) \/ EnsureExactData(c)
  BY Zenon, <1>4, <1>9, <1>10 DEF EnsureExactKey, EnsureExactRuntime, EnsureExactData
<1>11. CASE SetupReturn(c)
  BY Zenon, <1>2, <1>11 DEF SetupReturn
<1>12. QED
  BY Zenon, <1>2, <1>3, <1>5, <1>7, <1>8, <1>10, <1>11

\* An artifact is made.
LEMMA MadeBacked ==
  ASSUME SlotInvariant, BackedInvariant, NEW c \in Cmds, MakeArtifact(c)
  PROVE  BackedInvariant'
<1>1. PICK a \in {"key", "runtime", "data"}, left \in {{}, {"tornKey"}, {"tornData"}} :
        Made(c, a, left) /\ Making(pc[c]) = a /\ pc[c] \in {"makeKey", "makeRuntime", "makeData"}
  BY Zenon DEF MakeArtifact, Making
<1>2. /\ lock = c /\ record.state = "INSTALLING" /\ record.id \in source /\ NextEvidence(record) = a
      /\ record.id \in Ids /\ DOMAIN arts = Ids /\ record.id \notin tomb
  BY Zenon, <1>1 DEF SlotInvariant, HeldPlace, Held, BackedInvariant, Work, Shape, IsRecord, FilesFollowRecord
<1>3. /\ arts' = [arts EXCEPT ![record.id] = (arts[record.id] \ left) \union {a}]
      /\ Swap(c, Checkpoint(record), "setup") /\ UNCHANGED <<record, source, tomb>>
  BY Zenon, <1>1 DEF Made
<1>4. /\ DOMAIN arts' = Ids /\ arts'[record.id] = (arts[record.id] \ left) \union {a}
      /\ \A i \in Ids \ {record.id} : arts'[i] = arts[i]
  BY Zenon, <1>2, <1>3
<1>5. arts[record.id] \ {"tornKey", "tornData"} \subseteq arts'[record.id]
  BY Zenon, <1>4
<1>6. PICK n : n = Checkpoint(record)
  BY Zenon
<1>7. n.ev \subseteq Evidence /\ Backed(n)'
  BY Zenon, <1>2, <1>3, <1>4, <1>5, <1>6, CheckpointBacked, EvidenceIs
<1>8. Others(c) /\ Work(c)'
  BY Zenon, <1>3, <1>6, <1>7, Swapping
<1>9. FilesFollowRecord'
  <2>1. \A b \in record.ev \ {"task"} : b \in arts'[record.id]
    BY Zenon, <1>2, <1>5, EvidenceIs DEF BackedInvariant, FilesFollowRecord, Backed, InPlace
  <2>2. Backed(record)'
    BY Zenon, <1>2, <1>3, <2>1 DEF Backed, InPlace
  <2>3. QED
    BY ZenonT(60), <1>2, <1>3, <1>4, <2>2 DEF BackedInvariant, FilesFollowRecord
<1>10. QED
  BY Zenon, <1>2, <1>8, <1>9, NobodyElseHolds DEF BackedInvariant, Others

\* A command fails, or its process dies, and may leave a torn artifact.
LEMMA FailBacked ==
  ASSUME SlotInvariant, BackedInvariant, NEW c \in Cmds, Fail(c)
  PROVE  BackedInvariant'
<1>1. Others(c) /\ Idles(c)
  BY Zenon, Returning DEF Fail
<1>2. record.id \in Ids /\ arts = [i \in Ids |-> arts[i]] /\ UNCHANGED <<record, source, tomb>>
  BY Zenon DEF SlotInvariant, BackedInvariant, Shape, IsRecord, FilesFollowRecord, Fail
<1>3. CASE arts' = arts
  BY Zenon, <1>1, <1>2, <1>3, IdleWalks DEF Quiet
<1>4. CASE arts' # arts
  <2>1. arts' = [arts EXCEPT ![record.id] = arts[record.id] \union Torn(pc[c])]
    BY Zenon, <1>4 DEF Fail
  <2>2. pc[c] \in {"makeKey", "makeRuntime", "makeData"}
    <3> SUFFICES ASSUME pc[c] \notin {"makeKey", "makeRuntime", "makeData"} PROVE FALSE
      BY Zenon
    <3>1. Torn(pc[c]) = {}
      BY Zenon DEF Torn
    <3>2. arts[record.id] \union Torn(pc[c]) = arts[record.id]
      BY Zenon, <3>1
    <3>3. QED
      BY Zenon, <1>2, <1>4, <2>1, <3>2
  <2>3. lock = c /\ record.id \in source /\ record.state = "INSTALLING"
    BY Zenon, <2>2 DEF SlotInvariant, HeldPlace, Held, BackedInvariant, Work
  <2>4. /\ arts' = [i \in Ids |-> arts'[i]] /\ arts[record.id] \subseteq arts'[record.id]
        /\ \A i \in Ids \ {record.id} : arts'[i] = arts[i]
    BY Zenon, <1>2, <2>1
  <2>5. FilesFollowRecord'
    BY Zenon, <1>2, <2>3, <2>4 DEF BackedInvariant, FilesFollowRecord, Backed, InPlace
  <2>6. Work(c)'
    BY Zenon, <1>1 DEF Idles, Work
  <2>7. QED
    BY Zenon, <1>1, <2>3, <2>5, <2>6, NobodyElseHolds DEF BackedInvariant, Others
<1>5. QED
  BY Zenon, <1>3, <1>4

\* A command goes to a place of remove, of start or of the bridge.
LEMMA GoingBacked ==
  ASSUME SlotInvariant, BackedInvariant, NEW c \in Cmds, Quiet,
         NEW l \in {"remove", "task", "taskResumed", "drain", "drainAbsent", "stopped", "delete",
                    "retire", "removed", "probe", "request", "wait", "readmit", "relay"},
         l \in RemovePlaces => record.state \in {"REMOVING", "RETAINED"},
         Goto(c, l), UNCHANGED <<role, next, ret>>, UNCHANGED seen \/ seen' = [seen EXCEPT ![c] = record]
  PROVE  BackedInvariant'
<1>1. Others(c) /\ Idles(c)
  BY Zenon DEF SlotInvariant, Shape, Goto, Others, ControlKept, Idles, PurgePlaces, PurgingPlaces, RemovePlaces,
         Procs, Quiet
<1>2. QED
  BY Zenon, <1>1, IdleWalks

\* A command hands over a transition of the record.
LEMMA SwapTransition ==
  ASSUME SlotInvariant, BackedInvariant, NEW c \in Cmds, Quiet, NEW s \in InstallState, NEW l,
         Swap(c, Transition(record, s), l),
         record.state \in {"INSTALLING", "ACTIVE", "REMOVING", "RETAINED"},
         l = "purging" => role[c] = "purge" /\ s = "PURGING",
         l = "task" => s = "REMOVING"
  PROVE  BackedInvariant'
<1>1. PICK n : n = Transition(record, s)
  BY Zenon
<1>2. n.ev \subseteq Evidence /\ Backed(n)' /\ n.state = s
  BY Zenon, <1>1, TransitionBacked
<1>3. Swap(c, n, l)
  BY Zenon, <1>1
<1>4. QED
  BY Zenon, <1>2, <1>3, SwapWalks

\* The steps of remove.
LEMMA RemoveBacked ==
  ASSUME SlotInvariant, BackedInvariant, NEW c \in Cmds,
         \/ RemoveBegin(c) \/ RemoveAdmit(c) \/ RemoveDisable(c) \/ Drain(c) \/ DrainTimeout(c)
         \/ RemoveDelete(c) \/ RemoveRetire(c) \/ RemoveReturn(c) \/ PurgeConverge(c)
  PROVE  BackedInvariant'
<1>1. Quiet
  BY Zenon DEF RemoveBegin, RemoveAdmit, RemoveDisable, Drain, DrainTimeout, RemoveDelete, RemoveRetire,
         RemoveReturn, PurgeConverge, TakeDaemonLock, Quiet, filesystem
<1>2. CASE Return(c)
  BY Zenon, <1>1, <1>2, Returning, IdleWalks
<1>3. CASE RemoveBegin(c) /\ ~Return(c)
  BY Zenon, <1>1, <1>3, GoingBacked DEF RemoveBegin, RemovePlaces
<1>4. CASE PurgeConverge(c) /\ ~Return(c)
  BY Zenon, <1>1, <1>4, GoingBacked DEF PurgeConverge, RemovePlaces
<1>5. Work(c)
  BY Zenon DEF BackedInvariant
<1>6. CASE RemoveAdmit(c) /\ ~Return(c)
  <2>1. CASE record.state = "ACTIVE"
    <3>1. Swap(c, Transition(record, "REMOVING"), "task")
      BY Zenon, <1>6, <2>1 DEF RemoveAdmit
    <3>2. QED
      BY Zenon, <1>1, <2>1, <3>1, SwapTransition DEF InstallState
  <2>2. CASE record.state # "ACTIVE"
    BY Zenon, <1>1, <1>6, <2>2, GoingBacked DEF RemoveAdmit
  <2>3. QED
    BY Zenon, <2>1, <2>2
<1>7. CASE RemoveDisable(c) /\ ~Return(c)
  BY Zenon, <1>1, <1>5, <1>7, GoingBacked DEF RemoveDisable, Work, RemovePlaces
<1>8. CASE Drain(c)
  BY Zenon, <1>1, <1>5, <1>8, GoingBacked DEF Drain, Work, RemovePlaces
<1>9. CASE DrainTimeout(c) /\ ~Return(c)
  BY Zenon, <1>1, <1>5, <1>9, GoingBacked DEF DrainTimeout, Work, RemovePlaces
<1>10. CASE RemoveDelete(c) /\ ~Return(c)
  BY Zenon, <1>1, <1>5, <1>10, GoingBacked DEF RemoveDelete, Work, RemovePlaces
<1>11. CASE RemoveRetire(c)
  <2>1. record.state \in {"REMOVING", "RETAINED"}
    BY Zenon, <1>5, <1>11 DEF Work, RemovePlaces, RemoveRetire
  <2>2. CASE record.state = "RETAINED"
    BY Zenon, <1>1, <1>11, <2>2, GoingBacked DEF RemoveRetire, RemovePlaces
  <2>3. CASE record.state = "REMOVING"
    <3>1. Swap(c, Transition(record, "RETAINED"), "removed")
      BY Zenon, <1>11, <2>3 DEF RemoveRetire
    <3>2. QED
      BY Zenon, <1>1, <2>3, <3>1, SwapTransition DEF InstallState
  <2>4. QED
    BY Zenon, <2>1, <2>2, <2>3
<1>12. CASE RemoveReturn(c) /\ ~Return(c)
  BY Zenon, <1>1, <1>12, Observing, IdleWalks DEF RemoveReturn
<1>13. QED
  BY <1>2, <1>3, <1>4, <1>6, <1>7, <1>8, <1>9, <1>10, <1>11, <1>12

-----------------------------------------------------------------------------
\* The steps of purge that leave the files.
LEMMA PurgeBacked ==
  ASSUME SlotInvariant, BackedInvariant, NEW c \in Cmds,
         \/ PurgeObserve(c) \/ PurgeAbsence(c) \/ PublishPurging(c) \/ DropGuard(c)
         \/ DrainStarters(c) \/ ResumeDaemonLock(c) \/ AuditTombstone(c) \/ FinalizeRecordLast(c)
         \/ RemoveStage(c)
  PROVE  BackedInvariant'
<1>1. Quiet
  BY Zenon DEF PurgeObserve, PurgeAbsence, PublishPurging, DropGuard, DrainStarters, ResumeDaemonLock,
         AuditTombstone, FinalizeRecordLast, RemoveStage, TakeDaemonLock, TakeStartupLock, Quiet,
         filesystem
<1>2. CASE Return(c)
  BY Zenon, <1>1, <1>2, Returning, IdleWalks
<1>3. Work(c)
  BY Zenon DEF BackedInvariant
<1>4. ASSUME NEW l, Goto(c, l), UNCHANGED <<role, next, ret>>, role[c] = "purge",
             l \notin {"stage", "publish", "makeKey", "makeRuntime", "makeData"} \union RemovePlaces,
             UNCHANGED seen \/ seen' = [seen EXCEPT ![c] = record],
             l \in PurgingPlaces => seen'[c].state = "PURGING",
             l = "removing" => record.state = "PURGING",
             l = "finalizing" => record.id \notin tomb /\ arts[record.id] = {}
      PROVE  BackedInvariant'
  <2>1. Others(c) /\ pc'[c] = l /\ role'[c] = "purge"
    BY Zenon, <1>4 DEF SlotInvariant, Shape, Goto, Others, ControlKept, Procs
  <2>2. Work(c)'
    BY Zenon, <1>1, <1>4, <2>1 DEF Work, Quiet
  <2>3. QED
    BY Zenon, <1>1, <2>1, <2>2, QuietStep DEF Others
<1>5. CASE PurgeObserve(c) /\ ~Return(c)
  <2> DEFINE l == PurgeEffect(record)
  <2>1. /\ Goto(c, l) /\ seen' = [seen EXCEPT ![c] = record] /\ UNCHANGED <<role, next, ret>>
        /\ pc[c] = "observe"
    BY Zenon, <1>5 DEF PurgeObserve
  <2>2. role[c] = "purge"
    BY Zenon, <1>3, <2>1 DEF Work, PurgePlaces
  <2>3. l \in {"absence", "converge", "publishPurging", "resume", "tombstone", "gone", "drift"}
    BY Zenon, EffectPlaces
  <2>4. l = "resume" => record.state = "PURGING"
    BY Zenon DEF PurgeEffect
  <2>5. seen'[c] = record
    BY Zenon, <2>1 DEF SlotInvariant, Shape, Procs
  <2> HIDE DEF l
  <2>6. QED
    BY Zenon, <1>4, <2>1, <2>2, <2>3, <2>4, <2>5 DEF PurgingPlaces, RemovePlaces
<1>6. CASE PublishPurging(c) /\ ~Return(c)
  <2>1. Swap(c, Transition(record, "PURGING"), "purging") /\ record.state = "RETAINED" /\ role[c] = "purge"
    BY Zenon, <1>3, <1>6 DEF PublishPurging, Work, PurgePlaces
  <2>2. QED
    BY Zenon, <1>1, <2>1, SwapTransition DEF InstallState
<1>7. CASE DropGuard(c)
  BY Zenon, <1>3, <1>4, <1>7 DEF DropGuard, Work, PurgePlaces, PurgingPlaces, RemovePlaces
<1>8. CASE DrainStarters(c) /\ ~Return(c)
  BY Zenon, <1>3, <1>4, <1>8 DEF DrainStarters, Work, PurgePlaces, PurgingPlaces, RemovePlaces
<1>9. CASE ResumeDaemonLock(c) /\ ~Return(c)
  BY Zenon, <1>3, <1>4, <1>9 DEF ResumeDaemonLock, Work, PurgePlaces, PurgingPlaces, RemovePlaces
<1>10. CASE AuditTombstone(c) /\ ~Return(c)
  BY Zenon, <1>3, <1>4, <1>10 DEF AuditTombstone, Work, PurgePlaces, PurgingPlaces, RemovePlaces
<1>11. CASE FinalizeRecordLast(c) /\ ~Return(c)
  <2>1. Tree(record.id) = "Gone" /\ pc[c] = "gone" /\ record.id \in Ids
    BY Zenon, <1>11 DEF FinalizeRecordLast, SlotInvariant, Shape, IsRecord
  <2>2. record.id \notin tomb /\ record.id \notin source
    BY Zenon, <2>1 DEF Tree
  <2>3. arts[record.id] = {}
    BY Zenon, <2>1, <2>2 DEF BackedInvariant, FilesFollowRecord
  <2>4. QED
    BY Zenon, <1>3, <1>4, <1>11, <2>2, <2>3 DEF FinalizeRecordLast, Work, PurgePlaces, PurgingPlaces, RemovePlaces
<1>12. CASE RemoveStage(c)
  BY Zenon, <1>1, <1>12, QuietStep DEF RemoveStage, control, ControlKept
<1>13. CASE PurgeAbsence(c)
  BY Zenon, <1>2, <1>13 DEF PurgeAbsence
<1>14. QED
  BY <1>2, <1>5, <1>6, <1>7, <1>8, <1>9, <1>10, <1>11, <1>12, <1>13

\* The rename: the record is the PURGING one the command has seen, and nobody is at
\* work under install.lock.
LEMMA StagedBacked ==
  ASSUME SlotInvariant, BackedInvariant, NEW c \in Cmds, StageInstallTreeForPurge(c)
  PROVE  BackedInvariant'
<1>1. Work(c) /\ pc[c] = "restage" /\ UNCHANGED <<record, arts>>
  BY Zenon DEF BackedInvariant, StageInstallTreeForPurge
<1>2. role[c] = "purge" /\ seen[c].state = "PURGING"
  BY Zenon, <1>1 DEF Work, PurgePlaces, PurgingPlaces
<1>3. CASE UNCHANGED <<source, tomb>>
  <2>1. Quiet
    BY Zenon, <1>1, <1>3 DEF Quiet
  <2>2. Return(c) \/ Observed(c)
    BY Zenon DEF StageInstallTreeForPurge
  <2>3. QED
    BY Zenon, <1>2, <2>1, <2>2, Returning, Observing, IdleWalks
<1>4. CASE ~UNCHANGED <<source, tomb>>
  <2> DEFINE i == record.id
  <2>1. /\ lock = None /\ record = seen[c] /\ Observed(c)
        /\ source' = source \ {i} /\ tomb' = tomb \union {i}
    BY Zenon, <1>4 DEF StageInstallTreeForPurge
  <2>2. FilesFollowRecord'
    BY Zenon, <1>1, <1>2, <2>1 DEF BackedInvariant, FilesFollowRecord, Backed
  <2>3. Others(c) /\ Work(c)'
    BY Zenon, <1>2, <2>1, Observing DEF Idles, Work
  <2>4. QED
    BY Zenon, <2>1, <2>2, <2>3, NobodyElseHolds DEF BackedInvariant, Others
<1>5. QED
  BY Zenon, <1>3, <1>4

\* The tree of a purged installation goes.
LEMMA RemovedBacked ==
  ASSUME SlotInvariant, BackedInvariant, NEW c \in Cmds, RemovePurgeDirectory(c)
  PROVE  BackedInvariant'
<1> DEFINE i == record.id
<1>1. Work(c) /\ pc[c] = "removing" /\ lock = c /\ UNCHANGED <<record, source>> /\ i \in Ids
  BY Zenon DEF BackedInvariant, RemovePurgeDirectory, SlotInvariant, HeldPlace, Held, Shape, IsRecord
<1>2. role[c] = "purge" /\ record.state = "PURGING"
  BY Zenon, <1>1 DEF Work, PurgePlaces, PurgingPlaces
<1>3. /\ arts = [j \in Ids |-> arts[j]]
      /\ \A j \in Ids : arts[j] # {} => j \in source \union tomb
      /\ \A j \in tomb : j = i
      /\ record.ev \subseteq Evidence
  BY Zenon DEF BackedInvariant, FilesFollowRecord
<1>4. ASSUME NEW a, arts' = [arts EXCEPT ![i] = arts[i] \ {a}], UNCHANGED <<tomb, control>>
      PROVE  BackedInvariant'
  <2>1. /\ arts' = [j \in Ids |-> arts'[j]] /\ arts'[i] \subseteq arts[i]
        /\ \A j \in Ids \ {i} : arts'[j] = arts[j]
    BY Zenon, <1>1, <1>3, <1>4
  <2>2. FilesFollowRecord'
    BY Zenon, <1>1, <1>2, <1>3, <1>4, <2>1 DEF FilesFollowRecord, Backed
  <2>3. Work(c)'
    BY Zenon, <1>1, <1>2, <1>4 DEF Work, control, PurgePlaces, PurgingPlaces, RemovePlaces
  <2>4. QED
    BY Zenon, <1>1, <1>4, <2>2, <2>3, NobodyElseHolds DEF BackedInvariant, ControlKept, control
<1>5. CASE Return(c) /\ UNCHANGED <<arts, tomb>>
  BY Zenon, <1>1, <1>5, Returning, IdleWalks DEF Quiet
<1>6. CASE arts[i] = {} /\ tomb' = tomb \ {i} /\ Observed(c) /\ UNCHANGED arts
  <2>1. FilesFollowRecord'
    BY Zenon, <1>1, <1>2, <1>3, <1>6 DEF FilesFollowRecord, Backed
  <2>2. Others(c) /\ Work(c)'
    BY Zenon, <1>2, <1>6, Observing DEF Idles, Work
  <2>3. QED
    BY Zenon, <1>1, <2>1, <2>2, NobodyElseHolds DEF BackedInvariant, Others
<1>7. QED
  BY Zenon, <1>4, <1>5, <1>6 DEF RemovePurgeDirectory

\* The record goes when nothing else of the installation is left.
LEMMA DeleteIsLast ==
  ASSUME SlotInvariant, BackedInvariant, NEW c \in Cmds, DeletePurging(c)
  PROVE  arts[record.id] = {} /\ record.id \notin tomb /\ orphans = {} /\ BackedInvariant'
<1>1. Work(c) /\ pc[c] = "finalizing" /\ lock = c /\ orphans = {}
  BY Zenon DEF BackedInvariant, DeletePurging, SlotInvariant, HeldPlace, Held
<1>2. /\ record.id \notin tomb /\ arts[record.id] = {} /\ role[c] = "purge"
  BY Zenon, <1>1 DEF Work, PurgePlaces
<1>3. tomb = {}
  BY Zenon, <1>2 DEF BackedInvariant, FilesFollowRecord
<1>4. FilesFollowRecord'
  BY Zenon, <1>3 DEF BackedInvariant, FilesFollowRecord, Backed, DeletePurging, NoRecord
<1>5. Others(c) /\ Work(c)'
  BY Zenon, <1>2, Observing DEF DeletePurging, Idles, Work
<1>6. QED
  BY Zenon, <1>1, <1>2, <1>4, <1>5, NobodyElseHolds DEF BackedInvariant, Others

-----------------------------------------------------------------------------
\* The steps of start and of the bridge.
LEMMA StartBacked ==
  ASSUME SlotInvariant, BackedInvariant, NEW c \in Cmds,
         \/ StartBegin(c) \/ BridgeBegin(c) \/ TryAuthenticated(c) \/ TryAcquireStartupLock(c)
         \/ RequestStart(c) \/ StartTimeout(c) \/ Readmit(c) \/ RelayEnds(c)
  PROVE  BackedInvariant'
<1> USE DEF RemovePlaces
<1>1. Quiet
  BY Zenon DEF StartBegin, BridgeBegin, TryAuthenticated, TryAcquireStartupLock, RequestStart, StartTimeout,
         Readmit, RelayEnds, TakeStartupLock, Quiet, filesystem
<1>2. CASE Return(c)
  BY Zenon, <1>1, <1>2, Returning, IdleWalks
<1>3. CASE StartBegin(c) /\ ~Return(c)
  BY Zenon, <1>1, <1>3, GoingBacked DEF StartBegin
<1>4. CASE BridgeBegin(c) /\ ~Return(c)
  BY Zenon, <1>1, <1>4, GoingBacked DEF BridgeBegin
<1>5. CASE TryAuthenticated(c) /\ ~Return(c)
  BY Zenon, <1>1, <1>5, GoingBacked DEF TryAuthenticated, Connected
<1>6. CASE TryAcquireStartupLock(c) /\ ~Return(c)
  BY Zenon, <1>1, <1>6, GoingBacked DEF TryAcquireStartupLock
<1>7. CASE RequestStart(c) /\ ~Return(c)
  <2>1. /\ pc' = [pc EXCEPT ![c] = "wait", ![Daemon] = IF pc[Daemon] = "off" THEN "launched" ELSE pc[Daemon]]
        /\ UNCHANGED <<role, seen, next, ret>>
    BY Zenon, <1>7, InstallAssumption DEF RequestStart, SlotInvariant, Shape, Procs
  <2>2. Others(c) /\ Idles(c)
    BY Zenon, <2>1, InstallAssumption DEF SlotInvariant, Shape, Others, ControlKept, Idles, PurgePlaces,
                                   PurgingPlaces, Procs
  <2>3. QED
    BY Zenon, <1>1, <2>2, IdleWalks
<1>8. CASE Readmit(c) /\ ~Return(c)
  BY Zenon, <1>1, <1>8, GoingBacked DEF Readmit
<1>9. CASE StartTimeout(c) \/ RelayEnds(c)
  BY Zenon, <1>2, <1>9 DEF StartTimeout, RelayEnds
<1>10. QED
  BY Zenon, <1>2, <1>3, <1>4, <1>5, <1>6, <1>7, <1>8, <1>9

\* The steps of the daemon and of the task scheduler.
LEMMA DaemonBacked ==
  ASSUME SlotInvariant, BackedInvariant, DaemonStep \/ DaemonCrash \/ DriftTask \/ UNCHANGED vars
  PROVE  BackedInvariant'
<1>1. Quiet
  BY Zenon DEF DaemonStep, DaemonCrash, DriftTask, DaemonAdmit, DaemonRecover, DaemonBind, DaemonServe,
         MonitorInstallState, DaemonDrained, InstanceEnds, InstanceStopped, TakeDaemonLock, Quiet,
         filesystem, vars
<1>2. ASSUME NEW d \in Cmds PROVE ControlKept(d)
  <2>1. d # Daemon /\ Daemon \in DOMAIN pc /\ d \in DOMAIN pc /\ d \in DOMAIN seen
    BY Zenon, InstallAssumption DEF SlotInvariant, Shape, Procs
  <2>2. QED
    BY Zenon, <2>1 DEF DaemonStep, DaemonCrash, DriftTask, DaemonAdmit, DaemonRecover, DaemonBind, DaemonServe,
         MonitorInstallState, DaemonDrained, InstanceEnds, InstanceStopped, DaemonOff, Exit, Goto,
         ControlKept, control, vars
<1>3. QED
  BY Zenon, <1>1, <1>2, QuietStep

\* Every step keeps the invariant.
LEMMA NextBacked ==
  ASSUME SlotInvariant, BackedInvariant, [InstallNext]_vars
  PROVE  BackedInvariant'
<1>1. ASSUME NEW c \in Cmds, CommandBegins(c) \/ CommandStep(c) \/ RelayEnds(c) \/ Fail(c)
      PROVE  BackedInvariant'
  BY SMTT(60), <1>1, BeginBacked, StageBacked, PublishBacked, SetupBacked, MadeBacked, FailBacked, RemoveBacked,
     PurgeBacked, StagedBacked, RemovedBacked, DeleteIsLast, StartBacked DEF CommandStep
<1>2. QED
  BY ZenonT(60), <1>1, DaemonBacked DEF InstallNext

\* It holds of a machine without an installation.
LEMMA BackedStarts == InstallInit => BackedInvariant
<1> SUFFICES ASSUME InstallInit PROVE BackedInvariant
  BY Zenon
<1>1. \A c \in Cmds : pc[c] = "idle"
  BY Zenon, InstallAssumption DEF InstallInit, Procs
<1>2. record.state = "ABSENT" /\ record.ev = {} /\ tomb = {}
  BY Zenon DEF InstallInit, NoRecord
<1>3. arts = [i \in Ids |-> arts[i]] /\ \A i \in Ids : arts[i] = {}
  BY Zenon DEF InstallInit
<1>4. QED
  BY Zenon, <1>1, <1>2, <1>3 DEF BackedInvariant, FilesFollowRecord, Backed, Work, PurgePlaces, PurgingPlaces,
                          RemovePlaces

\* For any number of commands: each knows of the files what its place in
\* windows_control.rs relies on, and a tombstone is that of the installation
\* being purged.
THEOREM FilesAreFollowed == InstallSpec => []BackedInvariant
<1>1. InstallInit => BackedInvariant
  BY Zenon, BackedStarts
<1>2. SlotInvariant /\ BackedInvariant /\ [InstallNext]_vars => BackedInvariant'
  BY Zenon, NextBacked
<1>3. QED
  BY <1>1, <1>2, SlotIsSound, PTL DEF InstallSpec

\* Every piece of evidence the installation record claims is on disk, through
\* setup, repair, removal, crashes and concurrent commands (windows_control.rs
\* and windows_install.rs).
THEOREM EvidenceIsOnDisk == InstallSpec => []EvidenceIsBacked
<1>1. BackedInvariant => EvidenceIsBacked
  BY Zenon DEF BackedInvariant, FilesFollowRecord, Backed, EvidenceIsBacked
<1>2. QED
  BY <1>1, FilesAreFollowed, PTL

\* No other step takes the record away.
LEMMA OnlyDeletionEnds ==
  ASSUME SlotInvariant, BackedInvariant, [InstallNext]_vars, Present(record), ~Present(record)'
  PROVE  arts[record.id] = {} /\ record.id \notin tomb /\ orphans = {}
<1>1. ASSUME NEW c \in Cmds, Publish(c)
      PROVE  FALSE
  BY Zenon, <1>1, PublishEffect DEF Present, Publish, SlotInvariant, HeldPlace, Held
<1>2. ASSUME NEW c \in Cmds, Walks(c)
      PROVE  FALSE
  BY Zenon, <1>2, WalksStutter DEF Present
<1>3. CASE DaemonStep \/ DaemonCrash
  BY Zenon, <1>3, DaemonKeeps DEF Present
<1>4. CASE UNCHANGED vars \/ DriftTask
  BY Zenon, <1>4 DEF DriftTask, vars, filesystem, Present
<1>5. QED
  BY ZenonT(60), <1>1, <1>2, <1>3, <1>4, DeleteIsLast DEF InstallNext, CommandStep, Walks

\* purge deletes the record, and with it the identity, only once the files, the
\* tombstone and every staged leftover are gone (windows_control.rs, the
\* purge).
THEOREM IdentityGoesLast == InstallSpec => IdentityDeletedLast
<1>1. SlotInvariant /\ BackedInvariant /\ [InstallNext]_vars
        => [Present(record) /\ ~Present(record') =>
              arts[record.id] = {} /\ record.id \notin tomb /\ orphans = {}]_vars
  BY Zenon, OnlyDeletionEnds DEF Present
<1>2. QED
  BY <1>1, SlotIsSound, FilesAreFollowed, PTL DEF InstallSpec, IdentityDeletedLast

=============================================================================
