------------------------------ MODULE Scheduler ------------------------------
(***************************************************************************)
(* plan_dispatch (scheduler.rs): the scan that turns the queued tasks and  *)
(* the occupancy of one round into an ordered plan.  One step looks at one *)
(* candidate; the order of the steps is the order the code sorts by, and   *)
(* the plan lists the dispatched tasks in it.  Daemon's Plans is what the  *)
(* dispatcher relies on.                                                   *)
(***************************************************************************)
EXTENDS Integers, FiniteSets, Functions

CONSTANTS
    Tasks,              \* task ids, which are ordered
    Adapters,           \* adapter instances
    Unassigned,         \* no adapter instance
    NoSetting,          \* a concurrency setting that is absent or no u32
    DefaultGlobal, DefaultPerAdapter,
    MaxGlobal, MaxPerAdapter, MaxBypassBound,
    MaxPriority,        \* bounds of the inputs
    MaxCreatedAt,
    MaxOccupied

ASSUME TaskAssumption == Tasks \subseteq Nat /\ IsFiniteSet(Tasks)
ASSUME AdapterAssumption == IsFiniteSet(Adapters) /\ Unassigned \notin Adapters
ASSUME BoundAssumption ==
    /\ DefaultGlobal \in 1..MaxGlobal /\ DefaultPerAdapter \in 1..MaxPerAdapter
    /\ MaxGlobal \in Nat /\ MaxPerAdapter \in Nat /\ MaxBypassBound \in Nat
    /\ MaxPriority \in Nat /\ MaxCreatedAt \in Nat /\ MaxOccupied \in Nat
    /\ NoSetting \notin Nat

VARIABLES
    candidates,         \* the queued tasks the reader returned
    limits,             \* limits_from_settings
    bypass_bound,
    occupied_global,    \* the occupancy the reader returned
    occupied,
    scanning,           \* the scan has not been left
    verdict,            \* what the plan says of each candidate
    remaining_global,
    remaining_adapter,
    bypassed

inputs == <<candidates, limits, bypass_bound, occupied_global, occupied>>
vars == <<inputs, scanning, verdict, remaining_global, remaining_adapter, bypassed>>

\* A QueuedCandidate; pending: a RETRY_WAIT task whose timer has not elapsed.
Candidate ==
    [priority : 0..MaxPriority, created_at : 0..MaxCreatedAt,
     adapter : Adapters, pending : BOOLEAN]
    \cup [priority : 0..MaxPriority, created_at : 0..MaxCreatedAt,
          adapter : {Unassigned}, pending : {FALSE}]

Setting == 0..(MaxGlobal + MaxPerAdapter) \cup {NoSetting}

\* limits_from_settings: each value has a default of its own, but one value out
\* of range discards both.
LimitsFromSettings(global, per_adapter) ==
    LET g == IF global = NoSetting THEN DefaultGlobal ELSE global
        p == IF per_adapter = NoSetting THEN DefaultPerAdapter ELSE per_adapter
    IN  IF g \in 1..MaxGlobal /\ p \in 1..MaxPerAdapter
          THEN [global |-> g, per_adapter |-> p]
          ELSE [global |-> DefaultGlobal, per_adapter |-> DefaultPerAdapter]

\* Faulty: a plain subtraction, which wraps when a limit was lowered.
LeftWraps(limit, used) == (limit - used) % (MaxGlobal + MaxOccupied + 1)

\* saturating_sub.
Left(limit, used) == IF used < limit THEN limit - used ELSE 0

\* plan_dispatch up to its loop.
Init ==
    /\ candidates \in [Tasks -> Candidate]
    /\ limits \in {LimitsFromSettings(g, p) : g \in Setting, p \in Setting}
    /\ bypass_bound \in 1..MaxBypassBound
    /\ occupied_global \in 0..MaxOccupied
    /\ occupied \in [Adapters -> 0..MaxOccupied]
    /\ SumFunction(occupied) <= occupied_global
    /\ scanning = TRUE
    /\ verdict = [t \in Tasks |-> "none"]
    /\ remaining_global = Left(limits.global, occupied_global)
    /\ remaining_adapter = [a \in Adapters |-> Left(limits.per_adapter, occupied[a])]
    /\ bypassed = 0

\* The order of the sort.
Before(t, u) ==
    LET c == candidates[t]  d == candidates[u]
    IN  \/ c.priority > d.priority
        \/ /\ c.priority = d.priority
           /\ \/ c.created_at < d.created_at
              \/ c.created_at = d.created_at /\ t < u

\* The candidate the loop is at.
Current(t) ==
    /\ scanning
    /\ verdict[t] = "none"
    /\ \A u \in Tasks : Before(u, t) => verdict[u] # "none"

Dispatchable(t) ==
    candidates[t].adapter # Unassigned /\ ~candidates[t].pending

\* No adapter, or the retry timer is pending.
Skip(t) ==
    /\ Current(t)
    /\ ~Dispatchable(t)
    /\ verdict' = [verdict EXCEPT ![t] = IF candidates[t].pending
                                           THEN "RetryTimerPending"
                                           ELSE "AdapterUnassigned"]
    /\ UNCHANGED <<inputs, scanning, remaining_global, remaining_adapter, bypassed>>

\* The adapter has no slot left; the bypass_bound-th such head ends the scan.
Bypass(t) ==
    /\ Current(t)
    /\ Dispatchable(t)
    /\ remaining_adapter[candidates[t].adapter] = 0
    /\ verdict' = [verdict EXCEPT ![t] = "AdapterLimit"]
    /\ bypassed' = bypassed + 1
    /\ scanning' = (bypassed' < bypass_bound)
    /\ UNCHANGED <<inputs, remaining_global, remaining_adapter>>

Exhausted(t) ==
    /\ Current(t)
    /\ Dispatchable(t)
    /\ remaining_adapter[candidates[t].adapter] # 0
    /\ remaining_global = 0
    /\ verdict' = [verdict EXCEPT ![t] = "GlobalLimit"]
    /\ scanning' = FALSE
    /\ UNCHANGED <<inputs, remaining_global, remaining_adapter, bypassed>>

Dispatch(t) ==
    /\ Current(t)
    /\ Dispatchable(t)
    /\ remaining_adapter[candidates[t].adapter] # 0
    /\ remaining_global # 0
    /\ verdict' = [verdict EXCEPT ![t] = "dispatch"]
    /\ remaining_global' = remaining_global - 1
    /\ remaining_adapter' = [remaining_adapter EXCEPT ![candidates[t].adapter] = @ - 1]
    /\ UNCHANGED <<inputs, scanning, bypassed>>

\* The loop has seen every candidate.
Finish ==
    /\ scanning
    /\ \A t \in Tasks : verdict[t] # "none"
    /\ scanning' = FALSE
    /\ UNCHANGED <<inputs, verdict, remaining_global, remaining_adapter, bypassed>>

Next ==
    \/ \E t \in Tasks : Skip(t) \/ Bypass(t) \/ Exhausted(t) \/ Dispatch(t)
    \/ Finish

Spec == Init /\ [][Next]_vars

-----------------------------------------------------------------------------
(* Properties. *)

\* Counters never wrap, and every candidate has a verdict the code can give.
TypeOK ==
    /\ candidates \in [Tasks -> Candidate]
    /\ limits \in [global : 1..MaxGlobal, per_adapter : 1..MaxPerAdapter]
    /\ bypass_bound \in 1..MaxBypassBound
    /\ occupied_global \in 0..MaxOccupied
    /\ occupied \in [Adapters -> 0..MaxOccupied]
    /\ scanning \in BOOLEAN
    /\ verdict \in [Tasks -> {"none", "dispatch", "RetryTimerPending",
                              "AdapterUnassigned", "AdapterLimit", "GlobalLimit"}]
    /\ remaining_global \in Nat
    /\ remaining_adapter \in [Adapters -> Nat]
    /\ bypassed \in Nat

Dispatched == {t \in Tasks : verdict[t] = "dispatch"}
DispatchedOn(a) == {t \in Dispatched : candidates[t].adapter = a}

\* A plan fits: what it dispatches, together with what already occupies slots,
\* exceeds neither limit; when a lowered limit is already exceeded it dispatches
\* nothing, and it never holds a task that has no adapter or waits for its timer.
PlanFits ==
    /\ \A t \in Dispatched : Dispatchable(t)
    /\ Dispatched # {} => Cardinality(Dispatched) + occupied_global <= limits.global
    /\ \A a \in Adapters : DispatchedOn(a) # {} =>
         Cardinality(DispatchedOn(a)) + occupied[a] <= limits.per_adapter

\* No overtaking on an adapter: a planned task leaves no ready task of its own
\* adapter behind that has a higher priority, or the same and is older.
FifoOnAdapter ==
    \A t \in Dispatched : \A u \in Tasks :
      LET c == candidates[t]  d == candidates[u]
      IN  /\ Dispatchable(u) /\ d.adapter = c.adapter
          /\ \/ d.priority > c.priority
             \/ d.priority = c.priority /\ d.created_at < c.created_at
          => u \in Dispatched

HasRoom(t) ==
    /\ Dispatchable(t)
    /\ Cardinality(Dispatched) < Left(limits.global, occupied_global)
    /\ Cardinality(DispatchedOn(candidates[t].adapter))
         < Left(limits.per_adapter, occupied[candidates[t].adapter])

Heads == {u \in Tasks : verdict[u] = "AdapterLimit"}

\* A finished scan leaves out a task it has room for only behind bypass_bound
\* tasks of adapters without a slot, all of which it serves before that task.
\* That is one blocked task fewer than BoundedBypass, below, asks for.
NoNeedlessWait ==
    ~scanning =>
      \A t \in Tasks \ Dispatched :
        HasRoom(t) => /\ Cardinality(Heads) = bypass_bound
                      /\ \A u \in Heads : Before(u, t)

-----------------------------------------------------------------------------
(* The inductive invariant. *)

\* The loop has looked at a prefix of the order.
ScanIsPrefix ==
    \A t, u \in Tasks : Before(u, t) /\ verdict[t] # "none" => verdict[u] # "none"

\* The reason given for a task still holds.
VerdictsHold ==
    \A t \in Tasks :
      /\ verdict[t] \in {"RetryTimerPending", "AdapterUnassigned"} => ~Dispatchable(t)
      /\ verdict[t] \in {"dispatch", "AdapterLimit"} => Dispatchable(t)
      /\ verdict[t] = "AdapterLimit" => remaining_adapter[candidates[t].adapter] = 0
      /\ verdict[t] = "GlobalLimit" => remaining_global = 0 /\ ~scanning

\* The counters count.
CountersAgree ==
    /\ Cardinality(Dispatched) + remaining_global = Left(limits.global, occupied_global)
    /\ \A a \in Adapters : Cardinality(DispatchedOn(a)) + remaining_adapter[a]
                             = Left(limits.per_adapter, occupied[a])
    /\ bypassed = Cardinality(Heads)
    /\ scanning => bypassed < bypass_bound
    /\ ~scanning => \/ bypassed = bypass_bound
                    \/ remaining_global = 0
                    \/ \A t \in Tasks : verdict[t] # "none"

\* FifoOnAdapter along the whole order.
NoOvertaking ==
    \A t \in Dispatched : \A u \in Tasks :
      /\ Before(u, t)
      /\ Dispatchable(u) /\ candidates[u].adapter = candidates[t].adapter
      => u \in Dispatched

SchedulerInvariant ==
    TypeOK /\ ScanIsPrefix /\ VerdictsHold /\ CountersAgree /\ NoOvertaking

-----------------------------------------------------------------------------
(* What the repository says of the scan and the code does not keep. *)

\* bypass_bound blocked heads are bypassed; it is the next one that ends the
\* scan.
BoundedBypass ==
    ~scanning =>
      \A t \in Tasks \ Dispatched :
        HasRoom(t) => Cardinality(Heads) > bypass_bound

=============================================================================
