---------------------------- MODULE Improvement ----------------------------
(***************************************************************************)
(* The guarded improvement ledger: ImprovementEngine (improvement.rs) and  *)
(* its persistence (storage.rs), which loads the snapshot, applies one     *)
(* operation, writes snapshot and projection tables in one transaction and *)
(* verifies them against each other before the commit.                     *)
(*                                                                         *)
(* A case id is the digest of what its trigger task's observation says, so *)
(* the trigger task stands for it; a config digest is fixed by its version.*)
(***************************************************************************)
EXTENDS Integers, Sequences, FiniteSets, Functions

CONSTANTS
  Reviewed,      \* task ids
  Components,    \* adapter instances
  Reports,       \* what a review says: [success, signature, cost, unsafe]
  Values,        \* the values of a knob that the policy allows
  Keys,          \* command keys
  Absent,
  Occurrences, Window, MinSamples, Cooldown, MinAge, Expiry,   \* the constants of the file
  MaxClock, MaxVersion

CaseState == {"OBSERVING", "CANARY", "PROMOTED", "ROLLED_BACK", "FROZEN"}

\* What an observation and a case are made of.
ObservationRow == [component : Components, version : Nat, at : Nat, report : Reports]
CandidateId == [case : Reviewed, value : Values]
CaseRow == [component : Components, version : Nat, created : Nat, state : CaseState,
            candidate : CandidateId \cup {Absent}, started : Nat \cup {Absent}, rollbacks : Nat]

ASSUME ImprovementAssumption ==
  /\ IsFiniteSet(Reviewed)
  /\ MinSamples \in Nat /\ Cooldown \in Nat \ {0}
  /\ Absent \notin Nat /\ Absent \notin ObservationRow /\ Absent \notin CaseRow

VARIABLES
  clock,
  engine,    \* the snapshot in improvement_engine_state
  table,     \* the projection: cases, candidates, assignments, active configs
  commands,  \* command_dedup
  refused    \* history: the mutations whose transaction was rolled back

improvementVars == <<clock, engine, table, commands, refused>>

Active == {"OBSERVING", "CANARY"}

ImprovementInit ==
  /\ clock = 0
  /\ engine = [enabled |-> FALSE,
               seen |-> [t \in Reviewed |-> Absent],
               cases |-> [t \in Reviewed |-> Absent],
               candidates |-> {},
               assigned |-> [t \in Reviewed |-> Absent],
               active |-> [c \in Components |-> Absent],
               cooldown |-> [c \in Components |-> 0],
               rollbacks |-> [c \in Components |-> Absent],
               next |-> 1]
  /\ table = [cases |-> [t \in Reviewed |-> Absent], candidates |-> {},
              assigned |-> [t \in Reviewed |-> Absent], active |-> [c \in Components |-> Absent]]
  /\ commands = [k \in Keys |-> Absent]
  /\ refused = {}

-----------------------------------------------------------------------------
(* compare_arms                                                             *)

RegressesOverTenPercent(sum, samples, controlSum, controlSamples) ==
  10 * sum * controlSamples > 11 * controlSum * samples

CompareArms(candidate, control) ==
  IF candidate.unsafe # 0 THEN "SafetyViolation"
  ELSE IF candidate.missing \/ control.missing THEN "Missing"
  ELSE IF candidate.samples = 0 \/ control.samples = 0 THEN "QualityRegression"
  ELSE IF 10 * candidate.successes * control.samples
            < 10 * control.successes * candidate.samples + candidate.samples * control.samples
       THEN "QualityRegression"
  ELSE IF \/ RegressesOverTenPercent(candidate.latency, candidate.samples, control.latency, control.samples)
          \/ RegressesOverTenPercent(candidate.tokens, candidate.samples, control.tokens, control.samples)
       THEN "ResourceRegression"
  ELSE "Pass"

-----------------------------------------------------------------------------
(* What a review says of a task                                             *)

\* valid_token on a name as [length, plain].
ValidToken(name) == name.length \in 1 .. 128 /\ name.plain

\* FailureSignature::normalized_key: no key unless all four fields are tokens.
NormalizedKey(signature) == \A i \in 1..4 : ValidToken(signature[i])

\* Cohort::validate and ObservationInput::validate; the numbers are i64.
ValidObservation(o) ==
  /\ ValidToken(o.task) /\ ValidToken(o.component)
  /\ ValidToken(o.adapter) /\ ValidToken(o.adapterVersion)
  /\ o.config >= 0 /\ o.digest /\ o.at >= 0
  /\ o.signature # Absent => NormalizedKey(o.signature)
  /\ o.success = (o.signature = Absent)
  /\ o.latency # Absent => o.latency <= o.maxInt
  /\ o.tokens # Absent => o.tokens <= o.maxInt

\* CandidateProposal::validate: Absent, or whether the fixtures pass the gate.
ValidProposal(p, allowed, minFixtures) ==
  IF \/ ~ValidToken(p.case) \/ p.hypothesis = 0 \/ p.hypothesis > 2048
     \/ Len(p.fixtures) < minFixtures
     \/ \E i \in DOMAIN p.fixtures : ~ValidToken(p.fixtures[i].id)
     \/ \E i, j \in DOMAIN p.fixtures : i # j /\ p.fixtures[i].id = p.fixtures[j].id
     \/ ~p.value.string \/ ~ValidToken(p.value) \/ p.value.name \notin allowed[p.knob]
  THEN Absent
  ELSE LET hard == \E i \in DOMAIN p.fixtures : p.fixtures[i].hard # 0
       IN [hard |-> hard,
           passed |-> ~hard /\ \A i \in DOMAIN p.fixtures : p.fixtures[i].passed]

\* usage_token_cost: one unreadable usage event, no event or an overflow leaves
\* the cost unknown.
UsageTokenCost(events, maxInt) ==
  LET total == SumFunction([i \in DOMAIN events |-> events[i].input + events[i].output])
  IN IF events = <<>> \/ \E i \in DOMAIN events : ~events[i].readable \/ total > maxInt
     THEN Absent ELSE total

\* record_review_observation: success is a succeeded task with an accepted
\* review; a rejection hides what the task's own end was.
ReviewReport(terminal, verdict, diagnosis, version, cost, violations) ==
  LET success == terminal = "SUCCEEDED" /\ verdict = "ACCEPTED"
      class == IF verdict = "REJECTED" THEN "review_rejected" ELSE terminal
  IN [success |-> success,
      signature |-> IF success THEN Absent ELSE <<"terminal", class, version, diagnosis>>,
      cost |-> cost, unsafe |-> violations # 0]

\* ensure_improvement_engine and ensure_default_improvement_engine.
EnsureEngine(stored, policy) ==
  IF stored = Absent THEN "INITIALIZED" ELSE IF stored # policy THEN "conflict" ELSE "loaded"

-----------------------------------------------------------------------------
(* The engine                                                               *)

Cases(e) == {t \in Reviewed : e.cases[t] # Absent}

\* expire: an open case of the whole period is rolled back, without counting.
Expire(e, now) ==
  LET old == {t \in Cases(e) : e.cases[t].state \in Active /\ now - e.cases[t].created >= Expiry}
  IN [e EXCEPT !.cases = [t \in Reviewed |-> IF t \in old THEN [@[t] EXCEPT !.state = "ROLLED_BACK"]
                                             ELSE @[t]],
               !.cooldown = [c \in Components |->
                  IF \E t \in old : e.cases[t].component = c THEN now + Cooldown ELSE @[c]]]

\* comparable_observations: the newest ones of the same component and cohort.
Comparable(e, o) ==
  LET same == {t \in Reviewed : /\ e.seen[t] # Absent
                                /\ e.seen[t].component = o.component
                                /\ e.seen[t].version = o.version}
  IN {t \in same : Cardinality({u \in same : e.seen[u].at > e.seen[t].at}) < Window}

\* eligibility_for: the tests in the order of the code; only the last outcome,
\* Eligible, opens a case.
Eligible(e, o) ==
  /\ o.report.signature # Absent
  /\ \A t \in Cases(e) : e.cases[t].component = o.component =>
                            e.cases[t].state \notin {"FROZEN"} \cup Active
  /\ e.cooldown[o.component] <= o.at
  /\ Cardinality({t \in Comparable(e, o) : e.seen[t].report.signature = o.report.signature})
       >= Occurrences

\* observe on a task with an assignment: the same adapter and the assigned config.
Admissible(e, t, o) ==
  e.assigned[t] # Absent =>
    LET a == e.assigned[t]
    IN /\ e.cases[a.case] # Absent
       /\ o.component = e.cases[a.case].component
       /\ o.version = a.version

\* observe: a replay or a conflict leaves the observations alone.
Observed(e, t, o) ==
  LET x == Expire(e, o.at)
  IN IF ~e.enabled THEN e
     ELSE IF x.seen[t] # Absent \/ ~Admissible(x, t, o) THEN x
     ELSE [x EXCEPT !.seen[t] = o, !.next = IF @ < o.version THEN o.version ELSE @]

\* open_eligible_case.
Opened(e, t, o) ==
  LET x == Expire(e, o.at)
  IN IF ~e.enabled \/ x.seen[t] # o \/ ~Eligible(x, o) THEN x
     ELSE [x EXCEPT !.active[o.component] = IF @ = Absent THEN o.version ELSE @,
                    !.cases[t] = [component |-> o.component, version |-> o.version,
                                  created |-> o.at, state |-> "OBSERVING", candidate |-> Absent,
                                  started |-> Absent,
                                  rollbacks |-> IF e.rollbacks[o.component] = Absent THEN 0
                                                ELSE e.rollbacks[o.component]]]

\* propose_candidate on an open case; the fixtures decide between canary and
\* rejection.  Absent when the proposal is refused.
Proposed(e, t, value, passed, now) ==
  IF ~e.enabled THEN e
  ELSE IF \/ e.cases[t] = Absent \/ e.cases[t].state # "OBSERVING"
          \/ now - e.cases[t].created >= Expiry
       THEN Absent
  ELSE LET case == e.cases[t]
           id == [case |-> t, value |-> value]
           new == [id |-> id, digest |-> <<case.version, case.component, value>>,
                   version |-> e.next + 1, passed |-> passed]
           moved == [case EXCEPT !.candidate = id,
                                 !.state = IF passed THEN "CANARY" ELSE "ROLLED_BACK",
                                 !.started = IF passed THEN now ELSE @]
       IN IF \E d \in e.candidates : d.id = id THEN e
          ELSE [e EXCEPT !.next = @ + 1,
                         !.candidates = @ \cup {new},
                         !.cases[t] = moved,
                         !.cooldown[case.component] = IF passed THEN @ ELSE now + Cooldown]

CandidateOf(e, t) == CHOOSE d \in e.candidates : d.id = e.cases[t].candidate

\* assign_canary of a new, read-only, opted-in task of the case's cohort; the
\* arm is a stable hash of case and task.
Assigned(e, case, t, arm, now) ==
  IF \/ ~e.enabled \/ e.assigned[t] # Absent \/ e.cases[case] = Absent
     \/ e.cases[case].state # "CANARY" \/ now - e.cases[case].created >= Expiry
  THEN e
  ELSE [e EXCEPT !.assigned[t] =
          [case |-> case, candidate |-> arm,
           version |-> IF arm THEN CandidateOf(e, case).version ELSE e.cases[case].version]]

\* rollback_case.
RolledBack(e, t, now) ==
  LET case == e.cases[t]
      count == 1 + IF e.rollbacks[case.component] = Absent THEN case.rollbacks
                   ELSE e.rollbacks[case.component]
  IN [e EXCEPT !.rollbacks[case.component] = count,
               !.cases[t] = [@ EXCEPT !.rollbacks = count,
                                      !.state = IF count >= 2 THEN "FROZEN" ELSE "ROLLED_BACK"],
               !.active[case.component] = case.version,
               !.cooldown[case.component] = now + Cooldown]

\* The metrics of one arm, over the assigned tasks that were reviewed.
Arm(e, case, which) ==
  LET tasks == {t \in Reviewed : /\ e.assigned[t] # Absent /\ e.assigned[t].case = case
                                 /\ e.assigned[t].candidate = which /\ e.seen[t] # Absent}
      with(P(_)) == {t \in tasks : P(e.seen[t].report)}
      cost == [t \in with(LAMBDA r : r.cost # Absent) |-> e.seen[t].report.cost]
  IN [samples |-> Cardinality(tasks),
      successes |-> Cardinality(with(LAMBDA r : r.success)),
      unsafe |-> Cardinality(with(LAMBDA r : r.unsafe)),
      missing |-> with(LAMBDA r : r.cost = Absent) # {},
      latency |-> SumFunction(cost), tokens |-> SumFunction(cost)]

Promoted(x, t, now) ==
  [x EXCEPT !.cases[t].state = "PROMOTED",
            !.active[x.cases[t].component] = CandidateOf(x, t).version,
            !.cooldown[x.cases[t].component] = now + Cooldown]

\* Mutant of EvaluatedCanary: time alone promotes.
CanaryOnTime(x, t, now) == IF now - x.cases[t].started < MinAge THEN x ELSE Promoted(x, t, now)

\* evaluate_canary: a safety violation rolls back at once; samples, metrics and
\* age are waited for, in that order.
EvaluatedCanary(x, t, now) ==
  LET candidate == Arm(x, t, TRUE)
      control == Arm(x, t, FALSE)
      gate == CompareArms(candidate, control)
  IN IF candidate.unsafe # 0 THEN RolledBack(x, t, now)
     ELSE IF candidate.samples < MinSamples \/ control.samples < MinSamples THEN x
     ELSE IF candidate.missing \/ control.missing THEN x
     ELSE IF now - x.cases[t].started < MinAge THEN x
     ELSE IF gate = "Pass" THEN Promoted(x, t, now)
     ELSE IF gate = "Missing" THEN x ELSE RolledBack(x, t, now)

\* evaluate: only a canary is evaluated.
Evaluated(e, t, now) ==
  LET x == Expire(e, now)
  IN IF ~e.enabled THEN e
     ELSE IF x.cases[t] = Absent \/ x.cases[t].state # "CANARY" THEN x
     ELSE EvaluatedCanary(x, t, now)

\* request_rollback to the case's parent; refused, as Absent, before a canary.
Requested(e, t, target, now) ==
  LET x == Expire(e, now)
  IN IF ~e.enabled THEN e
     ELSE IF x.cases[t] = Absent \/ target # x.cases[t].version THEN Absent
     ELSE IF x.cases[t].state \in {"CANARY", "PROMOTED"} THEN RolledBack(x, t, now)
     ELSE IF x.cases[t].state = "OBSERVING" THEN Absent
     ELSE x

-----------------------------------------------------------------------------
(* Persistence                                                              *)

\* durable_projection.
Projection(e) ==
  [cases |-> e.cases, candidates |-> e.candidates, assigned |-> e.assigned, active |-> e.active]

\* The statements of persist_improvement_engine: a known case keeps its creation
\* columns; candidates and assignments are inserted or ignored, and a candidate
\* whose id, version or digest is taken is ignored.
Upserted(e) ==
  LET taken(d) == \E f \in table.candidates :
                    f.id = d.id \/ f.version = d.version \/ f.digest = d.digest
  IN [cases |-> [t \in Reviewed |->
        IF e.cases[t] = Absent \/ table.cases[t] = Absent THEN e.cases[t]
        ELSE [e.cases[t] EXCEPT !.component = table.cases[t].component,
                                !.created = table.cases[t].created,
                                !.version = table.cases[t].version]],
      candidates |-> table.candidates \cup {d \in e.candidates : ~taken(d)},
      assigned |-> [t \in Reviewed |-> IF table.assigned[t] = Absent THEN e.assigned[t]
                                       ELSE table.assigned[t]],
      active |-> e.active]

\* improvement_one_active_component.
UniqueActive(cases) ==
  \A t, u \in Reviewed :
    (/\ cases[t] # Absent /\ cases[u] # Absent
     /\ cases[t].state \in Active /\ cases[u].state \in Active
     /\ cases[t].component = cases[u].component) => t = u

\* verify_improvement_projection: as many rows, and the same ones, as the
\* snapshot projects to.
Verifies(rows, e) == rows = Projection(e)

\* persist_improvement_engine: the rows must be those of the snapshot, or
\* nothing is committed.  The revision and its one audit row advance with it.
Persist(e, why) ==
  IF /\ UniqueActive(Upserted(e).cases)
     /\ Verifies(Upserted(e), e)
  THEN /\ engine' = e
       /\ table' = Upserted(e)
       /\ UNCHANGED refused
  ELSE refused' = refused \cup {why} /\ UNCHANGED <<engine, table>>

\* mutate_improvement: an operation that changes nothing writes nothing.
Mutation(e, why) ==
  IF e = engine THEN UNCHANGED <<engine, table, refused>> ELSE Persist(e, why)

\* improvement_command_replay.
Replay(k, request) ==
  IF commands[k] = Absent THEN "new" ELSE IF commands[k] = request THEN "replay" ELSE "conflict"

\* improvement_command: a known key answers as before or conflicts; a refused
\* command leaves no record; any other outcome is recorded with its answer, an
\* operation without effect on its own (persist_improvement_command_only).
Command(k, request, e, why) ==
  /\ e # Absent
  /\ Replay(k, request) = "new"
  /\ Mutation(e, why)
  /\ commands' = IF refused' = refused
                 THEN [commands EXCEPT ![k] = request] ELSE commands
  /\ UNCHANGED clock

-----------------------------------------------------------------------------
(* Operations                                                               *)

PassTime == /\ clock < MaxClock /\ clock' = clock + 1
            /\ UNCHANGED <<engine, table, commands, refused>>

SetImprovementEnabled ==
  /\ Mutation([engine EXCEPT !.enabled = ~@], "flag")
  /\ UNCHANGED <<clock, commands>>

\* record_review_observation: the observation and the case it opens commit
\* together.
RecordReviewObservation(t, c, v, r) ==
  LET o == [component |-> c, version |-> v, at |-> clock, report |-> r]
      e == Observed(engine, t, o)
  IN /\ engine.enabled
     /\ Mutation(IF e.seen[t] = o /\ Eligible(e, o) THEN Opened(e, t, o) ELSE e, "observation")
     /\ UNCHANGED <<clock, commands>>

ImprovementPropose(k, t, value, passed) ==
  /\ engine.next < MaxVersion
  /\ Command(k, [case |-> t, value |-> value, passed |-> passed],
             Proposed(engine, t, value, passed, clock),
             IF \E d \in engine.candidates :
                  engine.cases[t] # Absent
                  /\ d.digest = <<engine.cases[t].version, engine.cases[t].component, value>>
             THEN "repeated" ELSE "propose")

ImprovementRollback(k, t) ==
  /\ engine.cases[t] # Absent
  /\ Command(k, [case |-> t, target |-> engine.cases[t].version],
             Requested(engine, t, engine.cases[t].version, clock), "rollback")

AssignCanary(case, t, arm) ==
  /\ engine.seen[t] = Absent
  /\ Mutation(Assigned(engine, case, t, arm, clock), "assignment")
  /\ UNCHANGED <<clock, commands>>

EvaluateCanary(t) ==
  /\ Mutation(Evaluated(engine, t, clock), "evaluation")
  /\ UNCHANGED <<clock, commands>>

ImprovementNext ==
  \/ PassTime
  \/ SetImprovementEnabled
  \/ \E t \in Reviewed, c \in Components, v \in 1 .. engine.next, r \in Reports :
       RecordReviewObservation(t, c, v, r)
  \/ \E k \in Keys, t \in Reviewed :
       \/ \E value \in Values, passed \in BOOLEAN : ImprovementPropose(k, t, value, passed)
       \/ ImprovementRollback(k, t)
  \/ \E case, t \in Reviewed, arm \in BOOLEAN : AssignCanary(case, t, arm)
  \/ \E t \in Reviewed : EvaluateCanary(t)

ImprovementSpec == ImprovementInit /\ [][ImprovementNext]_improvementVars

-----------------------------------------------------------------------------
(* Properties                                                               *)

\* A configuration becomes active by promotion only after both arms have been
\* sampled, through expiry, rollbacks and the feature flag, and every sample ran
\* under the configuration of its own arm, so that the arms compare what they
\* claim to; any other active configuration is one that a case started from.
ActiveIsEarned ==
  /\ \A c \in Components :
       engine.active[c] # Absent =>
         \E t \in Cases(engine) :
           /\ engine.cases[t].component = c
           /\ \/ engine.active[c] = engine.cases[t].version
              \/ /\ engine.cases[t].state = "PROMOTED"
                 /\ engine.active[c] = CandidateOf(engine, t).version
                 /\ \A arm \in BOOLEAN : Arm(engine, t, arm).samples >= MinSamples
  /\ \A t \in Reviewed :
       engine.assigned[t] # Absent /\ engine.seen[t] # Absent =>
         LET a == engine.assigned[t]
         IN /\ engine.seen[t].version = a.version
            /\ a.candidate => \E d \in engine.candidates :
                                 d.id.case = a.case /\ d.version = a.version /\ d.passed

=============================================================================
