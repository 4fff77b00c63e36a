---------------------------- MODULE FilesProofs ----------------------------
(***************************************************************************)
(* What is kept beside the tasks, for any number of processes, cases and   *)
(* updates: the improvement engine's configurations, the lifetime lock and *)
(* the settings file.                                                      *)
(***************************************************************************)
EXTENDS Improvement, ControlFiles, DashboardServer, FiniteSetTheorems, TLAPS

-----------------------------------------------------------------------------
(* Improvement: what makes a configuration active.                         *)

\* The assigned tasks of one arm that have been reviewed.
Sampled(e, case, which) ==
  {t \in Reviewed : /\ e.assigned[t] # Absent /\ e.assigned[t].case = case
                    /\ e.assigned[t].candidate = which /\ e.seen[t] # Absent}

\* An arm counts the reviewed tasks assigned to it.
LEMMA ArmSamples ==
  ASSUME NEW e, NEW t, NEW which
  PROVE  Arm(e, t, which).samples = Cardinality(Sampled(e, t, which))
BY Zenon DEF Arm, Sampled

\* A candidate.
CandidateRow == [id : CandidateId, digest : Nat \X Components \X Values, version : Nat,
                 passed : BOOLEAN]
\* The assignment of a task to an arm.
AssignmentRow == [case : Reviewed, candidate : BOOLEAN, version : Nat]

\* The engine's tables.
EngineShape(e) ==
  /\ DOMAIN e = {"enabled", "seen", "cases", "candidates", "assigned", "active", "cooldown",
                 "rollbacks", "next"}
  /\ e.seen \in [Reviewed -> ObservationRow \cup {Absent}]
  /\ e.cases \in [Reviewed -> CaseRow \cup {Absent}]
  /\ e.candidates \in SUBSET CandidateRow
  /\ e.assigned \in [Reviewed -> AssignmentRow \cup {Absent}]
  /\ e.active \in [Components -> Nat \cup {Absent}]
  /\ e.cooldown \in [Components -> Nat]
  /\ e.rollbacks \in [Components -> Nat \cup {Absent}]
  /\ e.next \in Nat

\* A case stems from the review of its trigger task, which is past once the case
\* is closed: the component cools down until later than that.
CasesFollowReviews(e, now) ==
  /\ \A t \in Reviewed : e.seen[t] # Absent => e.seen[t].at <= now
  /\ \A t \in Cases(e) :
       /\ e.seen[t] # Absent /\ e.seen[t].component = e.cases[t].component
       /\ e.cases[t].state \notin Active => e.cooldown[e.cases[t].component] > e.seen[t].at

\* A canary, and what came of it, has a candidate of its own that passed.
CanariesPassed(e) ==
  /\ \A c, d \in e.candidates : c.id = d.id => c = d
  /\ \A t \in Cases(e) :
       e.cases[t].state \in {"CANARY", "PROMOTED"} =>
         \E d \in e.candidates : d.id = e.cases[t].candidate /\ d.id.case = t /\ d.passed

\* A task is reviewed under the configuration it was assigned, and a
\* candidate's is one that passed.
SamplesFit(e) ==
  \A t \in Reviewed :
    e.assigned[t] # Absent =>
      /\ e.seen[t] # Absent => e.seen[t].version = e.assigned[t].version
      /\ e.assigned[t].candidate =>
           \E d \in e.candidates : /\ d.id.case = e.assigned[t].case
                                   /\ d.version = e.assigned[t].version /\ d.passed

\* Case t accounts for component c's active configuration v.
Accounts(e, t, c, v) ==
  /\ e.cases[t].component = c
  /\ \/ v = e.cases[t].version
     \/ /\ e.cases[t].state = "PROMOTED" /\ v = CandidateOf(e, t).version
        /\ \A which \in BOOLEAN : Cardinality(Sampled(e, t, which)) >= MinSamples

\* Every active configuration is accounted for by a case of its component.
ActiveHasOrigin(e) ==
  \A c \in Components : e.active[c] # Absent => \E t \in Cases(e) : Accounts(e, t, c, e.active[c])

\* What the engine's tables owe to one another at a time.
EngineSound(e, now) ==
  /\ EngineShape(e) /\ CasesFollowReviews(e, now) /\ CanariesPassed(e) /\ SamplesFit(e)
  /\ ActiveHasOrigin(e)

\* The inductive invariant.
EngineInvariant == clock \in Nat /\ EngineSound(engine, clock)

-----------------------------------------------------------------------------
\* It holds of an engine without cases.
LEMMA EngineStarts == ImprovementInit => EngineInvariant
<1>. SUFFICES ASSUME ImprovementInit PROVE EngineInvariant
  BY Zenon
<1>1. EngineShape(engine)
  BY Zenon DEF ImprovementInit, EngineShape
<1>2. /\ CasesFollowReviews(engine, clock) /\ CanariesPassed(engine) /\ SamplesFit(engine)
      /\ ActiveHasOrigin(engine)
  BY Zenon DEF ImprovementInit, CasesFollowReviews, CanariesPassed, SamplesFit, ActiveHasOrigin, Cases
<1>. QED BY Zenon, <1>1, <1>2 DEF EngineInvariant, EngineSound, ImprovementInit

\* The candidate of a canary is the one its case names.
LEMMA CandidateIs ==
  ASSUME NEW e, CanariesPassed(e), NEW t \in Cases(e), e.cases[t].state \in {"CANARY", "PROMOTED"}
  PROVE  /\ CandidateOf(e, t) \in e.candidates /\ CandidateOf(e, t).id = e.cases[t].candidate
         /\ CandidateOf(e, t).id.case = t /\ CandidateOf(e, t).passed
<1>1. PICK d \in e.candidates : d.id = e.cases[t].candidate /\ d.id.case = t /\ d.passed
  BY Zenon DEF CanariesPassed
<1>2. CandidateOf(e, t) \in e.candidates /\ CandidateOf(e, t).id = e.cases[t].candidate
  BY Zenon, <1>1 DEF CandidateOf
<1>3. CandidateOf(e, t) = d
  BY <1>1, <1>2 DEF CanariesPassed
<1>. QED BY Zenon, <1>1, <1>3

\* The samples of an arm are finite.
LEMMA SamplesAreCounted ==
  ASSUME NEW e, NEW t, NEW which
  PROVE  IsFiniteSet(Sampled(e, t, which)) /\ Cardinality(Sampled(e, t, which)) \in Nat
<1>1. Sampled(e, t, which) \subseteq Reviewed
  BY Zenon DEF Sampled
<1>. QED BY Zenon, <1>1, ImprovementAssumption, FS_Subset, FS_CardinalityType

\* What f adds to e takes nothing from a configuration's account.
LEMMA OriginKept ==
  ASSUME NEW e, NEW f, CanariesPassed(e), CanariesPassed(f), ActiveHasOrigin(e),
         e.candidates \subseteq f.candidates,
         \A t \in Reviewed, which \in BOOLEAN : Sampled(e, t, which) \subseteq Sampled(f, t, which),
         \A t \in Cases(e) : /\ t \in Cases(f) /\ f.cases[t].component = e.cases[t].component
                             /\ f.cases[t].version = e.cases[t].version,
         \A c \in Components :
           \/ \E t \in Cases(f) : Accounts(f, t, c, f.active[c])
           \/ /\ f.active[c] = e.active[c]
              /\ \A t \in Cases(e) :
                   e.cases[t].component = c /\ e.cases[t].state = "PROMOTED" =>
                     f.cases[t].state = "PROMOTED" /\ f.cases[t].candidate = e.cases[t].candidate
  PROVE  ActiveHasOrigin(f)
<1>. SUFFICES ASSUME NEW c \in Components, f.active[c] # Absent, f.active[c] = e.active[c],
                     \A t \in Cases(e) :
                       e.cases[t].component = c /\ e.cases[t].state = "PROMOTED" =>
                         f.cases[t].state = "PROMOTED" /\ f.cases[t].candidate = e.cases[t].candidate
              PROVE  \E t \in Cases(f) : Accounts(f, t, c, f.active[c])
  BY Zenon DEF ActiveHasOrigin
<1>1. PICK t \in Cases(e) : Accounts(e, t, c, e.active[c])
  BY Zenon DEF ActiveHasOrigin
<1>2. t \in Cases(f) /\ f.cases[t].component = c /\ t \in Reviewed
  BY Zenon, <1>1 DEF Accounts, Cases
<1>3. CASE e.active[c] = e.cases[t].version
  BY Zenon, <1>2, <1>3 DEF Accounts
<1>4. CASE e.active[c] # e.cases[t].version
  <2>1. /\ e.cases[t].state = "PROMOTED" /\ e.active[c] = CandidateOf(e, t).version
        /\ \A which \in BOOLEAN : Cardinality(Sampled(e, t, which)) >= MinSamples
        /\ e.cases[t].component = c
    BY Zenon, <1>1, <1>4 DEF Accounts
  <2>2. f.cases[t].state = "PROMOTED" /\ f.cases[t].candidate = e.cases[t].candidate
    BY Zenon, <2>1
  <2>3. CandidateOf(f, t) = CandidateOf(e, t)
    <3>1. CandidateOf(e, t) \in f.candidates /\ CandidateOf(e, t).id = e.cases[t].candidate
      BY <2>1, CandidateIs
    <3>2. CandidateOf(f, t) \in f.candidates /\ CandidateOf(f, t).id = e.cases[t].candidate
      BY <1>2, <2>2, CandidateIs
    <3>. QED BY <3>1, <3>2 DEF CanariesPassed
  <2>4. \A which \in BOOLEAN : Cardinality(Sampled(f, t, which)) >= MinSamples
    <3>. SUFFICES ASSUME NEW which \in BOOLEAN PROVE Cardinality(Sampled(f, t, which)) >= MinSamples
      BY Zenon
    <3>1. Sampled(e, t, which) \subseteq Sampled(f, t, which)
      BY Zenon, <1>2
    <3>2. IsFiniteSet(Sampled(f, t, which)) /\ Cardinality(Sampled(f, t, which)) \in Nat
          /\ Cardinality(Sampled(e, t, which)) \in Nat
      BY Zenon, SamplesAreCounted
    <3>3. Cardinality(Sampled(e, t, which)) <= Cardinality(Sampled(f, t, which))
      BY Zenon, <3>1, <3>2, FS_Subset
    <3>4. Cardinality(Sampled(e, t, which)) >= MinSamples
      BY Zenon, <2>1
    <3>. QED BY <3>2, <3>3, <3>4, ImprovementAssumption
  <2>. QED BY Zenon, <1>2, <2>1, <2>2, <2>3, <2>4 DEF Accounts
<1>. QED BY Zenon, <1>3, <1>4

\* expire closes the cases that are too old.
LEMMA ExpireSound ==
  ASSUME NEW e, NEW now \in Nat, EngineSound(e, now)
  PROVE  /\ EngineSound(Expire(e, now), now)
         /\ Expire(e, now).seen = e.seen /\ Expire(e, now).assigned = e.assigned
<1>. DEFINE old == {t \in Cases(e) : e.cases[t].state \in Active /\ now - e.cases[t].created >= Expiry}
            cases == [t \in Reviewed |-> IF t \in old THEN [e.cases[t] EXCEPT !.state = "ROLLED_BACK"]
                                         ELSE e.cases[t]]
            cooldown == [c \in Components |->
                          IF \E t \in old : e.cases[t].component = c THEN now + Cooldown
                          ELSE e.cooldown[c]]
            f == Expire(e, now)
<1>0. EngineShape(e)
  BY Zenon DEF EngineSound
<1>1. /\ DOMAIN f = DOMAIN e /\ f.cases = cases /\ f.cooldown = cooldown
      /\ f.seen = e.seen /\ f.candidates = e.candidates /\ f.assigned = e.assigned
      /\ f.active = e.active /\ f.rollbacks = e.rollbacks /\ f.next = e.next
  BY Zenon, <1>0 DEF EngineShape, Expire
<1>. HIDE DEF f
<1>2. \A t \in old : /\ t \in Cases(e) /\ e.cases[t] \in CaseRow /\ e.cases[t].state \in Active
                     /\ e.cases[t].component \in Components
  BY Zenon, <1>0 DEF EngineShape, Cases, CaseRow
<1>. HIDE DEF old
<1>3. \A t \in Cases(e) : /\ f.cases[t] \in CaseRow /\ f.cases[t] # Absent /\ t \in Reviewed
                          /\ f.cases[t].component = e.cases[t].component
                          /\ f.cases[t].version = e.cases[t].version
                          /\ f.cases[t].candidate = e.cases[t].candidate
                          /\ IF t \in old THEN f.cases[t].state = "ROLLED_BACK"
                             ELSE f.cases[t].state = e.cases[t].state
  <2>. SUFFICES ASSUME NEW t \in Cases(e)
                PROVE  /\ f.cases[t] \in CaseRow /\ t \in Reviewed
                       /\ f.cases[t].component = e.cases[t].component
                       /\ f.cases[t].version = e.cases[t].version
                       /\ f.cases[t].candidate = e.cases[t].candidate
                       /\ IF t \in old THEN f.cases[t].state = "ROLLED_BACK"
                          ELSE f.cases[t].state = e.cases[t].state
    BY Zenon, ImprovementAssumption
  <2>1. t \in Reviewed /\ e.cases[t] \in CaseRow
    BY Zenon, <1>0 DEF EngineShape, Cases
  <2>2. [e.cases[t] EXCEPT !.state = "ROLLED_BACK"] \in CaseRow
    BY Zenon, <2>1 DEF CaseRow, CaseState
  <2>. QED BY <1>1, <2>1, <2>2 DEF CaseRow
<1>4. Cases(f) = Cases(e) /\ \A t \in Reviewed \ Cases(e) : f.cases[t] = Absent
  BY <1>1, <1>2, <1>3 DEF Cases
<1>5. \A c \in Components : /\ f.cooldown[c] \in Nat
                            /\ IF \E t \in old : e.cases[t].component = c
                               THEN f.cooldown[c] = now + Cooldown ELSE f.cooldown[c] = e.cooldown[c]
  BY <1>0, <1>1, ImprovementAssumption DEF EngineShape
<1>6. EngineShape(f)
  <2>1. f.cases \in [Reviewed -> CaseRow \cup {Absent}]
    BY ZenonT(60), <1>1, <1>3, <1>4
  <2>2. f.cooldown \in [Components -> Nat]
    BY Zenon, <1>1, <1>5
  <2>. QED BY Zenon, <1>0, <1>1, <2>1, <2>2 DEF EngineShape
<1>7. CasesFollowReviews(f, now)
  <2>1. \A t \in Reviewed : f.seen[t] # Absent => f.seen[t].at <= now
    BY Zenon, <1>1 DEF EngineSound, CasesFollowReviews
  <2>2. ASSUME NEW t \in Cases(f), f.cases[t].state \notin Active
        PROVE  f.cooldown[f.cases[t].component] > f.seen[t].at
    <3>1. /\ t \in Cases(e) /\ t \in Reviewed /\ e.seen[t] # Absent /\ e.seen[t].at <= now
          /\ e.seen[t].at \in Nat /\ e.cases[t].component \in Components
          /\ f.cases[t].component = e.cases[t].component
          /\ e.cases[t].state \notin Active => e.cooldown[e.cases[t].component] > e.seen[t].at
      BY ZenonT(60), <1>0, <1>3, <1>4 DEF EngineSound, CasesFollowReviews, Cases, EngineShape, ObservationRow, CaseRow
    <3>2. CASE \E u \in old : e.cases[u].component = e.cases[t].component
      <4>1. f.cooldown[e.cases[t].component] = now + Cooldown
        BY Zenon, <1>5, <3>1, <3>2
      <4>2. f.seen = e.seen
        BY Zenon, <1>1
      <4>3. now + Cooldown > e.seen[t].at
        BY SMTT(60), <3>1, ImprovementAssumption
      <4>. QED BY Zenon, <3>1, <4>1, <4>2, <4>3
    <3>3. CASE ~\E u \in old : e.cases[u].component = e.cases[t].component
      BY <1>1, <1>3, <1>5, <2>2, <3>1, <3>3
    <3>. QED BY Zenon, <3>2, <3>3
  <2>. QED BY ZenonT(60), <1>1, <1>3, <1>4, <2>1, <2>2 DEF EngineSound, CasesFollowReviews
<1>8. CanariesPassed(f) /\ SamplesFit(f)
  <2>1. \A t \in Cases(f) : f.cases[t].state \in {"CANARY", "PROMOTED"} =>
          /\ t \in Cases(e) /\ e.cases[t].state = f.cases[t].state
          /\ f.cases[t].candidate = e.cases[t].candidate
    BY Zenon, <1>3, <1>4
  <2>2. CanariesPassed(f)
    <3>0. CanariesPassed(e)
      BY Zenon DEF EngineSound
    <3>1. ASSUME NEW t \in Cases(f), f.cases[t].state \in {"CANARY", "PROMOTED"}
          PROVE  \E d \in f.candidates : d.id = f.cases[t].candidate /\ d.id.case = t /\ d.passed
      <4>1. /\ t \in Cases(e) /\ e.cases[t].state \in {"CANARY", "PROMOTED"}
            /\ f.cases[t].candidate = e.cases[t].candidate
        BY Zenon, <2>1, <3>1
      <4>2. PICK d \in e.candidates : d.id = e.cases[t].candidate /\ d.id.case = t /\ d.passed
        BY Zenon, <3>0, <4>1 DEF CanariesPassed
      <4>. QED BY Zenon, <1>1, <4>1, <4>2
    <3>2. \A c, d \in f.candidates : c.id = d.id => c = d
      BY Zenon, <1>1, <3>0 DEF CanariesPassed
    <3>. QED BY Zenon, <3>1, <3>2 DEF CanariesPassed
  <2>3. SamplesFit(f)
    BY <1>1 DEF EngineSound, SamplesFit
  <2>. QED BY Zenon, <2>2, <2>3
<1>9. ActiveHasOrigin(f)
  <2>1. \A t \in Reviewed, which \in BOOLEAN : Sampled(e, t, which) \subseteq Sampled(f, t, which)
    BY Zenon, <1>1 DEF Sampled
  <2>2. \A t \in Cases(e) : e.cases[t].state = "PROMOTED" =>
          f.cases[t].state = "PROMOTED" /\ f.cases[t].candidate = e.cases[t].candidate
    BY Zenon, <1>2, <1>3 DEF Active
  <2>. QED BY ZenonT(60), <1>1, <1>3, <1>4, <1>8, <2>1, <2>2, OriginKept DEF EngineSound
<1>. QED BY Zenon, <1>1, <1>6, <1>7, <1>8, <1>9 DEF EngineSound, f

\* A step that adds candidates and starts no canary without one.
LEMMA CanariesKept ==
  ASSUME NEW e, NEW f, CanariesPassed(e), e.candidates \subseteq f.candidates,
         \A c, d \in f.candidates : c.id = d.id => c = d,
         \A t \in Cases(f) : f.cases[t].state \in {"CANARY", "PROMOTED"} =>
           \/ \E d \in f.candidates : d.id = f.cases[t].candidate /\ d.id.case = t /\ d.passed
           \/ /\ t \in Cases(e) /\ e.cases[t].state \in {"CANARY", "PROMOTED"}
              /\ f.cases[t].candidate = e.cases[t].candidate
  PROVE  CanariesPassed(f)
<1>1. ASSUME NEW t \in Cases(f), f.cases[t].state \in {"CANARY", "PROMOTED"},
             t \in Cases(e) /\ e.cases[t].state \in {"CANARY", "PROMOTED"},
             f.cases[t].candidate = e.cases[t].candidate
      PROVE  \E d \in f.candidates : d.id = f.cases[t].candidate /\ d.id.case = t /\ d.passed
  <2>1. PICK d \in e.candidates : d.id = e.cases[t].candidate /\ d.id.case = t /\ d.passed
    BY Zenon, <1>1 DEF CanariesPassed
  <2>2. d \in f.candidates
    BY Zenon
  <2>. QED BY Zenon, <1>1, <2>1, <2>2
<1>. QED BY Zenon, <1>1 DEF CanariesPassed

\* A review is recorded.
LEMMA ObservedSound ==
  ASSUME NEW e, NEW now \in Nat, EngineSound(e, now), NEW t \in Reviewed,
         NEW o \in ObservationRow, o.at = now
  PROVE  EngineSound(Observed(e, t, o), now)
<1>. DEFINE x == Expire(e, now)
            f == [x EXCEPT !.seen[t] = o, !.next = IF @ < o.version THEN o.version ELSE @]
<1>1. EngineSound(x, now)
  BY Zenon, ExpireSound
<1>. HIDE DEF x
<1>2. SUFFICES ASSUME x.seen[t] = Absent, Admissible(x, t, o) PROVE EngineSound(f, now)
  <2>1. Observed(e, t, o) = IF ~e.enabled THEN e
                            ELSE IF x.seen[t] # Absent \/ ~Admissible(x, t, o) THEN x ELSE f
    BY Zenon DEF Observed, x
  <2>. HIDE DEF f
  <2>. QED BY Zenon, <1>1, <1>2, <2>1
<1>3. /\ DOMAIN f = DOMAIN x /\ f.cases = x.cases /\ f.cooldown = x.cooldown
      /\ f.seen = [x.seen EXCEPT ![t] = o] /\ f.candidates = x.candidates /\ f.assigned = x.assigned
      /\ f.active = x.active /\ f.rollbacks = x.rollbacks
      /\ f.next = IF x.next < o.version THEN o.version ELSE x.next
  BY Zenon, <1>1 DEF EngineSound, EngineShape
<1>. HIDE DEF f
<1>4. /\ f.seen[t] = o /\ \A u \in Reviewed \ {t} : f.seen[u] = x.seen[u]
      /\ o # Absent /\ o.version \in Nat /\ Cases(f) = Cases(x) /\ t \notin Cases(x)
  BY <1>1, <1>2, <1>3, ImprovementAssumption
     DEF EngineSound, EngineShape, ObservationRow, Cases, CasesFollowReviews
<1>5. EngineShape(f)
  BY <1>1, <1>3, <1>4 DEF EngineSound, EngineShape
<1>6. CasesFollowReviews(f, now)
  <2>1. \A u \in Reviewed : f.seen[u] # Absent => f.seen[u].at <= now
    BY <1>1, <1>4 DEF EngineSound, CasesFollowReviews
  <2>2. \A u \in Cases(f) : u \in Cases(x) /\ u \in Reviewed /\ f.seen[u] = x.seen[u]
    BY Zenon, <1>4 DEF Cases
  <2>. QED BY <1>1, <1>3, <2>1, <2>2 DEF EngineSound, CasesFollowReviews
<1>7. CanariesPassed(f)
  BY <1>1, <1>3, <1>4, CanariesKept DEF EngineSound, CanariesPassed
<1>8. SamplesFit(f)
  <2>. SUFFICES ASSUME NEW u \in Reviewed, f.assigned[u] # Absent
                PROVE  /\ f.seen[u] # Absent => f.seen[u].version = f.assigned[u].version
                       /\ f.assigned[u].candidate =>
                            \E d \in f.candidates : /\ d.id.case = f.assigned[u].case
                                 /\ d.version = f.assigned[u].version /\ d.passed
    BY Zenon DEF SamplesFit
  <2>1. CASE u = t
    BY <1>1, <1>2, <1>3, <1>4, <2>1 DEF EngineSound, SamplesFit, Admissible
  <2>2. CASE u # t
    BY <1>1, <1>3, <1>4, <2>2 DEF EngineSound, SamplesFit
  <2>. QED BY Zenon, <2>1, <2>2
<1>9. ActiveHasOrigin(f)
  <2>1. \A u \in Reviewed, which \in BOOLEAN : Sampled(x, u, which) \subseteq Sampled(f, u, which)
    BY Zenon, <1>3, <1>4 DEF Sampled
  <2>. QED BY Zenon, <1>1, <1>3, <1>4, <1>7, <2>1, OriginKept DEF EngineSound
<1>. QED BY Zenon, <1>5, <1>6, <1>7, <1>8, <1>9 DEF EngineSound

\* A review opens a case.
LEMMA OpenedSound ==
  ASSUME NEW e, NEW now \in Nat, EngineSound(e, now), NEW t \in Reviewed,
         NEW o \in ObservationRow, o.at = now
  PROVE  EngineSound(Opened(e, t, o), now)
<1>. DEFINE x == Expire(e, now)
            case == [component |-> o.component, version |-> o.version, created |-> now,
                     state |-> "OBSERVING", candidate |-> Absent, started |-> Absent,
                     rollbacks |-> IF e.rollbacks[o.component] = Absent THEN 0
                                   ELSE e.rollbacks[o.component]]
            f == [x EXCEPT !.active[o.component] = IF @ = Absent THEN o.version ELSE @,
                           !.cases[t] = case]
<1>1. EngineSound(x, now)
  BY Zenon, ExpireSound
<1>. HIDE DEF x
<1>2. SUFFICES ASSUME x.seen[t] = o, Eligible(x, o) PROVE EngineSound(f, now)
  <2>1. Opened(e, t, o) = IF ~e.enabled \/ x.seen[t] # o \/ ~Eligible(x, o) THEN x ELSE f
    BY Zenon DEF Opened, x
  <2>. HIDE DEF f
  <2>. QED BY Zenon, <1>1, <1>2, <2>1
<1>3. o.component \in Components /\ o.version \in Nat /\ o # Absent
  BY Zenon, ImprovementAssumption DEF ObservationRow
<1>4. /\ case \in CaseRow /\ case.component = o.component /\ case.version = o.version
      /\ case.state = "OBSERVING" /\ case # Absent
  BY <1>3, ImprovementAssumption DEF EngineSound, EngineShape, CaseRow, CaseState
<1>5. /\ DOMAIN f = DOMAIN x /\ f.cases = [x.cases EXCEPT ![t] = case] /\ f.cooldown = x.cooldown
      /\ f.seen = x.seen /\ f.candidates = x.candidates /\ f.assigned = x.assigned
      /\ f.active = [x.active EXCEPT ![o.component] = IF @ = Absent THEN o.version ELSE @]
      /\ f.rollbacks = x.rollbacks /\ f.next = x.next
  BY Zenon, <1>1 DEF EngineSound, EngineShape
<1>. HIDE DEF f, case
\* The trigger's case, had it been closed, would still cool the component down.
<1>6. t \notin Cases(x)
  <2>. SUFFICES ASSUME t \in Cases(x) PROVE FALSE
    BY Zenon
  <2>1. x.cases[t].component = o.component
    BY Zenon, <1>1, <1>2 DEF EngineSound, CasesFollowReviews
  <2>2. x.cases[t].state \notin Active /\ x.cooldown[o.component] <= now
    BY Zenon, <1>2, <2>1 DEF Eligible
  <2>3. x.cooldown[o.component] > now
    BY Zenon, <1>1, <1>2, <2>1, <2>2 DEF EngineSound, CasesFollowReviews
  <2>4. x.cooldown[o.component] \in Nat
    BY Zenon, <1>1, <1>3 DEF EngineSound, EngineShape
  <2>. QED BY <2>2, <2>3, <2>4
<1>7. /\ f.cases[t] = case /\ \A u \in Reviewed \ {t} : f.cases[u] = x.cases[u]
      /\ Cases(f) = Cases(x) \cup {t} /\ \A u \in Cases(x) : f.cases[u] = x.cases[u] /\ u # t
  BY <1>1, <1>4, <1>5, <1>6 DEF EngineSound, EngineShape, Cases
<1>8. /\ f.active \in [Components -> Nat \cup {Absent}]
      /\ \A c \in Components : \/ f.active[c] = x.active[c]
                               \/ c = o.component /\ f.active[c] = o.version
  BY <1>1, <1>3, <1>5 DEF EngineSound, EngineShape
<1>9. EngineShape(f)
  BY SMTT(60), <1>1, <1>4, <1>5, <1>8 DEF EngineSound, EngineShape
<1>10. CasesFollowReviews(f, now)
  <2>1. f.seen[t] # Absent /\ f.seen[t].component = f.cases[t].component /\ f.cases[t].state \in Active
    BY Zenon, <1>2, <1>3, <1>4, <1>5, <1>7 DEF Active
  <2>. QED BY <1>1, <1>5, <1>7, <2>1 DEF EngineSound, CasesFollowReviews
<1>11. CanariesPassed(f)
  <2>1. \A u \in Cases(f) : f.cases[u].state \in {"CANARY", "PROMOTED"} =>
          u \in Cases(x) /\ f.cases[u] = x.cases[u]
    BY Zenon, <1>4, <1>7
  <2>2. CanariesPassed(x)
    BY Zenon, <1>1 DEF EngineSound
  <2>3. \A c, d \in f.candidates : c.id = d.id => c = d
    BY Zenon, <1>5, <2>2 DEF CanariesPassed
  <2>. QED BY Zenon, <1>5, <2>1, <2>2, <2>3, CanariesKept
<1>12. SamplesFit(f)
  BY <1>1, <1>5 DEF EngineSound, SamplesFit
<1>13. ActiveHasOrigin(f)
  <2>1. \A u \in Reviewed, which \in BOOLEAN : Sampled(x, u, which) \subseteq Sampled(f, u, which)
    BY Zenon, <1>5 DEF Sampled
  <2>2. Accounts(f, t, o.component, o.version) /\ t \in Cases(f)
    BY Zenon, <1>4, <1>7 DEF Accounts
  <2>3. \A c \in Components :
          \/ \E u \in Cases(f) : Accounts(f, u, c, f.active[c])
          \/ f.active[c] = x.active[c]
    BY Zenon, <1>8, <2>2
  <2>. QED BY ZenonT(60), <1>1, <1>5, <1>7, <1>11, <2>1, <2>3, OriginKept DEF EngineSound
<1>. QED BY Zenon, <1>9, <1>10, <1>11, <1>12, <1>13 DEF EngineSound

\* A candidate is proposed, and starts its canary when it passed.
LEMMA ProposedSound ==
  ASSUME NEW e, NEW now \in Nat, EngineSound(e, now), NEW t \in Reviewed, NEW value \in Values,
         NEW passed \in BOOLEAN, Proposed(e, t, value, passed, now) # Absent
  PROVE  EngineSound(Proposed(e, t, value, passed, now), now)
<1>. DEFINE case == e.cases[t]
            id == [case |-> t, value |-> value]
            new == [id |-> id, digest |-> <<case.version, case.component, value>>,
                    version |-> e.next + 1, passed |-> passed]
            moved == [case EXCEPT !.candidate = id,
                                  !.state = IF passed THEN "CANARY" ELSE "ROLLED_BACK",
                                  !.started = IF passed THEN now ELSE @]
            f == [e EXCEPT !.next = @ + 1, !.candidates = @ \cup {new}, !.cases[t] = moved,
                           !.cooldown[case.component] = IF passed THEN @ ELSE now + Cooldown]
<1>0. EngineShape(e) /\ CanariesPassed(e)
  BY Zenon DEF EngineSound
<1>1. SUFFICES ASSUME case # Absent, case.state = "OBSERVING", \A d \in e.candidates : d.id # id
               PROVE  EngineSound(f, now)
  <2>1. \/ Proposed(e, t, value, passed, now) = e
        \/ /\ case # Absent /\ case.state = "OBSERVING" /\ \A d \in e.candidates : d.id # id
           /\ Proposed(e, t, value, passed, now) = f
    BY Zenon DEF Proposed
  <2>. HIDE DEF f
  <2>. QED BY Zenon, <1>1, <2>1
<1>2. /\ case \in CaseRow /\ case.component \in Components /\ case.version \in Nat /\ t \in Cases(e)
      /\ e.next + 1 \in Nat
  BY <1>0, <1>1 DEF EngineShape, CaseRow, Cases
<1>3. id \in CandidateId /\ id.case = t
  BY Zenon DEF CandidateId
<1>4. new \in CandidateRow /\ new.id = id /\ new.passed = passed
  BY Zenon, <1>2, <1>3 DEF CandidateRow
<1>5. /\ moved \in CaseRow /\ moved.component = case.component /\ moved.version = case.version
      /\ moved.candidate = id /\ moved.state = IF passed THEN "CANARY" ELSE "ROLLED_BACK"
      /\ moved # Absent
  BY ZenonT(60), <1>2, <1>3, ImprovementAssumption DEF CaseRow, CaseState
<1>6. /\ DOMAIN f = DOMAIN e /\ f.cases = [e.cases EXCEPT ![t] = moved]
      /\ f.cooldown = [e.cooldown EXCEPT ![case.component] = IF passed THEN @ ELSE now + Cooldown]
      /\ f.seen = e.seen /\ f.candidates = e.candidates \cup {new} /\ f.assigned = e.assigned
      /\ f.active = e.active /\ f.rollbacks = e.rollbacks /\ f.next = e.next + 1
  BY Zenon, <1>0 DEF EngineShape
<1>. HIDE DEF f, moved, new, id
<1>7. /\ f.cases[t] = moved /\ Cases(f) = Cases(e)
      /\ \A u \in Reviewed \ {t} : f.cases[u] = e.cases[u]
  BY <1>0, <1>2, <1>5, <1>6 DEF EngineShape, Cases
<1>8. /\ f.cooldown \in [Components -> Nat]
      /\ \A c \in Components : \/ f.cooldown[c] = e.cooldown[c]
                               \/ f.cooldown[c] = now + Cooldown
      /\ ~passed => f.cooldown[case.component] = now + Cooldown
  <2>1. now + Cooldown \in Nat
    BY ImprovementAssumption
  <2>2. e.cooldown \in [Components -> Nat]
    BY Zenon, <1>0 DEF EngineShape
  <2>3. f.cooldown[case.component] = IF passed THEN e.cooldown[case.component] ELSE now + Cooldown
    BY ZenonT(60), <1>2, <1>6, <2>2
  <2>4. \A c \in Components \ {case.component} : f.cooldown[c] = e.cooldown[c]
    BY ZenonT(60), <1>6, <2>2
  <2>5. f.cooldown \in [Components -> Nat]
    BY ZenonT(60), <1>2, <1>6, <2>1, <2>2
  <2>. QED BY ZenonT(60), <2>3, <2>4, <2>5
<1>9. EngineShape(f)
  BY ZenonT(60), <1>0, <1>2, <1>4, <1>5, <1>6, <1>8 DEF EngineShape
<1>10. CasesFollowReviews(f, now)
  <2>0. CasesFollowReviews(e, now)
    BY Zenon DEF EngineSound
  <2>1. ASSUME NEW u \in Cases(f)
        PROVE  /\ f.seen[u] # Absent /\ f.seen[u].component = f.cases[u].component
               /\ f.cases[u].state \notin Active => f.cooldown[f.cases[u].component] > f.seen[u].at
    <3>1. /\ u \in Cases(e) /\ u \in Reviewed /\ e.seen[u] # Absent /\ e.seen[u].at \in Nat
          /\ e.seen[u].at <= now /\ e.seen[u].component = e.cases[u].component
          /\ e.cases[u].component \in Components
          /\ e.cases[u].state \notin Active => e.cooldown[e.cases[u].component] > e.seen[u].at
      BY Zenon, <1>0, <1>7, <2>0 DEF CasesFollowReviews, Cases, EngineShape, ObservationRow, CaseRow
    <3>2. now + Cooldown > e.seen[u].at
      BY SMTT(60), <3>1, ImprovementAssumption
    <3>3. CASE u = t
      BY ZenonT(60), <1>5, <1>6, <1>7, <1>8, <3>1, <3>2, <3>3 DEF Active
    <3>4. CASE u # t
      BY ZenonT(60), <1>6, <1>7, <1>8, <3>1, <3>2, <3>4
    <3>. QED BY Zenon, <3>3, <3>4
  <2>. QED BY Zenon, <1>6, <2>0, <2>1 DEF CasesFollowReviews
<1>11. CanariesPassed(f)
  <2>1. \A c, d \in f.candidates : c.id = d.id => c = d
    BY ZenonT(60), <1>0, <1>1, <1>4, <1>6 DEF CanariesPassed
  <2>2. ASSUME NEW u \in Cases(f), f.cases[u].state \in {"CANARY", "PROMOTED"}
        PROVE  \/ \E d \in f.candidates : d.id = f.cases[u].candidate /\ d.id.case = u /\ d.passed
               \/ /\ u \in Cases(e) /\ e.cases[u].state \in {"CANARY", "PROMOTED"}
                  /\ f.cases[u].candidate = e.cases[u].candidate
    <3>1. CASE u = t
      <4>1. passed = TRUE
        BY Zenon, <1>5, <1>7, <2>2, <3>1
      <4>2. new \in f.candidates /\ new.id = f.cases[u].candidate /\ new.id.case = u /\ new.passed
        BY Zenon, <1>3, <1>4, <1>5, <1>6, <1>7, <3>1, <4>1
      <4>. QED BY Zenon, <4>2
    <3>2. CASE u # t
      BY Zenon, <1>7, <2>2, <3>2 DEF Cases
    <3>. QED BY Zenon, <3>1, <3>2
  <2>. QED BY ZenonT(60), <1>0, <1>6, <2>1, <2>2, CanariesKept
<1>12. SamplesFit(f)
  <2>. SUFFICES ASSUME NEW u \in Reviewed, f.assigned[u] # Absent
                PROVE  /\ f.seen[u] # Absent => f.seen[u].version = f.assigned[u].version
                       /\ f.assigned[u].candidate =>
                            \E d \in f.candidates : /\ d.id.case = f.assigned[u].case
                                 /\ d.version = f.assigned[u].version /\ d.passed
    BY Zenon DEF SamplesFit
  <2>1. f.assigned[u] = e.assigned[u] /\ f.seen[u] = e.seen[u] /\ e.candidates \subseteq f.candidates
    BY Zenon, <1>6
  <2>. QED BY <2>1 DEF EngineSound, SamplesFit
<1>13. ActiveHasOrigin(f)
  <2>1. \A u \in Reviewed, which \in BOOLEAN : Sampled(e, u, which) \subseteq Sampled(f, u, which)
    BY Zenon, <1>6 DEF Sampled
  <2>2. \A u \in Cases(e) :
          /\ u \in Cases(f) /\ f.cases[u].component = e.cases[u].component
          /\ f.cases[u].version = e.cases[u].version
          /\ e.cases[u].state = "PROMOTED" =>
               f.cases[u].state = "PROMOTED" /\ f.cases[u].candidate = e.cases[u].candidate
    BY Zenon, <1>1, <1>5, <1>7 DEF Cases
  <2>3. e.candidates \subseteq f.candidates /\ f.active = e.active
    BY Zenon, <1>6
  <2>. QED BY Zenon, <1>0, <1>11, <2>1, <2>2, <2>3, OriginKept DEF EngineSound
<1>. QED BY Zenon, <1>9, <1>10, <1>11, <1>12, <1>13 DEF EngineSound

\* A task is assigned to an arm of the canary.
LEMMA AssignedSound ==
  ASSUME NEW e, NEW now \in Nat, EngineSound(e, now), NEW case \in Reviewed, NEW t \in Reviewed,
         NEW arm \in BOOLEAN, e.seen[t] = Absent
  PROVE  EngineSound(Assigned(e, case, t, arm, now), now)
<1>. DEFINE version == IF arm THEN CandidateOf(e, case).version ELSE e.cases[case].version
            a == [case |-> case, candidate |-> arm, version |-> version]
            f == [e EXCEPT !.assigned[t] = a]
<1>0. EngineShape(e) /\ CanariesPassed(e)
  BY Zenon DEF EngineSound
<1>1. SUFFICES ASSUME e.assigned[t] = Absent, case \in Cases(e), e.cases[case].state = "CANARY"
               PROVE  EngineSound(f, now)
  <2>1. \/ Assigned(e, case, t, arm, now) = e
        \/ /\ e.assigned[t] = Absent /\ case \in Cases(e) /\ e.cases[case].state = "CANARY"
           /\ Assigned(e, case, t, arm, now) = f
    BY Zenon DEF Assigned, Cases
  <2>. HIDE DEF f
  <2>. QED BY Zenon, <1>1, <2>1
<1>2. /\ CandidateOf(e, case) \in e.candidates /\ CandidateOf(e, case).id.case = case
      /\ CandidateOf(e, case).passed
  BY Zenon, <1>0, <1>1, CandidateIs
<1>3. version \in Nat
  BY Zenon, <1>0, <1>1, <1>2 DEF EngineShape, CandidateRow, CaseRow, Cases
<1>4. /\ a \in AssignmentRow /\ a.case = case /\ a.candidate = arm /\ a.version = version
  BY Zenon, <1>3 DEF AssignmentRow
<1>5. /\ DOMAIN f = DOMAIN e /\ f.cases = e.cases /\ f.cooldown = e.cooldown /\ f.seen = e.seen
      /\ f.candidates = e.candidates /\ f.assigned = [e.assigned EXCEPT ![t] = a]
      /\ f.active = e.active /\ f.rollbacks = e.rollbacks /\ f.next = e.next
  BY Zenon, <1>0 DEF EngineShape
<1>. HIDE DEF f, a
<1>6. f.assigned[t] = a /\ \A u \in Reviewed \ {t} : f.assigned[u] = e.assigned[u]
  BY Zenon, <1>0, <1>5 DEF EngineShape
<1>7. EngineShape(f)
  BY SMTT(60), <1>0, <1>4, <1>5 DEF EngineShape
<1>8. CasesFollowReviews(f, now)
  BY <1>5 DEF EngineSound, CasesFollowReviews, Cases
<1>9. CanariesPassed(f)
  <2>1. Cases(f) = Cases(e) /\ \A c, d \in f.candidates : c.id = d.id => c = d
    BY <1>0, <1>5 DEF Cases, CanariesPassed
  <2>. QED BY Zenon, <1>0, <1>5, <2>1, CanariesKept
<1>10. SamplesFit(f)
  <2>. SUFFICES ASSUME NEW u \in Reviewed, f.assigned[u] # Absent
                PROVE  /\ f.seen[u] # Absent => f.seen[u].version = f.assigned[u].version
                       /\ f.assigned[u].candidate =>
                            \E d \in f.candidates : /\ d.id.case = f.assigned[u].case
                                 /\ d.version = f.assigned[u].version /\ d.passed
    BY Zenon DEF SamplesFit
  <2>1. CASE u = t
    <3>1. f.seen[u] = Absent
      BY Zenon, <1>5, <2>1
    <3>2. ASSUME f.assigned[u].candidate
          PROVE  /\ CandidateOf(e, case) \in f.candidates
                 /\ CandidateOf(e, case).id.case = f.assigned[u].case
                 /\ CandidateOf(e, case).version = f.assigned[u].version
                 /\ CandidateOf(e, case).passed
      BY ZenonT(60), <1>2, <1>4, <1>5, <1>6, <2>1, <3>2
    <3>. QED BY Zenon, <3>1, <3>2
  <2>2. CASE u # t
    BY <1>5, <1>6, <2>2 DEF EngineSound, SamplesFit
  <2>. QED BY Zenon, <2>1, <2>2
<1>11. ActiveHasOrigin(f)
  <2>1. \A u \in Reviewed, which \in BOOLEAN : Sampled(e, u, which) \subseteq Sampled(f, u, which)
    BY Zenon, <1>1, <1>5, <1>6 DEF Sampled
  <2>2. Cases(f) = Cases(e)
    BY Zenon, <1>5 DEF Cases
  <2>. QED BY Zenon, <1>0, <1>5, <1>9, <2>1, <2>2, OriginKept DEF EngineSound
<1>. QED BY Zenon, <1>7, <1>8, <1>9, <1>10, <1>11 DEF EngineSound

\* A case that ends, in a state that asks for no candidate or keeps its own, and
\* leaves the component to a configuration it accounts for.
LEMMA ClosingIsSound ==
  ASSUME NEW e, NEW now \in Nat, EngineSound(e, now), NEW t \in Cases(e), NEW f, EngineShape(f),
         NEW entry \in CaseRow, entry.component = e.cases[t].component, entry.version = e.cases[t].version,
         entry.candidate = e.cases[t].candidate,
         entry.state = "PROMOTED" => e.cases[t].state = "CANARY",
         entry.state \notin Active,
         f.cases = [e.cases EXCEPT ![t] = entry],
         f.cooldown = [e.cooldown EXCEPT ![entry.component] = now + Cooldown],
         f.seen = e.seen, f.candidates = e.candidates, f.assigned = e.assigned,
         NEW v, f.active = [e.active EXCEPT ![entry.component] = v],
         Accounts(f, t, entry.component, v)
  PROVE  EngineSound(f, now)
<1>0. EngineShape(e) /\ CanariesPassed(e) /\ CasesFollowReviews(e, now)
  BY Zenon DEF EngineSound
<1>1. t \in Reviewed /\ entry # Absent /\ entry.component \in Components
  BY Zenon, ImprovementAssumption DEF Cases, CaseRow
<1>2. /\ f.cases[t] = entry /\ Cases(f) = Cases(e)
      /\ \A u \in Reviewed \ {t} : f.cases[u] = e.cases[u]
  BY SMTT(60), <1>0, <1>1 DEF EngineShape, Cases
<1>3. \A c \in Components : \/ f.cooldown[c] = e.cooldown[c] /\ f.active[c] = e.active[c]
                                 /\ c # entry.component
                            \/ f.cooldown[c] = now + Cooldown /\ f.active[c] = v /\ c = entry.component
  BY <1>0, <1>1 DEF EngineShape
<1>4. CasesFollowReviews(f, now)
  <2>1. ASSUME NEW u \in Cases(f)
        PROVE  /\ f.seen[u] # Absent /\ f.seen[u].component = f.cases[u].component
               /\ f.cases[u].state \notin Active => f.cooldown[f.cases[u].component] > f.seen[u].at
    <3>1. /\ u \in Cases(e) /\ u \in Reviewed /\ e.seen[u] # Absent /\ e.seen[u].at \in Nat
          /\ e.seen[u].at <= now /\ e.seen[u].component = e.cases[u].component
          /\ e.cases[u].component \in Components
          /\ e.cases[u].state \notin Active => e.cooldown[e.cases[u].component] > e.seen[u].at
      BY SMTT(60), <1>0, <1>2 DEF CasesFollowReviews, Cases, EngineShape, ObservationRow, CaseRow
    <3>2. now + Cooldown > e.seen[u].at
      BY <3>1, ImprovementAssumption
    <3>3. CASE u = t
      BY ZenonT(60), <1>1, <1>2, <1>3, <3>1, <3>2, <3>3
    <3>4. CASE u # t
      BY SMTT(60), <1>2, <1>3, <3>1, <3>2, <3>4
    <3>. QED BY ZenonT(60), <3>3, <3>4
  <2>. QED BY Zenon, <1>0, <2>1 DEF CasesFollowReviews
<1>5. CanariesPassed(f)
  <2>1. \A c, d \in f.candidates : c.id = d.id => c = d
    BY Zenon, <1>0 DEF CanariesPassed
  <2>2. ASSUME NEW u \in Cases(f), f.cases[u].state \in {"CANARY", "PROMOTED"}
        PROVE  /\ u \in Cases(e) /\ e.cases[u].state \in {"CANARY", "PROMOTED"}
               /\ f.cases[u].candidate = e.cases[u].candidate
    BY Zenon, <1>2, <2>2 DEF Active, Cases
  <2>. QED BY ZenonT(60), <1>0, <2>1, <2>2, CanariesKept
<1>6. SamplesFit(f)
  <2>1. SamplesFit(e) /\ f.seen = e.seen /\ f.assigned = e.assigned /\ f.candidates = e.candidates
    BY Zenon DEF EngineSound
  <2>. QED BY ZenonT(60), <2>1 DEF SamplesFit
<1>7. ActiveHasOrigin(f)
  <2>1. \A u \in Reviewed, which \in BOOLEAN : Sampled(e, u, which) \subseteq Sampled(f, u, which)
    BY Zenon DEF Sampled
  <2>2. \A u \in Cases(e) :
          /\ u \in Cases(f) /\ f.cases[u].component = e.cases[u].component
          /\ f.cases[u].version = e.cases[u].version
    BY Zenon, <1>2 DEF Cases
  <2>3. ASSUME NEW c \in Components
        PROVE \/ \E u \in Cases(f) : Accounts(f, u, c, f.active[c])
              \/ /\ f.active[c] = e.active[c]
                 /\ \A u \in Cases(e) :
                      e.cases[u].component = c /\ e.cases[u].state = "PROMOTED" =>
                        f.cases[u].state = "PROMOTED" /\ f.cases[u].candidate = e.cases[u].candidate
    <3>1. CASE c = entry.component
      BY <1>2, <1>3, <3>1
    <3>2. CASE c # entry.component
      <4>1. \A u \in Cases(e) : e.cases[u].component = c => f.cases[u] = e.cases[u]
        BY ZenonT(60), <1>2, <3>2 DEF Cases
      <4>. QED BY Zenon, <1>3, <3>2, <4>1
    <3>. QED BY ZenonT(60), <3>1, <3>2
  <2>. QED BY Zenon, <1>0, <1>5, <2>1, <2>2, <2>3, OriginKept DEF EngineSound
<1>. QED BY Zenon, <1>4, <1>5, <1>6, <1>7 DEF EngineSound

\* A canary is rolled back to the configuration its case was opened under.
LEMMA RolledBackSound ==
  ASSUME NEW e, NEW now \in Nat, EngineSound(e, now), NEW t \in Cases(e)
  PROVE  EngineSound(RolledBack(e, t, now), now)
<1>. DEFINE case == e.cases[t]
            count == 1 + IF e.rollbacks[case.component] = Absent THEN case.rollbacks
                         ELSE e.rollbacks[case.component]
            entry == [case EXCEPT !.rollbacks = count,
                                !.state = IF count >= 2 THEN "FROZEN" ELSE "ROLLED_BACK"]
            f == RolledBack(e, t, now)
<1>0. EngineShape(e)
  BY Zenon DEF EngineSound
<1>1. /\ case \in CaseRow /\ case.component \in Components /\ case.version \in Nat /\ t \in Reviewed
  BY Zenon, <1>0 DEF EngineShape, CaseRow, Cases
<1>2. count \in Nat
  BY <1>0, <1>1 DEF EngineShape, CaseRow
<1>3. /\ DOMAIN f = DOMAIN e /\ f.cases = [e.cases EXCEPT ![t] = entry]
      /\ f.cooldown = [e.cooldown EXCEPT ![case.component] = now + Cooldown]
      /\ f.seen = e.seen /\ f.candidates = e.candidates /\ f.assigned = e.assigned
      /\ f.active = [e.active EXCEPT ![case.component] = case.version]
      /\ f.rollbacks = [e.rollbacks EXCEPT ![case.component] = count] /\ f.next = e.next
  BY Zenon, <1>0 DEF EngineShape, RolledBack
<1>. HIDE DEF f, count
<1>4. /\ entry \in CaseRow /\ entry.component = case.component /\ entry.version = case.version
      /\ entry.candidate = case.candidate /\ entry.state \notin Active \cup {"PROMOTED"}
  BY ZenonT(60), <1>1, <1>2 DEF CaseRow, CaseState, Active
<1>. HIDE DEF entry
<1>5. EngineShape(f)
  BY <1>0, <1>1, <1>2, <1>3, <1>4, ImprovementAssumption DEF EngineShape
<1>6. Accounts(f, t, entry.component, case.version)
  BY ZenonT(60), <1>0, <1>1, <1>3, <1>4 DEF Accounts, EngineShape
<1>. QED BY SMTT(60), <1>3, <1>4, <1>5, <1>6, ClosingIsSound DEF f

\* A canary with enough samples in both arms is promoted.
LEMMA PromotedSound ==
  ASSUME NEW e, NEW now \in Nat, EngineSound(e, now), NEW t \in Cases(e),
         e.cases[t].state = "CANARY",
         \A which \in BOOLEAN : Arm(e, t, which).samples >= MinSamples
  PROVE  EngineSound(Promoted(e, t, now), now)
<1>. DEFINE case == e.cases[t]
            entry == [case EXCEPT !.state = "PROMOTED"]
            v == CandidateOf(e, t).version
            f == Promoted(e, t, now)
<1>0. EngineShape(e) /\ CanariesPassed(e)
  BY Zenon DEF EngineSound
<1>1. /\ case \in CaseRow /\ case.component \in Components /\ case.version \in Nat /\ t \in Reviewed
  BY Zenon, <1>0 DEF EngineShape, CaseRow, Cases
<1>2. CandidateOf(e, t) \in e.candidates /\ CandidateOf(e, t).id = case.candidate
  BY Zenon, <1>0, CandidateIs
<1>3. v \in Nat
  BY Zenon, <1>0, <1>2 DEF EngineShape, CandidateRow
<1>. HIDE DEF v
<1>4. /\ DOMAIN f = DOMAIN e /\ f.cases = [e.cases EXCEPT ![t] = entry]
      /\ f.cooldown = [e.cooldown EXCEPT ![case.component] = now + Cooldown]
      /\ f.seen = e.seen /\ f.candidates = e.candidates /\ f.assigned = e.assigned
      /\ f.active = [e.active EXCEPT ![case.component] = v]
      /\ f.rollbacks = e.rollbacks /\ f.next = e.next
  BY Zenon, <1>0 DEF EngineShape, Promoted, v
<1>. HIDE DEF f
<1>5. /\ entry \in CaseRow /\ entry.component = case.component /\ entry.version = case.version
      /\ entry.candidate = case.candidate /\ entry.state = "PROMOTED"
  BY ZenonT(60), <1>1 DEF CaseRow, CaseState
<1>. HIDE DEF entry
<1>6. EngineShape(f)
  BY <1>0, <1>1, <1>3, <1>4, <1>5, ImprovementAssumption DEF EngineShape
<1>7. f.cases[t] = entry
  BY ZenonT(60), <1>0, <1>1, <1>4 DEF EngineShape
<1>8. CandidateOf(f, t) = CandidateOf(e, t)
  BY <1>4, <1>5, <1>7 DEF CandidateOf
<1>9. \A which \in BOOLEAN : Cardinality(Sampled(f, t, which)) >= MinSamples
  <2>1. \A which \in BOOLEAN : Sampled(f, t, which) = Sampled(e, t, which)
    BY <1>4 DEF Sampled
  <2>. QED BY <2>1, ArmSamples
<1>10. Accounts(f, t, entry.component, v)
  BY Zenon, <1>5, <1>7, <1>8, <1>9 DEF Accounts, v
<1>11. entry.state \notin Active
  BY Zenon, <1>5 DEF Active
<1>. QED BY ZenonT(60), <1>4, <1>5, <1>6, <1>10, <1>11, ClosingIsSound DEF f

\* evaluate: too early, promoted or rolled back.
LEMMA EvaluatedSound ==
  ASSUME NEW e, NEW now \in Nat, EngineSound(e, now), NEW t \in Reviewed
  PROVE  EngineSound(Evaluated(e, t, now), now)
<1>. DEFINE x == Expire(e, now)
<1>1. EngineSound(x, now)
  BY Zenon, ExpireSound
<1>2. Evaluated(e, t, now) =
        IF ~e.enabled THEN e
        ELSE IF x.cases[t] = Absent \/ x.cases[t].state # "CANARY" THEN x
        ELSE EvaluatedCanary(x, t, now)
  BY Zenon DEF Evaluated
<1>. HIDE DEF x
<1>3. ASSUME x.cases[t] # Absent, x.cases[t].state = "CANARY"
      PROVE  EngineSound(EvaluatedCanary(x, t, now), now)
  <2>1. t \in Cases(x)
    BY Zenon, <1>3 DEF Cases
  <2>2. \A which \in BOOLEAN : Arm(x, t, which).samples \in Nat
    BY ArmSamples, SamplesAreCounted
  <2>3. \/ EvaluatedCanary(x, t, now) = x
        \/ EvaluatedCanary(x, t, now) = RolledBack(x, t, now)
        \/ /\ EvaluatedCanary(x, t, now) = Promoted(x, t, now)
           /\ ~(Arm(x, t, TRUE).samples < MinSamples \/ Arm(x, t, FALSE).samples < MinSamples)
    BY Zenon DEF EvaluatedCanary
  <2>4. ASSUME ~(Arm(x, t, TRUE).samples < MinSamples \/ Arm(x, t, FALSE).samples < MinSamples)
        PROVE  \A which \in BOOLEAN : Arm(x, t, which).samples >= MinSamples
    <3>. SUFFICES ASSUME NEW which \in BOOLEAN PROVE Arm(x, t, which).samples >= MinSamples
      BY Zenon
    <3>1. ~(Arm(x, t, which).samples < MinSamples)
      BY Zenon, <2>4
    <3>2. Arm(x, t, which).samples \in Nat
      BY Zenon, <2>2
    <3>. QED BY <3>1, <3>2, ImprovementAssumption
  <2>. QED BY ZenonT(60), <1>1, <1>3, <2>1, <2>3, <2>4, RolledBackSound, PromotedSound
<1>. QED BY Zenon, <1>1, <1>2, <1>3

\* A rollback on request.
LEMMA RequestedSound ==
  ASSUME NEW e, NEW now \in Nat, EngineSound(e, now), NEW t \in Reviewed, NEW target,
         Requested(e, t, target, now) # Absent
  PROVE  EngineSound(Requested(e, t, target, now), now)
<1>. DEFINE x == Expire(e, now)
<1>1. EngineSound(x, now)
  BY Zenon, ExpireSound
<1>2. \/ Requested(e, t, target, now) = e
      \/ Requested(e, t, target, now) = x
      \/ x.cases[t] # Absent /\ Requested(e, t, target, now) = RolledBack(x, t, now)
  BY Zenon DEF Requested
<1>. HIDE DEF x
<1>. QED BY Zenon, <1>1, <1>2, RolledBackSound DEF Cases

\* The engine is replaced and its table written.
LEMMA MutationKeeps ==
  ASSUME EngineInvariant, NEW e, EngineSound(e, clock), NEW why, Mutation(e, why), clock' = clock
  PROVE  EngineInvariant'
BY Zenon DEF EngineInvariant, Mutation, Persist

\* So does a command, unless it is refused.
LEMMA CommandKeeps ==
  ASSUME EngineInvariant, NEW e, e # Absent => EngineSound(e, clock), NEW k, NEW request, NEW why,
         Command(k, request, e, why)
  PROVE  EngineInvariant'
BY Zenon, MutationKeeps DEF Command

\* For any tasks, components, values and times, crashes and repeated commands
\* included: the tables of the engine fit one another (improvement.rs).
THEOREM EngineIsSound == ImprovementSpec => []EngineInvariant
<1>1. EngineInvariant /\ [ImprovementNext]_improvementVars => EngineInvariant'
  <2>. SUFFICES ASSUME EngineInvariant, [ImprovementNext]_improvementVars PROVE EngineInvariant'
    BY Zenon
  <2>0. clock \in Nat /\ EngineSound(engine, clock) /\ EngineShape(engine)
    BY Zenon DEF EngineInvariant, EngineSound
  <2>1. CASE PassTime
    <3>1. clock' = clock + 1 /\ engine' = engine
      BY Zenon, <2>1 DEF PassTime
    <3>2. \A t \in Reviewed : engine.seen[t] # Absent => engine.seen[t].at \in Nat
      BY ZenonT(60), <2>0 DEF EngineShape, ObservationRow
    <3>3. CasesFollowReviews(engine, clock + 1)
      BY <2>0, <3>2 DEF EngineSound, CasesFollowReviews
    <3>. QED BY <2>0, <3>1, <3>3 DEF EngineInvariant, EngineSound
  <2>2. CASE SetImprovementEnabled
    <3>. DEFINE f == [engine EXCEPT !.enabled = ~@]
    <3>1. Mutation(f, "flag") /\ clock' = clock
      BY Zenon, <2>2 DEF SetImprovementEnabled
    <3>2. /\ DOMAIN f = DOMAIN engine /\ f.cases = engine.cases /\ f.cooldown = engine.cooldown
          /\ f.seen = engine.seen /\ f.candidates = engine.candidates
          /\ f.assigned = engine.assigned /\ f.active = engine.active
          /\ f.rollbacks = engine.rollbacks /\ f.next = engine.next
      BY Zenon, <2>0 DEF EngineShape
    <3>. HIDE DEF f
    <3>3. Cases(f) = Cases(engine)
      BY ZenonT(60), <3>2 DEF Cases
    <3>4. EngineShape(f) /\ CasesFollowReviews(f, clock) /\ SamplesFit(f)
      BY <2>0, <3>2, <3>3 DEF EngineSound, EngineShape, CasesFollowReviews, SamplesFit
    <3>5. CanariesPassed(f)
      <4>1. \A c, d \in f.candidates : c.id = d.id => c = d
        BY Zenon, <2>0, <3>2 DEF EngineSound, CanariesPassed
      <4>. QED BY Zenon, <2>0, <3>2, <3>3, <4>1, CanariesKept DEF EngineSound
    <3>6. ActiveHasOrigin(f)
      <4>1. \A t \in Reviewed, which \in BOOLEAN :
              Sampled(engine, t, which) \subseteq Sampled(f, t, which)
        BY Zenon, <3>2 DEF Sampled
      <4>. QED BY Zenon, <2>0, <3>2, <3>3, <3>5, <4>1, OriginKept DEF EngineSound
    <3>7. EngineSound(f, clock)
      BY Zenon, <3>4, <3>5, <3>6 DEF EngineSound
    <3>. QED BY Zenon, <3>1, <3>7, MutationKeeps
  <2>3. ASSUME NEW t \in Reviewed, NEW c \in Components, NEW v \in 1 .. engine.next, NEW r \in Reports,
               RecordReviewObservation(t, c, v, r)
        PROVE  EngineInvariant'
    <3>. DEFINE o == [component |-> c, version |-> v, at |-> clock, report |-> r]
                e == Observed(engine, t, o)
                f == IF e.seen[t] = o /\ Eligible(e, o) THEN Opened(e, t, o) ELSE e
    <3>1. Mutation(f, "observation") /\ clock' = clock
      BY Zenon, <2>3 DEF RecordReviewObservation
    <3>2. o \in ObservationRow /\ o.at = clock
      <4>1. v \in Nat
        BY <2>0 DEF EngineShape
      <4>. QED BY Zenon, <2>0, <4>1 DEF ObservationRow
    <3>. HIDE DEF o
    <3>3. EngineSound(e, clock)
      BY Zenon, <2>0, <3>2, ObservedSound
    <3>. HIDE DEF e
    <3>4. EngineSound(f, clock)
      BY Zenon, <2>0, <3>2, <3>3, OpenedSound
    <3>. HIDE DEF f
    <3>. QED BY Zenon, <3>1, <3>4, MutationKeeps
  <2>4. ASSUME NEW k \in Keys, NEW t \in Reviewed, NEW value \in Values, NEW passed \in BOOLEAN,
               ImprovementPropose(k, t, value, passed)
        PROVE  EngineInvariant'
    <3>. DEFINE e == Proposed(engine, t, value, passed, clock)
    <3>1. e # Absent => EngineSound(e, clock)
      BY Zenon, <2>0, ProposedSound
    <3>2. \E request, why : Command(k, request, e, why)
      BY Zenon, <2>4 DEF ImprovementPropose
    <3>. HIDE DEF e
    <3>. QED BY Zenon, <3>1, <3>2, CommandKeeps
  <2>5. ASSUME NEW k \in Keys, NEW t \in Reviewed, ImprovementRollback(k, t)
        PROVE  EngineInvariant'
    <3>. DEFINE e == Requested(engine, t, engine.cases[t].version, clock)
    <3>1. e # Absent => EngineSound(e, clock)
      BY Zenon, <2>0, RequestedSound
    <3>2. \E request, why : Command(k, request, e, why)
      BY Zenon, <2>5 DEF ImprovementRollback
    <3>. HIDE DEF e
    <3>. QED BY Zenon, <3>1, <3>2, CommandKeeps
  <2>6. ASSUME NEW case \in Reviewed, NEW t \in Reviewed, NEW arm \in BOOLEAN, AssignCanary(case, t, arm)
        PROVE  EngineInvariant'
    <3>. DEFINE e == Assigned(engine, case, t, arm, clock)
    <3>1. engine.seen[t] = Absent /\ Mutation(e, "assignment") /\ clock' = clock
      BY Zenon, <2>6 DEF AssignCanary
    <3>2. EngineSound(e, clock)
      BY Zenon, <2>0, <3>1, AssignedSound
    <3>. HIDE DEF e
    <3>. QED BY Zenon, <3>1, <3>2, MutationKeeps
  <2>7. ASSUME NEW t \in Reviewed, EvaluateCanary(t)
        PROVE  EngineInvariant'
    <3>. DEFINE e == Evaluated(engine, t, clock)
    <3>1. Mutation(e, "evaluation") /\ clock' = clock
      BY Zenon, <2>7 DEF EvaluateCanary
    <3>2. EngineSound(e, clock)
      BY Zenon, <2>0, EvaluatedSound
    <3>. HIDE DEF e
    <3>. QED BY Zenon, <3>1, <3>2, MutationKeeps
  <2>8. CASE UNCHANGED improvementVars
    BY Zenon, <2>8 DEF improvementVars, EngineInvariant
  <2>. QED BY ZenonT(60), <2>1, <2>2, <2>3, <2>4, <2>5, <2>6, <2>7, <2>8 DEF ImprovementNext
<1>. QED BY <1>1, EngineStarts, PTL DEF ImprovementSpec

\* What is active is then earned.
LEMMA SoundEnginesEarn ==
  ASSUME EngineInvariant
  PROVE  ActiveIsEarned
<1>0. ActiveHasOrigin(engine) /\ SamplesFit(engine)
  BY Zenon DEF EngineInvariant, EngineSound
<1>1. ASSUME NEW c \in Components, engine.active[c] # Absent
      PROVE  \E t \in Cases(engine) :
               /\ engine.cases[t].component = c
               /\ \/ engine.active[c] = engine.cases[t].version
                  \/ /\ engine.cases[t].state = "PROMOTED"
                     /\ engine.active[c] = CandidateOf(engine, t).version
                     /\ \A arm \in BOOLEAN : Arm(engine, t, arm).samples >= MinSamples
  <2>1. PICK t \in Cases(engine) : Accounts(engine, t, c, engine.active[c])
    BY Zenon, <1>0, <1>1 DEF ActiveHasOrigin
  <2>2. \A arm \in BOOLEAN : Arm(engine, t, arm).samples = Cardinality(Sampled(engine, t, arm))
    BY Zenon, ArmSamples
  <2>. QED BY Zenon, <2>1, <2>2 DEF Accounts
<1>2. ASSUME NEW t \in Reviewed, engine.assigned[t] # Absent /\ engine.seen[t] # Absent
      PROVE  LET a == engine.assigned[t]
             IN /\ engine.seen[t].version = a.version
                /\ a.candidate => \E d \in engine.candidates :
                                     d.id.case = a.case /\ d.version = a.version /\ d.passed
  BY Zenon, <1>0, <1>2 DEF SamplesFit
<1>. QED BY Zenon, <1>1, <1>2 DEF ActiveIsEarned

\* A configuration is active only because a canary with enough samples in each
\* arm promoted it, or because a rollback restored it (improvement.rs,
\* evaluate_canary and rollback_case).
THEOREM ActiveIsAlwaysEarned == ImprovementSpec => []ActiveIsEarned
BY EngineIsSound, SoundEnginesEarn, PTL

-----------------------------------------------------------------------------
(* DashboardServer: the settings file.                                     *)

\* An update at one of its steps.
UpdateShape(r) ==
  \/ r = NoUpdate
  \/ /\ DOMAIN r = {"pc", "doc", "at", "alone"}
     /\ r.pc \in {"stage", "write", "rename", "audit"}
     /\ Whole(r.doc)
     /\ r.alone \in BOOLEAN

\* What an update that nobody overlapped has done so far: it truncated the
\* temporary file, wrote a whole document to it through a handle that is still
\* on it, and renamed it.
AloneAt(r) ==
  /\ r.pc = "write" => r.at = "tmp" /\ disk.tmp = Torn
  /\ r.pc = "rename" => Whole(disk.tmp)
  /\ r.pc = "audit" => Whole(disk.config)

\* While an update is alone there is no other one.
LoneUpdates ==
  /\ DOMAIN disk = {"config", "tmp", "audit"}
  /\ DOMAIN update = Updaters
  /\ \A u \in Updaters : UpdateShape(update[u])
  /\ \A u \in Updaters : update[u] # NoUpdate /\ update[u].alone =>
       /\ \A v \in Updaters : v # u => update[v] = NoUpdate
       /\ AloneAt(update[u])

\* An idle update is no update, and a torn document is not whole.
LEMMA UpdateFacts ==
  /\ NoUpdate.pc = "idle"
  /\ \A r : UpdateShape(r) => (r = NoUpdate <=> r.pc = "idle")
  /\ ~Whole(Torn)
BY DEF NoUpdate, UpdateShape, Whole, Torn

\* A PUT of the settings starts an update: alone when no other one is under
\* way.
LEMMA PutKeepsLone ==
  ASSUME LoneUpdates, NEW u \in Updaters, NEW t \in Tokens, NEW d \in Documents,
         PutSettings(u, t, d)
  PROVE  LoneUpdates'
<1>. DEFINE new == [pc |-> "stage", doc |-> Document(NextVersion, d), at |-> "none",
                    alone |-> \A v \in Updaters : update[v] = NoUpdate]
<1>1. /\ disk' = disk /\ DOMAIN update' = Updaters
      /\ update'[u] = new
      /\ \A w \in Updaters : w # u =>
           update'[w] = IF update[w] = NoUpdate THEN NoUpdate
                        ELSE [update[w] EXCEPT !.alone = FALSE]
  BY Zenon DEF PutSettings
<1>2. UpdateShape(new) /\ new # NoUpdate /\ new.pc = "stage"
  BY Zenon DEF UpdateShape, Whole, Document, NoUpdate
<1>3. ASSUME NEW w \in Updaters, w # u, update[w] # NoUpdate
      PROVE  UpdateShape(update'[w]) /\ ~update'[w].alone /\ update'[w] # NoUpdate
  <2>1. UpdateShape(update[w])
    BY Zenon DEF LoneUpdates
  <2>2. /\ update'[w].pc = update[w].pc /\ update'[w].doc = update[w].doc
        /\ update'[w].alone = FALSE /\ DOMAIN update'[w] = {"pc", "doc", "at", "alone"}
    BY Zenon, <1>1, <1>3, <2>1 DEF UpdateShape
  <2>. QED BY Zenon, <1>3, <2>1, <2>2, UpdateFacts DEF UpdateShape
<1>4. new.alone => \A v \in Updaters : update[v] = NoUpdate
  BY Zenon
<1>. HIDE DEF new
<1>5. \A w \in Updaters : UpdateShape(update'[w])
  BY Zenon, <1>1, <1>2, <1>3 DEF UpdateShape
<1>6. ASSUME NEW w \in Updaters, update'[w] # NoUpdate, update'[w].alone
      PROVE  /\ \A v \in Updaters : v # w => update'[v] = NoUpdate
             /\ AloneAt(update[w])'
  <2>1. w = u
    BY Zenon, <1>1, <1>3, <1>6
  <2>. QED BY Zenon, <1>1, <1>2, <1>4, <1>6, <2>1 DEF AloneAt
<1>. QED BY Zenon, <1>1, <1>5, <1>6 DEF LoneUpdates

\* The steps of one update: another update that is alone cannot be there.
LEMMA StepKeepsLone ==
  ASSUME LoneUpdates, NEW u \in Updaters, update[u] # NoUpdate,
         DOMAIN disk' = {"config", "tmp", "audit"}, DOMAIN update' = Updaters,
         \A w \in Updaters : w # u /\ update[w] = NoUpdate => update'[w] = NoUpdate,
         \A w \in Updaters : w # u /\ update[w] # NoUpdate =>
           UpdateShape(update'[w]) /\ (update'[w] # NoUpdate => update'[w].alone = update[w].alone),
         UpdateShape(update'[u]),
         update'[u] # NoUpdate => update'[u].alone = update[u].alone,
         update'[u] # NoUpdate /\ update[u].alone => AloneAt(update[u])'
  PROVE  LoneUpdates'
<1>1. \A w \in Updaters : UpdateShape(update'[w])
  BY Zenon DEF LoneUpdates, UpdateShape
<1>2. ASSUME NEW w \in Updaters, update'[w] # NoUpdate, update'[w].alone
      PROVE  /\ \A v \in Updaters : v # w => update'[v] = NoUpdate
             /\ AloneAt(update[w])'
  <2>1. w = u
    BY Zenon, <1>2 DEF LoneUpdates
  <2>. QED BY Zenon, <1>2, <2>1 DEF LoneUpdates
<1>. QED BY Zenon, <1>1, <1>2 DEF LoneUpdates

\* The steps of an update: stage, write, rename, audit.
LEMMA UpdatesKeepLone ==
  ASSUME LoneUpdates, NEW u \in Updaters,
         CreateStaged(u) \/ WriteStaged(u) \/ RenameStaged(u) \/ AppendAudit(u)
  PROVE  LoneUpdates'
<1>1. update[u] # NoUpdate /\ UpdateShape(update[u]) /\ UpdateShape(NoUpdate)
  BY Zenon, UpdateFacts DEF CreateStaged, WriteStaged, RenameStaged, AppendAudit, LoneUpdates, UpdateShape
<1>2. /\ DOMAIN update[u] = {"pc", "doc", "at", "alone"} /\ Whole(update[u].doc)
      /\ DOMAIN disk = {"config", "tmp", "audit"} /\ DOMAIN update = Updaters
      /\ update[u].alone \in BOOLEAN /\ \A w \in Updaters : UpdateShape(update[w])
  BY Zenon, <1>1 DEF UpdateShape, LoneUpdates
<1>3. ASSUME NEW s \in {"stage", "write", "rename", "audit"}, NEW file, UpdateStep(u, s, file)
      PROVE  /\ DOMAIN update' = Updaters
             /\ \A w \in Updaters : w # u => update'[w] = update[w]
             /\ update'[u].pc = s /\ update'[u].at = file /\ update'[u].alone = update[u].alone
             /\ UpdateShape(update'[u])
  BY Zenon, <1>2, <1>3 DEF UpdateStep, UpdateShape
<1>4. ASSUME update' = [update EXCEPT ![u] = NoUpdate]
      PROVE  /\ DOMAIN update' = Updaters
             /\ \A w \in Updaters : w # u => update'[w] = update[w]
             /\ update'[u] = NoUpdate
  BY Zenon, <1>2, <1>4
<1>5. ASSUME DOMAIN disk' = {"config", "tmp", "audit"}, update' = [update EXCEPT ![u] = NoUpdate]
      PROVE  LoneUpdates'
  BY Zenon, <1>1, <1>2, <1>4, <1>5, StepKeepsLone
<1>6. CASE CreateStaged(u)
  <2>1. CASE disk' = [disk EXCEPT !.tmp = Torn] /\ UpdateStep(u, "write", "tmp")
    <3>1. disk'.tmp = Torn /\ DOMAIN disk' = {"config", "tmp", "audit"}
      BY Zenon, <1>2, <2>1
    <3>2. /\ DOMAIN update' = Updaters
          /\ \A w \in Updaters : w # u => update'[w] = update[w]
          /\ update'[u].pc = "write" /\ update'[u].at = "tmp" /\ update'[u].alone = update[u].alone
          /\ UpdateShape(update'[u])
      BY Zenon, <2>1, <1>3
    <3>3. AloneAt(update[u])'
      BY Zenon, <3>1, <3>2 DEF AloneAt
    <3>. QED BY ZenonT(60), <1>1, <1>2, <3>1, <3>2, <3>3, StepKeepsLone
  <2>2. CASE UpdateFails(u) /\ UNCHANGED disk
    BY Zenon, <1>2, <1>5, <2>2 DEF UpdateFails
  <2>. QED BY Zenon, <1>6, <2>1, <2>2 DEF CreateStaged
<1>7. CASE WriteStaged(u)
  <2>1. DOMAIN disk' = {"config", "tmp", "audit"}
    BY Zenon, <1>2, <1>7 DEF WriteStaged
  <2>2. CASE UpdateFails(u)
    BY Zenon, <1>5, <2>1, <2>2 DEF UpdateFails
  <2>3. CASE UpdateStep(u, "rename", update[u].at) /\ ~UpdateFails(u)
    <3>1. /\ DOMAIN update' = Updaters
          /\ \A w \in Updaters : w # u => update'[w] = update[w]
          /\ update'[u].pc = "rename" /\ update'[u].alone = update[u].alone
          /\ UpdateShape(update'[u])
      BY Zenon, <2>3, <1>3
    <3>2. ASSUME update[u].alone PROVE AloneAt(update[u])'
      <4>1. update[u].at = "tmp" /\ disk.tmp = Torn
        BY Zenon, <1>1, <1>7, <3>2 DEF LoneUpdates, AloneAt, WriteStaged
      <4>2. disk' = [disk EXCEPT !.tmp = update[u].doc]
        BY Zenon, <1>7, <2>3, <4>1, UpdateFacts DEF WriteStaged
      <4>3. Whole(disk'.tmp)
        BY Zenon, <1>2, <4>2
      <4>. QED BY Zenon, <3>1, <4>3 DEF AloneAt
    <3>. QED BY ZenonT(60), <1>1, <1>2, <2>1, <3>1, <3>2, StepKeepsLone
  <2>. QED BY Zenon, <1>7, <2>2, <2>3 DEF WriteStaged
<1>8. CASE RenameStaged(u)
  <2>1. CASE disk' = [disk EXCEPT !.tmp = NoFile] /\ UpdateFails(u)
    BY Zenon, <1>2, <1>5, <2>1 DEF UpdateFails
  <2>2. CASE /\ disk' = [disk EXCEPT !.config = disk.tmp, !.tmp = NoFile]
             /\ update' = [w \in Updaters |->
                  IF w = u THEN [update[u] EXCEPT !.pc = "audit"]
                  ELSE IF update[w].pc = "write" /\ update[w].at = "tmp"
                       THEN [update[w] EXCEPT !.at = "config"]
                  ELSE update[w]]
    <3>1. disk'.config = disk.tmp /\ DOMAIN disk' = {"config", "tmp", "audit"}
      BY Zenon, <1>2, <2>2
    <3>2. /\ DOMAIN update' = Updaters
          /\ update'[u] = [update[u] EXCEPT !.pc = "audit"]
          /\ \A w \in Updaters : w # u =>
               update'[w] = IF update[w].pc = "write" /\ update[w].at = "tmp"
                            THEN [update[w] EXCEPT !.at = "config"] ELSE update[w]
      BY Zenon, <2>2
    <3>3. /\ update'[u].pc = "audit" /\ update'[u].alone = update[u].alone
          /\ UpdateShape(update'[u])
      BY Zenon, <1>2, <3>2 DEF UpdateShape
    <3>4. ASSUME NEW w \in Updaters, w # u, update[w] = NoUpdate PROVE update'[w] = NoUpdate
      BY Zenon, <3>2, <3>4, UpdateFacts
    <3>5. ASSUME NEW w \in Updaters, w # u, update[w] # NoUpdate
          PROVE  UpdateShape(update'[w]) /\ update'[w].alone = update[w].alone
      <4>1. /\ DOMAIN update[w] = {"pc", "doc", "at", "alone"}
            /\ update[w].pc \in {"stage", "write", "rename", "audit"}
            /\ Whole(update[w].doc) /\ update[w].alone \in BOOLEAN
        BY Zenon, <1>2, <3>5 DEF UpdateShape
      <4>. QED BY <3>2, <3>5, <4>1 DEF UpdateShape
    <3>6. ASSUME update[u].alone PROVE AloneAt(update[u])'
      <4>1. Whole(disk.tmp)
        BY Zenon, <1>1, <1>8, <3>6 DEF LoneUpdates, AloneAt, RenameStaged
      <4>. QED BY Zenon, <3>1, <3>3, <4>1 DEF AloneAt
    <3>. QED BY ZenonT(60), <1>1, <3>1, <3>2, <3>3, <3>4, <3>5, <3>6, StepKeepsLone
  <2>. QED BY Zenon, <1>8, <2>1, <2>2 DEF RenameStaged
<1>9. CASE AppendAudit(u)
  <2>1. DOMAIN disk' = {"config", "tmp", "audit"}
    BY Zenon, <1>2, <1>9 DEF AppendAudit
  <2>. QED BY Zenon, <1>5, <1>9, <2>1 DEF AppendAudit
<1>. QED BY Zenon, <1>6, <1>7, <1>8, <1>9

\* An update that overlapped no other one has done exactly its own steps to the
\* files (settings/mod.rs).
THEOREM UpdatesAreLone == DashboardSpec => []LoneUpdates
<1>1. DashboardInit => LoneUpdates
  BY Zenon DEF DashboardInit, LoneUpdates, UpdateShape
<1>2. LoneUpdates /\ [DashboardNext]_dashboardVars => LoneUpdates'
  <2>1. SUFFICES ASSUME LoneUpdates, [DashboardNext]_dashboardVars PROVE LoneUpdates'
    BY Zenon
  <2>2. CASE UNCHANGED <<disk, update>>
    BY Zenon, <2>1, <2>2 DEF LoneUpdates, AloneAt
  <2>3. CASE DashboardCrash
    BY Zenon, <2>1, <2>3 DEF DashboardCrash, LoneUpdates, UpdateShape
  <2>. QED
    BY Zenon, <2>1, <2>2, <2>3, PutKeepsLone, UpdatesKeepLone
       DEF DashboardNext, dashboardVars, TimePasses, MintBootstrap, ExchangeBootstrap
<1>. QED BY <1>1, <1>2, PTL DEF DashboardSpec

\* An update that no other update overlaps never tears config.toml, whatever
\* earlier updates, failed writes and crashes left in the shared temporary file.
THEOREM LoneUpdatesAreWhole == DashboardSpec => SettingsStayWhole
<1>. DEFINE Safe ==
       disk'.config = Torn =>
         \/ disk.config = Torn /\ \A u \in Updaters : update[u] # NoUpdate /\ update[u].alone
                                                        => update[u].pc # "audit"
         \/ \E u \in Updaters : update[u] # NoUpdate /\ ~update[u].alone
<1>1. LoneUpdates /\ [DashboardNext]_dashboardVars => [Safe]_dashboardVars
  <2>1. SUFFICES ASSUME LoneUpdates, DashboardNext, disk'.config = Torn,
                        \A u \in Updaters : update[u] # NoUpdate => update[u].alone
                 PROVE  /\ disk.config = Torn
                        /\ \A u \in Updaters : update[u] # NoUpdate /\ update[u].alone
                                                        => update[u].pc # "audit"
    BY Zenon
  <2>2. ASSUME NEW u \in Updaters, update[u] # NoUpdate
        PROVE  AloneAt(update[u]) /\ UpdateShape(update[u])
    BY Zenon, <2>1, <2>2 DEF LoneUpdates
  <2>3. disk.config = Torn
    <3>1. CASE disk' = disk
      BY Zenon, <2>1, <3>1
    <3>2. ASSUME NEW u \in Updaters, CreateStaged(u) PROVE disk.config = Torn
      BY Zenon, <2>1, <3>2 DEF CreateStaged, LoneUpdates
    <3>3. ASSUME NEW u \in Updaters, WriteStaged(u) PROVE disk.config = Torn
      <4>1. update[u] # NoUpdate /\ update[u].pc = "write"
        BY Zenon, <3>3, UpdateFacts DEF WriteStaged
      <4>2. update[u].at = "tmp"
        BY Zenon, <2>2, <4>1 DEF AloneAt
      <4>. QED BY Zenon, <2>1, <3>3, <4>2 DEF WriteStaged, LoneUpdates
    <3>4. ASSUME NEW u \in Updaters, RenameStaged(u) PROVE disk.config = Torn
      <4>1. update[u] # NoUpdate /\ update[u].pc = "rename"
        BY Zenon, <3>4, UpdateFacts DEF RenameStaged
      <4>2. Whole(disk.tmp)
        BY Zenon, <2>2, <4>1 DEF AloneAt
      <4>3. disk.tmp # Torn
        BY Zenon, <4>2, UpdateFacts
      <4>. QED BY Zenon, <2>1, <3>4, <4>3 DEF RenameStaged, LoneUpdates
    <3>5. ASSUME NEW u \in Updaters, AppendAudit(u) PROVE disk.config = Torn
      BY Zenon, <2>1, <3>5 DEF AppendAudit, LoneUpdates
    <3>. QED
      BY Zenon, <2>1, <3>1, <3>2, <3>3, <3>4, <3>5
         DEF DashboardNext, TimePasses, MintBootstrap, ExchangeBootstrap, PutSettings,
             DashboardCrash
  <2>4. ASSUME NEW u \in Updaters, update[u] # NoUpdate PROVE update[u].pc # "audit"
    BY Zenon, <2>2, <2>3, <2>4, UpdateFacts DEF AloneAt
  <2>. QED BY Zenon, <2>3, <2>4
<1>. QED BY <1>1, UpdatesAreLone, PTL DEF DashboardSpec, SettingsStayWhole

-----------------------------------------------------------------------------
(* ControlFiles: the lifetime lock.                                        *)

\* The steps at which a process owns the lifetime lock.
Owning == {"check", "held", "copy", "digest", "move"}

\* The steps between creating the lock file and trusting it.
Creating == {"protect", "readback", "cleanup"}

\* Every step of a process.
FileSteps ==
  Owning \cup Creating \cup
  {"idle", "undo", "look", "create", "open", "create1", "create2", "verify1", "verify2",
   "protect1", "protect2"}

\* Handles are open exactly during the steps that need them, an owner's handle
\* is open on the file at the path, and at most one process is between creating
\* the lock file and leaving it to be opened, so only one failed creation can
\* unlink the path.
HandlesFollowSteps ==
  /\ at \in [Procs -> FileSteps]
  /\ held \in [Procs -> Nat \cup {None}]
  /\ writing \in [Procs -> Nat \cup {None}]
  /\ lock \in LockFiles \cup {None}
  /\ \A p \in Procs : at[p] \in Owning => lock # None /\ held[p] = lock.id
  /\ \A p \in Procs : at[p] \notin Owning => held[p] = None
  /\ \A p \in Procs : at[p] # "protect" => writing[p] = None
  /\ \A p \in Procs : at[p] \in Creating => lock # None
  /\ \A p, q \in Procs : at[p] \in Owning /\ at[q] \in Owning => p = q
  /\ \A p, q \in Procs : at[p] \in Creating /\ at[q] \in Creating => p = q

\* The directory steps are none of the lock's.
LEMMA DirectorySteps ==
  ASSUME NEW l \in Levels, NEW name \in {"create", "verify", "protect"}
  PROVE  Step(l, name) \in FileSteps \ (Owning \cup Creating)
<1>1. l = 1 \/ l = 2
  BY DEF Levels
<1>. QED BY <1>1 DEF Step, FileSteps, Owning, Creating

\* A step that leaves the lock and every handle alone keeps the agreement when
\* it leads from a step that owns, or creates, to one that does.
LEMMA QuietStep ==
  ASSUME HandlesFollowSteps, NEW p \in Procs, NEW s \in FileSteps,
         at' = [at EXCEPT ![p] = s], UNCHANGED <<lock, held, writing>>,
         s \in Owning <=> at[p] \in Owning,
         s \in Creating => at[p] \in Creating,
         s # "protect", at[p] # "protect"
  PROVE  HandlesFollowSteps'
BY DEF HandlesFollowSteps

\* A new file identity is a number no handle refers to.
LEMMA FreshIdIsNew ==
  ASSUME HandlesFollowSteps, lock = None
  PROVE  FreshId \in Nat
<1>1. \A p \in Procs : held[p] = None /\ writing[p] = None
  BY Zenon DEF HandlesFollowSteps, Owning, Creating
<1>2. Cardinality(Procs) \in Nat
  BY Zenon, FS_CardinalityType, ControlFilesAssumption
<1>3. 1 \in 1..(2 * Cardinality(Procs) + 1)
  BY <1>2
<1>4. \E i \in 1..(2 * Cardinality(Procs) + 1) :
        \A p \in Procs : held[p] # i /\ writing[p] # i
  BY <1>1, <1>3, ControlFilesAssumption
<1>5. FreshId \in 1..(2 * Cardinality(Procs) + 1)
  BY Zenon, <1>4 DEF FreshId
<1>. QED BY <1>2, <1>5

\* Creating, verifying, protecting and undoing directories moves no handle of
\* the lock file.
LEMMA DirectoryCallsAreQuiet ==
  ASSUME HandlesFollowSteps, NEW p \in Procs,
         \/ Begin(p)
         \/ \E l \in Levels : MakeDirectory(p, l) \/ VerifyDirectory(p, l) \/ ProtectDirectory(p, l)
         \/ DirectoryFails(p) \/ UndoDirectories(p) \/ Look(p)
  PROVE  HandlesFollowSteps'
<1>1. 1 \in Levels /\ 2 \in Levels
  BY DEF Levels
<1>2. \A l \in Levels : \A name \in {"create", "verify", "protect"} :
        Step(l, name) \in FileSteps \ (Owning \cup Creating)
  BY Zenon, DirectorySteps
<1>3. {"idle", "undo", "look", "create", "open"} \subseteq FileSteps \ (Owning \cup Creating)
  BY Zenon DEF FileSteps, Owning, Creating
<1>4. UNCHANGED <<lock, held, writing>>
  BY Zenon DEF Begin, MakeDirectory, VerifyDirectory, ProtectDirectory, DirectoryFails, UndoDirectories,
         Look
<1>5. at[p] \in FileSteps \ (Owning \cup Creating)
  BY Zenon, <1>1, <1>2, <1>3 DEF Begin, MakeDirectory, VerifyDirectory, ProtectDirectory, DirectoryFails,
     UndoDirectories, Look
<1>. DEFINE Moves == \E s \in FileSteps \ (Owning \cup Creating) : at' = [at EXCEPT ![p] = s]
<1>6. Moves
  <2>1. CASE Begin(p)
    BY Zenon, <2>1, <1>1, <1>2 DEF Begin, To
  <2>2. ASSUME NEW l \in Levels, MakeDirectory(p, l) PROVE Moves
    BY Zenon, <2>2, <1>2 DEF MakeDirectory, To
  <2>3. ASSUME NEW l \in Levels, VerifyDirectory(p, l) PROVE Moves
    BY Zenon, <2>3, <1>1, <1>2, <1>3 DEF VerifyDirectory, To
  <2>4. ASSUME NEW l \in Levels, ProtectDirectory(p, l) PROVE Moves
    BY Zenon, <2>4, <1>1, <1>2, <1>3 DEF ProtectDirectory, To
  <2>5. CASE DirectoryFails(p)
    BY Zenon, <2>5, <1>3 DEF DirectoryFails, To
  <2>6. CASE UndoDirectories(p)
    BY Zenon, <2>6, <1>3 DEF UndoDirectories, To
  <2>7. CASE Look(p)
    BY Zenon, <2>7, <1>3 DEF Look, To
  <2>. QED BY Zenon, <2>1, <2>2, <2>3, <2>4, <2>5, <2>6, <2>7
<1>7. PICK s \in FileSteps \ (Owning \cup Creating) : at' = [at EXCEPT ![p] = s]
  BY Zenon, <1>6
<1>8. "protect" \in Creating
  BY Zenon DEF Creating
<1>. QED BY ZenonT(60), <1>4, <1>5, <1>7, <1>8, QuietStep

\* The holder's own work on its staged file does not move the lock.
LEMMA StagingIsQuiet ==
  ASSUME HandlesFollowSteps, NEW p \in Procs,
         \/ CreateStage(p) \/ CopyStage(p) \/ VerifyStage(p) \/ StageFails(p)
         \/ \E replace \in BOOLEAN : MoveStage(p, replace)
  PROVE  HandlesFollowSteps'
<1>1. UNCHANGED <<lock, held, writing>>
  BY Zenon DEF CreateStage, CopyStage, VerifyStage, StageFails, MoveStage
<1>2. at[p] \in Owning /\ at[p] # "protect"
  BY Zenon DEF CreateStage, CopyStage, VerifyStage, StageFails, MoveStage, Owning
<1>3. \E s \in Owning : at' = [at EXCEPT ![p] = s]
  BY Zenon DEF CreateStage, CopyStage, VerifyStage, StageFails, MoveStage, Owning, To
<1>4. PICK s \in Owning : at' = [at EXCEPT ![p] = s]
  BY Zenon, <1>3
<1>5. s \in FileSteps /\ s # "protect" /\ s \notin Creating
  BY Zenon DEF FileSteps, Owning, Creating
<1>. QED BY Zenon, <1>1, <1>2, <1>4, <1>5, QuietStep

\* For any processes, whoever owns the lock has a handle open on the file at
\* the path, and whoever creates it the one it writes (mesh-win32/src/lock.rs:
\* the lock file is opened without sharing).
THEOREM HandlesAreOpenWhenNeeded == FilesSpec => []HandlesFollowSteps
<1>. USE DEF Owning, Creating
<1>1. FilesInit => HandlesFollowSteps
  BY DEF FilesInit, HandlesFollowSteps, FileSteps
<1>2. HandlesFollowSteps /\ [FilesNext]_fileVars => HandlesFollowSteps'
  <2>1. SUFFICES ASSUME HandlesFollowSteps, [FilesNext]_fileVars PROVE HandlesFollowSteps'
    BY Zenon
  <2>2. CASE UNCHANGED fileVars
    BY Zenon, <2>1, <2>2 DEF HandlesFollowSteps, fileVars
  <2>3. ASSUME NEW p \in Procs, CreateLock(p) PROVE HandlesFollowSteps'
    <3>1. CASE Resolves /\ lock = None
      <4>1. FreshId \in Nat
        BY Zenon, <2>1, <3>1, FreshIdIsNew
      <4>2. lock' = [id |-> FreshId, acl |-> ChildAcl(ExactDir, FALSE)]
        BY Zenon, <2>3, <3>1 DEF CreateLock
      <4>3. lock' \in LockFiles /\ lock' # None
        <5>1. lock' \in LockFiles
          BY Zenon, <4>1, <4>2 DEF LockFiles
        <5>. QED BY Zenon, <5>1, ControlFilesAssumption
      <4>4. /\ at' = [at EXCEPT ![p] = "protect"] /\ held' = held
            /\ writing' = [writing EXCEPT ![p] = FreshId]
        BY Zenon, <2>3, <3>1 DEF CreateLock, To
      <4>5. \A q \in Procs : at[q] \notin Owning /\ at[q] \notin Creating
        BY Zenon, <2>1, <3>1 DEF HandlesFollowSteps
      <4>6. \A q \in Procs : held[q] = None /\ writing[q] = None
        BY Zenon, <2>1, <4>5 DEF HandlesFollowSteps
      <4>7. /\ at' \in [Procs -> FileSteps] /\ writing' \in [Procs -> Nat \cup {None}]
            /\ \A q \in Procs : at'[q] = IF q = p THEN "protect" ELSE at[q]
            /\ \A q \in Procs : writing'[q] = IF q = p THEN FreshId ELSE writing[q]
        BY Zenon, <2>1, <4>1, <4>4 DEF HandlesFollowSteps, FileSteps
      <4>8. \A q \in Procs : at'[q] \notin Owning
        BY Zenon, <4>5, <4>7
      <4>9. \A q \in Procs : at'[q] \in Creating \/ at'[q] = "protect" => q = p
        BY Zenon, <4>5, <4>7
      <4>. HIDE DEF Owning, Creating
      <4>10. \A q \in Procs : at'[q] # "protect" => writing'[q] = None
        BY Zenon, <4>6, <4>7
      <4>11. held' \in [Procs -> Nat \cup {None}] /\ \A q \in Procs : held'[q] = None
        BY Zenon, <2>1, <4>4, <4>6 DEF HandlesFollowSteps
      <4>. QED BY Zenon, <4>3, <4>7, <4>8, <4>9, <4>10, <4>11 DEF HandlesFollowSteps
    <3>2. CASE ~(Resolves /\ lock = None)
      <4>1. UNCHANGED <<lock, held, writing>> /\ at' = [at EXCEPT ![p] = "idle"] /\ at[p] = "create"
        BY Zenon, <2>3, <3>2 DEF CreateLock, To
      <4>. QED BY <2>1, <4>1 DEF HandlesFollowSteps, FileSteps
    <3>. QED BY Zenon, <3>1, <3>2
  <2>4. ASSUME NEW p \in Procs, ProtectLock(p) PROVE HandlesFollowSteps'
    <3>1. lock \in LockFiles
      BY Zenon, <2>1, <2>4 DEF ProtectLock, HandlesFollowSteps
    <3>2. lock' \in LockFiles /\ lock'.id = lock.id
      BY Zenon, <2>4, <3>1 DEF ProtectLock, LockFiles
    <3>3. lock' # None
      BY Zenon, <3>2, ControlFilesAssumption
    <3>4. /\ at[p] = "protect" /\ at' = [at EXCEPT ![p] = "readback"] /\ held' = held
          /\ writing' = [writing EXCEPT ![p] = None]
      BY Zenon, <2>4 DEF ProtectLock, To
    <3>. QED BY <2>1, <3>2, <3>3, <3>4 DEF HandlesFollowSteps, FileSteps
  <2>5. ASSUME NEW p \in Procs, ReadBackLock(p) PROVE HandlesFollowSteps'
    <3>1. /\ at[p] = "readback" /\ UNCHANGED <<lock, held, writing>>
          /\ \E s \in {"open", "cleanup"} : at' = [at EXCEPT ![p] = s]
      BY ZenonT(60), <2>5 DEF ReadBackLock, To
    <3>. QED BY Zenon, <2>1, <3>1, QuietStep DEF FileSteps
  <2>6. ASSUME NEW p \in Procs, CleanupLock(p) PROVE HandlesFollowSteps'
    <3>1. /\ at[p] = "cleanup" /\ lock # None
          /\ at' = [at EXCEPT ![p] = "idle"] /\ held' = held
          /\ writing' = [writing EXCEPT ![p] = None]
          /\ lock' = lock \/ lock' = None
          /\ (\E q \in Procs : held[q] = lock.id) => lock' = lock
      BY Zenon, <2>1, <2>6 DEF CleanupLock, To, LockBusy, HandlesFollowSteps
    <3>2. \A q \in Procs : at[q] \in Owning => lock' = lock
      BY ZenonT(60), <2>1, <3>1 DEF HandlesFollowSteps
    <3>. QED BY <2>1, <3>1, <3>2 DEF HandlesFollowSteps, FileSteps
  <2>7. ASSUME NEW p \in Procs, CreationFails(p) PROVE HandlesFollowSteps'
    BY <2>1, <2>7 DEF CreationFails, To, HandlesFollowSteps, FileSteps
  <2>8. ASSUME NEW p \in Procs, OpenLock(p) PROVE HandlesFollowSteps'
    <3>1. CASE lock # None /\ ~LockBusy /\ \A q \in Procs : writing[q] # lock.id
      <4>1. /\ at[p] = "open" /\ UNCHANGED <<lock, writing>>
            /\ held' = [held EXCEPT ![p] = lock.id] /\ at' = [at EXCEPT ![p] = "check"]
        BY Zenon, <2>8, <3>1 DEF OpenLock, To
      <4>2. lock.id \in Nat
        BY Zenon, <2>1, <3>1 DEF HandlesFollowSteps, LockFiles
      <4>3. \A q \in Procs : at[q] \notin Owning
        BY Zenon, <2>1, <3>1 DEF HandlesFollowSteps, LockBusy
      <4>. QED BY <2>1, <3>1, <4>1, <4>2, <4>3 DEF HandlesFollowSteps, FileSteps
    <3>2. CASE ~(lock # None /\ ~LockBusy /\ \A q \in Procs : writing[q] # lock.id)
      <4>1. at[p] = "open" /\ UNCHANGED <<lock, held, writing>> /\ at' = [at EXCEPT ![p] = "idle"]
        BY ZenonT(60), <2>8, <3>2 DEF OpenLock, To
      <4>. QED BY Zenon, <2>1, <4>1, QuietStep DEF FileSteps
    <3>. QED BY ZenonT(60), <3>1, <3>2
  <2>9. ASSUME NEW p \in Procs, CheckLock(p) \/ Unlock(p) PROVE HandlesFollowSteps'
    <3>1. at[p] \in Owning /\ UNCHANGED <<lock, writing>>
      BY Zenon, <2>9 DEF CheckLock, Unlock
    <3>2. \/ held' = held /\ at' = [at EXCEPT ![p] = "held"]
          \/ held' = [held EXCEPT ![p] = None] /\ at' = [at EXCEPT ![p] = "idle"]
      BY Zenon, <2>9 DEF CheckLock, Unlock, To
    <3>. QED BY <2>1, <3>1, <3>2 DEF HandlesFollowSteps, FileSteps
  <2>10. ASSUME NEW p \in Procs, RemoveStaged(p) PROVE HandlesFollowSteps'
    BY ZenonT(60), <2>1, <2>10 DEF RemoveStaged, HandlesFollowSteps
  <2>11. ASSUME NEW p \in Procs, Crash(p) PROVE HandlesFollowSteps'
    BY <2>1, <2>11 DEF Crash, To, HandlesFollowSteps, FileSteps
  <2>. QED
    BY ZenonT(60), <2>1, <2>2, <2>3, <2>4, <2>5, <2>6, <2>7, <2>8, <2>9, <2>10, <2>11,
       DirectoryCallsAreQuiet, StagingIsQuiet DEF FilesNext
<1>. QED BY <1>1, <1>2, PTL DEF FilesSpec

\* Two processes never own the lifetime lock at once, and an owner's handle is
\* open on the file at the path.
THEOREM LockHasOneOwner == FilesSpec => []LockIsExclusive
<1>1. HandlesFollowSteps => LockIsExclusive
  BY Zenon DEF HandlesFollowSteps, LockIsExclusive, Owning
<1>. QED BY <1>1, HandlesAreOpenWhenNeeded, PTL

=============================================================================
