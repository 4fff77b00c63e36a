------------------------------ MODULE MCLedger -------------------------------
(***************************************************************************)
(* What the store can prove of its own rows, on a small instance: the      *)
(* evidence of one task, the improvement ledger, and the answer to an      *)
(* approval.  They share no row that more than one of them changes here,   *)
(* so each behaviour exercises one of them.                                *)
(***************************************************************************)
EXTENDS Evidence, Improvement, Approvals

VARIABLE family

ledgerVars == <<family, evidenceVars, improvementVars, approvalVars>>

\* A success, a failure, and a failure that broke a rule.
MCReports ==
  {[success |-> TRUE, signature |-> Absent, cost |-> 10, unsafe |-> FALSE]} \cup
  {[success |-> FALSE, signature |-> "a", cost |-> 10, unsafe |-> u] : u \in BOOLEAN}

\* Only an approval has more than one initial state.
LedgerInit ==
  /\ family \in {"evidence", "improvement", "approval"}
  /\ ApprovalInit
  /\ family # "approval" => row.phase = "absent"
  /\ EvidenceInit /\ ImprovementInit

\* What a step of each of them leaves alone.
OffEvidence == <<family, improvementVars, approvalVars>>
OffImprovement == <<family, evidenceVars, approvalVars>>
OffApproval == <<family, evidenceVars, improvementVars>>

\* Ids are fresh, so they may be numbered in the order of their first use.
InOrder(S, used(_)) == \A i, j \in S : i < j /\ used(j) => used(i)

QuestionsInOrder == InOrder(Questions, LAMBDA q : db.question[q].state # "NONE")
AskedInOrder == InOrder(Asked, LAMBDA q : row.question[q] # "NONE")
ReviewedInOrder ==
  InOrder(Reviewed, LAMBDA t : engine.seen[t] # Absent \/ engine.assigned[t] # Absent)
KeysInOrder == InOrder(Keys, LAMBDA k : commands[k] # Absent)

LedgerNext ==
  \/ family = "evidence" /\ EvidenceNext /\ QuestionsInOrder' /\ UNCHANGED OffEvidence
  \/ /\ family = "improvement" /\ ImprovementNext /\ UNCHANGED OffImprovement
     /\ ReviewedInOrder' /\ KeysInOrder'
  \/ family = "approval" /\ ApprovalNext /\ AskedInOrder' /\ UNCHANGED OffApproval

LedgerSpec == LedgerInit /\ [][LedgerNext]_ledgerVars

-----------------------------------------------------------------------------
(* The rules of the ledger, on every small input.                           *)

Metrics == [samples : 0..2, successes : 0..2, unsafe : 0..1, missing : BOOLEAN,
            latency : {0, 10, 11, 12}, tokens : {0, 10}]
Measured == {a \in Metrics : a.successes <= a.samples}

\* No arm passes unmeasured, and what passes is neither unsafe, nor less often
\* right, nor more than a tenth slower per sample.
ASSUME ArmsAreComparedPerSample ==
  /\ \A a \in Measured : CompareArms(a, a) = "Pass" => a.samples > 0 /\ a.unsafe = 0 /\ ~a.missing
  /\ \A a, b \in {m \in Measured : ~m.missing /\ m.samples > 0} :
       CompareArms(a, b) = "Pass" =>
         /\ a.unsafe = 0
         /\ 10 * a.latency * b.samples <= 11 * b.latency * a.samples
         /\ 10 * a.successes * b.samples >= 10 * b.successes * a.samples

Names == [length : {0, 1, 128, 129}, plain : BOOLEAN]
Short == [length |-> 1, plain |-> TRUE]
Long == [length |-> 129, plain |-> TRUE]

\* A signature names a failure only when each of its four parts does.
ASSUME SignaturesAreTokens ==
  /\ \A n \in Names : NormalizedKey(<<Short, Short, Short, n>>) = ValidToken(n)
  /\ \A n \in Names : ValidToken(n) => n.length \in 1..128

Observation(success, signature, tokens) ==
  [task |-> Short, component |-> Short, adapter |-> Short, adapterVersion |-> Short,
   config |-> 0, digest |-> TRUE, at |-> 0, success |-> success, signature |-> signature,
   latency |-> Absent, tokens |-> tokens, maxInt |-> 7]

\* A success carries no signature, a failure carries one, and an unsigned cost
\* that the column cannot hold is refused.
ASSUME ObservationsFitTheirRow ==
  \A s \in BOOLEAN, cost \in 0..15 :
    /\ ValidObservation(Observation(s, Absent, cost)) = (s /\ cost <= 7)
    /\ ValidObservation(Observation(s, <<Short, Short, Short, Short>>, cost)) = (~s /\ cost <= 7)
    /\ ~ValidObservation(Observation(s, <<Short, Short, Short, Long>>, cost))

Fixtures == [id : {[length |-> 1, plain |-> TRUE, name |-> n] : n \in {"f", "g"}},
             passed : BOOLEAN, hard : 0..1]
Proposal(fixtures, name) ==
  [case |-> Short, hypothesis |-> 1, fixtures |-> fixtures, knob |-> "quality",
   value |-> [string |-> TRUE, length |-> 1, plain |-> TRUE, name |-> name]]

\* A candidate goes to a canary only when every fixture passed without a hard
\* violation, and no fixture can be counted twice.
ASSUME FixturesGateTheCanary ==
  \A f, g \in Fixtures, name \in {"low", "other"} :
    LET answer == ValidProposal(Proposal(<<f, g>>, name), [quality |-> {"low"}], 2)
    IN /\ (answer = Absent) = (f.id = g.id \/ name = "other")
       /\ answer # Absent => answer.passed = (f.passed /\ g.passed /\ f.hard + g.hard = 0)
       /\ ValidProposal(Proposal(<<f>>, name), [quality |-> {"low"}], 2) = Absent

Usage == [readable : BOOLEAN, input : {0, 3}, output : {1, 5}]

\* A cost is known only when every usage event could be read, and never wraps.
ASSUME CostIsTotalOrUnknown ==
  /\ UsageTokenCost(<<>>, 7) = Absent
  /\ \A u, v \in Usage :
       LET cost == UsageTokenCost(<<u, v>>, 7)
       IN cost # Absent => u.readable /\ v.readable /\ cost <= 7 /\ cost >= u.input + v.output

\* A review counts as a success only for an accepted result of a succeeded task.
ASSUME ReviewsAreSigned ==
  \A terminal \in Terminal, verdict \in {"ACCEPTED", "REJECTED"}, violations \in 0..1 :
    LET report == ReviewReport(terminal, verdict, "d", 1, 0, violations)
    IN /\ report.success = (report.signature = Absent)
       /\ report.success => terminal = "SUCCEEDED" /\ verdict = "ACCEPTED"

\* A stored engine is used only under the policy it was stored with.
ASSUME PolicyIsPinned ==
  /\ EnsureEngine(Absent, "p") = "INITIALIZED" /\ EnsureEngine("p", "p") = "loaded"
  /\ EnsureEngine("q", "p") = "conflict"
=============================================================================
