------------------------------- MODULE Bridge -------------------------------
(***************************************************************************)
(* The MCP bridge's side of the RPC: NativeHelperTransport of              *)
(* packages/mcp-bridge/src/native-transport.ts.  Every tool call becomes a *)
(* request on one helper process, whose life is a generation.  Answers,    *)
(* deadlines, the helper's exit and its failure to start are events of     *)
(* Node's loop, and any of them may be late: it may concern a generation   *)
(* that has already been replaced.                                         *)
(*                                                                         *)
(* What the caller learns of a request is its verdict.  "refused" is the   *)
(* bridge's own PRE_DISPATCH error and "denied" the daemon's error record  *)
(* with effect class NO_EFFECT: both say the request changed nothing.      *)
(* "unknown" says the outcome is not known.                                *)
(***************************************************************************)
EXTENDS Naturals, Sequences, FiniteSets

CONSTANTS
    ToolCall,        \* the requests of the tool calls
    MaxPending,     \* 16 in production
    MaxGeneration   \* bound on the helpers started

ASSUME BridgeAssumption ==
    /\ IsFiniteSet(ToolCall)
    /\ MaxPending \in Nat \ {0}
    /\ MaxGeneration \in Nat \ {0}

VARIABLES
    generation,     \* this.generation
    child,          \* this.child: the generation of the helper in use, or 0
    helper,         \* what became of each generation's process
    verdict,        \* what the caller was told
    sentIn,         \* the generation a request was written to, or 0
    frames,         \* answers on the helper's stdout, not yet received
    started,        \* generations whose process really ran
    answered,       \* requests the daemon answered
    effect          \* requests the daemon has carried out

bridgeVars == <<generation, child, helper, verdict, sentIn, frames, started,
          answered, effect>>

Generation == 1..MaxGeneration

Verdict == {"idle", "pending", "resolved", "refused", "denied", "unknown"}

\* An answer is a result, an error record, or bytes that do not decode.
Frame == [id : ToolCall, kind : {"result", "denied", "unknown", "bad"}]

Pending == {r \in ToolCall : verdict[r] = "pending"}

BridgeInit ==
    /\ generation = 0 /\ child = 0
    /\ helper = [g \in Generation |-> "none"]
    /\ verdict = [r \in ToolCall |-> "idle"]
    /\ sentIn = [r \in ToolCall |-> 0]
    /\ frames = <<>> /\ started = {} /\ answered = {} /\ effect = {}

-----------------------------------------------------------------------------
(* Requests.                                                               *)

\* Refused before anything is written: too many pending, or no helper.
RefuseRequest(r) ==
    /\ verdict[r] = "idle"
    /\ Cardinality(Pending) >= MaxPending \/ child = 0
    /\ verdict' = [verdict EXCEPT ![r] = "refused"]
    /\ UNCHANGED <<generation, child, helper, sentIn, frames, started, answered,
                   effect>>

\* The frame is written to the current helper, started first if there is none.
SendRequest(r) ==
    /\ verdict[r] = "idle"
    /\ Cardinality(Pending) < MaxPending
    /\ IF child # 0
         THEN UNCHANGED <<generation, child, helper, frames>>
         ELSE /\ generation < MaxGeneration
              /\ generation' = generation + 1
              /\ child' = generation + 1
              /\ helper' = [helper EXCEPT ![generation + 1] = "starting"]
              /\ frames' = <<>>
    /\ verdict' = [verdict EXCEPT ![r] = "pending"]
    /\ sentIn' = [sentIn EXCEPT ![r] = generation']
    /\ UNCHANGED <<started, answered, effect>>

\* failGeneration: nothing unless g is current; otherwise every request pending
\* on it is rejected with the one error, and the helper's pipes are destroyed.
\* The kill shows as an exit, at some later time.
FailGeneration(g, v) ==
    IF g # generation
      THEN UNCHANGED <<child, frames, verdict>>
      ELSE /\ child' = 0
           /\ frames' = <<>>
           /\ verdict' = [r \in ToolCall |->
                            IF r \in Pending /\ sentIn[r] = g
                              THEN v ELSE verdict[r]]

TimeoutOfReplaced(r) ==
    /\ verdict[r] = "pending" /\ sentIn[r] # generation
    /\ FailGeneration(sentIn[r], "unknown")
    /\ UNCHANGED <<generation, helper, sentIn, started, answered, effect>>

\* The deadline of a request passes.
Timeout(r) ==
    /\ verdict[r] = "pending"
    /\ FailGeneration(sentIn[r], "unknown")
    /\ UNCHANGED <<generation, helper, sentIn, started, answered, effect>>

\* The write callback reports an error: the helper is no longer there to read.
WriteError(r) ==
    /\ verdict[r] = "pending"
    /\ helper[sentIn[r]] \in {"failed", "exited", "gone"}
    /\ FailGeneration(sentIn[r], "unknown")
    /\ UNCHANGED <<generation, helper, sentIn, started, answered, effect>>

Close ==
    /\ child # 0
    /\ FailGeneration(generation, "unknown")
    /\ UNCHANGED <<generation, helper, sentIn, started, answered, effect>>

\* One whole frame of stdout is decoded.  An error record, an id that is not
\* pending and bytes that do not decode all throw, and the generation fails.
ReceiveFrame ==
    /\ frames # <<>>
    /\ LET f == Head(frames) IN
         IF f.kind = "result" /\ f.id \in Pending
           THEN /\ verdict' = [verdict EXCEPT ![f.id] = "resolved"]
                /\ frames' = Tail(frames)
                /\ UNCHANGED child
           ELSE FailGeneration(generation,
                    IF f.kind = "denied" THEN "denied" ELSE "unknown")
    /\ UNCHANGED <<generation, helper, sentIn, started, answered, effect>>

-----------------------------------------------------------------------------
(* The helper process, and the daemon behind it.                           *)

HelperStarts(g) ==
    /\ helper[g] = "starting"
    /\ helper' = [helper EXCEPT ![g] = "running"]
    /\ started' = started \cup {g}
    /\ UNCHANGED <<generation, child, verdict, sentIn, frames, answered, effect>>

HelperStops(g) ==
    /\ \/ /\ helper[g] = "starting"
          /\ helper' = [helper EXCEPT ![g] = "failed"]
       \/ /\ helper[g] = "running"
          /\ helper' = [helper EXCEPT ![g] = "exited"]
    /\ UNCHANGED <<generation, child, verdict, sentIn, frames, started,
                   answered, effect>>

\* child.on("error") and child.on("exit"): both check isCurrent.
HelperEvent(g, from, v) ==
    /\ helper[g] = from
    /\ helper' = [helper EXCEPT ![g] = "gone"]
    /\ IF child = g
         THEN FailGeneration(g, v)
         ELSE UNCHANGED <<child, frames, verdict>>
    /\ UNCHANGED <<generation, sentIn, started, answered, effect>>

ErrorEvent(g) == HelperEvent(g, "failed", "refused")

ExitBeforeDispatch(g) == HelperEvent(g, "exited", "refused")

ExitEvent(g) == HelperEvent(g, "exited", "unknown")

\* The daemon carries out a request that reached it, possibly after the bridge
\* has given the request up.
DaemonExecutes(r) ==
    /\ sentIn[r] \in started
    /\ r \notin effect \cup answered
    /\ effect' = effect \cup {r}
    /\ UNCHANGED <<generation, child, helper, verdict, sentIn, frames, started,
                   answered>>

\* A result, an error record that is true of its own request, or bad bytes.
DaemonAnswers(r, kind) ==
    /\ sentIn[r] # 0 /\ sentIn[r] = child /\ helper[child] = "running"
    /\ r \notin answered
    /\ kind = "result" => r \in effect
    /\ kind = "denied" => r \notin effect
    /\ frames' = Append(frames, [id |-> r, kind |-> kind])
    /\ answered' = answered \cup {r}
    /\ UNCHANGED <<generation, child, helper, verdict, sentIn, started, effect>>

-----------------------------------------------------------------------------
BridgeNext ==
    \/ \E r \in ToolCall :
          \/ RefuseRequest(r) \/ SendRequest(r)
          \/ Timeout(r) \/ WriteError(r)
          \/ DaemonExecutes(r)
          \/ \E kind \in {"result", "denied", "unknown", "bad"} : DaemonAnswers(r, kind)
    \/ Close
    \/ ReceiveFrame
    \/ \E g \in Generation :
          \/ HelperStarts(g) \/ HelperStops(g)
          \/ ErrorEvent(g) \/ ExitEvent(g)

\* A timer that is set fires.
BridgeFairness == \A r \in ToolCall : WF_bridgeVars(Timeout(r))

BridgeSpec == BridgeInit /\ [][BridgeNext]_bridgeVars /\ BridgeFairness

-----------------------------------------------------------------------------
(* What the caller may rely on.                                            *)

\* A request the bridge itself reports as not dispatched was not carried out,
\* and never will be (bridgeRpcError with PRE_DISPATCH).
RefusedHadNoEffect ==
    \A r \in ToolCall : verdict[r] = "refused" => r \notin effect

\* Every tool call gets a verdict.
EveryRequestSettles ==
    \A r \in ToolCall : (verdict[r] = "pending") ~> (verdict[r] # "pending")

\* A request reported with the daemon's NO_EFFECT record was not carried out.
DeniedHadNoEffect ==
    \A r \in ToolCall : verdict[r] = "denied" => r \notin effect

=============================================================================
