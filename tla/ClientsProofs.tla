--------------------------- MODULE ClientsProofs ---------------------------
(***************************************************************************)
(* The clients of the daemon and the writer they call, for any number of   *)
(* calls, callers, tasks, pages and frames: the bridge, the writer, the    *)
(* dashboard's live view and the console.                                  *)
(***************************************************************************)
EXTENDS Bridge, Writer, LiveView, Follow, FiniteSetTheorems, WellFoundedInduction, TLAPS

-----------------------------------------------------------------------------
(* Bridge: the helpers and their requests.                                 *)

\* A generation's process runs only from its start, and an unstarted one that
\* failed never will; nothing is written to a generation that does not exist yet.
HelpersAgree ==
  /\ generation \in 0..MaxGeneration
  /\ helper \in [Generation -> {"none", "starting", "running", "failed", "exited", "gone"}]
  /\ \A g \in Generation : helper[g] = "none" <=> g > generation
  /\ started \subseteq Generation
  /\ \A g \in started : helper[g] \notin {"none", "starting", "failed"}

\* A request belongs to the generation it was sent in, and only a started
\* generation has carried one out.
RequestsAgree ==
  /\ DOMAIN verdict = ToolCall /\ DOMAIN sentIn = ToolCall
  /\ \A r \in ToolCall : sentIn[r] \in 0..generation
  /\ \A r \in ToolCall : verdict[r] = "idle" => sentIn[r] = 0
  /\ \A r \in effect : r \in ToolCall /\ sentIn[r] \in started

\* What was refused was written to no process that ever ran.
RefusalsAgree ==
  \A r \in ToolCall :
    verdict[r] = "refused" =>
      sentIn[r] \notin started /\ (sentIn[r] # 0 => helper[sentIn[r]] \in {"failed", "gone"})

\* The inductive invariant of the bridge.
BridgeInvariant == HelpersAgree /\ RequestsAgree /\ RefusalsAgree

\* It holds before the first request.
LEMMA BridgeInitSound == BridgeInit => BridgeInvariant
BY BridgeAssumption
DEF BridgeInit, BridgeInvariant, HelpersAgree, RequestsAgree, RefusalsAgree, Generation

\* A request is written to the helper of its generation, which may be a new
\* one.
LEMMA SendKeeps ==
  ASSUME BridgeInvariant, NEW r \in ToolCall, SendRequest(r)
  PROVE  BridgeInvariant'
<1>1. HelpersAgree'
  BY BridgeAssumption DEF SendRequest, BridgeInvariant, HelpersAgree, Generation
<1>2. /\ generation' \in 0..MaxGeneration /\ generation <= generation'
      /\ generation \in 0..MaxGeneration
  BY <1>1, BridgeAssumption DEF SendRequest, BridgeInvariant, HelpersAgree
<1>3. sentIn[r] = 0 /\ 0 \notin started /\ r \notin effect
  BY DEF SendRequest, BridgeInvariant, RequestsAgree, HelpersAgree, Generation
<1>4. RequestsAgree'
  BY <1>2, <1>3, BridgeAssumption DEF SendRequest, BridgeInvariant, RequestsAgree
<1>5. \A g \in 1..generation : helper'[g] = helper[g]
  BY <1>2, BridgeAssumption DEF SendRequest, BridgeInvariant, HelpersAgree, Generation
<1>6. RefusalsAgree'
  BY <1>2, <1>5, BridgeAssumption DEF SendRequest, BridgeInvariant, RefusalsAgree, RequestsAgree
<1>7. QED
  BY Zenon, <1>1, <1>4, <1>6 DEF BridgeInvariant

\* Verdicts change; what was sent, started and carried out does not.
LEMMA VerdictsMove ==
  ASSUME BridgeInvariant, UNCHANGED <<generation, sentIn, started, effect>>, HelpersAgree',
         DOMAIN verdict' = ToolCall,
         \A g \in Generation : helper[g] = "failed" => helper'[g] \in {"failed", "gone"},
         \A g \in Generation : helper[g] = "gone" => helper'[g] = "gone",
         \A r \in ToolCall :
           \/ verdict'[r] = verdict[r]
           \/ verdict'[r] \notin {"idle", "refused"}
           \/ verdict'[r] = "refused" /\ sentIn[r] = 0
           \/ verdict'[r] = "refused" /\ sentIn[r] \notin started /\ helper'[sentIn[r]] = "gone"
  PROVE  BridgeInvariant'
<1>1. RequestsAgree'
  BY Zenon DEF BridgeInvariant, RequestsAgree
<1>2. \A r \in ToolCall : sentIn[r] # 0 => sentIn[r] \in Generation
  BY BridgeAssumption DEF BridgeInvariant, RequestsAgree, HelpersAgree, Generation
<1>3. 0 \notin started
  BY DEF BridgeInvariant, HelpersAgree, Generation
<1>4. RefusalsAgree'
  BY <1>2, <1>3 DEF BridgeInvariant, RefusalsAgree
<1>5. QED
  BY Zenon, <1>1, <1>4 DEF BridgeInvariant

\* Failing a generation gives its requests one verdict and no other request
\* any.
LEMMA FailedGeneration ==
  ASSUME BridgeInvariant, NEW g, NEW v, v # "idle", FailGeneration(g, v) \/ UNCHANGED verdict
  PROVE  /\ DOMAIN verdict' = ToolCall
         /\ \A r \in ToolCall : verdict'[r] = verdict[r] \/ (verdict'[r] = v /\ sentIn[r] = g)
BY Zenon DEF BridgeInvariant, RequestsAgree, FailGeneration

\* Every step of the bridge keeps it.
LEMMA BridgeStepKeeps ==
  ASSUME BridgeInvariant, [BridgeNext]_bridgeVars
  PROVE  BridgeInvariant'
<1>1. ASSUME NEW r \in ToolCall, RefuseRequest(r)
      PROVE  BridgeInvariant'
  <2>1. HelpersAgree' /\ DOMAIN verdict' = ToolCall
    BY Zenon, <1>1 DEF RefuseRequest, BridgeInvariant, HelpersAgree, RequestsAgree
  <2>2. QED
    BY Zenon, <1>1, <2>1, VerdictsMove DEF RefuseRequest, BridgeInvariant, RequestsAgree
<1>2. ASSUME UNCHANGED <<generation, helper, sentIn, started, effect>>,
             NEW g, FailGeneration(g, "unknown") \/ FailGeneration(g, "denied")
      PROVE  BridgeInvariant'
  <2>1. HelpersAgree'
    BY Zenon, <1>2 DEF BridgeInvariant, HelpersAgree
  <2>2. QED
    BY <1>2, <2>1, FailedGeneration, VerdictsMove
<1>3. ASSUME NEW r \in ToolCall, Timeout(r) \/ WriteError(r)
      PROVE  BridgeInvariant'
  BY Zenon, <1>2, <1>3 DEF Timeout, WriteError
<1>4. CASE Close
  BY Zenon, <1>2, <1>4 DEF Close
<1>5. CASE ReceiveFrame
  <2>1. CASE Head(frames).id \in Pending
             /\ verdict' = [verdict EXCEPT ![Head(frames).id] = "resolved"]
    <3>1. HelpersAgree' /\ DOMAIN verdict' = ToolCall
      BY Zenon, <1>5, <2>1 DEF ReceiveFrame, BridgeInvariant, HelpersAgree, RequestsAgree
    <3>2. QED
      BY Zenon, <1>5, <2>1, <3>1, VerdictsMove DEF ReceiveFrame, BridgeInvariant, RequestsAgree, Pending
  <2>2. CASE ~(Head(frames).kind = "result" /\ Head(frames).id \in Pending)
    BY Zenon, <1>2, <1>5, <2>2 DEF ReceiveFrame
  <2>3. QED
    BY Zenon, <1>5, <2>1, <2>2 DEF ReceiveFrame
<1>6. ASSUME NEW g \in Generation, HelperStarts(g) \/ HelperStops(g)
      PROVE  BridgeInvariant'
  <2>1. HelpersAgree'
    BY <1>6 DEF HelperStarts, HelperStops, BridgeInvariant, HelpersAgree
  <2>2. RequestsAgree'
    BY Zenon, <1>6 DEF HelperStarts, HelperStops, BridgeInvariant, RequestsAgree
  <2>3. \A h \in Generation : helper[h] \in {"failed", "gone"} => helper'[h] = helper[h]
    BY Zenon, <1>6 DEF HelperStarts, HelperStops, BridgeInvariant, HelpersAgree
  <2>4. \A r \in ToolCall : sentIn[r] # 0 => sentIn[r] \in Generation
    BY BridgeAssumption DEF BridgeInvariant, RequestsAgree, HelpersAgree, Generation
  <2>5. 0 \notin Generation
    BY DEF Generation
  <2>6. RefusalsAgree'
    BY <1>6, <2>3, <2>4, <2>5 DEF HelperStarts, HelperStops, BridgeInvariant, RefusalsAgree
  <2>7. QED
    BY Zenon, <2>1, <2>2, <2>6 DEF BridgeInvariant
<1>7. ASSUME NEW g \in Generation, ErrorEvent(g) \/ ExitEvent(g)
      PROVE  BridgeInvariant'
  <2>1. /\ HelpersAgree' /\ UNCHANGED <<generation, sentIn, started, effect>>
        /\ helper' = [helper EXCEPT ![g] = "gone"] /\ DOMAIN helper = Generation
    BY Zenon, <1>7 DEF ErrorEvent, ExitEvent, HelperEvent, BridgeInvariant, HelpersAgree
  <2>2. CASE ErrorEvent(g)
    <3>1. g \notin started /\ helper'[g] = "gone"
      BY Zenon, <2>1, <2>2 DEF ErrorEvent, HelperEvent, BridgeInvariant, HelpersAgree
    <3>2. FailGeneration(g, "refused") \/ UNCHANGED verdict
      BY Zenon, <2>2 DEF ErrorEvent, HelperEvent
    <3>3. QED
      BY <2>1, <3>1, <3>2, FailedGeneration, VerdictsMove
  <2>3. CASE ExitEvent(g)
    <3>1. FailGeneration(g, "unknown") \/ UNCHANGED verdict
      BY Zenon, <2>3 DEF ExitEvent, HelperEvent
    <3>2. QED
      BY <2>1, <3>1, FailedGeneration, VerdictsMove
  <2>4. QED
    BY Zenon, <1>7, <2>2, <2>3
<1>8. ASSUME NEW r \in ToolCall, DaemonExecutes(r)
      PROVE  BridgeInvariant'
  BY <1>8 DEF DaemonExecutes, BridgeInvariant, HelpersAgree, RequestsAgree, RefusalsAgree
<1>9. ASSUME NEW r \in ToolCall, NEW kind, DaemonAnswers(r, kind)
      PROVE  BridgeInvariant'
  BY Zenon, <1>9 DEF DaemonAnswers, BridgeInvariant, HelpersAgree, RequestsAgree, RefusalsAgree
<1>10. CASE UNCHANGED bridgeVars
  BY Zenon, <1>10 DEF bridgeVars, BridgeInvariant, HelpersAgree, RequestsAgree, RefusalsAgree
<1>11. QED
  BY Zenon, <1>1, <1>3, <1>4, <1>5, <1>6, <1>7, <1>8, <1>9, <1>10, SendKeeps DEF BridgeNext

\* For any number of calls and helpers, a request the bridge reports as not dispatched
\* was not carried out, and never will be (native-transport.ts).
THEOREM RefusedIsUndone == BridgeSpec => []RefusedHadNoEffect
<1>1. BridgeInvariant => RefusedHadNoEffect
  BY Zenon DEF BridgeInvariant, RequestsAgree, RefusalsAgree, RefusedHadNoEffect
<1>2. BridgeInvariant /\ [BridgeNext]_bridgeVars => BridgeInvariant'
  BY Zenon, BridgeStepKeeps
<1>3. QED
  BY <1>1, <1>2, BridgeInitSound, PTL DEF BridgeSpec

-----------------------------------------------------------------------------
(* The writer.                                                             *)

\* Where the actor is in its life, and what the phase says of it.
ActorAgrees ==
  /\ phase \in {"Running", "ShuttingDown", "Stopped"}
  /\ actor \in Callers \cup {Shutdown, "receiving", "leaving", "closed"}
  /\ result \in {"none", "ok", "panic"}
  /\ result = "none" <=> actor \notin {"leaving", "closed"}
  /\ phase = "Stopped" => actor = "closed"
  /\ ~receiver => phase = "Stopped"

\* The stop command is sent once, behind everything that was accepted: nothing is
\* accepted once shutdown has begun, and one thread begins it.
StopIsLast ==
  /\ mailbox \in Seq(Callers \cup {Shutdown})
  /\ DOMAIN stopper = Stoppers /\ DOMAIN caller = Callers
  /\ \A i \in 1..Len(mailbox) : mailbox[i] = Shutdown => i = Len(mailbox) /\ phase # "Running"
  /\ \A s \in Stoppers : stopper[s] = "sending" =>
       /\ phase # "Running" /\ actor # Shutdown /\ result # "ok"
       /\ \A i \in 1..Len(mailbox) : mailbox[i] # Shutdown
       /\ \A u \in Stoppers : stopper[u] = "sending" => u = s
  /\ actor = Shutdown \/ result = "ok" => mailbox = <<>> /\ phase # "Running"

\* An accepted call is answered, at work or queued, unless the actor has died.
AcceptedIsKept ==
  \A c \in Callers :
    caller[c] \in {"waiting", "answered", "lost"} =>
      \/ c \in reply \/ actor = c \/ result = "panic"
      \/ \E i \in 1..Len(mailbox) : mailbox[i] = c

\* The inductive invariant of the writer.
WriterInvariant == ActorAgrees /\ StopIsLast /\ AcceptedIsKept

\* It holds of a writer that has just started.
LEMMA WriterInitSound == WriterInit => WriterInvariant
BY WriterAssumption
DEF WriterInit, WriterInvariant, ActorAgrees, StopIsLast, AcceptedIsKept

\* A caller sends, waits or gives up.
LEMMA CallKeeps ==
  ASSUME WriterInvariant, NEW c \in Callers, Client(c)
  PROVE  WriterInvariant'
<1> USE WriterAssumption DEF actorVars
<1>1. CASE \E answer \in {"refused", "backpressure"} : Refuse(c, answer)
  BY <1>1 DEF Refuse, WriterInvariant, ActorAgrees, StopIsLast, AcceptedIsKept
<1>2. CASE Return(c)
  BY <1>2 DEF Return, WriterInvariant, ActorAgrees, StopIsLast, AcceptedIsKept
<1>3. CASE /\ phase = "Running" /\ mailbox' = Append(mailbox, c)
           /\ caller' = [caller EXCEPT ![c] = "waiting"]
           /\ UNCHANGED <<phase, receiver, actorVars, stopper>>
  <2>1. /\ mailbox \in Seq(Callers \cup {Shutdown}) /\ mailbox' \in Seq(Callers \cup {Shutdown})
        /\ Len(mailbox') = Len(mailbox) + 1 /\ mailbox'[Len(mailbox')] = c
        /\ \A i \in 1..Len(mailbox) : mailbox'[i] = mailbox[i]
    BY <1>3 DEF WriterInvariant, StopIsLast
  <2>2. StopIsLast'
    BY <1>3, <2>1 DEF WriterInvariant, StopIsLast
  <2>3. AcceptedIsKept'
    BY <1>3, <2>1 DEF WriterInvariant, StopIsLast, AcceptedIsKept
  <2>4. QED
    BY Zenon, <1>3, <2>2, <2>3 DEF WriterInvariant, ActorAgrees
<1>4. QED
  BY Zenon, <1>1, <1>2, <1>3 DEF Client, Call

\* A stopper closes the mailbox and sends the last message.
LEMMA StopperKeeps ==
  ASSUME WriterInvariant, NEW s \in Stoppers, Stopper(s)
  PROVE  WriterInvariant'
<1> USE WriterAssumption DEF actorVars
<1>1. CASE BeginShutdown(s)
  BY <1>1 DEF BeginShutdown, WriterInvariant, ActorAgrees, StopIsLast, AcceptedIsKept
<1>2. CASE SendShutdown(s)
  <2>1. CASE receiver
    <3>1. /\ mailbox \in Seq(Callers \cup {Shutdown}) /\ mailbox' \in Seq(Callers \cup {Shutdown})
          /\ Len(mailbox') = Len(mailbox) + 1 /\ mailbox'[Len(mailbox')] = Shutdown
          /\ \A i \in 1..Len(mailbox) : mailbox'[i] = mailbox[i]
      BY <1>2, <2>1 DEF SendShutdown, WriterInvariant, StopIsLast
    <3>2. StopIsLast'
      BY <1>2, <3>1 DEF SendShutdown, WriterInvariant, StopIsLast
    <3>3. AcceptedIsKept'
      BY <1>2, <3>1 DEF SendShutdown, WriterInvariant, AcceptedIsKept
    <3>4. QED
      BY Zenon, <1>2, <3>2, <3>3 DEF SendShutdown, WriterInvariant, ActorAgrees
  <2>2. CASE ~receiver
    BY Zenon, <1>2, <2>2 DEF SendShutdown, WriterInvariant, ActorAgrees, StopIsLast, AcceptedIsKept
  <2>3. QED
    BY Zenon, <2>1, <2>2
<1>3. CASE ShutdownReturns(s)
  BY <1>3 DEF ShutdownReturns, WriterInvariant, ActorAgrees, StopIsLast, AcceptedIsKept
<1>4. QED
  BY Zenon, <1>1, <1>2, <1>3 DEF Stopper

\* The actor takes a message, executes it, leaves or panics.
LEMMA ActorKeeps ==
  ASSUME WriterInvariant, Actor
  PROVE  WriterInvariant'
<1> USE WriterAssumption DEF actorVars, clientVars
<1>1. CASE Receive
  <2>1. /\ mailbox \in Seq(Callers \cup {Shutdown}) /\ mailbox # <<>>
        /\ mailbox' \in Seq(Callers \cup {Shutdown}) /\ actor' = mailbox[1] /\ Len(mailbox) > 0
        /\ Len(mailbox') = Len(mailbox) - 1
        /\ \A i \in 1..Len(mailbox') : mailbox'[i] = mailbox[i + 1]
    BY <1>1 DEF Receive, WriterInvariant, StopIsLast
  <2>2. actor' \in Callers \cup {Shutdown} /\ result = "none" /\ actor = "receiving"
    BY <1>1, <2>1 DEF Receive, WriterInvariant, ActorAgrees
  <2>a. 1 \in 1..Len(mailbox) /\ Len(mailbox) \in Nat /\ Len(mailbox') \in Nat
    BY <2>1
  <2>b. actor' = Shutdown => Len(mailbox) = 1 /\ phase # "Running"
    BY Zenon, <2>1, <2>a DEF WriterInvariant, StopIsLast
  <2>c. Len(mailbox') = 0 => mailbox' = <<>>
    BY <2>1
  <2>3. actor' = Shutdown => mailbox' = <<>> /\ phase # "Running"
    BY <2>1, <2>a, <2>b, <2>c
  <2>d. /\ stopper' = stopper /\ caller' = caller /\ phase' = phase /\ result' = result
    BY Zenon, <1>1 DEF Receive, clientVars
  <2>e. \A i \in 1..Len(mailbox') : i + 1 \in 1..Len(mailbox) /\ mailbox'[i] = mailbox[i + 1]
    BY <2>1, <2>a
  <2>f. \A i \in 1..Len(mailbox') : mailbox'[i] = Shutdown => i = Len(mailbox') /\ phase' # "Running"
    BY <2>1, <2>a, <2>d, <2>e DEF WriterInvariant, StopIsLast
  <2>g. ASSUME NEW s \in Stoppers, stopper[s] = "sending"
        PROVE  /\ phase' # "Running" /\ actor' # Shutdown /\ result' # "ok"
               /\ \A i \in 1..Len(mailbox') : mailbox'[i] # Shutdown
               /\ \A u \in Stoppers : stopper[u] = "sending" => u = s
    BY Zenon, <2>1, <2>a, <2>d, <2>e, <2>g DEF WriterInvariant, StopIsLast
  <2>4. StopIsLast'
    BY Zenon, <2>1, <2>2, <2>3, <2>d, <2>f, <2>g DEF WriterInvariant, StopIsLast
  <2>5. AcceptedIsKept'
    <3>1. ASSUME NEW c \in Callers, NEW i \in 1..Len(mailbox), mailbox[i] = c, actor' # c
          PROVE  \E j \in 1..Len(mailbox') : mailbox'[j] = c
      <4>1. i - 1 \in 1..Len(mailbox') /\ mailbox'[i - 1] = c
        BY <2>1, <3>1
      <4>2. QED
        BY Zenon, <4>1
    <3>2. QED
      BY Zenon, <1>1, <2>2, <3>1 DEF Receive, WriterInvariant, AcceptedIsKept
  <2>6. QED
    BY Zenon, <1>1, <2>2, <2>4, <2>5 DEF Receive, WriterInvariant, ActorAgrees
<1>2. CASE Execute
  BY Zenon, <1>2 DEF Execute, WriterInvariant, ActorAgrees, StopIsLast, AcceptedIsKept
<1>3. CASE Panic
  BY Zenon, <1>3 DEF Panic, WriterInvariant, ActorAgrees, StopIsLast, AcceptedIsKept
<1>4. CASE TakeShutdown
  BY Zenon, <1>4 DEF TakeShutdown, WriterInvariant, ActorAgrees, StopIsLast, AcceptedIsKept
<1>5. CASE CloseStorage
  BY Zenon, <1>5 DEF CloseStorage, WriterInvariant, ActorAgrees, StopIsLast, AcceptedIsKept
<1>6. CASE MarkStopped
  BY Zenon, <1>6 DEF MarkStopped, WriterInvariant, ActorAgrees, StopIsLast, AcceptedIsKept
<1>7. CASE ThreadEnds
  <2>1. mailbox' = <<>> /\ mailbox' \in Seq(Callers \cup {Shutdown}) /\ Len(mailbox') = 0
    BY <1>7 DEF ThreadEnds
  <2>2. mailbox = <<>> \/ result = "panic"
    BY Zenon, <1>7 DEF ThreadEnds, WriterInvariant, ActorAgrees, StopIsLast
  <2>3. StopIsLast'
    BY <1>7, <2>1 DEF ThreadEnds, WriterInvariant, StopIsLast
  <2>4. AcceptedIsKept'
    BY <1>7, <2>1, <2>2 DEF ThreadEnds, WriterInvariant, AcceptedIsKept
  <2>5. QED
    BY Zenon, <1>7, <2>3, <2>4 DEF ThreadEnds, WriterInvariant, ActorAgrees
<1>8. QED
  BY Zenon, <1>1, <1>2, <1>3, <1>4, <1>5, <1>6, <1>7 DEF Actor

\* For any number of callers and stoppers and any mailbox, a writer that stopped without
\* a panic has executed and answered every call it accepted (writer.rs).
THEOREM AcceptedIsAnswered == WriterSpec => []ShutdownDrains
<1>1. WriterInvariant /\ [WriterNext]_writerVars => WriterInvariant'
  <2>1. ASSUME WriterInvariant, UNCHANGED writerVars PROVE WriterInvariant'
    BY Zenon, <2>1 DEF writerVars, actorVars, clientVars, WriterInvariant, ActorAgrees, StopIsLast,
                AcceptedIsKept
  <2>2. QED
    BY Zenon, <2>1, ActorKeeps, CallKeeps, StopperKeeps DEF WriterNext
<1>2. WriterInvariant => ShutdownDrains
  BY WriterAssumption DEF WriterInvariant, ActorAgrees, StopIsLast, AcceptedIsKept, ShutdownDrains
<1>3. QED
  BY <1>1, <1>2, WriterInitSound, PTL DEF WriterSpec

-----------------------------------------------------------------------------
(* EventPage: a page of events.                                            *)

\* A set of naturals has a least element.
LEMMA LeastOf ==
  ASSUME NEW T, T \subseteq Nat, T # {}
  PROVE  \E x \in T : \A y \in T : x <= y
<1>1. IsWellFoundedOn(OpToRel(<, Nat), Nat)
  BY Zenon, NatLessThanWellFounded
<1>2. PICK x \in T : \A y \in T : ~ (<<y, x>> \in OpToRel(<, Nat))
  BY Zenon, <1>1, WFMin
<1>3. \A y \in T : ~(y < x)
  BY Zenon, <1>2 DEF OpToRel
<1>4. QED
  BY <1>3

\* A set that holds 0 and the successors of its members holds every natural:
\* induction without a predicate for a parameter.
LEMMA SetInduction ==
  ASSUME NEW T, 0 \in T, \A n \in Nat : n \in T => n + 1 \in T
  PROVE  Nat \subseteq T
<1>1. SUFFICES ASSUME Nat \ T # {} PROVE FALSE
  BY Zenon
<1>2. PICK x \in Nat \ T : \A y \in Nat \ T : x <= y
  BY Zenon, <1>1, LeastOf
<1>3. x # 0 /\ x - 1 \in Nat /\ x - 1 \in T
  BY <1>2
<1>. QED BY <1>2, <1>3

\* The empty page fits any frame.
LEMMA NothingFits ==
  ASSUME NEW sizes, NEW after, NEW budget \in Nat
  PROVE  Fits(sizes, after, 0, budget)
<1> DEFINE bytes == CHOOSE bytes : bytes = [k \in 0..0 |->
          IF k = 0 THEN 0
          ELSE bytes[k - 1] + sizes[after + k] + (IF k = 1 THEN 0 ELSE 1)]
<1>1. \E f : f = [k \in 0..0 |->
          IF k = 0 THEN 0
          ELSE f[k - 1] + sizes[after + k] + (IF k = 1 THEN 0 ELSE 1)]
  <2> DEFINE g == [k \in 0..0 |-> 0]
  <2>1. g = [k \in 0..0 |-> IF k = 0 THEN 0
          ELSE g[k - 1] + sizes[after + k] + (IF k = 1 THEN 0 ELSE 1)]
    OBVIOUS
  <2>2. QED
    BY Zenon, <2>1
<1>2. bytes[0] = 0
  BY <1>1
<1>3. EncodedBytes(sizes, after, 0) = 0
  BY Zenon, <1>2 DEF EncodedBytes
<1>4. QED
  BY <1>3 DEF Fits

\* A page takes at most the limit, and no more than there is.
LEMMA TakenIsBounded ==
  ASSUME NEW sizes, NEW after \in Nat, NEW limit \in Nat, NEW budget \in Nat,
         Len(sizes) \in Nat, after <= Len(sizes)
  PROVE  /\ Taken(sizes, after, limit, budget) \in 0..limit
         /\ after + Taken(sizes, after, limit, budget) <= Len(sizes)
<1> DEFINE available == Len(sizes) - after
           most == IF available < limit THEN available ELSE limit
           F(n) == Fits(sizes, after, n, budget)
           P(n) == (\A k \in 0..n : F(k)) /\ (n = most \/ ~F(n + 1))
           T == {n \in 0..most : n = most \/ ~F(n + 1)}
<1>1. most \in Nat /\ most <= limit /\ after + most <= Len(sizes)
  OBVIOUS
<1>2. F(0)
  BY Zenon, NothingFits
<1> HIDE DEF F, most
<1>3. PICK n \in T : \A m \in T : n <= m
  <2>1. most \in T
    BY <1>1
  <2>2. T \subseteq Nat
    BY <1>1
  <2>3. QED
    BY Zenon, <2>1, <2>2, LeastOf
<1>4. ASSUME NEW k \in 0..n PROVE F(k)
  <2>1. CASE k = 0
    BY Zenon, <1>2, <2>1
  <2>2. CASE k # 0
    <3>1. k - 1 \in 0..most /\ k - 1 < n /\ k - 1 # most
      BY <1>1, <1>3, <2>2
    <3>2. F((k - 1) + 1)
      BY <1>3, <3>1
    <3>3. (k - 1) + 1 = k
      OBVIOUS
    <3>4. QED
      BY Zenon, <3>2, <3>3
  <2>3. QED
    BY Zenon, <2>1, <2>2
<1>5. \E m \in 0..most : P(m)
  BY Zenon, <1>3, <1>4
<1>6. Taken(sizes, after, limit, budget) = CHOOSE m \in 0..most : P(m)
  BY Zenon DEF Taken, F, most
<1> HIDE DEF P
<1>7. (CHOOSE m \in 0..most : P(m)) \in 0..most
  BY Zenon, <1>5
<1>8. QED
  BY <1>1, <1>6, <1>7

\* The cursor behind a page: not before the one it was asked for, not beyond
\* the last event, and at most the limit further.
LEMMA PageIsBounded ==
  ASSUME NEW sizes, NEW evicted, NEW last \in Nat, NEW after \in Nat, NEW limit \in Nat, NEW budget \in Nat,
         Len(sizes) = last, after <= last
  PROVE  LET next == LoadEventPage(sizes, evicted, last, after, limit, budget).next
         IN  next \in Nat /\ after <= next /\ next <= last /\ next <= after + limit
<1> DEFINE n == Taken(sizes, after, limit, budget)
<1>1. n \in 0..limit /\ after + n <= last
  BY Zenon, TakenIsBounded
<1> HIDE DEF n
<1>2. LoadEventPage(sizes, evicted, last, after, limit, budget).next \in {after, after + n}
  BY Zenon DEF LoadEventPage, n
<1>3. QED
  BY <1>1, <1>2

-----------------------------------------------------------------------------
(* LiveView: the page follows the rows.                                    *)

\* The events the page keeps when it has read up to next.
Window(next) == {n \in 1..next : n > next - KeptEvents}

\* A list of anything: a function on 1..Len.
IsList(s) == Len(s) \in Nat /\ s = [i \in 1..Len(s) |-> s[i]]

\* The fields of a task detail.
DetailFields == {"task", "ended", "events", "next", "last"}

\* A detail the page may show.
Shown(d) ==
    /\ DOMAIN d = DetailFields
    /\ d.task \in Viewed
    /\ d.next \in Nat
    /\ d.events = Window(d.next)
    /\ d.next <= rows[d.task].last

\* What loadTask has read before its next page.
Reading(load) ==
    /\ load.of \in Viewed
    /\ load.page \in Nat /\ load.page < LoadPages
    /\ load.after \in Nat
    /\ load.after <= load.page * ViewPage
    /\ load.after <= rows[load.of].last
    /\ load.page = 0 => load.after = 0
    /\ load.page # 0 => load.got.events = 1..load.after /\ load.got.next = load.after

\* A page the server has answered.
Answered(load) ==
    LET page == load.answer
    IN  /\ DOMAIN page = DetailFields
        /\ page.task = load.of
        /\ page.next \in Nat
        /\ page.events = (load.after + 1)..page.next
        /\ load.after <= page.next /\ page.next <= load.after + ViewPage
        /\ page.next <= rows[load.of].last

\* The fields of a load.
LoadFields == {"pc", "of", "fresh", "page", "after", "got", "answer"}

\* A load at one of its steps.
Loading(load) ==
    /\ DOMAIN load = LoadFields
    /\ load.pc = "tasks" => load.of \in Viewed \cup {"tasks"} /\ load.page = 0 /\ load.after = 0
    /\ load.pc \in {"detail", "answer"} => Reading(load)
    /\ load.pc = "answer" => Answered(load)

\* The open stream continues the shown timeline: what is on the wire are the
\* events between the page's cursor and the stream's, in order, and possibly
\* mesh_complete behind them.
Streaming ==
    LET ahead == source.cursor - detail.next
    IN  /\ Shown(detail)
        /\ DOMAIN source = {"task", "pc", "cursor", "wire"}
        /\ source.task \in Viewed
        /\ detail.task = source.task /\ stream_task = source.task
        /\ source.cursor \in Nat
        /\ detail.next <= source.cursor /\ source.cursor <= rows[source.task].last
        /\ source.wire \in Seq(Nat)
        /\ Len(source.wire) \in {ahead, ahead + 1}
        /\ \A n \in 1..ahead : source.wire[n] = detail.next + n
        /\ Len(source.wire) = ahead + 1 => source.wire[ahead + 1] = 0

\* The inductive invariant of the page, but for the route.
ViewInvariant ==
    /\ rows \in [Viewed -> [last : Nat, ended : BOOLEAN]]
    /\ IsList(loads)
    /\ \A i \in 1..Len(loads) : Loading(loads[i])
    /\ detail = NoDetail \/ Shown(detail)
    /\ source = NoSource \/ Streaming


\* A function on 1..n is a list of length n.
LEMMA ListIs ==
  ASSUME NEW n \in Nat, NEW f, f = [i \in 1..n |-> f[i]]
  PROVE  IsList(f) /\ Len(f) = n
<1>1. f \in Seq({f[i] : i \in 1..n})
  OBVIOUS
<1>2. Len(f) = n
  BY <1>1
<1>3. f = [i \in 1..Len(f) |-> f[i]]
  BY Zenon, <1>2
<1>4. QED
  BY Zenon, <1>2, <1>3 DEF IsList

\* A sequence is a list.
LEMMA SequenceIsListed ==
  ASSUME NEW S, NEW s \in Seq(S)
  PROVE  IsList(s)
<1>1. Len(s) \in Nat /\ s \in [1..Len(s) -> S]
  OBVIOUS
<1>2. s = [i \in 1..Len(s) |-> s[i]]
  BY Zenon, <1>1
<1>3. QED
  BY Zenon, <1>1, <1>2 DEF IsList

\* Append to a list.
LEMMA ListGrows ==
  ASSUME NEW f, IsList(f), NEW e
  PROVE  /\ IsList(Append(f, e)) /\ Len(Append(f, e)) = Len(f) + 1
         /\ \A i \in 1..Len(f) : Append(f, e)[i] = f[i]
         /\ Append(f, e)[Len(f) + 1] = e
<1> DEFINE S == {f[i] : i \in 1..Len(f)} \cup {e}
<1>1. f \in Seq(S) /\ e \in S
  BY DEF IsList
<1> HIDE DEF S
<1>2. Append(f, e) \in Seq(S) /\ Len(Append(f, e)) = Len(f) + 1
  BY <1>1
<1>3. IsList(Append(f, e))
  BY Zenon, <1>2, SequenceIsListed
<1>4. f \in Seq(S)
  BY Zenon, <1>1
<1>5. (\A i \in 1..Len(f) : Append(f, e)[i] = f[i]) /\ Append(f, e)[Len(f) + 1] = e
  BY <1>1
<1>6. QED
  BY Zenon, <1>2, <1>3, <1>5

\* mergeEvents of events that form one interval keeps its end.
LEMMA WindowOf ==
  ASSUME NEW a \in Nat, NEW b \in Nat, NEW current, NEW incoming,
         current \cup incoming = a..b
  PROVE  MergeEvents(current, incoming) = {n \in a..b : n > b - KeptEvents}
<1>1. ASSUME NEW n \in a..b
      PROVE  Cardinality({m \in a..b : m >= n}) = b - n + 1
  <2>1. {m \in a..b : m >= n} = n..b
    OBVIOUS
  <2>2. Cardinality(n..b) = b - n + 1
    BY FS_Interval
  <2>3. QED
    BY Zenon, <2>1, <2>2
<1>2. KeptEvents \in Nat
  BY Zenon, LoadFitsView
<1>3. \A n \in a..b : Cardinality({m \in a..b : m >= n}) <= KeptEvents <=> n > b - KeptEvents
  BY <1>1, <1>2
<1>4. QED
  BY Zenon, <1>3 DEF MergeEvents

\* The window moves with the next event.
LEMMA WindowGrows ==
  ASSUME NEW m \in Nat
  PROVE  MergeEvents(Window(m), {m + 1}) = Window(m + 1)
<1>1. KeptEvents \in Nat \ {0}
  BY Zenon, LoadFitsView
<1> DEFINE a == IF m < KeptEvents THEN 1 ELSE m - KeptEvents + 1
<1>2. a \in Nat /\ Window(m) \cup {m + 1} = a..(m + 1)
  BY <1>1 DEF Window
<1>3. MergeEvents(Window(m), {m + 1}) = {n \in a..(m + 1) : n > (m + 1) - KeptEvents}
  BY <1>2, WindowOf
<1>4. {n \in a..(m + 1) : n > (m + 1) - KeptEvents} = Window(m + 1)
  BY <1>1 DEF Window
<1>5. QED
  BY Zenon, <1>3, <1>4

\* The page of events the server answers, by PageIsBounded.
LEMMA PageFollows ==
  ASSUME ViewInvariant, NEW t \in Viewed, NEW after \in Nat, after <= rows[t].last
  PROVE  /\ PageNext(t, after) \in Nat /\ after <= PageNext(t, after)
         /\ PageNext(t, after) <= rows[t].last /\ PageNext(t, after) <= after + ViewPage
<1> DEFINE last == rows[t].last
           sizes == [n \in 1..last |-> 1]
<1>1. last \in Nat
  BY Zenon DEF ViewInvariant
<1>2. Len(sizes) = last
  <2>1. sizes \in Seq(Nat)
    BY <1>1
  <2>2. QED
    BY <1>1, <2>1
<1>3. ViewPage \in Nat /\ FrameLimit \in Nat
  BY Zenon, LoadFitsView
<1>4. PageNext(t, after) = LoadEventPage(sizes, 0, last, after, ViewPage, FrameLimit).next
  BY Zenon DEF PageNext
<1>5. after <= last
  BY Zenon
<1>6. rows[t].last = last
  BY Zenon
<1> HIDE DEF sizes, last
<1> DEFINE next == LoadEventPage(sizes, 0, last, after, ViewPage, FrameLimit).next
<1>7. next \in Nat /\ after <= next /\ next <= last /\ next <= after + ViewPage
  BY Zenon, <1>1, <1>2, <1>3, <1>5, PageIsBounded
<1>8. PageNext(t, after) = next
  BY Zenon, <1>4
<1> HIDE DEF next
<1>9. QED
  BY Zenon, <1>6, <1>7, <1>8

\* A task's events only grow.
Grows == rows' \in [Viewed -> [last : Nat, ended : BOOLEAN]]
         /\ \A t \in Viewed : rows[t].last <= rows'[t].last

\* What a load has read stays right while the rows grow.
LEMMA LoadingKept ==
  ASSUME ViewInvariant, Grows, NEW load, Loading(load)
  PROVE  Loading(load)'
<1>1. \A t \in Viewed : rows[t].last \in Nat /\ rows'[t].last \in Nat
  BY Zenon DEF ViewInvariant, Grows
<1>2. Reading(load) => Reading(load)'
  BY <1>1 DEF Grows, Reading
<1>3. Reading(load) /\ Answered(load) => Answered(load)'
  BY <1>1 DEF Grows, Reading, Answered
<1>4. QED
  BY Zenon, <1>2, <1>3 DEF Loading

\* What the page shows stays right while the rows grow.
LEMMA ShownKept ==
  ASSUME ViewInvariant, Grows, NEW d, Shown(d)
  PROVE  Shown(d)'
<1>1. \A t \in Viewed : rows[t].last \in Nat /\ rows'[t].last \in Nat
  BY Zenon DEF ViewInvariant, Grows
<1>2. QED
  BY <1>1 DEF Grows, Shown, Window

\* So does what is on the wire.
LEMMA StreamKept ==
  ASSUME ViewInvariant, Grows, Streaming, UNCHANGED <<detail, source, stream_task>>
  PROVE  Streaming'
<1>1. \A t \in Viewed : rows[t].last \in Nat /\ rows'[t].last \in Nat
  BY Zenon DEF ViewInvariant, Grows
<1>2. Shown(detail)'
  BY SMTT(60), <1>1 DEF Grows, Shown, Window, Streaming
<1>3. QED
  BY SMTT(40), <1>1, <1>2 DEF Grows, Streaming


-----------------------------------------------------------------------------
(* The steps. *)

\* A step that leaves the detail and the stream.
LEMMA DetailRests ==
  ASSUME ViewInvariant, Grows, UNCHANGED <<detail, source, stream_task>>
  PROVE  (detail = NoDetail \/ Shown(detail))' /\ (source = NoSource \/ Streaming)'
<1>1. PICK d : d = detail
  BY Zenon
<1>2. Shown(d) => Shown(d)'
  BY Zenon, ShownKept
<1>3. Shown(detail) => Shown(detail)'
  BY Zenon, <1>1, <1>2 DEF Shown
<1>4. Streaming => Streaming'
  BY Zenon, StreamKept
<1>5. QED
  BY Zenon, <1>3, <1>4 DEF ViewInvariant, NoDetail, NoSource

\* A step that leaves the loads.
LEMMA LoadsRest ==
  ASSUME ViewInvariant, Grows, UNCHANGED loads
  PROVE  (IsList(loads) /\ \A i \in 1..Len(loads) : Loading(loads[i]))'
<1>1. IsList(loads)'
  BY Zenon DEF ViewInvariant, IsList
<1>2. ASSUME NEW i \in 1..Len(loads) PROVE Loading(loads[i])'
  <2>1. PICK load : load = loads[i]
    BY Zenon
  <2>2. Loading(load)
    BY Zenon, <2>1 DEF ViewInvariant
  <2>3. Loading(load)'
    BY Zenon, <2>2, LoadingKept
  <2>4. loads'[i] = load
    BY Zenon, <2>1
  <2>5. QED
    BY Zenon, <2>3, <2>4 DEF Loading, Reading, Answered
<1>3. QED
  BY Zenon, <1>1, <1>2

\* A load is done.
LEMMA LoadEnds ==
  ASSUME ViewInvariant, Grows, NEW i \in 1..Len(loads), loads' = Without(i)
  PROVE  (IsList(loads) /\ \A j \in 1..Len(loads) : Loading(loads[j]))'
<1> DEFINE n == Len(loads) - 1
<1>1. n \in Nat
  BY DEF ViewInvariant, IsList
<1>2. loads' = [j \in 1..n |-> IF j < i THEN loads[j] ELSE loads[j + 1]]
  BY Zenon DEF Without
<1>3. loads' = [j \in 1..n |-> loads'[j]]
  BY Zenon, <1>2
<1>4. IsList(loads') /\ Len(loads') = n
  <2> HIDE DEF n
  <2>1. QED
    BY Zenon, <1>1, <1>3, ListIs
<1>5. ASSUME NEW j \in 1..n PROVE Loading(loads[j])'
  <2> DEFINE k == IF j < i THEN j ELSE j + 1
  <2>1. k \in 1..Len(loads)
    BY <1>1
  <2>2. PICK load : load = loads[k]
    BY Zenon
  <2>3. Loading(load)
    BY Zenon, <2>1, <2>2 DEF ViewInvariant
  <2>4. Loading(load)'
    BY Zenon, <2>3, LoadingKept
  <2>5. loads'[j] = load
    BY Zenon, <1>2, <2>2
  <2>6. QED
    BY Zenon, <2>4, <2>5 DEF Loading, Reading, Answered
<1>6. IsList(loads)'
  BY Zenon, <1>4 DEF IsList
<1>7. QED
  BY Zenon, <1>4, <1>5, <1>6

\* One load goes on.
LEMMA LoadMoves ==
  ASSUME ViewInvariant, Grows, NEW i \in 1..Len(loads), NEW new, Loading(new)',
         loads' = [loads EXCEPT ![i] = new]
  PROVE  (IsList(loads) /\ \A j \in 1..Len(loads) : Loading(loads[j]))'
<1> DEFINE n == Len(loads)
<1>1. n \in Nat /\ loads = [j \in 1..n |-> loads[j]]
  BY Zenon DEF ViewInvariant, IsList
<1>2. loads' = [j \in 1..n |-> IF j = i THEN new ELSE loads[j]]
  BY Zenon, <1>1
<1>3. loads' = [j \in 1..n |-> loads'[j]]
  BY Zenon, <1>2
<1>4. IsList(loads') /\ Len(loads') = n
  <2> HIDE DEF n
  <2>1. QED
    BY Zenon, <1>1, <1>3, ListIs
<1>5. ASSUME NEW j \in 1..n PROVE Loading(loads[j])'
  <2>1. CASE j = i
    <3>1. loads'[j] = new
      BY Zenon, <1>2, <2>1
    <3>2. QED
      BY Zenon, <3>1 DEF Loading, Reading, Answered
  <2>2. CASE j # i
    <3>1. PICK load : load = loads[j]
      BY Zenon
    <3>2. Loading(load)
      BY Zenon, <3>1 DEF ViewInvariant
    <3>3. Loading(load)'
      BY Zenon, <3>2, LoadingKept
    <3>4. loads'[j] = load
      BY Zenon, <1>2, <2>2, <3>1
    <3>5. QED
      BY Zenon, <3>3, <3>4 DEF Loading, Reading, Answered
  <2>3. QED
    BY Zenon, <2>1, <2>2
<1>6. IsList(loads)'
  BY Zenon, <1>4 DEF IsList
<1>7. QED
  BY Zenon, <1>4, <1>5, <1>6

\* refresh starts one load and marks the others as stale.
LEMMA RefreshLoads ==
  ASSUME ViewInvariant, UNCHANGED rows, NEW r \in Routes, Refresh(r)
  PROVE  (IsList(loads) /\ \A j \in 1..Len(loads) : Loading(loads[j]))'
<1> DEFINE n == Len(loads)
           stale == [i \in DOMAIN loads |-> [loads[i] EXCEPT !.fresh = FALSE]]
           new == [pc |-> IF r \in Viewed \cup {"tasks"} THEN "tasks" ELSE r, of |-> r,
                   fresh |-> TRUE, page |-> 0, after |-> 0, got |-> NoDetail,
                   answer |-> NoDetail]
<1>1. n \in Nat /\ DOMAIN loads = 1..n
  BY Zenon DEF ViewInvariant, IsList
<1>2. loads' = Append(stale, new)
  BY Zenon DEF Refresh
<1>3. IsList(stale) /\ Len(stale) = n
  <2>1. stale = [i \in 1..n |-> stale[i]]
    BY Zenon, <1>1
  <2> HIDE DEF stale, n
  <2>2. QED
    BY Zenon, <1>1, <2>1, ListIs
<1>4. ASSUME NEW i \in 1..n, NEW load, load = stale[i] PROVE Loading(load)'
  <2>1. Loading(loads[i])
    BY Zenon DEF ViewInvariant
  <2>2. load = [loads[i] EXCEPT !.fresh = FALSE]
    BY Zenon, <1>1, <1>4
  <2>3. /\ DOMAIN load = LoadFields /\ load.pc = loads[i].pc
        /\ load.of = loads[i].of /\ load.page = loads[i].page
        /\ load.after = loads[i].after /\ load.got = loads[i].got
        /\ load.answer = loads[i].answer
    BY Zenon, <2>1, <2>2 DEF Loading, LoadFields
  <2>4. Loading(load)
    BY Zenon, <2>1, <2>3 DEF Loading, Reading, Answered
  <2>5. QED
    BY Zenon, <2>4 DEF Loading, Reading, Answered
<1>5. ASSUME NEW load, load = new PROVE Loading(load)'
  <2>1. /\ DOMAIN load = LoadFields /\ load.page = 0 /\ load.after = 0 /\ load.of = r
        /\ load.pc = IF r \in Viewed \cup {"tasks"} THEN "tasks" ELSE r
    BY Zenon, <1>5 DEF LoadFields
  <2>2. load.pc \notin {"detail", "answer"} /\ (load.pc = "tasks" => load.of \in Viewed \cup {"tasks"})
    BY Zenon, <2>1 DEF Routes
  <2>3. QED
    BY Zenon, <2>1, <2>2 DEF Loading
<1>6. PICK s, e : s = stale /\ e = new
  BY Zenon
<1> HIDE DEF stale, new
<1>7. /\ IsList(loads') /\ Len(loads') = n + 1
      /\ \A i \in 1..n : loads'[i] = s[i]
      /\ loads'[n + 1] = e
  BY <1>2, <1>3, <1>6, ListGrows
<1>8. ASSUME NEW j \in 1..(n + 1) PROVE Loading(loads[j])'
  <2>1. PICK load : load = loads'[j]
    BY Zenon
  <2>2. Loading(load)'
    <3>1. CASE j \in 1..n
      BY Zenon, <1>4, <1>6, <1>7, <2>1, <3>1
    <3>2. CASE j = n + 1
      BY Zenon, <1>5, <1>6, <1>7, <2>1, <3>2
    <3>3. QED
      BY <1>1, <3>1, <3>2
  <2>3. QED
    BY Zenon, <2>1, <2>2 DEF Loading, Reading, Answered
<1>9. IsList(loads)'
  BY Zenon, <1>7 DEF IsList
<1>10. QED
  BY Zenon, <1>7, <1>8, <1>9

\* The page's own half of the invariant, and the loads'.
LEMMA RowsRest ==
  ASSUME ViewInvariant, UNCHANGED rows
  PROVE  Grows
<1>1. \A t \in Viewed : rows[t].last \in Nat
  BY Zenon DEF ViewInvariant
<1>2. QED
  BY <1>1 DEF ViewInvariant, Grows

\* closeStream.
LEMMA ClosedRests ==
  ASSUME ViewInvariant, Grows, UNCHANGED detail, source' = NoSource
  PROVE  (detail = NoDetail \/ Shown(detail))' /\ (source = NoSource \/ Streaming)'
<1>1. PICK d : d = detail
  BY Zenon
<1>2. Shown(d) => Shown(d)'
  BY Zenon, ShownKept
<1>3. Shown(detail) => Shown(detail)'
  BY Zenon, <1>1, <1>2 DEF Shown
<1>4. QED
  BY Zenon, <1>3 DEF ViewInvariant, NoDetail, NoSource

\* The three parts of the invariant.
LEMMA Assembled ==
  ASSUME Grows, (IsList(loads) /\ \A i \in 1..Len(loads) : Loading(loads[i]))',
         (detail = NoDetail \/ Shown(detail))' /\ (source = NoSource \/ Streaming)'
  PROVE  ViewInvariant'
BY Zenon DEF Grows, ViewInvariant

\* An event is committed.
LEMMA RowsKeep ==
  ASSUME ViewInvariant, NEW t \in Viewed, NEW ends \in BOOLEAN, RowsGrow(t, ends)
  PROVE  ViewInvariant'
<1>1. Grows
  BY DEF ViewInvariant, RowsGrow, Grows
<1>2. QED
  BY Zenon, <1>1, LoadsRest, DetailRests, Assembled DEF RowsGrow

\* The user goes to another route, or the page refreshes itself.
LEMMA RoutesKeep ==
  ASSUME ViewInvariant, (\E r \in Routes : HashChange(r)) \/ RefreshAgain, route \in Routes
  PROVE  ViewInvariant'
<1>1. UNCHANGED rows /\ UNCHANGED detail
  BY Zenon DEF HashChange, RefreshAgain
<1>2. Grows
  BY Zenon, <1>1, RowsRest
<1>3. source' = NoSource \/ UNCHANGED <<source, stream_task>>
  BY Zenon DEF HashChange, RefreshAgain, Closed
<1>4. \E r \in Routes : Refresh(r)
  BY Zenon DEF HashChange, RefreshAgain
<1>5. QED
  BY ZenonT(60), <1>1, <1>2, <1>3, <1>4, RefreshLoads, ClosedRests, DetailRests, Assembled

\* A load ends without a detail.
LEMMA EndsKeep ==
  ASSUME ViewInvariant, NEW i \in DOMAIN loads,
         LoadFails(i) \/ OverviewLoaded(i) \/ SettingsLoaded(i)
  PROVE  ViewInvariant'
<1>1. i \in 1..Len(loads)
  BY Zenon DEF ViewInvariant, IsList
<1>2. Grows
  BY Zenon, RowsRest DEF LoadFails, OverviewLoaded, SettingsLoaded
<1>3. loads' = Without(i) /\ UNCHANGED <<detail, source, stream_task>>
  BY Zenon DEF LoadFails, OverviewLoaded, SettingsLoaded
<1>4. QED
  BY Zenon, <1>1, <1>2, <1>3, LoadEnds, DetailRests, Assembled

\* The list of tasks has arrived: the load of a task goes on to its detail.
LEMMA TasksKeep ==
  ASSUME ViewInvariant, NEW i \in DOMAIN loads, TasksLoaded(i)
  PROVE  ViewInvariant'
<1>1. i \in 1..Len(loads) /\ Loading(loads[i])
  BY Zenon DEF ViewInvariant, IsList
<1>2. Grows
  BY Zenon, RowsRest DEF TasksLoaded
<1>3. CASE loads' = Without(i) /\ UNCHANGED <<detail, source, stream_task>>
  BY Zenon, <1>1, <1>2, <1>3, LoadEnds, DetailRests, Assembled
<1>4. CASE loads' = Without(i) /\ Closed /\ detail' = NoDetail
  <2>1. (detail = NoDetail \/ Shown(detail))' /\ (source = NoSource \/ Streaming)'
    BY Zenon, <1>4 DEF Closed, NoDetail, NoSource
  <2>2. QED
    BY Zenon, <1>1, <1>2, <1>4, <2>1, LoadEnds, Assembled
<1>5. CASE /\ loads[i].of # "tasks" /\ loads' = [loads EXCEPT ![i].pc = "detail"]
           /\ UNCHANGED <<detail, source, stream_task>>
  <2>1. PICK new : new = [loads[i] EXCEPT !.pc = "detail"]
    BY Zenon
  <2>2. /\ DOMAIN new = LoadFields /\ new.pc = "detail" /\ new.of = loads[i].of
        /\ new.page = loads[i].page /\ new.after = loads[i].after
    BY Zenon, <1>1, <2>1 DEF Loading, LoadFields
  <2>3. new.of \in Viewed /\ new.page = 0 /\ new.after = 0
    BY Zenon, <1>1, <1>5, <2>2 DEF Loading, TasksLoaded
  <2>4. rows'[new.of].last \in Nat
    BY Zenon, <1>2, <2>3 DEF Grows
  <2>5. LoadPages \in Nat \ {0} /\ ViewPage \in Nat
    BY Zenon, LoadFitsView
  <2>6. Reading(new)'
    BY <2>3, <2>4, <2>5 DEF Reading
  <2>7. Loading(new)'
    BY Zenon, <2>2, <2>6 DEF Loading
  <2>8. loads' = [loads EXCEPT ![i] = new]
    BY Zenon, <1>5, <2>1
  <2>9. QED
    BY ZenonT(60), <1>1, <1>2, <1>5, <2>7, <2>8, LoadMoves, DetailRests, Assembled
<1>6. QED
  BY Zenon, <1>3, <1>4, <1>5 DEF TasksLoaded

\* The server answers a page.
LEMMA AnswerKeeps ==
  ASSUME ViewInvariant, NEW i \in DOMAIN loads, DetailAnswered(i)
  PROVE  ViewInvariant'
<1>1. i \in 1..Len(loads) /\ Loading(loads[i])
  BY Zenon DEF ViewInvariant, IsList
<1>2. Grows
  BY Zenon, RowsRest DEF DetailAnswered
<1>3. Reading(loads[i]) /\ UNCHANGED rows
  BY Zenon, <1>1 DEF DetailAnswered, Loading
<1>4. PICK page, next : /\ page = TaskDetail(loads[i].of, loads[i].after)
                        /\ next = PageNext(loads[i].of, loads[i].after)
  BY Zenon
<1>5. PICK new : new = [loads[i] EXCEPT !.pc = "answer", !.answer = page]
  BY Zenon
<1>6. /\ DOMAIN page = DetailFields /\ page.task = loads[i].of /\ page.next = next
      /\ page.events = (loads[i].after + 1)..next
  BY Zenon, <1>4 DEF TaskDetail, DetailFields
<1>7. /\ DOMAIN new = LoadFields /\ new.pc = "answer" /\ new.of = loads[i].of
      /\ new.page = loads[i].page /\ new.after = loads[i].after
      /\ new.got = loads[i].got /\ new.answer = page
  BY Zenon, <1>1, <1>5 DEF Loading, LoadFields
<1>8. /\ next \in Nat /\ new.after <= next /\ next <= rows[new.of].last
      /\ next <= new.after + ViewPage
  BY Zenon, <1>3, <1>4, <1>7, PageFollows DEF Reading
<1>9. Reading(new)'
  BY Zenon, <1>3, <1>7 DEF Reading
<1>10. Answered(new)'
  BY Zenon, <1>3, <1>6, <1>7, <1>8 DEF Answered
<1>11. Loading(new)'
  BY Zenon, <1>7, <1>9, <1>10 DEF Loading
<1>12. loads' = [loads EXCEPT ![i] = new]
  BY Zenon, <1>4, <1>5 DEF DetailAnswered
<1>13. QED
  BY Zenon, <1>1, <1>2, <1>11, <1>12, LoadMoves, DetailRests, Assembled DEF DetailAnswered


\* All the pages of a load together are no more than the page keeps.
LEMMA PagesFit ==
  ASSUME NEW page \in Nat, page < LoadPages
  PROVE  page * ViewPage + ViewPage <= KeptEvents /\ (page + 1) * ViewPage = page * ViewPage + ViewPage
<1>1. LoadPages \in Nat /\ ViewPage \in Nat /\ KeptEvents \in Nat /\ LoadPages * ViewPage <= KeptEvents
  BY Zenon, LoadFitsView
<1>2. (page + 1) * ViewPage = page * ViewPage + ViewPage
  BY <1>1
<1>3. PICK rest \in Nat : LoadPages = (page + 1) + rest
  <2>1. LoadPages - (page + 1) \in Nat
    BY <1>1
  <2>2. LoadPages = (page + 1) + (LoadPages - (page + 1))
    BY <1>1
  <2>3. QED
    BY Zenon, <2>1, <2>2
<1>4. LoadPages * ViewPage = (page + 1) * ViewPage + rest * ViewPage
  BY <1>1, <1>3
<1>5. rest * ViewPage \in Nat /\ (page + 1) * ViewPage \in Nat /\ page * ViewPage \in Nat
  BY <1>1
<1>6. QED
  BY <1>1, <1>2, <1>4, <1>5

\* What loadTask has after a page: everything from the first event on.
LEMMA PageIsRead ==
  ASSUME ViewInvariant, NEW load, Loading(load), load.pc = "answer", NEW got,
         got = IF load.page = 0 THEN load.answer ELSE MergeTaskDetail(load.got, load.answer)
  PROVE  /\ DOMAIN got = DetailFields /\ got.task = load.of
         /\ got.next = load.answer.next /\ got.events = 1..got.next
         /\ got.next <= load.page * ViewPage + ViewPage
<1>1. Reading(load) /\ Answered(load)
  BY Zenon DEF Loading
<1> DEFINE page == load.answer
<1>2. load.page * ViewPage \in Nat /\ ViewPage \in Nat /\ KeptEvents \in Nat
  BY <1>1, LoadFitsView DEF Reading
<1>3. page.next <= load.page * ViewPage + ViewPage
  BY SMTT(40), <1>1, <1>2 DEF Reading, Answered
<1>4. CASE load.page = 0
  BY SMTT(40), <1>1, <1>3, <1>4 DEF Reading, Answered
<1>5. CASE load.page # 0
  <2>1. got = [page EXCEPT !.events = MergeEvents(load.got.events, page.events),
                           !.next = Larger(load.got.next, page.next)]
    BY Zenon, <1>5 DEF MergeTaskDetail
  <2>2. /\ DOMAIN got = DetailFields /\ got.task = page.task
        /\ got.events = MergeEvents(load.got.events, page.events)
        /\ got.next = Larger(load.got.next, page.next)
    BY Zenon, <1>1, <2>1 DEF Answered, DetailFields
  <2>3. got.next = page.next
    BY SMTT(40), <1>1, <1>5, <2>2 DEF Reading, Answered, Larger
  <2>4. load.got.events \cup page.events = 1..page.next
    BY SMTT(40), <1>1, <1>5 DEF Reading, Answered
  <2>5. got.events = {n \in 1..page.next : n > page.next - KeptEvents}
    <3>1. PICK next, mine, theirs : /\ next = page.next /\ mine = load.got.events
                                    /\ theirs = page.events
      BY Zenon
    <3>2. next \in Nat /\ mine \cup theirs = 1..next
      BY Zenon, <1>1, <2>4, <3>1 DEF Answered
    <3>3. MergeEvents(mine, theirs) = {n \in 1..next : n > next - KeptEvents}
      BY <3>2, WindowOf
    <3>4. QED
      BY Zenon, <2>2, <3>1, <3>3
  <2>6. page.next <= KeptEvents
    BY SMTT(60), <1>1, <1>2, <1>3, PagesFit DEF Reading, Answered
  <2>7. got.events = 1..page.next
    <3>1. PICK next : next = page.next
      BY Zenon
    <3>2. next \in Nat /\ next <= KeptEvents
      BY Zenon, <1>1, <2>6, <3>1 DEF Answered
    <3>3. {n \in 1..next : n > next - KeptEvents} = 1..next
      BY <1>2, <3>2
    <3>4. QED
      BY Zenon, <2>5, <3>1, <3>3
  <2>8. QED
    BY Zenon, <1>1, <1>3, <2>2, <2>3, <2>7 DEF Answered
<1>6. QED
  BY Zenon, <1>4, <1>5

\* A page is merged; with the last one the detail is shown and its stream
\* opened.
LEMMA DetailKeeps ==
  ASSUME ViewInvariant, NEW i \in DOMAIN loads, DetailLoaded(i)
  PROVE  ViewInvariant'
<1>1. i \in 1..Len(loads) /\ Loading(loads[i])
  BY Zenon DEF ViewInvariant, IsList
<1>2. Grows
  BY Zenon, RowsRest DEF DetailLoaded
<1>3. PICK load, got : /\ load = loads[i]
                       /\ got = IF load.page = 0 THEN load.answer
                                ELSE MergeTaskDetail(load.got, load.answer)
  BY Zenon
<1>4. UNCHANGED rows /\ Loading(load) /\ load.pc = "answer"
  BY Zenon, <1>1, <1>3 DEF DetailLoaded
<1>5. Reading(load) /\ Answered(load)
  BY Zenon, <1>4 DEF Loading
<1>6. /\ DOMAIN got = DetailFields /\ got.task = load.of
      /\ got.next = load.answer.next /\ got.events = 1..got.next
      /\ got.next <= load.page * ViewPage + ViewPage
  BY SMTT(60), <1>3, <1>4, PageIsRead
<1>7. CASE loads' = Without(i) /\ UNCHANGED <<detail, source, stream_task>>
  BY Zenon, <1>1, <1>2, <1>7, LoadEnds, DetailRests, Assembled
<1>8. CASE /\ load.page + 1 < LoadPages
           /\ loads' = [loads EXCEPT ![i].pc = "detail", ![i].page = @ + 1,
                             ![i].got = got, ![i].after = load.answer.next]
           /\ UNCHANGED <<detail, source, stream_task>>
  <2>1. PICK new : new = [load EXCEPT !.pc = "detail", !.page = @ + 1,
                             !.got = got, !.after = load.answer.next]
    BY Zenon
  <2>2. /\ DOMAIN new = LoadFields /\ new.pc = "detail" /\ new.of = load.of
        /\ new.page = load.page + 1 /\ new.after = got.next /\ new.got = got
    BY Zenon, <1>4, <1>6, <2>1 DEF Loading, LoadFields
  <2>3. Reading(new)'
    <3>1. new.of \in Viewed /\ new.page \in Nat /\ new.page < LoadPages /\ new.page # 0
      BY <1>5, <1>8, <2>2 DEF Reading
    <3>2. new.after \in Nat /\ new.after <= rows'[new.of].last
      BY Zenon, <1>4, <1>5, <1>6, <2>2 DEF Answered
    <3>3. new.after <= new.page * ViewPage
      <4>1. load.page < LoadPages /\ load.page \in Nat
        BY Zenon, <1>5 DEF Reading
      <4>2. new.page * ViewPage = load.page * ViewPage + ViewPage
        BY Zenon, <4>1, <2>2, PagesFit
      <4>3. QED
        BY Zenon, <1>6, <2>2, <4>2
    <3>4. QED
      BY Zenon, <1>6, <2>2, <3>1, <3>2, <3>3 DEF Reading
  <2>4. Loading(new)'
    BY Zenon, <2>2, <2>3 DEF Loading
  <2>5. loads' = [loads EXCEPT ![i] = new]
    BY Zenon, <1>3, <1>8, <2>1
  <2>6. QED
    BY ZenonT(60), <1>1, <1>2, <1>8, <2>4, <2>5, LoadMoves, DetailRests, Assembled
<1>9. CASE /\ loads' = Without(i) /\ detail' = got
           /\ \/ Closed
              \/ /\ source' = OpenedSource(load.of, StreamFrom(got))
                 /\ stream_task' = load.of
  <2>1. got.next \in Nat /\ got.next <= rows[got.task].last /\ got.task \in Viewed
    BY Zenon, <1>5, <1>6 DEF Reading, Answered
  <2>2. got.events = Window(got.next)
    <3>1. load.page \in Nat /\ load.page < LoadPages /\ KeptEvents \in Nat /\ ViewPage \in Nat
      BY Zenon, <1>5, LoadFitsView DEF Reading
    <3>2. load.page * ViewPage + ViewPage <= KeptEvents /\ load.page * ViewPage \in Nat
      BY <3>1, PagesFit
    <3>3. got.next <= KeptEvents
      BY <1>6, <2>1, <3>1, <3>2
    <3>4. QED
      BY SMTT(40), <1>6, <2>1, <3>1, <3>3 DEF Window
  <2>3. Shown(detail)'
    BY Zenon, <1>4, <1>6, <1>9, <2>1, <2>2 DEF Shown, Window
  <2>4. (source = NoSource \/ Streaming)'
    <3>1. CASE Closed
      BY ZenonT(60), <3>1 DEF Closed, NoSource
    <3>2. CASE source' = OpenedSource(load.of, StreamFrom(got)) /\ stream_task' = load.of
      <4>1. /\ DOMAIN source' = {"task", "pc", "cursor", "wire"} /\ source'.task = got.task
            /\ source'.cursor = got.next /\ source'.wire = <<>>
        BY Zenon, <1>6, <3>2 DEF OpenedSource, StreamFrom
      <4>2. source'.cursor - detail'.next = 0
        BY SMTT(40), <1>9, <2>1, <4>1
      <4>3. QED
        BY SMTT(40), <1>4, <1>6, <1>9, <2>1, <2>3, <3>2, <4>1, <4>2 DEF Streaming
    <3>3. QED
      BY Zenon, <1>9, <3>1, <3>2
  <2>5. (detail = NoDetail \/ Shown(detail))'
    BY Zenon, <2>3
  <2>6. QED
    BY ZenonT(60), <1>1, <1>2, <1>9, <2>4, <2>5, LoadEnds, Assembled
<1>10. QED
  BY Zenon, <1>3, <1>7, <1>8, <1>9 DEF DetailLoaded

\* The server puts what is new on the wire.
LEMMA PollKeeps ==
  ASSUME ViewInvariant, source # NoSource, StreamPolls
  PROVE  ViewInvariant'
<1>1. Streaming /\ UNCHANGED <<rows, loads, detail, stream_task>>
  BY Zenon DEF ViewInvariant, StreamPolls
<1>2. Grows
  BY Zenon, <1>1, RowsRest
<1>3. PICK next : next = PageNext(source.task, source.cursor)
  BY Zenon
<1>4. next \in Nat /\ source.cursor <= next /\ next <= rows[source.task].last
  BY Zenon, <1>1, <1>3, PageFollows DEF Streaming
<1>5. PICK events : events = [n \in 1..(next - source.cursor) |-> source.cursor + n]
  BY Zenon
<1>6. events \in Seq(Nat) /\ Len(events) = next - source.cursor
  <2>1. PICK cursor, count : cursor = source.cursor /\ count = next - source.cursor
    BY Zenon
  <2>2. cursor \in Nat /\ count \in Nat
    BY SMTT(40), <1>1, <1>4, <2>1 DEF Streaming
  <2>3. events = [n \in 1..count |-> cursor + n]
    BY Zenon, <1>5, <2>1
  <2>4. events \in Seq(Nat) /\ Len(events) = count
    BY <2>2, <2>3
  <2>5. QED
    BY Zenon, <2>1, <2>4
<1>7. PICK wire : wire = source'.wire
  BY Zenon
<1>8. /\ DOMAIN source' = {"task", "pc", "cursor", "wire"}
      /\ source'.task = source.task /\ source'.cursor = next
      /\ wire \in {events, events \o <<0>>}
  BY Zenon, <1>1, <1>3, <1>5, <1>7 DEF Streaming, StreamPolls
<1>9. source.wire = <<>> /\ source.cursor = detail.next
  BY <1>1 DEF StreamPolls, Streaming, Shown
<1>10. /\ wire \in Seq(Nat) /\ Len(wire) \in {next - detail.next, next - detail.next + 1}
       /\ \A n \in 1..(next - detail.next) : wire[n] = detail.next + n
       /\ Len(wire) = next - detail.next + 1 => wire[next - detail.next + 1] = 0
  <2>1. PICK from, ahead : from = detail.next /\ ahead = next - detail.next
    BY Zenon
  <2>2. from \in Nat /\ ahead \in Nat
    BY SMTT(40), <1>1, <1>4, <1>9, <2>1 DEF Streaming
  <2>3. events \in Seq(Nat) /\ Len(events) = ahead
    BY Zenon, <1>6, <1>9, <2>1
  <2>4. \A n \in 1..ahead : events[n] = from + n
    BY Zenon, <1>5, <1>9, <2>1
  <2>5. CASE wire = events
    BY <2>1, <2>2, <2>3, <2>4, <2>5
  <2>6. CASE wire = events \o <<0>>
    <3>1. /\ wire \in Seq(Nat) /\ Len(wire) = ahead + 1 /\ wire[ahead + 1] = 0
          /\ \A n \in 1..ahead : wire[n] = events[n]
      BY <2>2, <2>3, <2>6
    <3>2. QED
      BY Zenon, <2>1, <2>2, <2>4, <3>1
  <2>7. QED
    BY Zenon, <1>8, <2>5, <2>6
<1>11. Shown(detail)'
  BY Zenon, <1>1 DEF Streaming, Shown, Window
<1>12. Streaming'
  BY Zenon, <1>1, <1>4, <1>7, <1>8, <1>9, <1>10, <1>11 DEF Streaming
<1>13. QED
  BY Zenon, <1>1, <1>2, <1>11, <1>12, LoadsRest, Assembled

\* An event arrives on the stream and is merged.
LEMMA EventKeeps ==
  ASSUME ViewInvariant, source # NoSource, EventArrives
  PROVE  ViewInvariant'
<1>1. Streaming /\ UNCHANGED <<rows, loads, stream_task>>
  BY Zenon DEF ViewInvariant, EventArrives
<1>2. Grows
  BY Zenon, <1>1, RowsRest
<1>3. PICK wire, next, ahead : wire = source.wire /\ next = detail.next /\ ahead = source.cursor - detail.next
  BY Zenon
<1>4. wire \in Seq(Nat) /\ wire # <<>> /\ Head(wire) # 0 /\ next \in Nat /\ ahead \in Nat
  BY <1>1, <1>3 DEF EventArrives, Streaming, Shown
<1>5. ahead # 0 /\ Head(wire) = next + 1
  BY SMTT(40), <1>1, <1>3, <1>4 DEF Streaming
<1>6. detail' = [detail EXCEPT !.events = MergeEvents(@, {next + 1}), !.next = Larger(@, next + 1)]
  BY Zenon, <1>1, <1>3, <1>5 DEF EventArrives, Streaming
<1>7. /\ DOMAIN detail' = DetailFields /\ detail'.task = detail.task
      /\ detail'.events = MergeEvents(detail.events, {next + 1})
      /\ detail'.next = next + 1
  BY <1>1, <1>3, <1>4, <1>6 DEF Streaming, Shown, DetailFields, Larger
<1>8. detail'.events = Window(next + 1)
  BY Zenon, <1>1, <1>3, <1>4, <1>7, WindowGrows DEF Streaming, Shown
<1>9. source.cursor = next + ahead /\ source.cursor <= rows[source.task].last /\ source.cursor \in Nat
  BY <1>1, <1>3, <1>4 DEF Streaming
<1>10. Shown(detail)'
  <2>1. next + 1 <= rows[detail.task].last
    <3>1. detail.task = source.task /\ rows[source.task].last \in Nat
      BY <1>1 DEF ViewInvariant, Streaming
    <3>. QED BY <1>4, <1>5, <1>9, <3>1
  <2>2. QED
    <3>1. detail'.task \in Viewed /\ detail'.next \in Nat
      BY <1>1, <1>4, <1>7 DEF Streaming, Shown
    <3>2. detail'.events = Window(detail'.next)
      BY Zenon, <1>7, <1>8
    <3>3. detail'.next <= rows'[detail'.task].last
      BY Zenon, <1>1, <1>7, <2>1
    <3>4. Window(detail.next)' = Window(detail'.next)
      BY Zenon DEF Window
    <3>5. QED
      BY ZenonT(60), <1>7, <3>1, <3>2, <3>3, <3>4 DEF Shown
<1>11. source' = [source EXCEPT !.wire = Tail(@)]
  BY Zenon DEF EventArrives
<1>12. /\ DOMAIN source' = {"task", "pc", "cursor", "wire"} /\ source'.task = source.task
       /\ source'.cursor = source.cursor /\ source'.wire = Tail(wire)
  BY Zenon, <1>1, <1>3, <1>11 DEF Streaming
<1>13. PICK rest : rest = Tail(wire)
  BY Zenon
<1>14. /\ rest \in Seq(Nat) /\ Len(rest) = Len(wire) - 1
       /\ \A n \in 1..Len(rest) : rest[n] = wire[n + 1]
  BY <1>4, <1>13
<1>15. /\ Len(rest) \in {ahead - 1, ahead}
       /\ \A n \in 1..(ahead - 1) : rest[n] = (next + 1) + n
       /\ Len(rest) = ahead => rest[ahead] = 0
  <2>1. /\ Len(wire) \in {ahead, ahead + 1}
        /\ \A n \in 1..ahead : wire[n] = next + n
        /\ Len(wire) = ahead + 1 => wire[ahead + 1] = 0
    BY Zenon, <1>1, <1>3 DEF Streaming
  <2>2. Len(rest) \in {ahead - 1, ahead}
    BY <1>4, <1>14, <2>1
  <2>3. ASSUME NEW n \in 1..(ahead - 1) PROVE rest[n] = (next + 1) + n
    <3>1. n \in 1..Len(rest) /\ n + 1 \in 1..ahead
      BY <1>4, <2>2
    <3>2. rest[n] = wire[n + 1] /\ wire[n + 1] = next + (n + 1)
      BY Zenon, <1>14, <2>1, <3>1
    <3>3. QED
      BY <1>4, <3>2
  <2>4. ASSUME Len(rest) = ahead PROVE rest[ahead] = 0
    <3>1. ahead \in 1..Len(rest) /\ Len(wire) = ahead + 1
      BY <1>4, <1>5, <1>14, <2>4
    <3>2. QED
      BY Zenon, <1>14, <2>1, <3>1
  <2>5. QED
    BY Zenon, <2>2, <2>3, <2>4
<1>16. source'.cursor - detail'.next = ahead - 1
  BY <1>4, <1>7, <1>9, <1>12
<1>17. Streaming'
  <2>1. /\ source'.task \in Viewed /\ detail'.task = source'.task
        /\ stream_task' = source'.task /\ source'.cursor \in Nat
    BY Zenon, <1>1, <1>7, <1>9, <1>12 DEF Streaming
  <2>2. detail'.next <= source'.cursor /\ source'.cursor <= rows'[source'.task].last
    BY SMTT(40), <1>1, <1>4, <1>5, <1>7, <1>9, <1>12
  <2>3. /\ source'.wire = rest /\ rest \in Seq(Nat)
    BY Zenon, <1>12, <1>13, <1>14
  <2>4. /\ Len(rest) \in {ahead - 1, (ahead - 1) + 1}
        /\ \A n \in 1..(ahead - 1) : rest[n] = detail'.next + n
        /\ Len(rest) = (ahead - 1) + 1 => rest[(ahead - 1) + 1] = 0
    BY <1>4, <1>7, <1>15
  <2>5. QED
    BY Zenon, <1>10, <1>12, <1>16, <2>1, <2>2, <2>3, <2>4 DEF Streaming
<1>18. QED
  BY Zenon, <1>1, <1>2, <1>10, <1>17, LoadsRest, Assembled DEF EventArrives

\* The stream ends.
LEMMA StreamEnds ==
  ASSUME ViewInvariant, (\E label \in {"timeout", "error"} : StreamBreaks(label)) \/ CompleteArrives
  PROVE  ViewInvariant'
<1>1. source' = NoSource /\ UNCHANGED <<rows, loads, detail>>
  BY Zenon DEF StreamBreaks, CompleteArrives
<1>2. QED
  BY Zenon, <1>1, RowsRest, LoadsRest, ClosedRests, Assembled

\* The inductive invariant of the page.
PageInvariant == route \in Routes /\ ViewInvariant

\* Every step of the page keeps it.
LEMMA ViewStep ==
  ASSUME PageInvariant, [ViewNext]_viewVars
  PROVE  PageInvariant'
<1>1. ViewInvariant /\ route \in Routes
  BY Zenon DEF PageInvariant
<1>2. route' \in Routes
  BY Zenon, <1>1 DEF ViewNext, viewVars, RowsGrow, HashChange, RefreshAgain, LoadFails, OverviewLoaded,
     SettingsLoaded, TasksLoaded, DetailAnswered, DetailLoaded, StreamStep, StreamPolls,
     StreamBreaks, EventArrives, CompleteArrives
<1>3. CASE UNCHANGED viewVars
  BY Zenon, <1>1, <1>3, RowsRest, LoadsRest, DetailRests, Assembled, <1>2 DEF viewVars, PageInvariant
<1>4. CASE ViewNext
  <2>1. ASSUME StreamStep PROVE ViewInvariant'
    BY Zenon, <1>1, <2>1, PollKeeps, EventKeeps, StreamEnds DEF StreamStep
  <2>2. ViewInvariant'
    BY ZenonT(60), <1>1, <1>4, <2>1, RowsKeep, RoutesKeep, EndsKeep, TasksKeep, AnswerKeeps, DetailKeeps
       DEF ViewNext
  <2>3. QED
    BY Zenon, <1>2, <2>2 DEF PageInvariant
<1>5. QED
  BY Zenon, <1>3, <1>4

\* It holds of a page that has just been opened.
LEMMA ViewStarts ==
  ASSUME ViewInit
  PROVE  PageInvariant
<1>1. loads \in Seq(Nat) /\ Len(loads) = 0
  BY DEF ViewInit
<1>2. IsList(loads)
  BY Zenon, <1>1, SequenceIsListed
<1>3. QED
  BY <1>1, <1>2 DEF ViewInit, PageInvariant, ViewInvariant, Routes

\* For any tasks, page sizes and loads under way: what is shown, what is being
\* read and what is on the wire is an unbroken stretch of the task's events
\* (packages/dashboard/src/index.ts and model.ts).
THEOREM PageFollowsRows == ViewSpec => []PageInvariant
<1>1. ViewInit => PageInvariant
  BY Zenon, ViewStarts
<1>2. PageInvariant /\ [ViewNext]_viewVars => PageInvariant'
  BY Zenon, ViewStep
<1>3. QED
  BY <1>1, <1>2, PTL DEF ViewSpec

\* The timeline on the page has no holes (packages/dashboard/src/index.ts): it
\* is the last events up to the page's cursor, whichever load or stream brought
\* them.
THEOREM TimelineIsWhole == ViewSpec => []TimelineHasNoHoles
<1>1. PageInvariant => TimelineHasNoHoles
  BY Zenon DEF PageInvariant, ViewInvariant, Shown, Window, TimelineHasNoHoles
<1>2. QED
  BY <1>1, PageFollowsRows, PTL

-----------------------------------------------------------------------------
(* Follow: the console prints what it reads.                               *)

\* The fields of the printing stream.
StreamFields == {"printed", "text_hold", "fold"}

\* What the console has printed, and then what it holds back.
Line(s) == s.printed \o s.text_hold \o s.fold

\* At most one of the two streams is held back.
Held(s) ==
    /\ DOMAIN s = StreamFields
    /\ s.printed \in Seq(Nat) /\ s.text_hold \in Seq(Nat) /\ s.fold \in Seq(Nat)
    /\ s.text_hold = <<>> \/ s.fold = <<>>

\* Exactly the pieces up to event n, in order.
Complete(read, n) ==
    /\ \A i, j \in DOMAIN read : i < j => read[i] < read[j]
    /\ {read[i] : i \in DOMAIN read} = {m \in 1..n : feed.events[m] \in Pieces}

\* The inductive invariant of the console.
FollowInvariant ==
    /\ DOMAIN feed = {"events", "ended", "compacted", "newer"}
    /\ DOMAIN console = {"pc", "after", "empty", "busy"}
    /\ feed.events \in Seq(Kinds)
    /\ console.after \in Nat /\ console.after <= Len(feed.events)
    /\ Held(shown) /\ Complete(Line(shown), console.after)
    /\ console.pc = "done" => shown.text_hold = <<>> /\ shown.fold = <<>>

\* The empty line adds nothing.
LEMMA EmptyIsNeutral ==
  ASSUME NEW p \in Seq(Nat)
  PROVE  p \o <<>> = p /\ <<>> \o p = p
OBVIOUS

\* Printing the held text changes neither what is read nor its order.
LEMMA FlushTextIs ==
  ASSUME NEW s, Held(s)
  PROVE  LET f == FlushText(s)
         IN  /\ Held(f) /\ Line(f) = Line(s)
             /\ f.printed = s.printed \o s.text_hold /\ f.text_hold = <<>> /\ f.fold = s.fold
<1>1. PICK f : f = FlushText(s)
  BY Zenon
<1>2. /\ DOMAIN f = StreamFields /\ f.printed = s.printed \o s.text_hold
      /\ f.text_hold = <<>> /\ f.fold = s.fold
  BY Zenon, <1>1 DEF FlushText, Held, StreamFields
<1>3. PICK p \in Seq(Nat), t \in Seq(Nat), d \in Seq(Nat) :
        p = s.printed /\ t = s.text_hold /\ d = s.fold
  BY Zenon DEF Held
<1>4. p \o t \in Seq(Nat) /\ <<>> \in Seq(Nat)
  OBVIOUS
<1>5. (p \o t) \o <<>> = p \o t
  BY Zenon, <1>4, EmptyIsNeutral
<1>6. Line(f) = Line(s)
  BY Zenon, <1>2, <1>3, <1>5 DEF Line
<1>7. Held(f)
  BY Zenon, <1>2, <1>3, <1>4 DEF Held
<1>8. QED
  BY Zenon, <1>1, <1>2, <1>6, <1>7

\* Nor does printing the folded events.
LEMMA FlushFoldIs ==
  ASSUME NEW s, Held(s)
  PROVE  LET f == FlushFold(s)
         IN  /\ Held(f) /\ Line(f) = Line(s)
             /\ f.printed = s.printed \o s.fold /\ f.text_hold = s.text_hold /\ f.fold = <<>>
<1>1. PICK f : f = FlushFold(s)
  BY Zenon
<1>2. /\ DOMAIN f = StreamFields /\ f.printed = s.printed \o s.fold
      /\ f.text_hold = s.text_hold /\ f.fold = <<>>
  BY Zenon, <1>1 DEF FlushFold, Held, StreamFields
<1>3. PICK p \in Seq(Nat), t \in Seq(Nat), d \in Seq(Nat) :
        p = s.printed /\ t = s.text_hold /\ d = s.fold
  BY Zenon DEF Held
<1>4. p \o d \in Seq(Nat) /\ <<>> \in Seq(Nat) /\ (p \o d) \o t \in Seq(Nat)
  OBVIOUS
<1>5. ((p \o d) \o t) \o <<>> = (p \o d) \o t
  BY Zenon, <1>4, EmptyIsNeutral
<1>6. (p \o d) \o t = (p \o t) \o d
  <2>1. CASE t = <<>>
    <3>1. (p \o d) \o <<>> = p \o d /\ p \o <<>> = p
      BY Zenon, <1>4, EmptyIsNeutral
    <3>2. QED
      BY Zenon, <2>1, <3>1
  <2>2. CASE d = <<>>
    <3>1. p \o t \in Seq(Nat)
      OBVIOUS
    <3>2. (p \o t) \o <<>> = p \o t /\ p \o <<>> = p
      BY Zenon, <3>1, EmptyIsNeutral
    <3>3. QED
      BY Zenon, <2>2, <3>2
  <2>3. QED
    BY Zenon, <1>3, <2>1, <2>2 DEF Held
<1>7. Line(f) = Line(s)
  BY Zenon, <1>2, <1>3, <1>5, <1>6 DEF Line
<1>8. Held(f)
  BY Zenon, <1>2, <1>3, <1>4 DEF Held
<1>9. QED
  BY Zenon, <1>1, <1>2, <1>7, <1>8

\* finish prints all that is held.
LEMMA FinishIs ==
  ASSUME NEW s, Held(s)
  PROVE  LET f == FinishPrinting(s)
         IN  Held(f) /\ Line(f) = Line(s) /\ f.text_hold = <<>> /\ f.fold = <<>>
<1>1. PICK f, g : f = FlushText(s) /\ g = FlushFold(f)
  BY Zenon
<1>2. Held(f) /\ Line(f) = Line(s) /\ f.text_hold = <<>>
  BY Zenon, <1>1, FlushTextIs
<1>3. Held(g) /\ Line(g) = Line(f) /\ g.text_hold = f.text_hold /\ g.fold = <<>>
  BY Zenon, <1>1, <1>2, FlushFoldIs
<1>4. QED
  BY Zenon, <1>1, <1>2, <1>3 DEF FinishPrinting

\* A piece goes behind everything printed or held back before it.
LEMMA PieceIs ==
  ASSUME NEW s, Held(s), NEW n \in Nat, NEW kind \in Kinds
  PROVE  LET w == WritePiece(s, n, kind)
         IN  /\ Held(w)
             /\ Line(w) = IF kind \in Pieces THEN Append(Line(s), n) ELSE Line(s)
<1>1. PICK w : w = WritePiece(s, n, kind)
  BY Zenon
<1>2. ASSUME NEW f, Held(f), Line(f) = Line(s), f.fold = <<>>,
             w = [f EXCEPT !.text_hold = Append(@, n)]
      PROVE  Held(w) /\ Line(w) = Append(Line(s), n)
  <2>1. /\ DOMAIN w = StreamFields /\ w.printed = f.printed
        /\ w.text_hold = Append(f.text_hold, n) /\ w.fold = <<>>
    BY Zenon, <1>2 DEF Held, StreamFields
  <2>2. PICK p \in Seq(Nat), t \in Seq(Nat) : p = f.printed /\ t = f.text_hold
    BY Zenon, <1>2 DEF Held
  <2>3. Append(t, n) \in Seq(Nat) /\ p \o Append(t, n) \in Seq(Nat) /\ p \o t \in Seq(Nat)
    OBVIOUS
  <2>4. p \o Append(t, n) = Append(p \o t, n)
    OBVIOUS
  <2>5. (p \o Append(t, n)) \o <<>> = p \o Append(t, n) /\ (p \o t) \o <<>> = p \o t
    BY Zenon, <2>3, EmptyIsNeutral
  <2>6. Line(w) = Append(Line(s), n)
    BY Zenon, <1>2, <2>1, <2>2, <2>4, <2>5 DEF Line
  <2>7. QED
    BY Zenon, <2>1, <2>2, <2>3, <2>6 DEF Held
<1>3. ASSUME NEW f, Held(f), Line(f) = Line(s), f.text_hold = <<>>,
             w = [f EXCEPT !.fold = Append(@, n)]
      PROVE  Held(w) /\ Line(w) = Append(Line(s), n)
  <2>1. /\ DOMAIN w = StreamFields /\ w.printed = f.printed
        /\ w.fold = Append(f.fold, n) /\ w.text_hold = <<>>
    BY Zenon, <1>3 DEF Held, StreamFields
  <2>2. PICK p \in Seq(Nat), d \in Seq(Nat) : p = f.printed /\ d = f.fold
    BY Zenon, <1>3 DEF Held
  <2>3. Append(d, n) \in Seq(Nat) /\ p \o <<>> = p
    BY EmptyIsNeutral
  <2>4. p \o Append(d, n) = Append(p \o d, n)
    OBVIOUS
  <2>5. Line(w) = Append(Line(s), n)
    BY ZenonT(60), <1>3, <2>1, <2>2, <2>3, <2>4 DEF Line
  <2>6. QED
    BY Zenon, <2>1, <2>2, <2>3, <2>5 DEF Held
<1>4. CASE kind = "text"
  <2>1. PICK f : f = FlushFold(s)
    BY Zenon
  <2>2. w = [f EXCEPT !.text_hold = Append(@, n)]
    BY Zenon, <1>1, <1>4, <2>1 DEF WritePiece, WriteStream
  <2>3. Held(f) /\ Line(f) = Line(s) /\ f.fold = <<>>
    BY Zenon, <2>1, FlushFoldIs
  <2>4. QED
    BY Zenon, <1>1, <1>2, <1>4, <2>2, <2>3 DEF Pieces
<1>5. CASE kind = "think"
  <2>1. PICK f : f = IF s.fold = <<>> THEN FlushFold(FlushText(s)) ELSE s
    BY Zenon
  <2>2. w = [f EXCEPT !.fold = Append(@, n)]
    BY Zenon, <1>1, <1>5, <2>1 DEF WritePiece, WriteFold
  <2>3. Held(f) /\ Line(f) = Line(s) /\ f.text_hold = <<>>
    <3>1. CASE s.fold = <<>>
      BY Zenon, <2>1, <3>1, FinishIs DEF FinishPrinting
    <3>2. CASE s.fold # <<>>
      BY Zenon, <2>1, <3>2 DEF Held
    <3>3. QED
      BY Zenon, <3>1, <3>2
  <2>4. QED
    BY ZenonT(60), <1>1, <1>3, <1>5, <2>2, <2>3 DEF Pieces
<1>6. CASE kind = "line"
  <2>1. PICK f : f = FinishPrinting(s)
    BY Zenon
  <2>2. Held(f) /\ Line(f) = Line(s) /\ f.text_hold = <<>> /\ f.fold = <<>>
    BY Zenon, <2>1, FinishIs
  <2>3. w = [f EXCEPT !.printed = Append(@, n)]
    BY Zenon, <1>1, <1>6, <2>1 DEF WritePiece
  <2>4. /\ DOMAIN w = StreamFields /\ w.printed = Append(f.printed, n)
        /\ w.text_hold = <<>> /\ w.fold = <<>>
    BY Zenon, <2>2, <2>3 DEF Held, StreamFields
  <2>5. PICK p \in Seq(Nat) : p = f.printed
    BY Zenon, <2>2 DEF Held
  <2>6. Append(p, n) \in Seq(Nat) /\ Append(p, n) \o <<>> = Append(p, n) /\ p \o <<>> = p
    <3>1. Append(p, n) \in Seq(Nat)
      OBVIOUS
    <3>2. QED
      BY Zenon, <3>1, EmptyIsNeutral
  <2>7. Line(w) = Append(Line(s), n)
    BY Zenon, <2>2, <2>4, <2>5, <2>6 DEF Line
  <2>8. Held(w)
    BY Zenon, <2>4, <2>5, <2>6 DEF Held
  <2>9. QED
    BY ZenonT(60), <1>1, <1>6, <2>7, <2>8 DEF Pieces
<1>7. CASE kind = "skip"
  <2>1. w = s
    BY Zenon, <1>1, <1>7 DEF WritePiece
  <2>2. kind \notin Pieces
    BY Zenon, <1>7 DEF Pieces
  <2>3. QED
    BY Zenon, <1>1, <2>1, <2>2
<1>8. QED
  BY Zenon, <1>4, <1>5, <1>6, <1>7 DEF Kinds, Pieces

\* f is what the loop over a page computes, event by event.
Loop(f, from, to, s) ==
    f = [n \in from..to |->
           IF n = from THEN s ELSE WritePiece(f[n - 1], n, feed.events[n])]

\* The loop over a page is well defined.
LEMMA LoopExists ==
  ASSUME NEW from \in Nat, NEW count \in Nat, NEW s
  PROVE  \E f : Loop(f, from, from + count, s)
<1> DEFINE T == {m \in Nat : \E f : Loop(f, from, from + m, s)}
<1>1. 0 \in T
  <2>1. Loop([n \in from..from |-> s], from, from + 0, s)
    BY DEF Loop
  <2>2. QED
    BY Zenon, <2>1
<1>2. ASSUME NEW m \in Nat, m \in T PROVE m + 1 \in T
  <2>1. PICK f : Loop(f, from, from + m, s)
    BY Zenon, <1>2
  <2>2. PICK g : g = [n \in from..(from + (m + 1)) |->
                       IF n = from THEN s ELSE WritePiece(f[n - 1], n, feed.events[n])]
    BY Zenon
  <2>3. ASSUME NEW k \in from..(from + m) PROVE g[k] = f[k]
    BY SMTT(40), <2>1, <2>2 DEF Loop
  <2>4. ASSUME NEW n \in from..(from + (m + 1)), n # from PROVE g[n - 1] = f[n - 1]
    <3>1. n - 1 \in from..(from + m)
      BY <2>4
    <3>2. QED
      BY Zenon, <2>3, <3>1
  <2>5. g = [n \in from..(from + (m + 1)) |->
                       IF n = from THEN s ELSE WritePiece(g[n - 1], n, feed.events[n])]
    BY Zenon, <2>2, <2>4
  <2>6. Loop(g, from, from + (m + 1), s)
    BY Zenon, <2>5 DEF Loop
  <2>7. QED
    BY <2>6
<1>3. \A m \in Nat : m \in T => m + 1 \in T
  BY Zenon, <1>2
<1>4. count \in T
  <2> HIDE DEF T
  <2>1. Nat \subseteq T
    BY Zenon, <1>1, <1>3, SetInduction
  <2>2. QED
    BY Zenon, <2>1
<1>5. PICK f : Loop(f, from, from + count, s)
  BY Zenon, <1>4
<1>6. QED
  BY Zenon, <1>5

\* One more event of the page.
LEMMA EventIsWritten ==
  ASSUME FollowInvariant, NEW s, NEW n \in Nat, n + 1 <= Len(feed.events),
         Held(s), Complete(Line(s), n)
  PROVE  LET w == WritePiece(s, n + 1, feed.events[n + 1])
         IN  Held(w) /\ Complete(Line(w), n + 1)
<1>1. PICK w, kind, read : /\ kind = feed.events[n + 1] /\ read = Line(s)
                           /\ w = WritePiece(s, n + 1, kind)
  BY Zenon
<1>2. kind \in Kinds
  BY SMTT(40), <1>1 DEF FollowInvariant
<1>3. Held(w) /\ Line(w) = IF kind \in Pieces THEN Append(read, n + 1) ELSE read
  <2>1. PICK next \in Nat : next = n + 1
    OBVIOUS
  <2>2. Held(w) /\ Line(w) = IF kind \in Pieces THEN Append(Line(s), next) ELSE Line(s)
    BY ZenonT(60), <1>1, <1>2, <2>1, PieceIs
  <2>3. QED
    BY Zenon, <1>1, <2>1, <2>2
<1>4. read \in Seq(Nat)
  BY SMTT(40), <1>1 DEF Line, Held
<1>5. /\ \A i, j \in DOMAIN read : i < j => read[i] < read[j]
      /\ {read[i] : i \in DOMAIN read} = {m \in 1..n : feed.events[m] \in Pieces}
  BY Zenon, <1>1 DEF Complete
<1>6. CASE kind \notin Pieces
  <2>1. {m \in 1..n : feed.events[m] \in Pieces} = {m \in 1..(n + 1) : feed.events[m] \in Pieces}
    BY SMTT(40), <1>1, <1>6
  <2>2. Complete(Line(w), n + 1)
    BY <1>3, <1>5, <1>6, <2>1 DEF Complete
  <2>3. QED
    BY Zenon, <1>1, <1>3, <2>2
<1>7. CASE kind \in Pieces
  <2>1. PICK more : more = Append(read, n + 1)
    BY Zenon
  <2>2. /\ more \in Seq(Nat) /\ Len(more) = Len(read) + 1 /\ more[Len(more)] = n + 1
        /\ \A i \in 1..Len(read) : more[i] = read[i]
        /\ Len(read) \in Nat /\ DOMAIN read = 1..Len(read) /\ DOMAIN more = 1..Len(more)
    BY <1>4, <2>1
  <2>3. \A i \in 1..Len(read) : read[i] \in Nat /\ read[i] <= n
    BY SMTT(60), <1>5, <2>2
  <2>4. ASSUME NEW i \in DOMAIN more, NEW j \in DOMAIN more, i < j PROVE more[i] < more[j]
    <3>1. CASE j = Len(more)
      <4>1. i \in 1..Len(read)
        BY SMTT(60), <2>2, <2>4, <3>1
      <4>2. more[i] = read[i] /\ read[i] \in Nat /\ read[i] <= n /\ more[j] = n + 1
        BY Zenon, <2>2, <2>3, <3>1, <4>1
      <4>. QED BY <1>4, <4>2
    <3>2. CASE j # Len(more)
      BY SMTT(60), <1>5, <2>2, <2>4, <3>2
    <3>3. QED
      BY Zenon, <3>1, <3>2
  <2>5. {more[i] : i \in DOMAIN more} = {read[i] : i \in DOMAIN read} \cup {n + 1}
    BY SMTT(60), <2>2
  <2>6. {m \in 1..(n + 1) : feed.events[m] \in Pieces} =
          {m \in 1..n : feed.events[m] \in Pieces} \cup {n + 1}
    BY SMTT(40), <1>1, <1>7
  <2>7. Complete(more, n + 1)
    BY ZenonT(60), <1>5, <2>4, <2>5, <2>6 DEF Complete
  <2>8. QED
    BY Zenon, <1>1, <1>3, <1>7, <2>1, <2>7
<1>8. QED
  BY Zenon, <1>6, <1>7

\* The loop over a page.
LEMMA PageIsWritten ==
  ASSUME FollowInvariant, NEW from \in Nat, NEW count \in Nat, from + count <= Len(feed.events),
         NEW s, Held(s), Complete(Line(s), from)
  PROVE  LET w == WritePage(s, from, from + count)
         IN  Held(w) /\ Complete(Line(w), from + count)
<1> DEFINE written == CHOOSE f : f = [n \in from..(from + count) |->
                        IF n = from THEN s ELSE WritePiece(f[n - 1], n, feed.events[n])]
<1>1. PICK f : Loop(f, from, from + count, s)
  BY Zenon, LoopExists
<1>2. \E g : g = [n \in from..(from + count) |->
                    IF n = from THEN s ELSE WritePiece(g[n - 1], n, feed.events[n])]
  BY Zenon, <1>1 DEF Loop
<1>3. written = [n \in from..(from + count) |->
                    IF n = from THEN s ELSE WritePiece(written[n - 1], n, feed.events[n])]
  BY Zenon, <1>2
<1>4. WritePage(s, from, from + count) = written[from + count]
  BY Zenon DEF WritePage
<1> HIDE DEF written
<1>5. PICK pages : pages = written
  BY Zenon
<1> DEFINE T == {m \in Nat : m <= count =>
                   Held(pages[from + m]) /\ Complete(Line(pages[from + m]), from + m)}
<1>6. 0 \in T
  <2>1. from + 0 = from /\ pages[from] = s
    BY <1>3, <1>5
  <2>2. QED
    BY ZenonT(60), <2>1
<1>7. ASSUME NEW m \in Nat, m \in T PROVE m + 1 \in T
  <2>1. CASE m + 1 <= count
    <3>0. PICK n \in Nat : n = from + m
      OBVIOUS
    <3>1. PICK prior : n = from + m /\ prior = pages[n]
      BY ZenonT(60), <3>0
    <3>2. Held(prior) /\ Complete(Line(prior), n) /\ n + 1 <= Len(feed.events)
      BY SMTT(40), <1>7, <2>1, <3>1 DEF FollowInvariant
    <3>3. PICK w : w = WritePiece(prior, n + 1, feed.events[n + 1])
      BY Zenon
    <3>4. Held(w) /\ Complete(Line(w), n + 1)
      BY Zenon, <3>2, <3>3, EventIsWritten
    <3>5. pages[n + 1] = w
      <4>1. n + 1 \in from..(from + count) /\ n + 1 # from /\ (n + 1) - 1 = n
        BY <2>1, <3>1
      <4>2. pages[n + 1] = WritePiece(pages[(n + 1) - 1], n + 1, feed.events[n + 1])
        BY ZenonT(60), <1>3, <1>5, <4>1
      <4>3. QED
        BY ZenonT(60), <3>1, <3>3, <4>1, <4>2
    <3>6. from + (m + 1) = n + 1
      BY <3>1
    <3>7. QED
      BY SMTT(60), <3>4, <3>5, <3>6
  <2>2. CASE ~(m + 1 <= count)
    BY <2>2
  <2>3. QED
    BY ZenonT(60), <2>1, <2>2
<1>8. \A m \in Nat : m \in T => m + 1 \in T
  BY Zenon, <1>7
<1>9. count \in T
  <2> HIDE DEF T
  <2>1. Nat \subseteq T
    BY Zenon, <1>6, <1>8, SetInduction
  <2>2. QED
    BY Zenon, <2>1
<1>10. Held(pages[from + count]) /\ Complete(Line(pages[from + count]), from + count)
  BY <1>9
<1>11. QED
  BY Zenon, <1>4, <1>5, <1>10

\* A step that leaves the console's place and the events before it alone.
LEMMA ShownRests ==
  ASSUME FollowInvariant, UNCHANGED shown, console'.after = console.after,
         \/ feed'.events = feed.events
         \/ {m \in 1..console.after : feed.events[m] \in Pieces} =
              {m \in 1..console'.after : feed'.events[m] \in Pieces}
  PROVE  Held(shown)' /\ Complete(Line(shown), console.after)'
<1>1. PICK read, after : read = Line(shown) /\ after = console.after
  BY Zenon
<1>2. Complete(read, after)
  BY Zenon, <1>1 DEF FollowInvariant
<1>3. {m \in 1..after : feed.events[m] \in Pieces} = {m \in 1..after : feed'.events[m] \in Pieces}
  BY Zenon, <1>1
<1>4. Complete(read, after)'
  BY Zenon, <1>2, <1>3 DEF Complete
<1>5. Line(shown)' = read /\ console'.after = after
  BY ZenonT(60), <1>1 DEF Line
<1>6. Complete(Line(shown), console.after)'
  BY SMTT(60), <1>4, <1>5 DEF Complete
<1>7. Held(shown)'
  BY Zenon DEF FollowInvariant, Held
<1>8. QED
  BY Zenon, <1>6, <1>7

\* A page of events is read and written.
LEMMA ReadKeeps ==
  ASSUME FollowInvariant, ReadEvents
  PROVE  FollowInvariant'
<1>1. PICK page, after : page = Events(console.after) /\ after = console.after
  BY Zenon
<1>2. UNCHANGED feed
  BY Zenon DEF ReadEvents
<1>3. CASE /\ shown' = WritePage(shown, after, page.next)
           /\ console' = [console EXCEPT !.pc = "terminal", !.after = page.next,
                                         !.empty = page.next = console.after]
  <2>1. after \in Nat /\ after <= Len(feed.events)
    BY Zenon, <1>1 DEF FollowInvariant
  <2>2. page.next \in Nat /\ after <= page.next /\ page.next <= Len(feed.events)
    <3>1. PICK last \in Nat : last = Len(feed.events)
      BY DEF FollowInvariant
    <3>2. PICK sizes, evicted : /\ sizes = [n \in 1..last |-> EventSize[feed.events[n]]]
                                /\ evicted = IF feed.compacted THEN last ELSE 0
      BY Zenon
    <3>3. Len(sizes) = last
      <4>1. sizes \in Seq({EventSize[feed.events[n]] : n \in 1..last})
        BY <3>2
      <4>2. DOMAIN sizes = 1..last
        BY Zenon, <3>2
      <4>3. QED
        BY SMTT(60), <4>1, <4>2
    <3>4. page = LoadEventPage(sizes, evicted, last, after, ConsolePage, FrameLimit)
      BY Zenon, <1>1, <3>1, <3>2 DEF Events
    <3>5. PICK next : next = LoadEventPage(sizes, evicted, last, after, ConsolePage, FrameLimit).next
      BY Zenon
    <3>6. next \in Nat /\ after <= next /\ next <= last
      BY ZenonT(60), <2>1, <3>1, <3>3, <3>5, PageIsBounded, FollowAssumption
    <3>7. QED
      BY ZenonT(60), <3>1, <3>4, <3>5, <3>6
  <2>3. PICK w, next : w = WritePage(shown, after, page.next) /\ next = page.next
    BY Zenon
  <2>4. Held(w) /\ Complete(Line(w), next)
    <3>1. next - after \in Nat /\ after + (next - after) = next
      BY <2>1, <2>2, <2>3
    <3>2. PICK count \in Nat : after + count = next
      BY Zenon, <3>1
    <3>3. PICK s : s = shown
      BY Zenon
    <3>4. Held(s) /\ Complete(Line(s), after) /\ after + count <= Len(feed.events)
      BY ZenonT(60), <1>1, <2>2, <2>3, <3>2, <3>3 DEF FollowInvariant
    <3>5. PICK v : v = WritePage(s, after, after + count)
      BY Zenon
    <3>6. Held(v) /\ Complete(Line(v), after + count)
      BY ZenonT(60), <2>1, <3>4, <3>5, PageIsWritten
    <3>7. v = w
      BY ZenonT(60), <2>3, <3>2, <3>3, <3>5
    <3>8. QED
      BY ZenonT(60), <3>2, <3>6, <3>7
  <2>5. /\ DOMAIN console' = {"pc", "after", "empty", "busy"}
        /\ console'.after = next /\ console'.pc = "terminal"
    BY Zenon, <1>3, <2>3 DEF FollowInvariant
  <2>6. shown' = w
    BY Zenon, <1>3, <2>3
  <2>7. Held(shown)' /\ Complete(Line(shown), console.after)'
    <3>1. Held(shown)' /\ Line(shown)' = Line(w)
      BY Zenon, <2>4, <2>6 DEF Held, Line
    <3>2. PICK read : read = Line(w)
      BY Zenon
    <3>3. Complete(read, next)'
      BY ZenonT(60), <1>2, <2>4, <3>2 DEF Complete
    <3>4. QED
      BY ZenonT(60), <2>5, <3>1, <3>2, <3>3 DEF Complete
  <2>8. QED
    BY ZenonT(60), <1>2, <2>2, <2>3, <2>5, <2>7 DEF FollowInvariant
<1>4. CASE console' = [console EXCEPT !.pc = "failed"] /\ UNCHANGED shown
  <2>1. /\ DOMAIN console' = {"pc", "after", "empty", "busy"}
        /\ console'.after = console.after /\ console'.pc = "failed"
    BY Zenon, <1>4 DEF FollowInvariant
  <2>2. QED
    BY ZenonT(60), <1>2, <1>4, <2>1, ShownRests DEF FollowInvariant
<1>5. QED
  BY Zenon, <1>1, <1>3, <1>4 DEF ReadEvents

\* The terminal result is read: the console prints what it held and ends, or
\* reads on.
LEMMA TerminalKeeps ==
  ASSUME FollowInvariant, ReadTerminal
  PROVE  FollowInvariant'
<1>1. UNCHANGED feed
  BY ZenonT(60) DEF ReadTerminal
<1>2. CASE shown' = FinishPrinting(shown) /\ console' = [console EXCEPT !.pc = "done"]
  <2>1. DOMAIN console' = {"pc", "after", "empty", "busy"} /\ console'.after = console.after
    BY Zenon, <1>2 DEF FollowInvariant
  <2>2. PICK s, f : s = shown /\ f = FinishPrinting(s)
    BY Zenon
  <2>3. Held(f) /\ Line(f) = Line(s) /\ f.text_hold = <<>> /\ f.fold = <<>>
    BY Zenon, <2>2, FinishIs DEF FollowInvariant
  <2>4. shown' = f
    BY Zenon, <1>2, <2>2
  <2>5. Held(shown)' /\ Line(shown)' = Line(shown)
    BY Zenon, <2>2, <2>3, <2>4 DEF Held, Line
  <2>6. QED
    BY SMTT(60), <1>1, <2>1, <2>3, <2>4, <2>5 DEF FollowInvariant, Complete
<1>3. CASE UNCHANGED shown /\ console' = [console EXCEPT !.pc = "events"]
  <2>1. /\ DOMAIN console' = {"pc", "after", "empty", "busy"} /\ console'.after = console.after
        /\ console'.pc = "events"
    BY ZenonT(60), <1>3 DEF FollowInvariant
  <2>2. QED
    BY ZenonT(60), <1>1, <1>3, <2>1, ShownRests DEF FollowInvariant
<1>4. QED
  BY Zenon, <1>2, <1>3 DEF ReadTerminal

\* An event is committed behind the ones that were read.
LEMMA CommitKeeps ==
  ASSUME FollowInvariant, NEW kind \in Kinds, NEW ends \in BOOLEAN, CommitEvent(kind, ends)
  PROVE  FollowInvariant'
<1>1. feed' = [feed EXCEPT !.events = Append(@, kind), !.ended = ends]
  BY Zenon DEF CommitEvent
<1>2. /\ DOMAIN feed' = {"events", "ended", "compacted", "newer"}
      /\ feed'.events = Append(feed.events, kind)
  BY Zenon, <1>1 DEF FollowInvariant
<1>3. PICK events \in Seq(Kinds) : events = feed.events
  BY Zenon DEF FollowInvariant
<1>4. /\ Append(events, kind) \in Seq(Kinds) /\ Len(Append(events, kind)) = Len(events) + 1
      /\ \A n \in 1..Len(events) : Append(events, kind)[n] = events[n]
  OBVIOUS
<1>5. UNCHANGED <<console, shown>>
  BY ZenonT(60) DEF CommitEvent
<1>6. {m \in 1..console.after : feed.events[m] \in Pieces} =
        {m \in 1..console'.after : feed'.events[m] \in Pieces}
  BY SMTT(60), <1>2, <1>3, <1>4, <1>5 DEF FollowInvariant
<1>7. Complete(Line(shown), console.after)'
  BY Zenon, <1>5, <1>6, ShownRests
<1>8. Held(shown)'
  BY Zenon, <1>5, <1>6, ShownRests
<1>9. QED
  BY SMTT(60), <1>2, <1>3, <1>4, <1>5, <1>7, <1>8 DEF FollowInvariant

\* Every step keeps the invariant.
LEMMA FollowStep ==
  ASSUME FollowInvariant, [FollowNext]_followVars
  PROVE  FollowInvariant'
<1>1. CASE UNCHANGED followVars
  BY Zenon, <1>1, ShownRests DEF followVars, FollowInvariant
<1>2. CASE NewerTask \/ CompactFollowed
  <2>1. /\ DOMAIN feed' = {"events", "ended", "compacted", "newer"}
        /\ feed'.events = feed.events /\ UNCHANGED <<console, shown>>
    BY Zenon, <1>2 DEF NewerTask, CompactFollowed, FollowInvariant
  <2>2. QED
    BY Zenon, <2>1, ShownRests DEF FollowInvariant
<1>3. CASE ReadBusy
  <2>1. /\ DOMAIN console' = {"pc", "after", "empty", "busy"} /\ console'.after = console.after
        /\ console'.pc = "events" /\ UNCHANGED <<feed, shown>>
    BY Zenon, <1>3 DEF ReadBusy, FollowInvariant
  <2>2. QED
    BY Zenon, <2>1, ShownRests DEF FollowInvariant
<1>4. QED
  BY ZenonT(60), <1>1, <1>2, <1>3, CommitKeeps, ReadKeeps, TerminalKeeps DEF FollowNext, ConsoleStep

\* It holds of a console that has just been started.
LEMMA FollowStarts ==
  ASSUME FollowInit
  PROVE  FollowInvariant
<1>1. /\ feed.events = <<"line">> /\ console.after = 0 /\ console.pc = "events"
      /\ shown.printed = <<>> /\ shown.text_hold = <<>> /\ shown.fold = <<>>
      /\ DOMAIN shown = StreamFields
      /\ DOMAIN feed = {"events", "ended", "compacted", "newer"}
      /\ DOMAIN console = {"pc", "after", "empty", "busy"}
  BY Zenon DEF FollowInit, StreamFields
<1>2. <<>> \in Seq(Nat) /\ (<<>> \o <<>>) \o <<>> = <<>>
  <2>1. <<>> \in Seq(Nat)
    OBVIOUS
  <2>2. QED
    BY Zenon, <2>1, EmptyIsNeutral
<1>3. Line(shown) = <<>>
  BY Zenon, <1>1, <1>2 DEF Line
<1>4. Complete(Line(shown), 0)
  BY <1>3 DEF Complete
<1>5. <<"line">> \in Seq(Kinds) /\ Len(<<"line">>) = 1
  BY SMTT(60) DEF Kinds, Pieces
<1>6. QED
  BY SMTT(40), <1>1, <1>2, <1>4, <1>5 DEF FollowInvariant, Held

\* What the console has printed, and then what it holds back, is exactly the
\* pieces of the events it has read (follow.rs); and text and folded events are
\* never held at once.
THEOREM ConsoleHoldsOneStream == FollowSpec => []FollowInvariant
<1>1. FollowInit => FollowInvariant
  BY Zenon, FollowStarts
<1>2. FollowInvariant /\ [FollowNext]_followVars => FollowInvariant'
  BY Zenon, FollowStep
<1>3. QED
  BY <1>1, <1>2, PTL DEF FollowSpec

\* For any pages and frames: the console prints every event that makes a piece
\* once, in the order in which it was committed, and holds nothing back once it
\* ends (follow.rs).
THEOREM EventsArePrintedInOrder == FollowSpec => []PrintedInOrder
<1>1. FollowInvariant => PrintedInOrder
  BY Zenon DEF FollowInvariant, Complete, Line, PrintedInOrder
<1>2. QED
  BY <1>1, ConsoleHoldsOneStream, PTL

=============================================================================
