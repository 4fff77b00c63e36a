------------------------------ MODULE MCClients ------------------------------
(***************************************************************************)
(* What a client of the daemon waits for, on a small instance: the         *)
(* bridge's helper transport, the router, the writer's mailbox and the     *)
(* follow console.  They share no state: a behaviour is of one of them.    *)
(***************************************************************************)
EXTENDS Bridge, Router, Writer, Follow, TLC

VARIABLE family

clientsVars == <<family, bridgeVars, routerVars, writerVars, followVars>>

\* Only the router has more than one initial state.
ClientsInit ==
  /\ family \in {"bridge", "router", "writer", "console"}
  /\ IF family = "router" THEN RouterInit
     ELSE method = "mutate" /\ task = "quiet" /\ RouterInit
  /\ BridgeInit /\ WriterInit /\ FollowInit

\* What a step of each of them leaves alone.
OffBridge == <<family, routerVars, writerVars, followVars>>
OffRouter == <<family, bridgeVars, writerVars, followVars>>
OffWriter == <<family, bridgeVars, routerVars, followVars>>
OffConsole == <<family, bridgeVars, routerVars, writerVars>>

ClientsNext ==
  \/ family = "bridge" /\ BridgeNext /\ UNCHANGED OffBridge
  \/ family = "router" /\ RouterNext /\ UNCHANGED OffRouter
  \/ family = "writer" /\ WriterNext /\ UNCHANGED OffWriter
  \/ family = "console" /\ FollowNext /\ UNCHANGED OffConsole

\* The fairness of each component, confined to its own behaviours.
ClientsFairness ==
    /\ \A r \in ToolCall :
         WF_clientsVars(family = "bridge" /\ Timeout(r) /\ UNCHANGED OffBridge)
    /\ WF_clientsVars(family = "router" /\ Tick /\ UNCHANGED OffRouter)
    /\ WF_clientsVars(family = "router" /\ Route /\ UNCHANGED OffRouter)
    /\ WF_clientsVars(family = "writer" /\ Actor /\ UNCHANGED OffWriter)
    /\ \A c \in Callers :
         WF_clientsVars(family = "writer" /\ Return(c) /\ UNCHANGED OffWriter)
    /\ \A s \in Stoppers :
         WF_clientsVars(family = "writer" /\ (SendShutdown(s) \/ ShutdownReturns(s))
                        /\ UNCHANGED OffWriter)

ClientsSpec == ClientsInit /\ [][ClientsNext]_clientsVars /\ ClientsFairness

\* The sizes of the kinds of event against a frame of four.
Sizes == [text |-> 1, think |-> 1, line |-> 2, skip |-> 5]

-----------------------------------------------------------------------------
\* A page never exceeds its budget, never skips an event, and stops early only
\* because the next event does not fit.
ASSUME PagesAreTight ==
    \A sizes \in UNION {[1..n -> 1..3] : n \in 0..3} :
      \A after \in 0..Len(sizes), limit \in 1..3, budget \in 1..7 :
        LET got == LoadEventPage(sizes, 0, Len(sizes), after, limit, budget)
            n == got.next - after
        IN  /\ ValidEventPageRequest(limit, 4) = (limit <= PageLimit)
            /\ EncodedBytes(sizes, after, n) <= budget /\ n <= limit
            /\ got.outcome = "ok" /\ got.next < Len(sizes) /\ n < limit =>
                 EncodedBytes(sizes, after, n + 1) > budget
            /\ got.outcome = "output_limit_exceeded" => sizes[after + 1] > budget

=============================================================================
