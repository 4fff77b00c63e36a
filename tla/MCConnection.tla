---------------------------- MODULE MCConnection ----------------------------
(***************************************************************************)
(* The daemon's pipe on a small instance: the accept loop with the mutual  *)
(* handshake, and one connection after it.  A behaviour is of one of them. *)
(***************************************************************************)
EXTENDS Connection, Listener

CONSTANTS r1, r2, r3, h1

MCRequest == {r1, r2, r3, h1}

MCHealth == {h1}

\* A client's own record offers less than the daemon or too much, or is of
\* another setup: an old key, or another install id.
MCProfile ==
    {[key |-> "key", install |-> "id", offer |-> n] : n \in {1, 3}}
        \cup {[key |-> "old", install |-> "id", offer |-> 2],
              [key |-> "key", install |-> "other", offer |-> 2]}

VARIABLE family

pipeVars == <<family, connectionVars, listenerVars>>

\* Only the listener has more than one initial state.
PipeInit ==
    /\ family \in {"listener", "connection"}
    /\ IF family = "listener" THEN ListenerInit
       ELSE /\ profile = [c \in Client |-> CHOOSE p \in Profile : TRUE]
            /\ ListenerInit
    /\ ConnectionInit

OffConnection == <<family, listenerVars>>
OffListener == <<family, connectionVars>>

PipeNext ==
    \/ family = "connection" /\ ConnectionNext /\ UNCHANGED OffConnection
    \/ family = "listener" /\ ListenerNext /\ UNCHANGED OffListener

\* The fairness of each, confined to its own behaviours.
PipeFairness ==
    /\ WF_pipeVars(family = "connection" /\ Reader /\ UNCHANGED OffConnection)
    /\ WF_pipeVars(family = "connection" /\ WriterThread /\ UNCHANGED OffConnection)
    /\ \A r \in Request :
         WF_pipeVars(family = "connection" /\ Worker(r) /\ UNCHANGED OffConnection)
    /\ WF_pipeVars(family = "listener" /\ ServeListener /\ UNCHANGED OffListener)

PipeSpec == PipeInit /\ [][PipeNext]_pipeVars /\ PipeFairness

=============================================================================
