------------------------------- MODULE Writer -------------------------------
(***************************************************************************)
(* The sole-writer actor (writer.rs): threads of the daemon call it        *)
(* through a bounded mailbox, one actor thread runs the operations on the  *)
(* only read-write connection, and shutdown fences new calls and drains    *)
(* the accepted ones.  An operation may panic, which ends the actor.       *)
(*                                                                         *)
(* Each mutex section is one step.  Calls model every method of            *)
(* WriterHandle: all of them go through call.                              *)
(***************************************************************************)
EXTENDS Naturals, Sequences, FiniteSets

CONSTANTS
    Callers,            \* threads that call the writer
    Stoppers,           \* threads that shut it down
    Capacity,           \* MAILBOX_CAPACITY
    Shutdown            \* Command::Shutdown

ASSUME WriterAssumption ==
    /\ Capacity \in Nat \ {0}
    /\ Shutdown \notin Callers
    /\ Callers \cap Stoppers = {}
    /\ (Callers \cup {Shutdown}) \cap {"receiving", "leaving", "closed"} = {}

VARIABLES
    phase,              \* WriterPhase
    mailbox,            \* commands sent and not yet received
    receiver,           \* the receiving end exists
    actor,              \* the actor thread: receiving, at an operation, ...
    result,             \* how run ended, as catch_unwind sees it
    storage,            \* the connection is open
    caller,             \* what each calling thread does
    executed,           \* operations that ran to completion
    reply,              \* answers the actor sent
    stopper             \* what each thread in shutdown does

clientVars == <<caller, stopper>>
actorVars == <<actor, result, storage, executed, reply>>
writerVars == <<phase, mailbox, receiver, actorVars, clientVars>>

WriterInit ==
    /\ phase = "Running"
    /\ mailbox = <<>>
    /\ receiver = TRUE
    /\ actor = "receiving"
    /\ result = "none"
    /\ storage = "open"
    /\ caller = [c \in Callers |-> "idle"]
    /\ executed = {}
    /\ reply = {}
    /\ stopper = [s \in Stoppers |-> "idle"]

-----------------------------------------------------------------------------
(* call. *)

Full == Len(mailbox) >= Capacity

Refuse(c, answer) ==
    /\ caller' = [caller EXCEPT ![c] = answer]
    /\ UNCHANGED <<phase, mailbox, receiver, actorVars, stopper>>

\* Faulty: the phase is not looked at.
CallUnfenced(c) ==
    /\ caller[c] = "idle"
    /\ IF ~receiver THEN Refuse(c, "refused")
       ELSE IF Full THEN Refuse(c, "backpressure")
       ELSE /\ mailbox' = Append(mailbox, c)
            /\ caller' = [caller EXCEPT ![c] = "waiting"]
            /\ UNCHANGED <<phase, receiver, actorVars, stopper>>

\* The section under the lifecycle lock: admission, then try_send.
Call(c) ==
    /\ caller[c] = "idle"
    /\ IF phase # "Running" \/ ~receiver THEN Refuse(c, "refused")
       ELSE IF Full THEN Refuse(c, "backpressure")
       ELSE /\ mailbox' = Append(mailbox, c)
            /\ caller' = [caller EXCEPT ![c] = "waiting"]
            /\ UNCHANGED <<phase, receiver, actorVars, stopper>>

\* The command will never be run: its reply channel has no sender any more.
Orphaned(c) ==
    /\ c \notin reply
    /\ actor # c
    /\ \A i \in DOMAIN mailbox : mailbox[i] # c

\* receive.recv returns.
Return(c) ==
    /\ caller[c] = "waiting"
    /\ c \in reply \/ Orphaned(c)
    /\ caller' = [caller EXCEPT ![c] = IF c \in reply THEN "answered" ELSE "lost"]
    /\ UNCHANGED <<phase, mailbox, receiver, actorVars, stopper>>

-----------------------------------------------------------------------------
(* shutdown. *)

BeginShutdown(s) ==
    /\ stopper[s] = "idle"
    /\ IF phase = "Running"
         THEN /\ phase' = "ShuttingDown"
              /\ stopper' = [stopper EXCEPT ![s] = "sending"]
         ELSE /\ phase' = phase
              /\ stopper' = [stopper EXCEPT ![s] = "waiting"]
    /\ UNCHANGED <<mailbox, receiver, actorVars, caller>>

\* A blocking send, which fails when the receiver has gone.
SendShutdown(s) ==
    /\ stopper[s] = "sending"
    /\ ~receiver \/ ~Full
    /\ mailbox' = IF receiver THEN Append(mailbox, Shutdown) ELSE mailbox
    /\ stopper' = [stopper EXCEPT ![s] = "waiting"]
    /\ UNCHANGED <<phase, receiver, actorVars, caller>>

\* wait_until_stopped.
ShutdownReturns(s) ==
    /\ stopper[s] = "waiting"
    /\ phase = "Stopped"
    /\ stopper' = [stopper EXCEPT ![s] = "done"]
    /\ UNCHANGED <<phase, mailbox, receiver, actorVars, caller>>

-----------------------------------------------------------------------------
(* The actor thread. *)

\* run: the next command.
Receive ==
    /\ actor = "receiving" /\ mailbox # <<>>
    /\ actor' = Head(mailbox)
    /\ mailbox' = Tail(mailbox)
    /\ UNCHANGED <<phase, receiver, result, storage, executed, reply, clientVars>>

\* The operation commits or fails, and its result is sent.
Execute ==
    /\ actor \in Callers
    /\ executed' = executed \cup {actor}
    /\ reply' = reply \cup {actor}
    /\ actor' = "receiving"
    /\ UNCHANGED <<phase, mailbox, receiver, result, storage, clientVars>>

\* The operation panics, before or after its transaction commits.
Panic ==
    /\ actor \in Callers
    /\ executed' \in {executed, executed \cup {actor}}
    /\ actor' = "leaving" /\ result' = "panic"
    /\ UNCHANGED <<phase, mailbox, receiver, storage, reply, clientVars>>

TakeShutdown ==
    /\ actor = Shutdown
    /\ actor' = "leaving" /\ result' = "ok"
    /\ UNCHANGED <<phase, mailbox, receiver, storage, executed, reply, clientVars>>

\* run owns the storage: returning or unwinding closes it.
CloseStorage ==
    /\ actor = "leaving"
    /\ storage' = "closed"
    /\ actor' = "closed"
    /\ UNCHANGED <<phase, mailbox, receiver, result, executed, reply, clientVars>>

MarkStopped ==
    /\ actor = "closed" /\ phase # "Stopped"
    /\ phase' = "Stopped"
    /\ UNCHANGED <<mailbox, receiver, actorVars, clientVars>>

\* Faulty: the commands left in the mailbox outlive the thread.
ThreadEndsLeaking ==
    /\ actor = "closed" /\ phase = "Stopped" /\ receiver
    /\ receiver' = FALSE
    /\ UNCHANGED <<phase, mailbox, actorVars, clientVars>>

\* The thread ends; the receiver goes, and with it what is left in the mailbox.
ThreadEnds ==
    /\ actor = "closed" /\ phase = "Stopped" /\ receiver
    /\ receiver' = FALSE
    /\ mailbox' = <<>>
    /\ UNCHANGED <<phase, actorVars, clientVars>>

-----------------------------------------------------------------------------
Actor ==
    \/ Receive \/ Execute \/ Panic \/ TakeShutdown
    \/ CloseStorage \/ MarkStopped \/ ThreadEnds

Client(c) == Call(c) \/ Return(c)
Stopper(s) == BeginShutdown(s) \/ SendShutdown(s) \/ ShutdownReturns(s)

WriterNext ==
    \/ Actor
    \/ \E c \in Callers : Client(c)
    \/ \E s \in Stoppers : Stopper(s)

\* Threads are scheduled; operations end.  Nobody has to call shutdown.
WriterFairness ==
    /\ WF_writerVars(Actor)
    /\ \A c \in Callers : WF_writerVars(Return(c))
    /\ \A s \in Stoppers : WF_writerVars(SendShutdown(s) \/ ShutdownReturns(s))

WriterSpec == WriterInit /\ [][WriterNext]_writerVars /\ WriterFairness

-----------------------------------------------------------------------------
(* Properties. *)

\* A clean shutdown drains: every call that was accepted has been executed and
\* answered when the writer has stopped.
ShutdownDrains ==
    phase = "Stopped" /\ result = "ok" =>
      \A c \in Callers : caller[c] \in {"waiting", "answered", "lost"} => c \in reply

\* Nobody waits for the writer for ever: every call returns, also when the actor
\* dies with calls in its mailbox, and every shutdown does, also with a full
\* mailbox, a dead actor or another shutdown under way.
EveryCallReturns ==
    /\ \A c \in Callers : caller[c] = "waiting" ~> caller[c] # "waiting"
    /\ \A s \in Stoppers : stopper[s] # "idle" ~> stopper[s] = "done"

=============================================================================
