----------------------------- MODULE Connection -----------------------------
(***************************************************************************)
(* One authenticated pipe connection of the daemon, from accept to report: *)
(* daemon_runtime.rs::serve_transport with the capability registry of      *)
(* protocol_handshake.rs.  Three kinds of thread share it.  The reader     *)
(* admits requests under the shutdown fence, one route worker per request  *)
(* runs the router, and one writer owns the pipe's write half.  They meet  *)
(* in a bounded response channel, a control channel and a slot that holds  *)
(* the connection's first terminal error.                                  *)
(*                                                                         *)
(* A request is its RPC id; the bridge numbers them and never reuses one.  *)
(* The daemon does not rely on ClientBound, the bridge sets it to          *)
(* MaxInFlight.                                                            *)
(***************************************************************************)
EXTENDS Naturals, Sequences, FiniteSets

CONSTANTS
    Request,        \* the requests the client may send
    Health,         \* those answered by the reader itself (mesh.health)
    MaxInFlight,    \* negotiated max_in_flight, 16 in production
    ClientBound     \* unanswered requests the client allows itself

ASSUME ConnectionAssumption ==
    /\ IsFiniteSet(Request)
    /\ Health \subseteq Request
    /\ MaxInFlight \in Nat \ {0}
    /\ ClientBound \in Nat

VARIABLES
    shutdown,       \* ShutdownSignal::requested, set under admission_fence
    reader,         \* where the connection's own thread is
    current,        \* the set holding the request the reader has in hand
    stage,          \* where each request is
    registered,     \* ids of ConnectionState::by_token: the slots in use
    queue,          \* the response channel
    failed,         \* requests the router ended with a SessionError
    panicked,       \* route workers that panicked and are not joined yet
    control,        \* an error code waits in the control channel
    terminal,       \* terminal_slot is filled
    observed,       \* shutdown_observed
    writer,         \* where the writer thread is
    completed,      \* completed_requests
    aborted,        \* abort_connection was called on a half
    hungUp,         \* the client closed its end
    refusedFor,     \* why read_request_until refused a frame, if it did
    wire            \* frames sent and not read yet

connectionVars == <<shutdown, reader, current, stage, registered, queue, failed,
          panicked, control, terminal, observed, writer, completed, aborted,
          hungUp, refusedFor, wire>>

\* "unread": dropped before it was admitted; "lost": admitted, never answered.
Stage ==
    {"new", "wire", "read", "routing", "sending", "queued", "writing",
     "answered", "unread", "lost"}

ConnectionInit ==
    /\ shutdown = FALSE /\ control = FALSE /\ terminal = FALSE
    /\ observed = FALSE /\ aborted = FALSE /\ hungUp = FALSE
    /\ reader = "hello" /\ writer = "absent"
    /\ stage = [r \in Request |-> "new"]
    /\ registered = {} /\ failed = {} /\ panicked = {} /\ current = {}
    /\ queue = <<>> /\ wire = <<>>
    /\ completed = 0 /\ refusedFor = "nothing"

Elements(s) == {s[i] : i \in 1..Len(s)}

\* The pipe still carries bytes both ways.
Connected == ~aborted /\ ~hungUp /\ reader # "done"

Unanswered == {r \in Request : stage[r] \notin {"new", "answered"}}

\* A route worker whose thread has not ended holds a clone of response_tx.
Working == {r \in Request : stage[r] \in {"routing", "sending"}} \ Health

-----------------------------------------------------------------------------
(* The client, and the daemon's shutdown.                                  *)

\* The client sends while its own count of unanswered requests allows it.
ClientSend(r) ==
    /\ Connected /\ reader \notin {"hello", "auth"}
    /\ stage[r] = "new"
    /\ Cardinality(Unanswered) < ClientBound
    /\ stage' = [stage EXCEPT ![r] = "wire"]
    /\ wire' = Append(wire, r)
    /\ UNCHANGED <<shutdown, reader, current, registered, queue, failed,
                   panicked, control, terminal, observed, writer, completed,
                   aborted, hungUp, refusedFor>>

ClientHangUp ==
    /\ ~hungUp /\ reader # "done"
    /\ hungUp' = TRUE
    /\ UNCHANGED <<shutdown, reader, current, stage, registered, queue,
                   failed, panicked, control, terminal, observed, writer,
                   completed, aborted, refusedFor, wire>>

\* The health answer is sent while the reader holds admission_fence.
FenceHeld == reader = "health"

RequestShutdown ==
    /\ ~shutdown /\ ~FenceHeld
    /\ shutdown' = TRUE
    /\ UNCHANGED <<reader, current, stage, registered, queue, failed,
                   panicked, control, terminal, observed, writer, completed,
                   aborted, hungUp, refusedFor, wire>>

-----------------------------------------------------------------------------
(* The reader: handshake, then the admission loop.                         *)

\* receive_hello, then receive_auth and the start of the writer thread.  Any of
\* them may fail, and the connection is then reported without a writer.
Handshake ==
    /\ \/ reader = "hello" /\ ~hungUp /\ reader' = "auth" /\ writer' = writer
       \/ reader = "auth" /\ ~hungUp /\ reader' = "top" /\ writer' = "poll"
       \/ /\ reader \in {"hello", "auth"}
          /\ reader' = "done" /\ writer' = "done"
    /\ terminal' = (reader' = "done")
    /\ UNCHANGED <<shutdown, current, stage, registered, queue, failed,
                   panicked, control, observed, completed, aborted, hungUp,
                   refusedFor, wire>>

\* reap_route_workers joins a worker that panicked.
PanicsSeen == panicked # {}

\* reap_route_workers, then the two checks that open an iteration.
ReaderTop ==
    /\ reader = "top"
    /\ panicked' = {}
    /\ terminal' = (terminal \/ PanicsSeen)
    /\ \/ /\ shutdown
          /\ reader' = "join" /\ observed' = TRUE /\ UNCHANGED aborted
       \/ /\ ~shutdown /\ terminal'
          /\ reader' = "join" /\ aborted' = TRUE /\ UNCHANGED observed
       \/ /\ ~shutdown /\ ~terminal'
          /\ reader' = "read" /\ UNCHANGED <<aborted, observed>>
    /\ UNCHANGED <<shutdown, current, stage, registered, queue, failed,
                   control, writer, completed, hungUp, refusedFor, wire>>

ReadUnbounded ==
    /\ reader = "read" /\ ~aborted /\ wire # <<>>
    /\ wire' = Tail(wire)
    /\ current' = {Head(wire)}
    /\ registered' = registered \cup {Head(wire)}
    /\ stage' = [stage EXCEPT ![Head(wire)] = "read"]
    /\ reader' = "admit"
    /\ UNCHANGED <<shutdown, queue, failed, panicked, control, terminal,
                   observed, writer, completed, aborted, hungUp, refusedFor>>

\* register_outstanding.
SlotFree == Cardinality(registered) < MaxInFlight

\* read_request_until, when the frame is whole and its slot is free.
ReadRequest ==
    /\ reader = "read" /\ ~aborted /\ wire # <<>>
    /\ SlotFree
    /\ wire' = Tail(wire)
    /\ current' = {Head(wire)}
    /\ registered' = registered \cup {Head(wire)}
    /\ stage' = [stage EXCEPT ![Head(wire)] = "read"]
    /\ reader' = "admit"
    /\ UNCHANGED <<shutdown, queue, failed, panicked, control, terminal,
                   observed, writer, completed, aborted, hungUp, refusedFor>>

\* A timeout, a closed pipe, a frame that does not decode, or no free slot.
\* The reader keeps quiet about it when the daemon is shutting down.
ReadFails(why) ==
    /\ reader = "read"
    /\ \/ why = "nothing" /\ UNCHANGED <<wire, stage>>
       \/ /\ why = "limit" /\ ~aborted /\ wire # <<>>
          /\ ~SlotFree
          /\ wire' = Tail(wire)
          /\ stage' = [stage EXCEPT ![Head(wire)] = "unread"]
    /\ refusedFor' = why
    /\ observed' = (observed \/ shutdown)
    /\ IF ~shutdown /\ ~terminal
         THEN terminal' = TRUE /\ control' = TRUE
         ELSE UNCHANGED <<terminal, control>>
    /\ aborted' = TRUE
    /\ reader' = "join"
    /\ UNCHANGED <<shutdown, current, registered, queue, failed, panicked,
                   writer, completed, hungUp>>

\* Dropping a PendingRequest releases its slot.
DropCurrent(st) ==
    /\ registered' = registered \ current
    /\ stage' = [r \in Request |-> IF r \in current THEN st ELSE stage[r]]
    /\ current' = {}

\* Under the fence: the request is dropped, or handed to a route worker (whose
\* thread may fail to start), or, for mesh.health, answered here.
RefuseFenced ==
    /\ reader = "admit"
    /\ shutdown \/ terminal
    /\ DropCurrent("unread")
    /\ observed' = (observed \/ shutdown)
    /\ aborted' = (aborted \/ ~shutdown)
    /\ reader' = "join"
    /\ UNCHANGED <<shutdown, queue, failed, panicked, control, terminal,
                   writer, completed, hungUp, refusedFor, wire>>

Admit ==
    /\ reader = "admit"
    /\ ~shutdown /\ ~terminal
    /\ IF current \subseteq Health
         THEN /\ reader' = "health"
              /\ stage' = [r \in Request |->
                             IF r \in current THEN "sending" ELSE stage[r]]
              /\ UNCHANGED current
         ELSE /\ reader' = "top"
              /\ stage' = [r \in Request |->
                             IF r \in current THEN "routing" ELSE stage[r]]
              /\ current' = {}
    /\ UNCHANGED <<shutdown, registered, queue, failed, panicked, control,
                   terminal, observed, writer, completed, aborted, hungUp,
                   refusedFor, wire>>

SpawnFails ==
    /\ reader = "admit"
    /\ ~shutdown /\ ~terminal /\ ~(current \subseteq Health)
    /\ DropCurrent("lost")
    /\ terminal' = TRUE /\ control' = TRUE /\ aborted' = TRUE
    /\ reader' = "join"
    /\ UNCHANGED <<shutdown, queue, failed, panicked, observed, writer,
                   completed, hungUp, refusedFor, wire>>

\* response_tx.send blocks on a full channel and fails once the writer is gone.
SendHealth ==
    /\ reader = "health"
    /\ IF writer = "done"
         THEN /\ DropCurrent("lost")
              /\ terminal' = TRUE /\ aborted' = TRUE /\ reader' = "join"
              /\ UNCHANGED queue
         ELSE /\ Len(queue) < MaxInFlight
              /\ queue' = queue \o <<CHOOSE r \in current : TRUE>>
              /\ stage' = [r \in Request |->
                             IF r \in current THEN "queued" ELSE stage[r]]
              /\ current' = {} /\ reader' = "top"
              /\ UNCHANGED <<registered, terminal, aborted>>
    /\ UNCHANGED <<shutdown, failed, panicked, control, observed, writer,
                   completed, hungUp, refusedFor, wire>>

\* The read half and response_tx are dropped and every worker is joined.
JoinWorkers ==
    /\ reader = "join"
    /\ Working = {}
    /\ IF PanicsSeen
         THEN terminal' = TRUE /\ control' = TRUE
         ELSE UNCHANGED <<terminal, control>>
    /\ panicked' = {}
    /\ reader' = "drain"
    /\ UNCHANGED <<shutdown, current, stage, registered, queue, failed,
                   observed, writer, completed, aborted, hungUp, refusedFor,
                   wire>>

\* control_tx is dropped, the writer joined and the report returned.
JoinWriter ==
    /\ reader = "drain" /\ writer = "done"
    /\ reader' = "done"
    /\ observed' = (observed /\ ~terminal)
    /\ UNCHANGED <<shutdown, current, stage, registered, queue, failed,
                   panicked, control, terminal, writer, completed, aborted,
                   hungUp, refusedFor, wire>>

-----------------------------------------------------------------------------
(* Route workers.                                                          *)

\* The router returns a response, returns an error (the capability is dropped
\* with the request) or panics (so is it).
RouteWorker(r) ==
    /\ stage[r] = "routing"
    /\ \/ /\ stage' = [stage EXCEPT ![r] = "sending"]
          /\ UNCHANGED <<registered, failed, panicked>>
       \/ /\ stage' = [stage EXCEPT ![r] = "sending"]
          /\ registered' = registered \ {r}
          /\ failed' = failed \cup {r}
          /\ UNCHANGED panicked
       \/ /\ stage' = [stage EXCEPT ![r] = "lost"]
          /\ registered' = registered \ {r}
          /\ panicked' = panicked \cup {r}
          /\ UNCHANGED failed
    /\ UNCHANGED <<shutdown, reader, current, queue, control, terminal,
                   observed, writer, completed, aborted, hungUp, refusedFor,
                   wire>>

WorkerSend(r) ==
    /\ stage[r] = "sending" /\ r \notin Health
    /\ IF writer = "done"
         THEN /\ stage' = [stage EXCEPT ![r] = "lost"]
              /\ registered' = registered \ {r}
              /\ UNCHANGED queue
         ELSE /\ Len(queue) < MaxInFlight
              /\ stage' = [stage EXCEPT ![r] = "queued"]
              /\ queue' = Append(queue, r)
              /\ UNCHANGED registered
    /\ UNCHANGED <<shutdown, reader, current, failed, panicked, control,
                   terminal, observed, writer, completed, aborted, hungUp,
                   refusedFor, wire>>

-----------------------------------------------------------------------------
(* The writer thread.                                                      *)

\* The thread ends: the receiver and everything still queued are dropped.
WriterStops(dropped) ==
    /\ writer' = "done"
    /\ queue' = <<>>
    /\ stage' = [r \in Request |->
                   IF r \in dropped \cup Elements(queue)
                     THEN IF stage[r] = "answered" THEN "answered" ELSE "lost"
                     ELSE stage[r]]
    /\ registered' = registered \ (dropped \cup Elements(queue))

WriterFails(dropped) ==
    /\ WriterStops(dropped)
    /\ terminal' = TRUE /\ aborted' = TRUE

WriterPoll ==
    /\ writer = "poll"
    /\ IF control
         THEN WriterFails({}) /\ control' = FALSE
         ELSE /\ writer' = "recv"
              /\ UNCHANGED <<queue, stage, registered, terminal, aborted,
                             control>>
    /\ UNCHANGED <<shutdown, reader, current, failed, panicked, observed,
                   completed, hungUp, refusedFor, wire>>

DisconnectedLate == reader = "done" /\ Working = {}

\* No sender is left: the reader dropped response_tx and the workers ended.
Disconnected ==
    /\ reader \in {"join", "drain", "done"}
    /\ Working = {}

WriterReceive ==
    /\ writer = "recv"
    /\ IF queue = <<>>
         THEN IF Disconnected
                THEN WriterStops({}) /\ UNCHANGED <<terminal, aborted>>
                ELSE /\ writer' = "poll"
                     /\ UNCHANGED <<queue, stage, registered, terminal,
                                    aborted>>
         ELSE IF Head(queue) \in failed \/ terminal
                THEN WriterFails({})
                ELSE /\ writer' = "write"
                     /\ queue' = Tail(queue)
                     /\ stage' = [stage EXCEPT ![Head(queue)] = "writing"]
                     /\ UNCHANGED <<registered, terminal, aborted>>
    /\ UNCHANGED <<shutdown, reader, current, failed, panicked, control,
                   observed, completed, hungUp, refusedFor, wire>>

Writing == {r \in Request : stage[r] = "writing"}

\* The frame reaches the client before the write call returns here.
Deliver ==
    /\ writer = "write" /\ Connected
    /\ writer' = "wrote"
    /\ stage' = [r \in Request |->
                   IF stage[r] = "writing" THEN "answered" ELSE stage[r]]
    /\ UNCHANGED <<shutdown, reader, current, registered, queue, failed,
                   panicked, control, terminal, observed, completed, aborted,
                   hungUp, refusedFor, wire>>

WriteKeepsCapability ==
    /\ writer = "wrote"
    /\ writer' = "poll"
    /\ completed' = completed + 1
    /\ UNCHANGED <<shutdown, reader, current, stage, registered, queue, failed,
                   panicked, control, terminal, observed, aborted, hungUp,
                   refusedFor, wire>>

\* Success consumes the capability, and with it the slot.
WriteReturns ==
    /\ writer = "wrote"
    /\ writer' = "poll"
    /\ registered' = {r \in registered : stage[r] # "answered"}
    /\ completed' = completed + 1
    /\ UNCHANGED <<shutdown, reader, current, stage, queue, failed, panicked,
                   control, terminal, observed, aborted, hungUp, refusedFor,
                   wire>>

\* So does failure, whether or not the frame got out.
WriteFails ==
    /\ writer \in {"write", "wrote"}
    /\ WriterFails(Writing \cup {r \in registered : stage[r] = "answered"})
    /\ UNCHANGED <<shutdown, reader, current, failed, panicked, control,
                   observed, completed, hungUp, refusedFor, wire>>

-----------------------------------------------------------------------------
Reader ==
    \/ Handshake
    \/ ReaderTop
    \/ ReadRequest
    \/ \E why \in {"nothing", "limit"} : ReadFails(why)
    \/ RefuseFenced \/ Admit \/ SpawnFails \/ SendHealth
    \/ JoinWorkers \/ JoinWriter

Worker(r) == RouteWorker(r) \/ WorkerSend(r)

WriterThread ==
    \/ WriterPoll \/ WriterReceive \/ Deliver \/ WriteReturns \/ WriteFails

ConnectionNext ==
    \/ \E r \in Request : ClientSend(r)
    \/ ClientHangUp
    \/ RequestShutdown
    \/ Reader
    \/ \E r \in Request : Worker(r)
    \/ WriterThread

\* Every thread keeps running: reads and writes carry deadlines, and a router
\* call ends by its method deadline.
ConnectionFairness ==
    /\ WF_connectionVars(Reader)
    /\ WF_connectionVars(WriterThread)
    /\ \A r \in Request : WF_connectionVars(Worker(r))

ConnectionSpec == ConnectionInit /\ [][ConnectionNext]_connectionVars /\ ConnectionFairness

-----------------------------------------------------------------------------
(* What the connection promises.                                           *)

\* A slot belongs to a request that is still on its way to an answer: success,
\* failure, panic and a dropped channel all give it back.  A leaked slot would
\* end a long-lived connection after max_in_flight of them.
SlotsAreReleased ==
    \A r \in registered :
        /\ stage[r] \in {"read", "routing", "sending", "queued", "writing"}
           \/ (stage[r] = "answered" /\ writer = "wrote")
        /\ r \notin failed \cup panicked

\* The health answer is sent under the fence that a shutdown request and every
\* other admission wait for.  The send can wait for room only on a connection
\* that already has a failed answer queued, and so is about to end.
FenceIsNotHeldByAFullChannel ==
    reader = "health" /\ Len(queue) = MaxInFlight =>
        \E r \in Elements(queue) : r \in failed

\* A shutdown, a lost answer or a terminal error ends the connection: no thread
\* of it waits forever for another.
ConnectionEnds ==
    (shutdown \/ terminal \/ \E r \in Request : stage[r] = "lost")
        ~> (reader = "done" /\ writer = "done")

\* A client that never has more than max_in_flight requests unanswered is not
\* disconnected for exceeding that bound (register_outstanding).
ConformingClientIsServed ==
    ClientBound <= MaxInFlight => refusedFor # "limit"

=============================================================================
