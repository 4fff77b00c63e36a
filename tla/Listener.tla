------------------------------ MODULE Listener ------------------------------
(***************************************************************************)
(* The daemon's named pipe, from the accept loop to an authenticated       *)
(* session: daemon_runtime.rs::serve_listener with the pipe instances of   *)
(* mesh-win32's pipe.rs, and the four-phase mutual handshake between       *)
(* protocol_client.rs and protocol_handshake.rs with the transcript and    *)
(* the replay guard of mesh-win32's handshake.rs.                          *)
(*                                                                         *)
(* A client is one attempt to connect.  It brings the key, the install id  *)
(* and the frame limit it read from its own record, which a new setup may  *)
(* have replaced.  A proof is the tuple that is signed: the domain, the    *)
(* key and the transcript.  A session that serves is module Connection.    *)
(***************************************************************************)
EXTENDS Naturals, Sequences, FiniteSets, Functions

CONSTANTS
    Client,             \* attempts to connect
    Profile,            \* what a client may hold: key, install and offer
    Nonce,              \* what Nonce::generate may return
    ServerKey,          \* the daemon's endpoint key
    InstallId,          \* the daemon's install id
    MinFrame,           \* MIN_RESPONSE_FRAME
    MaxFrame,           \* MAX_RESPONSE_FRAME, also the daemon's own limit
    MaxConnections,     \* maximum_connections, at most 31
    PipeInstances,      \* PIPE_INSTANCES, 32
    ReplayCapacity      \* of the NonceReplayGuard

ASSUME ListenerAssumption ==
    /\ IsFiniteSet(Client)
    /\ MinFrame \in Nat /\ MaxFrame \in Nat /\ MinFrame <= MaxFrame
    /\ PipeInstances \in Nat /\ MaxConnections \in 1..(PipeInstances - 1)
    /\ ReplayCapacity \in Nat \ {0}

VARIABLES
    profile,        \* what each client holds
    peer,           \* where each client is
    hello,          \* the ClientHello it sent, as a set of at most one
    challenge,      \* the ServerChallenge it accepted, likewise
    instances,      \* listening pipe instances: <<current, successor>>
    accepting,      \* where serve_listener is
    stopping,       \* ShutdownSignal::requested
    result,         \* what serve_listener returned
    connWorker,     \* where the connection worker of each client is
    session,        \* <<client, challenge>> of a worker, once it has them
    toServer,       \* the unread frame from client to daemon, if any
    toClient,       \* the unread frame from daemon to client, if any
    broken,         \* the daemon's end of this client's instance is closed
    replay          \* NonceReplayGuard: the nonces it remembers, oldest first

clientVars == <<profile, peer, hello, challenge>>
acceptVars == <<instances, accepting, stopping, result>>
listenerVars == <<clientVars, acceptVars, connWorker, session, toServer,
                  toClient, broken, replay>>

\* A listening instance waits for a client or has one (even one that left).
Free == "free"

Listening == {instances[i] : i \in 1..Len(instances)}

\* A worker owns its instance until its transport is dropped.
Holding == {c \in Client : connWorker[c] \in {"hello", "auth", "serve"}}

Instances == Len(instances) + Cardinality(Holding)

Workers == {c \in Client : connWorker[c] \in {"hello", "auth", "serve", "ended"}}

\* The client still has its end open.
Present(c) == peer[c] \in {"connected", "hello", "auth", "ready"}

ListenerInit ==
    /\ profile \in [Client -> Profile]
    /\ peer = [c \in Client |-> "new"]
    /\ hello = [c \in Client |-> {}]
    /\ challenge = [c \in Client |-> {}]
    /\ instances = <<Free>>                     \* bind with FIRST_PIPE_INSTANCE
    /\ accepting = "top" /\ stopping = FALSE /\ result = "none"
    /\ connWorker = [c \in Client |-> "none"]
    /\ session = [c \in Client |-> <<>>]
    /\ toServer = [c \in Client |-> <<>>]
    /\ toClient = [c \in Client |-> <<>>]
    /\ broken = {}
    /\ replay = <<>>

-----------------------------------------------------------------------------
(* The handshake's data: what is validated, signed and verified.           *)

\* ClientHello::validate: the part a client's own record can get wrong.
ValidHello(h) == h.offer \in MinFrame..MaxFrame

\* ServerChallenge::validate with WireLimitsV1::validate.
ValidChallenge(h, ch) ==
    /\ ValidHello(h)
    /\ ch.install = h.install
    /\ ch.limit \in MinFrame..MaxFrame
    /\ ch.limit <= h.offer

Negotiated(h) == IF h.offer < MaxFrame THEN h.offer ELSE MaxFrame

Transcript(h, ch) == <<h, ch>>

ClientProof(key, h, ch) == <<"client", key, Transcript(h, ch)>>

ClientAuthOf(key, h, ch) ==
    [client_nonce |-> h.nonce, server_nonce |-> ch.nonce,
     proof |-> ClientProof(key, h, ch)]

VerifyNonces(key, h, ch, auth) ==
    /\ ValidChallenge(h, ch)
    /\ auth.client_nonce = h.nonce
    /\ auth.server_nonce = ch.nonce

\* ClientAuth::verify.
VerifyAuth(key, h, ch, auth) ==
    /\ ValidChallenge(h, ch)
    /\ auth.client_nonce = h.nonce
    /\ auth.server_nonce = ch.nonce
    /\ auth.proof = ClientProof(key, h, ch)

\* ServerReady: signed over the transcript and the client's proof.
ServerProof(key, h, ch, auth) ==
    <<"server", key, Transcript(h, ch), auth.proof>>

VerifyReady(key, h, ch, proof) ==
    LET auth == ClientAuthOf(key, h, ch)
    IN  VerifyAuth(key, h, ch, auth) /\ proof = ServerProof(key, h, ch, auth)

\* check_and_record: at capacity the oldest nonce is forgotten.
Recorded(nonce) ==
    Append(IF Len(replay) = ReplayCapacity THEN Tail(replay) ELSE replay, nonce)

Replayed(nonce) == nonce \in Range(replay)

-----------------------------------------------------------------------------
(* The client: SecurePipeClient::connect and authenticate_client.          *)

\* CreateFileW takes a free instance; the check of the server's process may
\* fail, and the handle is closed.
OpenPipe(c) ==
    /\ peer[c] = "new"
    /\ \E i \in 1..Len(instances) :
          /\ instances[i] = Free
          /\ instances' = [instances EXCEPT ![i] = c]
    /\ \E p \in {"connected", "closed"} : peer' = [peer EXCEPT ![c] = p]
    /\ UNCHANGED <<profile, hello, challenge, accepting, stopping, result,
                   connWorker, session, toServer, toClient, broken, replay>>

\* The pipe is absent or busy until the deadline.
OpenTimesOut(c) ==
    /\ peer[c] = "new"
    /\ Free \notin Listening
    /\ peer' = [peer EXCEPT ![c] = "closed"]
    /\ UNCHANGED <<profile, hello, challenge, acceptVars, connWorker, session,
                   toServer, toClient, broken, replay>>

\* ClientHandshake::new and send_hello.  The frame waits in the pipe, accepted
\* or not; nothing is written when the client's own values are invalid.
SendHello(c) ==
    /\ peer[c] = "connected" /\ c \notin broken
    /\ \E nonce \in Nonce :
         LET h == [nonce |-> nonce, install |-> profile[c].install,
                   offer |-> profile[c].offer]
         IN  IF ValidHello(h)
               THEN /\ hello' = [hello EXCEPT ![c] = {h}]
                    /\ toServer' = [toServer EXCEPT ![c] = <<h>>]
                    /\ peer' = [peer EXCEPT ![c] = "hello"]
               ELSE /\ peer' = [peer EXCEPT ![c] = "closed"]
                    /\ UNCHANGED <<hello, toServer>>
    /\ UNCHANGED <<profile, challenge, acceptVars, connWorker, session,
                   toClient, broken, replay>>

\* receive_challenge, then send_auth.  The client leaves when the challenge is
\* not valid for its hello.
AnswerChallenge(c) ==
    /\ peer[c] = "hello" /\ toClient[c] # <<>> /\ c \notin broken
    /\ LET ch == Head(toClient[c])
           h  == CHOOSE x \in hello[c] : TRUE
       IN  /\ ValidChallenge(h, ch)
           /\ challenge' = [challenge EXCEPT ![c] = {ch}]
           /\ toServer' = [toServer EXCEPT ![c] =
                             <<ClientAuthOf(profile[c].key, h, ch)>>]
    /\ peer' = [peer EXCEPT ![c] = "auth"]
    /\ toClient' = [toClient EXCEPT ![c] = <<>>]
    /\ UNCHANGED <<profile, hello, acceptVars, connWorker, session, broken,
                   replay>>

\* receive_ready.
ReceiveReady(c) ==
    /\ peer[c] = "auth" /\ toClient[c] # <<>> /\ c \notin broken
    /\ LET h  == CHOOSE x \in hello[c] : TRUE
           ch == CHOOSE x \in challenge[c] : TRUE
       IN  peer' = [peer EXCEPT ![c] =
                      IF VerifyReady(profile[c].key, h, ch, Head(toClient[c]))
                        THEN "ready" ELSE "closed"]
    /\ toClient' = [toClient EXCEPT ![c] = <<>>]
    /\ UNCHANGED <<profile, hello, challenge, acceptVars, connWorker, session,
                   toServer, broken, replay>>

\* Its deadline passes, its end breaks, its process ends, or it is finished.
ClientLeaves(c) ==
    /\ Present(c)
    /\ peer' = [peer EXCEPT ![c] = "closed"]
    /\ UNCHANGED <<profile, hello, challenge, acceptVars, connWorker, session,
                   toServer, toClient, broken, replay>>

-----------------------------------------------------------------------------
(* serve_listener.                                                         *)

\* Closing an instance breaks the client on it.
Dropped(seq) == {seq[i] : i \in 1..Len(seq)} \cap Client

DropAll ==
    /\ instances' = <<>>
    /\ broken' = broken \cup Dropped(instances)

\* shutdown.request(), the listeners are dropped and the workers finished.
GiveUp ==
    /\ stopping' = TRUE /\ accepting' = "finish" /\ result' = "error"

Reap ==
    connWorker' = [c \in Client |->
                     IF connWorker[c] = "ended" THEN "joined" ELSE connWorker[c]]

FullTooLate == Cardinality({c \in Workers : connWorker[c] # "ended"}) > MaxConnections

\* After the reaping, every connection worker is busy.
Full == Cardinality({c \in Workers : connWorker[c] # "ended"}) >= MaxConnections

\* The top of the loop: reap, wait when full, else bind the successor.
Top ==
    /\ accepting = "top" /\ ~stopping
    /\ Reap
    /\ \/ Full /\ UNCHANGED <<acceptVars, broken>>
       \/ /\ ~Full /\ Instances < PipeInstances
          /\ instances' = Append(instances, Free)
          /\ accepting' = "accept"
          /\ UNCHANGED <<stopping, result, broken>>
       \/ /\ ~Full                              \* bind_additional fails
          /\ DropAll /\ GiveUp
    /\ UNCHANGED <<clientVars, session, toServer, toClient, replay>>

\* ConnectNamedPipe on the current instance: a client is there, is still to
\* come, or has come and left (ERROR_NO_DATA, which is no rejection).
ConnectPipe ==
    /\ accepting = "accept"
    /\ LET who == Head(instances)
       IN  \/ /\ who = Free
              /\ accepting' = "wait"
              /\ UNCHANGED <<instances, stopping, result, broken>>
           \/ /\ who # Free /\ Present(who)
              /\ accepting' = "connected"
              /\ UNCHANGED <<instances, stopping, result, broken>>
           \/ /\ who # Free /\ ~Present(who)
              /\ DropAll /\ GiveUp
    /\ UNCHANGED <<clientVars, connWorker, session, toServer, toClient, replay>>

\* The pending ConnectNamedPipe completes.
PipeConnects ==
    /\ accepting = "wait" /\ Head(instances) # Free
    /\ accepting' = "connected"
    /\ UNCHANGED <<clientVars, instances, stopping, result, connWorker,
                   session, toServer, toClient, broken, replay>>

\* The instance is closed and its successor takes its place.
NextInstance ==
    /\ instances' = Tail(instances)
    /\ broken' = broken \cup ({Head(instances)} \cap Client)
    /\ accepting' = "top"
    /\ UNCHANGED <<stopping, result>>

\* The accept deadline passes; a client that connected while the pending call
\* was cancelled is dropped.
AcceptTimesOut ==
    /\ accepting = "wait"
    /\ NextInstance
    /\ UNCHANGED <<clientVars, connWorker, session, toServer, toClient, replay>>

\* authenticate_client refuses the peer (its identity, or it is gone) or fails
\* in a way that is not a rejection.
PeerRefused ==
    /\ accepting = "connected"
    /\ NextInstance \/ (DropAll /\ GiveUp)
    /\ UNCHANGED <<clientVars, connWorker, session, toServer, toClient, replay>>

\* A worker is spawned for the connection; spawning may fail.
Accepted ==
    /\ accepting = "connected"
    /\ \/ /\ connWorker' = [connWorker EXCEPT ![Head(instances)] = "hello"]
          /\ instances' = Tail(instances)
          /\ accepting' = "top"
          /\ UNCHANGED <<stopping, result, broken>>
       \/ DropAll /\ GiveUp /\ UNCHANGED connWorker
    /\ UNCHANGED <<clientVars, session, toServer, toClient, replay>>

\* The loop sees the shutdown.
LoopStops ==
    /\ accepting = "top" /\ stopping
    /\ DropAll
    /\ accepting' = "finish" /\ result' = "ok"
    /\ UNCHANGED <<clientVars, stopping, connWorker, session, toServer,
                   toClient, replay>>

FinishPatiently ==
    /\ accepting = "finish"
    /\ Reap
    /\ Holding = {}
    /\ accepting' = "done"
    /\ UNCHANGED <<clientVars, instances, stopping, result, session, toServer,
                   toClient, broken, replay>>

\* finish_workers: everyone is reaped, or the grace period ends and those that
\* still run are detached.
Finish ==
    /\ accepting = "finish"
    /\ Reap
    /\ accepting' \in IF Holding = {} THEN {"done"} ELSE {"finish", "done"}
    /\ UNCHANGED <<clientVars, instances, stopping, result, session, toServer,
                   toClient, broken, replay>>

\* The install monitor or a signal handler of the daemon asks it to stop.
AskToStop ==
    /\ ~stopping
    /\ stopping' = TRUE
    /\ UNCHANGED <<clientVars, instances, accepting, result, connWorker,
                   session, toServer, toClient, broken, replay>>

-----------------------------------------------------------------------------
(* A connection worker: AcceptedSession and ChallengedSession.             *)

\* The transport is dropped: the pipe is disconnected and what the client had
\* not read is gone.
WorkerCloses(c) ==
    /\ connWorker' = [connWorker EXCEPT ![c] = "ended"]
    /\ broken' = broken \cup {c}
    /\ toClient' = [toClient EXCEPT ![c] = <<>>]

\* receive_hello: the nonce is recorded before the challenge is made, and
\* stays recorded when the challenge cannot be written.
ReceiveHello(c) ==
    /\ connWorker[c] = "hello" /\ toServer[c] # <<>>
    /\ LET h == Head(toServer[c])
           admitted == h.install = InstallId /\ ~Replayed(h.nonce)
       IN  /\ replay' = IF admitted THEN Recorded(h.nonce) ELSE replay
           /\ \/ /\ admitted /\ Present(c)
                 /\ \E nonce \in Nonce :
                      LET ch == [nonce |-> nonce, install |-> InstallId,
                                 limit |-> Negotiated(h)]
                      IN  /\ session' = [session EXCEPT ![c] = <<h, ch>>]
                          /\ toClient' = [toClient EXCEPT ![c] = <<ch>>]
                 /\ connWorker' = [connWorker EXCEPT ![c] = "auth"]
                 /\ UNCHANGED broken
              \/ /\ ~admitted \/ ~Present(c)
                 /\ WorkerCloses(c) /\ UNCHANGED session
    /\ toServer' = [toServer EXCEPT ![c] = <<>>]
    /\ UNCHANGED <<clientVars, acceptVars>>

\* receive_auth: verify, then answer with the daemon's own proof.
ReceiveAuth(c) ==
    /\ connWorker[c] = "auth" /\ toServer[c] # <<>>
    /\ LET auth == Head(toServer[c])
           h == session[c][1]
           ch == session[c][2]
       IN  \/ /\ VerifyAuth(ServerKey, h, ch, auth) /\ Present(c)
              /\ toClient' = [toClient EXCEPT ![c] =
                                <<ServerProof(ServerKey, h, ch, auth)>>]
              /\ connWorker' = [connWorker EXCEPT ![c] = "serve"]
              /\ UNCHANGED broken
           \/ /\ ~VerifyAuth(ServerKey, h, ch, auth) \/ ~Present(c)
              /\ WorkerCloses(c)
    /\ toServer' = [toServer EXCEPT ![c] = <<>>]
    /\ UNCHANGED <<clientVars, acceptVars, session, replay>>

\* A handshake read or write fails or its deadline passes, or the session ends.
WorkerEnds(c) ==
    /\ connWorker[c] \in {"hello", "auth", "serve"}
    /\ WorkerCloses(c)
    /\ UNCHANGED <<clientVars, acceptVars, session, toServer, replay>>

-----------------------------------------------------------------------------
ClientStep(c) ==
    \/ OpenPipe(c) \/ OpenTimesOut(c) \/ SendHello(c) \/ AnswerChallenge(c)
    \/ ReceiveReady(c) \/ ClientLeaves(c)

ServeListener ==
    \/ Top \/ ConnectPipe \/ PipeConnects \/ AcceptTimesOut \/ PeerRefused
    \/ Accepted \/ LoopStops \/ Finish

ConnectionWorker(c) == ReceiveHello(c) \/ ReceiveAuth(c) \/ WorkerEnds(c)

ListenerNext ==
    \/ \E c \in Client : ClientStep(c)
    \/ ServeListener
    \/ AskToStop
    \/ \E c \in Client : ConnectionWorker(c)

\* The serving thread runs: its accept has a deadline and its waits are short.
\* Nothing is assumed of clients and connection workers.
ListenerFairness == WF_listenerVars(ServeListener)

ListenerSpec ==
    ListenerInit /\ [][ListenerNext]_listenerVars /\ ListenerFairness

-----------------------------------------------------------------------------
(* What the listener and the handshake promise.                            *)

\* Until a shutdown is requested the daemon owns an instance of the pipe, so no
\* other process can become its first owner; and whenever it binds a successor
\* the pipe's instance limit leaves room for it, however many workers run.
PipeStaysOwned ==
    ~stopping => /\ Instances >= 1
                 /\ accepting = "top" /\ ~Full => Instances < PipeInstances

\* A session serves only a client that holds the daemon's key and install id,
\* and client and daemon that both finished hold the same hello, the same
\* challenge and so the same frame limit, within the client's offer.
HandshakesAgree ==
    \A c \in Client :
        /\ connWorker[c] = "serve" =>
              /\ profile[c].key = ServerKey /\ profile[c].install = InstallId
              /\ hello[c] = {session[c][1]} /\ challenge[c] = {session[c][2]}
        /\ peer[c] = "ready" =>
              /\ session[c] # <<>>
              /\ hello[c] = {session[c][1]} /\ challenge[c] = {session[c][2]}
              /\ session[c][2].limit <= profile[c].offer
              /\ connWorker[c] \in {"serve", "ended", "joined"}

\* serve_listener returns after a shutdown request, also when a connection
\* worker never ends.
ServerReturns == stopping ~> accepting = "done"

\* The pipe is owned until an intentional shutdown (the comment in
\* serve_listener): nothing a client does makes the listener give up.
OwnedUntilIntentionalShutdown == result # "error"

=============================================================================
