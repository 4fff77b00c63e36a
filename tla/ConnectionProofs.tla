------------------------- MODULE ConnectionProofs --------------------------
(***************************************************************************)
(* The two ends of a connection, for any number of clients, connections,   *)
(* nonces, profiles, requests and slots: the pipe stays owned and a        *)
(* handshake agrees (Listener), every slot is given back and the shutdown  *)
(* fence is not held by a full channel (Connection), what garbage          *)
(* collection leaves to the clients that hold a lease (Retention), and the *)
(* reserve behind a store that admits work (StoreOpen).                    *)
(***************************************************************************)
EXTENDS Connection, Listener, Retention, StoreOpen, FiniteSetTheorems, TLAPS

-----------------------------------------------------------------------------
(* Connection: slots and the response channel.                             *)

\* A request is in one place: on the wire or in the response channel at most
\* once, with the stage that says so.
PlacesAgree ==
  /\ stage \in [Request -> Stage]
  /\ registered \subseteq Request /\ failed \subseteq Request /\ panicked \subseteq Request
  /\ queue \in Seq(Request) /\ wire \in Seq(Request)
  /\ \A i \in 1..Len(wire) : stage[wire[i]] = "wire"
  /\ \A i, j \in 1..Len(wire) : wire[i] = wire[j] => i = j
  /\ \A i \in 1..Len(queue) : stage[queue[i]] = "queued"
  /\ \A i, j \in 1..Len(queue) : queue[i] = queue[j] => i = j

\* The reader has one request in hand between reading it and letting it go,
\* and the slot is that request's.
InHand ==
  /\ reader \in {"hello", "auth"} => writer = "absent"
  /\ \/ reader \notin {"admit", "health"} /\ current = {}
     \/ /\ reader = "admit"
        /\ \E x \in Request : current = {x} /\ stage[x] = "read" /\ x \in registered
     \/ /\ reader = "health"
        /\ \E x \in Health : current = {x} /\ stage[x] = "sending" /\ x \in registered

\* Nobody but the reader or a worker has a request before its answer exists,
\* and an answer without a slot is one of the router's failures.
SlotsFollow ==
  /\ SlotsAreReleased
  /\ \A r \in failed : stage[r] \in {"sending", "queued", "lost"}
  /\ \A r \in panicked : stage[r] = "lost"
  /\ \A r \in Request : stage[r] \in {"read", "routing"} => r \in registered
  /\ \A r \in Request : stage[r] \in {"sending", "queued"} => r \in registered \cup failed

\* No more requests than slots.
SlotsAreBounded == Cardinality(registered) <= MaxInFlight

\* The inductive invariant of a connection.
ConnectionInvariant == PlacesAgree /\ InHand /\ SlotsFollow

\* Taking slots away keeps the bound.
LEMMA FewerSlots ==
  ASSUME NEW R, NEW S, S \subseteq Request, R \subseteq S
  PROVE  IsFiniteSet(R) /\ Cardinality(R) \in Nat /\ Cardinality(R) <= Cardinality(S)
         /\ Cardinality(S) \in Nat
<1>1. IsFiniteSet(S)
  BY Zenon, FS_Subset, ConnectionAssumption
<1>. QED BY Zenon, <1>1, FS_Subset, FS_CardinalityType

\* One request takes one slot at most.
LEMMA OneMoreSlot ==
  ASSUME NEW R, R \subseteq Request, NEW x \in Request
  PROVE  Cardinality(R \cup {x}) <= Cardinality(R) + 1
<1>1. IsFiniteSet(R)
  BY Zenon, FS_Subset, ConnectionAssumption
<1>2. Cardinality(R) \in Nat
  BY Zenon, <1>1, FS_CardinalityType
<1>3. Cardinality(R \cup {x}) = IF x \in R THEN Cardinality(R) ELSE Cardinality(R) + 1
  BY Zenon, <1>1, FS_AddElement
<1>. QED BY <1>2, <1>3

\* What is left behind the head.
LEMMA TailOf ==
  ASSUME NEW s \in Seq(Request), s # <<>>
  PROVE  /\ Tail(s) \in Seq(Request) /\ Len(Tail(s)) = Len(s) - 1 /\ Len(s) \in Nat /\ Len(s) > 0
         /\ Head(s) \in Request /\ Head(s) = s[1] /\ 1 \in 1..Len(s)
         /\ \A i \in 1..Len(Tail(s)) : i + 1 \in 1..Len(s) /\ Tail(s)[i] = s[i + 1]
OBVIOUS

\* What is there in front of the new one.
LEMMA AppendTo ==
  ASSUME NEW s \in Seq(Request), NEW x \in Request
  PROVE  /\ Append(s, x) \in Seq(Request) /\ Len(Append(s, x)) = Len(s) + 1 /\ Len(s) \in Nat
         /\ \A i \in 1..Len(s) : Append(s, x)[i] = s[i]
         /\ Append(s, x)[Len(s) + 1] = x
         /\ \A i \in 1..(Len(s) + 1) : i \in 1..Len(s) \/ i = Len(s) + 1
OBVIOUS

\* A channel that is left alone, with the requests in it, stays in order.
LEMMA QueueKept ==
  ASSUME PlacesAgree, queue' = queue, \A i \in 1..Len(queue) : stage'[queue[i]] = "queued"
  PROVE  /\ queue' \in Seq(Request)
         /\ \A i \in 1..Len(queue') : stage'[queue'[i]] = "queued"
         /\ \A i, j \in 1..Len(queue') : queue'[i] = queue'[j] => i = j
BY Zenon DEF PlacesAgree

LEMMA WireKept ==
  ASSUME PlacesAgree, wire' = wire, \A i \in 1..Len(wire) : stage'[wire[i]] = "wire"
  PROVE  /\ wire' \in Seq(Request)
         /\ \A i \in 1..Len(wire') : stage'[wire'[i]] = "wire"
         /\ \A i, j \in 1..Len(wire') : wire'[i] = wire'[j] => i = j
BY ZenonT(60) DEF PlacesAgree

\* The client sends, hangs up; the daemon is told to stop.
LEMMA ClientKeeps ==
  ASSUME ConnectionInvariant,
         (\E r \in Request : ClientSend(r)) \/ ClientHangUp \/ RequestShutdown
  PROVE  ConnectionInvariant'
<1>. USE DEF ConnectionInvariant
<1>1. CASE ClientHangUp \/ RequestShutdown
  BY SMTT(60), <1>1 DEF ClientHangUp, RequestShutdown, PlacesAgree, InHand, SlotsFollow, SlotsAreReleased
<1>2. ASSUME NEW r \in Request, ClientSend(r) PROVE ConnectionInvariant'
  <2>1. /\ stage[r] = "new" /\ stage' = [stage EXCEPT ![r] = "wire"] /\ wire' = Append(wire, r)
        /\ UNCHANGED <<reader, current, registered, queue, failed, panicked, writer>>
    BY Zenon, <1>2 DEF ClientSend
  <2>2. \A q \in Request : stage'[q] = IF q = r THEN "wire" ELSE stage[q]
    BY Zenon, <2>1 DEF PlacesAgree
  <2>3. stage' \in [Request -> Stage]
    BY Zenon, <2>1 DEF PlacesAgree, Stage
  <2>4. /\ wire' \in Seq(Request) /\ Len(wire') = Len(wire) + 1 /\ Len(wire) \in Nat
        /\ \A i \in 1..Len(wire) : wire'[i] = wire[i] /\ wire[i] \in Request
        /\ wire'[Len(wire) + 1] = r
        /\ \A i \in 1..Len(wire') : i \in 1..Len(wire) \/ i = Len(wire) + 1
    BY <2>1, AppendTo DEF PlacesAgree
  <2>5. \A i \in 1..Len(queue) : queue[i] \in Request
    BY DEF PlacesAgree
  <2>6. \A i \in 1..Len(wire) : wire[i] # r
    BY Zenon, <2>1 DEF PlacesAgree
  <2>7. PlacesAgree'
    <3>4. stage'[r] = "wire" /\ \A i \in 1..Len(wire) : stage'[wire[i]] = "wire"
      BY Zenon, <2>2, <2>4 DEF PlacesAgree
    <3>5. \A i, j \in 1..Len(wire) : wire[i] = wire[j] => i = j
      BY Zenon DEF PlacesAgree
    <3>1. \A i \in 1..Len(wire') : stage'[wire'[i]] = "wire"
      BY ZenonT(60), <2>4, <3>4
    <3>2. \A i, j \in 1..Len(wire') : wire'[i] = wire'[j] => i = j
      BY ZenonT(60), <2>4, <2>6, <3>5
    <3>3. \A i \in 1..Len(queue) : stage'[queue[i]] = "queued"
      BY Zenon, <2>1, <2>2, <2>5 DEF PlacesAgree
    <3>8. registered' \subseteq Request /\ failed' \subseteq Request /\ panicked' \subseteq Request
      BY Zenon, <2>1, <2>3, <2>4, <3>1, <3>2, <3>3 DEF PlacesAgree
    <3>. QED BY ZenonT(60), <2>1, <2>3, <2>4, <3>1, <3>2, <3>3, <3>8, QueueKept, WireKept DEF PlacesAgree
  <2>8. InHand'
    BY Zenon, <2>1, <2>2, ConnectionAssumption DEF InHand
  <2>9. SlotsFollow'
    BY <2>1, <2>2 DEF SlotsFollow, SlotsAreReleased, PlacesAgree
  <2>. QED BY Zenon, <2>7, <2>8, <2>9
<1>. QED BY Zenon, <1>1, <1>2

\* The reader: a slot is taken before the worker is started, and given back
\* when it cannot be.
LEMMA ReaderKeeps ==
  ASSUME ConnectionInvariant, Reader
  PROVE  ConnectionInvariant'
<1>. USE DEF ConnectionInvariant
<1>a. /\ \A i \in 1..Len(queue) : queue[i] \in Request
      /\ \A i \in 1..Len(wire) : wire[i] \in Request
  BY DEF PlacesAgree
<1>1. CASE Handshake
  BY <1>1 DEF Handshake, PlacesAgree, InHand, SlotsFollow, SlotsAreReleased
<1>2. CASE ReaderTop
  BY <1>2 DEF ReaderTop, PlacesAgree, InHand, SlotsFollow, SlotsAreReleased
<1>3. CASE ReadRequest
  <2>. DEFINE x == Head(wire)
  <2>1. /\ wire' = Tail(wire) /\ wire # <<>> /\ current' = {x} /\ registered' = registered \cup {x}
        /\ stage' = [stage EXCEPT ![x] = "read"] /\ reader' = "admit" /\ reader = "read"
        /\ UNCHANGED <<queue, failed, panicked, writer>>
    BY Zenon, <1>3 DEF ReadRequest
  <2>2. /\ Tail(wire) \in Seq(Request) /\ Len(Tail(wire)) = Len(wire) - 1 /\ Len(wire) \in Nat
        /\ Len(wire) > 0 /\ x \in Request /\ x = wire[1] /\ 1 \in 1..Len(wire)
        /\ \A i \in 1..Len(Tail(wire)) : i + 1 \in 1..Len(wire) /\ Tail(wire)[i] = wire[i + 1]
    BY Zenon, <2>1, TailOf DEF PlacesAgree
  <2>. HIDE DEF x
  <2>3. stage[x] = "wire"
    BY Zenon, <2>2 DEF PlacesAgree
  <2>4. \A q \in Request : stage'[q] = IF q = x THEN "read" ELSE stage[q]
    BY Zenon, <2>1 DEF PlacesAgree
  <2>5. stage' \in [Request -> Stage]
    BY Zenon, <2>1 DEF PlacesAgree, Stage
  <2>6. PlacesAgree'
    <3>1. \A i \in 1..Len(wire') : wire'[i] # x /\ stage'[wire'[i]] = "wire"
      BY <1>a, <2>1, <2>2, <2>4 DEF PlacesAgree
    <3>2. \A i, j \in 1..Len(wire') : wire'[i] = wire'[j] => i = j
      BY <2>1, <2>2 DEF PlacesAgree
    <3>3. \A i \in 1..Len(queue) : stage'[queue[i]] = "queued"
      BY Zenon, <1>a, <2>3, <2>4 DEF PlacesAgree
    <3>4. registered' \subseteq Request /\ failed' \subseteq Request /\ panicked' \subseteq Request
      BY Zenon, <2>1, <2>2 DEF PlacesAgree
    <3>5. wire' \in Seq(Request) /\ \A i \in 1..Len(wire') : stage'[wire'[i]] = "wire"
      BY Zenon, <2>1, <2>2, <3>1
    <3>6. /\ queue' \in Seq(Request)
          /\ \A i \in 1..Len(queue') : stage'[queue'[i]] = "queued"
          /\ \A i, j \in 1..Len(queue') : queue'[i] = queue'[j] => i = j
      BY Zenon, <2>1, <3>3, QueueKept
    <3>. QED BY Zenon, <2>5, <3>2, <3>4, <3>5, <3>6 DEF PlacesAgree
  <2>7. InHand'
    BY Zenon, <2>1, <2>2, <2>4 DEF InHand
  <2>8. SlotsFollow'
    BY <2>1, <2>2, <2>3, <2>4 DEF SlotsFollow, SlotsAreReleased, PlacesAgree
  <2>. QED BY Zenon, <2>6, <2>7, <2>8
<1>4. ASSUME NEW why \in {"nothing", "limit"}, ReadFails(why) PROVE ConnectionInvariant'
  <2>1. /\ reader = "read" /\ reader' = "join"
        /\ UNCHANGED <<current, registered, queue, failed, panicked, writer>>
    BY Zenon, <1>4 DEF ReadFails
  <2>2. CASE UNCHANGED <<wire, stage>>
    BY <2>1, <2>2 DEF PlacesAgree, InHand, SlotsFollow, SlotsAreReleased
  <2>3. CASE /\ wire # <<>> /\ wire' = Tail(wire)
             /\ stage' = [stage EXCEPT ![Head(wire)] = "unread"]
    <3>. DEFINE x == Head(wire)
    <3>2. /\ Tail(wire) \in Seq(Request) /\ Len(Tail(wire)) = Len(wire) - 1 /\ Len(wire) \in Nat
          /\ Len(wire) > 0 /\ x \in Request /\ x = wire[1] /\ 1 \in 1..Len(wire)
          /\ \A i \in 1..Len(Tail(wire)) : i + 1 \in 1..Len(wire) /\ Tail(wire)[i] = wire[i + 1]
      BY Zenon, <2>3, TailOf DEF PlacesAgree
    <3>4. \A q \in Request : stage'[q] = IF q = x THEN "unread" ELSE stage[q]
      BY Zenon, <2>3 DEF PlacesAgree
    <3>5. stage' \in [Request -> Stage]
      BY Zenon, <2>3 DEF PlacesAgree, Stage
    <3>. HIDE DEF x
    <3>3. stage[x] = "wire"
      BY Zenon, <3>2 DEF PlacesAgree
    <3>6. PlacesAgree'
      <4>1. \A i \in 1..Len(wire') : wire'[i] # x /\ stage'[wire'[i]] = "wire"
        BY <1>a, <2>3, <3>2, <3>4 DEF PlacesAgree
      <4>2. \A i, j \in 1..Len(wire') : wire'[i] = wire'[j] => i = j
        BY <2>3, <3>2 DEF PlacesAgree
      <4>3. \A i \in 1..Len(queue) : stage'[queue[i]] = "queued"
        BY Zenon, <1>a, <3>3, <3>4 DEF PlacesAgree
      <4>8. registered' \subseteq Request /\ failed' \subseteq Request /\ panicked' \subseteq Request
        BY Zenon, <2>1, <2>3, <3>2, <3>5, <4>1, <4>2, <4>3 DEF PlacesAgree
      <4>. QED BY ZenonT(60), <2>1, <2>3, <3>2, <3>5, <4>1, <4>2, <4>3, <4>8, QueueKept, WireKept DEF PlacesAgree
    <3>7. InHand'
      BY Zenon, <2>1 DEF InHand
    <3>8. x \notin registered /\ x \notin failed /\ x \notin panicked
      BY Zenon, <3>3 DEF SlotsFollow, SlotsAreReleased
    <3>9. SlotsAreReleased'
      BY <2>1, <3>4, <3>8 DEF SlotsFollow, SlotsAreReleased, PlacesAgree
    <3>10. SlotsFollow'
      BY <2>1, <3>4, <3>8, <3>9 DEF SlotsFollow, PlacesAgree
    <3>. QED BY Zenon, <3>6, <3>7, <3>10
  <2>. QED BY Zenon, <1>4, <2>2, <2>3 DEF ReadFails
<1>5. ASSUME NEW st \in {"unread", "lost"}, DropCurrent(st), reader' = "join",
             UNCHANGED <<queue, failed, panicked, writer, wire>>
      PROVE  ConnectionInvariant'
  <2>1. /\ registered' = registered \ current /\ current' = {}
        /\ \A q \in Request : stage'[q] = IF q \in current THEN st ELSE stage[q]
        /\ stage' \in [Request -> Stage]
    BY Zenon, <1>5 DEF DropCurrent, PlacesAgree, Stage
  <2>2. \A q \in current : q \in registered /\ stage[q] \in {"read", "sending"} /\ q \in Request
    BY ConnectionAssumption DEF InHand
  <2>3. PlacesAgree'
    <3>1. \A i \in 1..Len(wire) : stage'[wire[i]] = "wire"
      BY Zenon, <1>a, <2>1, <2>2 DEF PlacesAgree
    <3>2. \A i \in 1..Len(queue) : stage'[queue[i]] = "queued"
      BY Zenon, <1>a, <2>1, <2>2 DEF PlacesAgree
    <3>8. registered' \subseteq Request /\ failed' \subseteq Request /\ panicked' \subseteq Request
      BY Zenon, <1>5, <2>1, <3>1, <3>2 DEF PlacesAgree
    <3>. QED BY Zenon, <1>5, <2>1, <3>1, <3>2, <3>8, QueueKept, WireKept DEF PlacesAgree
  <2>4. InHand'
    BY Zenon, <1>5, <2>1 DEF InHand
  <2>5. SlotsFollow'
    BY <1>5, <2>1, <2>2 DEF SlotsFollow, SlotsAreReleased, PlacesAgree
  <2>. QED BY Zenon, <2>3, <2>4, <2>5
<1>6. CASE RefuseFenced
  BY Zenon, <1>5, <1>6 DEF RefuseFenced
<1>7. CASE SpawnFails
  BY Zenon, <1>5, <1>7 DEF SpawnFails
<1>8. ASSUME NEW x \in Request, current = {x}, x \in registered,
             NEW st, \/ st = "sending" /\ stage[x] = "read" /\ reader' = "health" /\ current' = {x}
                        /\ x \in Health
                     \/ st = "routing" /\ stage[x] = "read" /\ reader' = "top" /\ current' = {},
             stage' = [r \in Request |-> IF r \in current THEN st ELSE stage[r]],
             UNCHANGED <<registered, queue, failed, panicked, writer, wire>>
      PROVE  ConnectionInvariant'
  <2>1. /\ \A q \in Request : stage'[q] = IF q = x THEN st ELSE stage[q]
        /\ stage' \in [Request -> Stage]
    BY Zenon, <1>8 DEF PlacesAgree, Stage
  <2>2. PlacesAgree'
    <3>1. \A i \in 1..Len(wire) : stage'[wire[i]] = "wire"
      BY Zenon, <1>a, <1>8, <2>1 DEF PlacesAgree
    <3>2. \A i \in 1..Len(queue) : stage'[queue[i]] = "queued"
      BY Zenon, <1>a, <1>8, <2>1 DEF PlacesAgree
    <3>8. registered' \subseteq Request /\ failed' \subseteq Request /\ panicked' \subseteq Request
      BY Zenon, <1>8, <2>1, <3>1, <3>2 DEF PlacesAgree
    <3>. QED BY Zenon, <1>8, <2>1, <3>1, <3>2, <3>8, QueueKept, WireKept DEF PlacesAgree
  <2>3. InHand'
    BY Zenon, <1>8, <2>1 DEF InHand
  <2>4. SlotsFollow'
    BY <1>8, <2>1 DEF SlotsFollow, SlotsAreReleased, PlacesAgree
  <2>. QED BY Zenon, <2>2, <2>3, <2>4
<1>9. CASE Admit
  <2>1. PICK x \in Request : current = {x} /\ stage[x] = "read" /\ x \in registered
    BY Zenon, <1>9 DEF Admit, InHand
  <2>2. CASE current \subseteq Health
    BY Zenon, <1>8, <1>9, <2>1, <2>2 DEF Admit
  <2>3. CASE ~(current \subseteq Health)
    BY Zenon, <1>8, <1>9, <2>1, <2>3 DEF Admit
  <2>. QED BY Zenon, <2>2, <2>3
<1>10. CASE SendHealth
  <2>1. PICK x \in Health : current = {x} /\ stage[x] = "sending" /\ x \in registered
    BY Zenon, <1>10 DEF SendHealth, InHand
  <2>2. CASE writer = "done"
    BY Zenon, <1>5, <1>10, <2>2 DEF SendHealth
  <2>3. CASE writer # "done"
    <3>1. x \in Request /\ (CHOOSE r \in current : TRUE) = x
      BY Zenon, <2>1, ConnectionAssumption
    <3>2. /\ queue' = queue \o <<x>> /\ current' = {} /\ reader' = "top"
          /\ stage' = [r \in Request |-> IF r \in current THEN "queued" ELSE stage[r]]
          /\ UNCHANGED <<registered, failed, panicked, writer, wire>>
      BY Zenon, <1>10, <2>3, <3>1 DEF SendHealth
    <3>3. queue \o <<x>> = Append(queue, x)
      BY <3>1 DEF PlacesAgree
    <3>4. /\ \A q \in Request : stage'[q] = IF q = x THEN "queued" ELSE stage[q]
          /\ stage' \in [Request -> Stage]
      BY Zenon, <2>1, <3>1, <3>2 DEF PlacesAgree, Stage
    <3>5. /\ queue' \in Seq(Request) /\ Len(queue') = Len(queue) + 1 /\ Len(queue) \in Nat
          /\ \A i \in 1..Len(queue) : queue'[i] = queue[i]
          /\ queue'[Len(queue) + 1] = x
          /\ \A i \in 1..Len(queue') : i \in 1..Len(queue) \/ i = Len(queue) + 1
      BY <3>1, <3>2, <3>3, AppendTo DEF PlacesAgree
    <3>6. \A i \in 1..Len(queue) : queue[i] # x
      BY Zenon, <2>1 DEF PlacesAgree
    <3>7. PlacesAgree'
      <4>4. stage'[x] = "queued" /\ \A i \in 1..Len(queue) : stage'[queue[i]] = "queued"
        BY Zenon, <1>a, <2>1, <3>1, <3>4 DEF PlacesAgree
      <4>5. \A i, j \in 1..Len(queue) : queue[i] = queue[j] => i = j
        BY Zenon DEF PlacesAgree
      <4>1. \A i \in 1..Len(queue') : stage'[queue'[i]] = "queued"
        BY ZenonT(60), <3>5, <4>4
      <4>2. \A i, j \in 1..Len(queue') : queue'[i] = queue'[j] => i = j
        BY ZenonT(60), <3>5, <3>6, <4>5
      <4>3. \A i \in 1..Len(wire) : stage'[wire[i]] = "wire"
        BY <1>a, <2>1, <3>4 DEF PlacesAgree
      <4>8. registered' \subseteq Request /\ failed' \subseteq Request /\ panicked' \subseteq Request
        BY Zenon, <3>2, <3>4, <3>5, <4>1, <4>2, <4>3 DEF PlacesAgree
      <4>. QED BY ZenonT(60), <3>2, <3>4, <3>5, <4>1, <4>2, <4>3, <4>8, QueueKept, WireKept DEF PlacesAgree
    <3>8. InHand'
      BY Zenon, <1>10, <3>2 DEF InHand, SendHealth
    <3>9. SlotsFollow'
      BY <2>1, <3>2, <3>4 DEF SlotsFollow, SlotsAreReleased, PlacesAgree
    <3>. QED BY Zenon, <3>7, <3>8, <3>9
  <2>. QED BY Zenon, <2>2, <2>3
<1>11. CASE JoinWorkers \/ JoinWriter
  BY <1>11 DEF JoinWorkers, JoinWriter, PlacesAgree, InHand, SlotsFollow, SlotsAreReleased
<1>. QED BY ZenonT(60), <1>1, <1>2, <1>3, <1>4, <1>6, <1>7, <1>9, <1>10, <1>11 DEF Reader

\* The workers: an answer is queued with the slot it will give back.
LEMMA WorkersKeep ==
  ASSUME ConnectionInvariant, NEW r \in Request, Worker(r)
  PROVE  ConnectionInvariant'
<1>. USE DEF ConnectionInvariant
<1>a. /\ \A i \in 1..Len(queue) : queue[i] \in Request
      /\ \A i \in 1..Len(wire) : wire[i] \in Request
  BY DEF PlacesAgree
<1>1. ASSUME NEW st \in {"sending", "lost"}, stage[r] \in {"routing", "sending"},
             stage' = [stage EXCEPT ![r] = st], r \notin current,
             registered' \in {registered, registered \ {r}},
             failed' \in {failed, failed \cup {r}}, panicked' \in {panicked, panicked \cup {r}},
             st = "lost" => registered' = registered \ {r} /\ failed' = failed,
             st = "sending" => panicked' = panicked /\ stage[r] = "routing"
                               /\ \/ registered' = registered /\ failed' = failed
                                  \/ registered' = registered \ {r} /\ failed' = failed \cup {r},
             UNCHANGED <<reader, current, queue, writer, wire>>
      PROVE  ConnectionInvariant'
  <2>1. /\ \A q \in Request : stage'[q] = IF q = r THEN st ELSE stage[q]
        /\ stage' \in [Request -> Stage]
    BY Zenon, <1>1 DEF PlacesAgree, Stage
  <2>2. PlacesAgree'
    <3>1. \A i \in 1..Len(wire) : stage'[wire[i]] = "wire"
      BY Zenon, <1>a, <1>1, <2>1 DEF PlacesAgree
    <3>2. \A i \in 1..Len(queue) : stage'[queue[i]] = "queued"
      BY Zenon, <1>a, <1>1, <2>1 DEF PlacesAgree
    <3>8. registered' \subseteq Request /\ failed' \subseteq Request /\ panicked' \subseteq Request
      BY ZenonT(60), <1>1, <2>1, <3>1, <3>2 DEF PlacesAgree
    <3>. QED BY Zenon, <1>1, <2>1, <3>1, <3>2, <3>8, QueueKept, WireKept DEF PlacesAgree
  <2>3. InHand'
    BY Zenon, <1>1, <2>1, ConnectionAssumption DEF InHand
  <2>4. SlotsFollow'
    <3>1. \A q \in registered' : q \in registered /\ (q # r \/ st = "sending")
      BY Zenon, <1>1
    <3>2. SlotsAreReleased'
      BY ZenonT(60), <1>1, <2>1, <3>1 DEF SlotsFollow, SlotsAreReleased, PlacesAgree
    <3>3. \A q \in failed' : stage'[q] \in {"sending", "queued", "lost"}
      <4>1. st \in {"sending", "lost"} /\ \A q \in failed' : q \in failed \/ q = r
        BY Zenon, <1>1
      <4>2. \A q \in failed : q \in Request /\ stage[q] \in {"sending", "queued", "lost"}
        BY Zenon DEF SlotsFollow, PlacesAgree
      <4>. QED BY Zenon, <2>1, <4>1, <4>2
    <3>4. \A q \in panicked' : stage'[q] = "lost"
      <4>1. \A q \in panicked' : q \in panicked \/ (q = r /\ st = "lost")
        BY Zenon, <1>1
      <4>2. \A q \in panicked : q \in Request /\ stage[q] = "lost" /\ q # r
        BY Zenon, <1>1 DEF SlotsFollow, PlacesAgree
      <4>. QED BY Zenon, <2>1, <4>1, <4>2
    <3>5. \A q \in Request : stage'[q] \in {"read", "routing"} => q \in registered'
      BY Zenon, <1>1, <2>1 DEF SlotsFollow
    <3>6. \A q \in Request : stage'[q] \in {"sending", "queued"} => q \in registered' \cup failed'
      BY Zenon, <1>1, <2>1 DEF SlotsFollow
    <3>. QED BY Zenon, <3>2, <3>3, <3>4, <3>5, <3>6 DEF SlotsFollow
  <2>. QED BY Zenon, <2>2, <2>3, <2>4
<1>2. CASE RouteWorker(r)
  <2>1. r \notin current
    BY Zenon, <1>2 DEF RouteWorker, InHand
  <2>. QED BY Zenon, <1>1, <1>2, <2>1 DEF RouteWorker
<1>3. CASE WorkerSend(r)
  <2>1. r \notin current
    BY Zenon, <1>3 DEF WorkerSend, InHand
  <2>2. CASE writer = "done"
    BY Zenon, <1>1, <1>3, <2>1, <2>2 DEF WorkerSend
  <2>3. CASE writer # "done"
    <3>2. /\ queue' = Append(queue, r) /\ stage[r] = "sending"
          /\ stage' = [stage EXCEPT ![r] = "queued"]
          /\ UNCHANGED <<reader, current, registered, failed, panicked, writer, wire>>
      BY Zenon, <1>3, <2>3 DEF WorkerSend
    <3>4. /\ \A q \in Request : stage'[q] = IF q = r THEN "queued" ELSE stage[q]
          /\ stage' \in [Request -> Stage]
      BY Zenon, <3>2 DEF PlacesAgree, Stage
    <3>5. /\ queue' \in Seq(Request) /\ Len(queue') = Len(queue) + 1 /\ Len(queue) \in Nat
          /\ \A i \in 1..Len(queue) : queue'[i] = queue[i]
          /\ queue'[Len(queue) + 1] = r
          /\ \A i \in 1..Len(queue') : i \in 1..Len(queue) \/ i = Len(queue) + 1
      BY ZenonT(60), <3>2, AppendTo DEF PlacesAgree
    <3>6. \A i \in 1..Len(queue) : queue[i] # r
      BY Zenon, <3>2 DEF PlacesAgree
    <3>7. PlacesAgree'
      <4>4. stage'[r] = "queued" /\ \A i \in 1..Len(queue) : stage'[queue[i]] = "queued"
        BY Zenon, <1>a, <3>4 DEF PlacesAgree
      <4>5. \A i, j \in 1..Len(queue) : queue[i] = queue[j] => i = j
        BY Zenon DEF PlacesAgree
      <4>1. \A i \in 1..Len(queue') : stage'[queue'[i]] = "queued"
        BY ZenonT(60), <3>5, <4>4
      <4>2. \A i, j \in 1..Len(queue') : queue'[i] = queue'[j] => i = j
        BY ZenonT(60), <3>5, <3>6, <4>5
      <4>3. \A i \in 1..Len(wire) : stage'[wire[i]] = "wire"
        BY Zenon, <1>a, <3>2, <3>4 DEF PlacesAgree
      <4>8. registered' \subseteq Request /\ failed' \subseteq Request /\ panicked' \subseteq Request
        BY Zenon, <3>2, <3>4, <3>5, <4>1, <4>2, <4>3 DEF PlacesAgree
      <4>. QED BY ZenonT(60), <3>2, <3>4, <3>5, <4>1, <4>2, <4>3, <4>8, QueueKept, WireKept DEF PlacesAgree
    <3>8. InHand'
      BY Zenon, <2>1, <3>2, <3>4, ConnectionAssumption DEF InHand
    <3>9. SlotsFollow'
      BY <3>2, <3>4 DEF SlotsFollow, SlotsAreReleased, PlacesAgree
    <3>. QED BY Zenon, <3>7, <3>8, <3>9
  <2>. QED BY Zenon, <2>2, <2>3
<1>. QED BY Zenon, <1>2, <1>3 DEF Worker

\* The writer thread: the slot goes before the answer is written.
LEMMA WriterKeeps ==
  ASSUME ConnectionInvariant, WriterThread
  PROVE  ConnectionInvariant'
<1>. USE DEF ConnectionInvariant
<1>a. /\ \A i \in 1..Len(queue) : queue[i] \in Request
      /\ \A i \in 1..Len(wire) : wire[i] \in Request
  BY DEF PlacesAgree
<1>1. ASSUME NEW dropped, WriterStops(dropped), writer # "absent",
             \A q \in dropped : q \in Request /\ stage[q] \in {"writing", "answered"},
             writer = "wrote" => \A q \in registered : stage[q] = "answered" => q \in dropped,
             UNCHANGED <<reader, current, failed, panicked, wire>>
      PROVE  ConnectionInvariant'
  <2>. DEFINE gone == dropped \cup Elements(queue)
  <2>1. /\ writer' = "done" /\ queue' = <<>> /\ registered' = registered \ gone
        /\ stage' = [q \in Request |-> IF q \in gone
                        THEN IF stage[q] = "answered" THEN "answered" ELSE "lost" ELSE stage[q]]
    BY ZenonT(60), <1>1 DEF WriterStops
  <2>2. \A q \in gone : q \in Request /\ stage[q] \in {"writing", "answered", "queued"}
    BY <1>a, <1>1 DEF Elements, PlacesAgree
  <2>3. \A i \in 1..Len(queue) : queue[i] \in gone
    BY Zenon DEF Elements
  <2>4. \A q \in Request : stage[q] = "answered" /\ writer = "wrote" /\ q \in registered => q \in gone
    BY Zenon, <1>1
  <2>. HIDE DEF gone
  <2>5. /\ \A q \in Request : stage'[q] = IF q \in gone
               THEN IF stage[q] = "answered" THEN "answered" ELSE "lost" ELSE stage[q]
        /\ stage' \in [Request -> Stage]
    BY Zenon, <2>1 DEF PlacesAgree, Stage
  <2>6. PlacesAgree'
    <3>1. \A i \in 1..Len(wire) : stage'[wire[i]] = "wire"
      BY Zenon, <1>a, <2>2, <2>5 DEF PlacesAgree
    <3>2. queue' \in Seq(Request) /\ Len(queue') = 0
      BY <2>1
    <3>3. 1..Len(queue') = {}
      BY <3>2
    <3>4. /\ \A i \in 1..Len(queue') : stage'[queue'[i]] = "queued"
          /\ \A i, j \in 1..Len(queue') : queue'[i] = queue'[j] => i = j
      BY Zenon, <3>3
    <3>8. registered' \subseteq Request /\ failed' \subseteq Request /\ panicked' \subseteq Request
      BY Zenon, <1>1, <2>1, <2>5, <3>1, <3>2 DEF PlacesAgree
    <3>. QED BY ZenonT(60), <1>1, <2>1, <2>5, <3>1, <3>2, <3>4, <3>8, QueueKept, WireKept DEF PlacesAgree
  <2>7. InHand'
    BY ZenonT(60), <1>1, <2>1, <2>2, <2>5, ConnectionAssumption DEF InHand
  <2>8. SlotsFollow'
    BY ZenonT(60), <1>1, <2>1, <2>2, <2>4, <2>5 DEF SlotsFollow, SlotsAreReleased, PlacesAgree
  <2>. QED BY Zenon, <2>6, <2>7, <2>8
<1>2. CASE WriterPoll
  <2>1. CASE control
    BY Zenon, <1>1, <1>2, <2>1 DEF WriterPoll, WriterFails
  <2>2. CASE ~control
    <3>1. /\ UNCHANGED <<queue, stage, registered, reader, current, failed, panicked, wire>>
          /\ writer = "poll" /\ writer' = "recv"
      BY Zenon, <1>2, <2>2 DEF WriterPoll
    <3>2. PlacesAgree'
      BY Zenon, <3>1 DEF PlacesAgree
    <3>3. InHand'
      BY Zenon, <3>1 DEF InHand
    <3>4. SlotsFollow'
      BY Zenon, <3>1 DEF SlotsFollow, SlotsAreReleased
    <3>. QED BY Zenon, <3>2, <3>3, <3>4
  <2>. QED BY Zenon, <2>1, <2>2
<1>3. CASE WriterReceive
  <2>1. CASE WriterStops({})
    BY Zenon, <1>1, <1>3, <2>1 DEF WriterReceive
  <2>2. CASE writer' = "poll" /\ UNCHANGED <<queue, stage, registered>>
    <3>1. UNCHANGED <<reader, current, failed, panicked, wire>> /\ writer = "recv"
      BY Zenon, <1>3 DEF WriterReceive
    <3>2. PlacesAgree'
      BY ZenonT(60), <2>2, <3>1 DEF PlacesAgree
    <3>3. InHand'
      BY Zenon, <2>2, <3>1 DEF InHand
    <3>4. SlotsFollow'
      BY Zenon, <2>2, <3>1 DEF SlotsFollow, SlotsAreReleased
    <3>. QED BY Zenon, <3>2, <3>3, <3>4
  <2>3. CASE /\ queue # <<>> /\ Head(queue) \notin failed
             /\ writer' = "write" /\ queue' = Tail(queue)
             /\ stage' = [stage EXCEPT ![Head(queue)] = "writing"] /\ UNCHANGED registered
    <3>. DEFINE x == Head(queue)
    <3>1. writer = "recv" /\ UNCHANGED <<reader, current, failed, panicked, wire>>
      BY Zenon, <1>3 DEF WriterReceive
    <3>2. /\ Tail(queue) \in Seq(Request) /\ Len(Tail(queue)) = Len(queue) - 1 /\ Len(queue) \in Nat
          /\ Len(queue) > 0 /\ x \in Request /\ x = queue[1] /\ 1 \in 1..Len(queue)
          /\ \A i \in 1..Len(Tail(queue)) : i + 1 \in 1..Len(queue) /\ Tail(queue)[i] = queue[i + 1]
      BY Zenon, <2>3, TailOf DEF PlacesAgree
    <3>4. \A q \in Request : stage'[q] = IF q = x THEN "writing" ELSE stage[q]
      BY Zenon, <2>3 DEF PlacesAgree
    <3>5. stage' \in [Request -> Stage] /\ x \notin failed
      BY Zenon, <2>3 DEF PlacesAgree, Stage
    <3>. HIDE DEF x
    <3>3. stage[x] = "queued"
      BY Zenon, <3>2 DEF PlacesAgree
    <3>6. PlacesAgree'
      <4>1. \A i \in 1..Len(queue') : queue'[i] # x /\ stage'[queue'[i]] = "queued"
        BY <1>a, <2>3, <3>2, <3>4 DEF PlacesAgree
      <4>2. \A i, j \in 1..Len(queue') : queue'[i] = queue'[j] => i = j
        BY <2>3, <3>2 DEF PlacesAgree
      <4>3. \A i \in 1..Len(wire) : stage'[wire[i]] = "wire"
        BY <1>a, <3>3, <3>4 DEF PlacesAgree
      <4>8. registered' \subseteq Request /\ failed' \subseteq Request /\ panicked' \subseteq Request
        BY Zenon, <2>3, <3>1, <3>2, <3>5, <4>1, <4>2, <4>3 DEF PlacesAgree
      <4>. QED BY ZenonT(60), <2>3, <3>1, <3>2, <3>5, <4>1, <4>2, <4>3, <4>8, QueueKept, WireKept DEF PlacesAgree
    <3>7. InHand'
      BY ZenonT(60), <2>3, <3>1, <3>3, <3>4, ConnectionAssumption DEF InHand
    <3>8. SlotsFollow'
      BY <2>3, <3>1, <3>2, <3>3, <3>4, <3>5 DEF SlotsFollow, SlotsAreReleased, PlacesAgree
    <3>. QED BY Zenon, <3>6, <3>7, <3>8
  <2>. QED BY Zenon, <1>3, <2>1, <2>2, <2>3 DEF WriterReceive, WriterFails
<1>4. CASE Deliver
  <2>1. /\ writer = "write" /\ writer' = "wrote"
        /\ UNCHANGED <<reader, current, registered, queue, failed, panicked, wire>>
    BY Zenon, <1>4 DEF Deliver
  <2>2. /\ \A q \in Request : stage'[q] = IF stage[q] = "writing" THEN "answered" ELSE stage[q]
        /\ stage' \in [Request -> Stage]
    BY Zenon, <1>4 DEF Deliver, PlacesAgree, Stage
  <2>3. PlacesAgree'
    BY <1>a, <2>1, <2>2 DEF PlacesAgree
  <2>4. InHand'
    BY ZenonT(60), <2>1, <2>2, ConnectionAssumption DEF InHand
  <2>5. SlotsFollow'
    BY <2>1, <2>2 DEF SlotsFollow, SlotsAreReleased, PlacesAgree
  <2>. QED BY Zenon, <2>3, <2>4, <2>5
<1>5. CASE WriteReturns
  <2>1. /\ writer = "wrote" /\ writer' = "poll"
        /\ registered' = {r \in registered : stage[r] # "answered"}
        /\ UNCHANGED <<stage, reader, current, queue, failed, panicked, wire>>
    BY Zenon, <1>5 DEF WriteReturns
  <2>2. \A r : r \in registered' <=> r \in registered /\ stage[r] # "answered"
    BY Zenon, <2>1
  <2>3. PlacesAgree'
    <3>1. registered' \subseteq Request
      BY Zenon, <2>2 DEF PlacesAgree
    <3>. QED BY Zenon, <2>1, <3>1 DEF PlacesAgree
  <2>4. InHand'
    BY Zenon, <2>1, <2>2 DEF InHand
  <2>5. SlotsFollow'
    BY Zenon, <2>1, <2>2 DEF SlotsFollow, SlotsAreReleased
  <2>. QED BY Zenon, <2>3, <2>4, <2>5
<1>6. CASE WriteFails
  <2>1. \A q \in Writing \cup {r \in registered : stage[r] = "answered"} :
          q \in Request /\ stage[q] \in {"writing", "answered"}
    BY Zenon DEF Writing, PlacesAgree
  <2>. QED BY Zenon, <1>1, <1>6, <2>1 DEF WriteFails, WriterFails
<1>. QED BY Zenon, <1>2, <1>3, <1>4, <1>5, <1>6 DEF WriterThread

\* At every moment a request has one place, the reader one request at most,
\* and a slot one request that still wants it (daemon_runtime.rs).
THEOREM SlotsFollowRequests == ConnectionSpec => []ConnectionInvariant
<1>1. ConnectionInit => ConnectionInvariant
  BY DEF ConnectionInit, ConnectionInvariant, PlacesAgree, InHand, SlotsFollow, SlotsAreReleased,
         Stage
<1>2. ConnectionInvariant /\ [ConnectionNext]_connectionVars => ConnectionInvariant'
  <2>1. SUFFICES ASSUME ConnectionInvariant, [ConnectionNext]_connectionVars
                 PROVE  ConnectionInvariant'
    BY Zenon
  <2>2. CASE UNCHANGED connectionVars
    <3>1. UNCHANGED <<reader, current, registered, queue, failed, panicked, writer, stage, wire>>
      BY Zenon, <2>2 DEF connectionVars
    <3>2. PlacesAgree'
      BY ZenonT(60), <2>1, <3>1 DEF ConnectionInvariant, PlacesAgree
    <3>3. InHand'
      BY Zenon, <2>1, <3>1 DEF ConnectionInvariant, InHand
    <3>4. SlotsFollow'
      BY Zenon, <2>1, <3>1 DEF ConnectionInvariant, SlotsFollow, SlotsAreReleased
    <3>. QED BY Zenon, <3>2, <3>3, <3>4 DEF ConnectionInvariant
  <2>. QED BY Zenon, <2>1, <2>2, ClientKeeps, ReaderKeeps, WorkersKeep, WriterKeeps DEF ConnectionNext
<1>. QED BY <1>1, <1>2, PTL DEF ConnectionSpec

\* Success, failure, panic and a dropped channel all give the slot back.
THEOREM EverySlotIsReleased == ConnectionSpec => []SlotsAreReleased
<1>1. ConnectionInvariant => SlotsAreReleased
  BY Zenon DEF ConnectionInvariant, SlotsFollow
<1>. QED BY <1>1, SlotsFollowRequests, PTL

\* Only ReadRequest takes a slot, and only a free one.
LEMMA SlotsStayBounded ==
  ASSUME ConnectionInvariant, SlotsAreBounded, [ConnectionNext]_connectionVars
  PROVE  SlotsAreBounded'
<1>1. registered \subseteq Request /\ MaxInFlight \in Nat
  BY Zenon, ConnectionAssumption DEF ConnectionInvariant, PlacesAgree
<1>2. CASE registered' \subseteq registered
  <2>1. /\ Cardinality(registered') <= Cardinality(registered)
        /\ Cardinality(registered') \in Nat /\ Cardinality(registered) \in Nat
    BY Zenon, <1>1, <1>2, FewerSlots
  <2>. QED BY <1>1, <2>1 DEF SlotsAreBounded
<1>3. CASE ReadRequest
  <2>1. Head(wire) \in Request /\ registered' = registered \cup {Head(wire)}
        /\ Cardinality(registered) < MaxInFlight
    BY Zenon, <1>3, TailOf DEF ReadRequest, SlotFree, ConnectionInvariant, PlacesAgree
  <2>2. Cardinality(registered') <= Cardinality(registered) + 1
    BY Zenon, <1>1, <2>1, OneMoreSlot
  <2>3. Cardinality(registered) \in Nat
    BY Zenon, <1>1, FewerSlots
  <2>4. registered' \subseteq Request
    BY Zenon, <1>1, <2>1
  <2>5. Cardinality(registered') \in Nat
    BY Zenon, <2>4, FewerSlots
  <2>. QED BY <1>1, <2>1, <2>2, <2>3, <2>5 DEF SlotsAreBounded
<1>4. ASSUME Reader, ~ReadRequest PROVE registered' \subseteq registered
  BY Zenon, <1>4 DEF Reader, Handshake, ReaderTop, ReadFails, RefuseFenced, Admit, SpawnFails, SendHealth,
     JoinWorkers, JoinWriter, DropCurrent
<1>5. ASSUME NEW r \in Request, Worker(r) PROVE registered' \subseteq registered
  BY Zenon, <1>5 DEF Worker, RouteWorker, WorkerSend
<1>6. ASSUME WriterThread PROVE registered' \subseteq registered
  BY Zenon, <1>6 DEF WriterThread, WriterPoll, WriterReceive, Deliver, WriteReturns, WriteFails,
     WriterFails, WriterStops
<1>7. ASSUME (\E r \in Request : ClientSend(r)) \/ ClientHangUp \/ RequestShutdown
             \/ UNCHANGED connectionVars
      PROVE  registered' \subseteq registered
  BY Zenon, <1>7 DEF ClientSend, ClientHangUp, RequestShutdown, connectionVars
<1>. QED BY Zenon, <1>2, <1>3, <1>4, <1>5, <1>6, <1>7 DEF ConnectionNext

\* A full channel without a failed answer, and a slot more for the request in
\* hand, would be more slots than there are.
LEMMA FullChannelHasFailed ==
  ConnectionInvariant /\ SlotsAreBounded => FenceIsNotHeldByAFullChannel
<1>1. SUFFICES ASSUME ConnectionInvariant, SlotsAreBounded, reader = "health",
                      Len(queue) = MaxInFlight, \A r \in Elements(queue) : r \notin failed
               PROVE  FALSE
  BY Zenon DEF FenceIsNotHeldByAFullChannel
<1>. DEFINE E == Elements(queue)
<1>2. PICK x \in Health : stage[x] = "sending" /\ x \in registered
  BY ZenonT(60), <1>1 DEF ConnectionInvariant, InHand
<1>3. /\ E \subseteq registered /\ x \notin E /\ registered \subseteq Request /\ E \cup {x} \subseteq registered
      /\ queue \in Seq(Request) /\ E \subseteq Request
  BY <1>1, <1>2 DEF ConnectionInvariant, PlacesAgree, SlotsFollow, Elements
<1>4. Len(queue) \in Nat /\ DOMAIN queue = 1..Len(queue)
  BY <1>3
<1>5. queue \in Bijection(1..Len(queue), E)
  <2>1. queue \in [1..Len(queue) -> E]
    BY <1>3 DEF Elements
  <2>2. queue \in Injection(1..Len(queue), E)
    BY Zenon, <1>1, <2>1 DEF ConnectionInvariant, PlacesAgree, Injection, IsInjective
  <2>3. queue \in Surjection(1..Len(queue), E)
    BY Zenon, <2>1 DEF Surjection, Elements
  <2>. QED BY Zenon, <2>2, <2>3 DEF Bijection
<1>6. IsFiniteSet(1..Len(queue)) /\ Cardinality(1..Len(queue)) = Len(queue)
  <2>1. \A b \in Int : IsFiniteSet(1..b) /\ Cardinality(1..b) = IF 1 > b THEN 0 ELSE b - 1 + 1
    BY FS_Interval
  <2>2. Len(queue) \in Int
    BY <1>4
  <2>3. /\ IsFiniteSet(1..Len(queue))
        /\ Cardinality(1..Len(queue)) = IF 1 > Len(queue) THEN 0 ELSE Len(queue) - 1 + 1
    BY Zenon, <2>1, <2>2
  <2>. QED BY <1>4, <2>3
<1>7. IsFiniteSet(E) /\ Cardinality(E) = Len(queue)
  <2>1. ExistsBijection(1..Len(queue), E)
    BY Zenon, <1>5 DEF ExistsBijection
  <2>. QED BY Zenon, <1>6, <2>1, FS_Bijection
<1>. HIDE DEF E
<1>8. Cardinality(E \cup {x}) = Cardinality(E) + 1
  BY Zenon, <1>3, <1>7, FS_AddElement
<1>9. Cardinality(E \cup {x}) <= Cardinality(registered) /\ Cardinality(registered) \in Nat
  BY Zenon, <1>3, FewerSlots
<1>. QED BY <1>1, <1>4, <1>7, <1>8, <1>9, ConnectionAssumption DEF SlotsAreBounded

\* The health answer waits for room, and so holds the shutdown fence, only on
\* a connection that has a failed answer queued.
THEOREM FenceIsFree == ConnectionSpec => []FenceIsNotHeldByAFullChannel
<1>1. ConnectionInit => SlotsAreBounded
  <2>1. Cardinality({}) = 0
    BY Zenon, FS_EmptySet
  <2>. QED BY <2>1, ConnectionAssumption DEF ConnectionInit, SlotsAreBounded
<1>. QED
  BY <1>1, SlotsFollowRequests, SlotsStayBounded, FullChannelHasFailed, PTL DEF ConnectionSpec

-----------------------------------------------------------------------------
(* Listener: the instances of the pipe.                                    *)

\* The loop owns the current instance, and its successor while it accepts.  A
\* client is on at most one listening instance, and then has no worker yet.
InstancesFollowLoop ==
  /\ instances \in Seq(Client \cup {Free})
  /\ connWorker \in [Client -> {"none", "hello", "auth", "serve", "ended", "joined"}]
  /\ peer \in [Client -> {"new", "connected", "hello", "auth", "ready", "closed"}]
  /\ accepting \in {"top", "accept", "wait", "connected", "finish", "done"}
  /\ accepting = "top" => Len(instances) = 1
  /\ accepting \in {"accept", "wait", "connected"} => Len(instances) = 2
  /\ accepting = "connected" => Head(instances) # Free
  /\ \A i \in 1..Len(instances) : instances[i] # Free =>
       /\ connWorker[instances[i]] = "none" /\ peer[instances[i]] # "new"
       /\ \A j \in 1..Len(instances) : instances[j] = instances[i] => j = i
  /\ \A c \in Client : peer[c] = "new" => connWorker[c] = "none"
  /\ accepting \in {"finish", "done"} => stopping

\* What is on an instance is a client without a worker.
LEMMA ClientOnInstance ==
  ASSUME InstancesFollowLoop, NEW i \in 1..Len(instances), instances[i] # Free
  PROVE  /\ instances[i] \in Client
         /\ connWorker[instances[i]] = "none" /\ peer[instances[i]] # "new"
<1>1. instances[i] \in Client \cup {Free}
  BY SMTT(60) DEF InstancesFollowLoop
<1>2. QED
  BY Zenon, <1>1 DEF InstancesFollowLoop

\* Giving up drops every instance.
LEMMA Abandoned ==
  ASSUME InstancesFollowLoop, DropAll, GiveUp, peer' = peer,
         \/ connWorker' = connWorker
         \/ Reap
  PROVE  InstancesFollowLoop'
BY DEF InstancesFollowLoop, DropAll, GiveUp, Reap

\* The successor takes the place of a closed instance.
LEMMA Succeeded ==
  ASSUME InstancesFollowLoop, accepting \in {"wait", "connected"}, NextInstance,
         UNCHANGED <<peer, connWorker>>
  PROVE  InstancesFollowLoop'
BY DEF InstancesFollowLoop, NextInstance

\* As long as the instances stay and nobody on one gets a worker, the place of
\* the loop is all that matters.
LEMMA SameInstances ==
  ASSUME InstancesFollowLoop, UNCHANGED <<instances, peer>>,
         connWorker' \in [Client -> {"none", "hello", "auth", "serve", "ended", "joined"}],
         \A c \in Client : connWorker[c] = "none" => connWorker'[c] = "none",
         accepting' \in {"top", "accept", "wait", "connected", "finish", "done"},
         accepting' = "top" => Len(instances) = 1,
         accepting' \in {"accept", "wait", "connected"} => Len(instances) = 2,
         accepting' = "connected" => Head(instances) # Free,
         accepting' \in {"finish", "done"} => stopping'
  PROVE  InstancesFollowLoop'
<1>1. instances' = instances /\ peer' = peer
  BY Zenon
<1>2. \A i \in 1..Len(instances) : instances[i] # Free => connWorker'[instances[i]] = "none"
  BY Zenon, ClientOnInstance
<1>3. \A i \in 1..Len(instances') : instances'[i] # Free =>
        /\ connWorker'[instances'[i]] = "none" /\ peer'[instances'[i]] # "new"
        /\ \A j \in 1..Len(instances') : instances'[j] = instances'[i] => j = i
  <2>1. \A i \in 1..Len(instances) : instances[i] # Free =>
          /\ peer[instances[i]] # "new"
          /\ \A j \in 1..Len(instances) : instances[j] = instances[i] => j = i
    BY Zenon DEF InstancesFollowLoop
  <2>. QED BY <1>1, <1>2, <2>1
<1>4. \A c \in Client : peer'[c] = "new" => connWorker'[c] = "none"
  BY Zenon, <1>1 DEF InstancesFollowLoop
<1>5. instances' \in Seq(Client \cup {Free})
      /\ peer' \in [Client -> {"new", "connected", "hello", "auth", "ready", "closed"}]
  BY Zenon, <1>1 DEF InstancesFollowLoop
<1>. QED BY Zenon, <1>1, <1>3, <1>4, <1>5 DEF InstancesFollowLoop

LEMMA Reaped ==
  ASSUME InstancesFollowLoop, Reap
  PROVE  /\ connWorker' \in [Client -> {"none", "hello", "auth", "serve", "ended", "joined"}]
         /\ \A c \in Client : connWorker[c] = "none" => connWorker'[c] = "none"
BY Zenon DEF InstancesFollowLoop, Reap

\* Every step of the loop, of a client and of a worker keeps that
\* (serve_listener, SecurePipeClient::connect).
THEOREM LoopOwnsInstances == ListenerSpec => []InstancesFollowLoop
<1>1. ListenerInit => InstancesFollowLoop
  BY DEF ListenerInit, InstancesFollowLoop
<1>2. InstancesFollowLoop /\ [ListenerNext]_listenerVars => InstancesFollowLoop'
  <2> SUFFICES ASSUME InstancesFollowLoop, [ListenerNext]_listenerVars
               PROVE  InstancesFollowLoop'
    BY Zenon
  <2> USE DEF InstancesFollowLoop
  <2>1. ASSUME NEW c \in Client, OpenPipe(c)
        PROVE  InstancesFollowLoop'
    BY SMTT(60), <2>1 DEF OpenPipe
  <2>2. ASSUME NEW c \in Client,
               \/ OpenTimesOut(c) \/ SendHello(c) \/ AnswerChallenge(c)
               \/ ReceiveReady(c) \/ ClientLeaves(c)
        PROVE  InstancesFollowLoop'
    <3>1. \E p \in {"hello", "auth", "ready", "closed"} : peer' = [peer EXCEPT ![c] = p]
      BY Zenon, <2>2 DEF OpenTimesOut, SendHello, AnswerChallenge, ReceiveReady, ClientLeaves
    <3>2. UNCHANGED <<instances, accepting, stopping, connWorker>>
      BY Zenon, <2>2 DEF OpenTimesOut, SendHello, AnswerChallenge, ReceiveReady, ClientLeaves,
                  acceptVars
    <3>3. QED
      BY <3>1, <3>2
  <2>3. CASE Top
    <3>1. UNCHANGED peer /\ Reap
      BY Zenon, <2>3 DEF Top, clientVars
    <3>2. CASE UNCHANGED acceptVars
      BY ZenonT(60), <3>1, <3>2, SameInstances, Reaped DEF acceptVars
    <3>3. CASE instances' = Append(instances, Free) /\ accepting' = "accept"
      <4>0. accepting = "top" /\ Len(instances) = 1
        BY ZenonT(60), <2>3 DEF Top
      <4>1. Len(instances') = 2 /\ instances'[2] = Free /\ instances'[1] = instances[1]
        <5> DEFINE longer == Append(instances, Free)
        <5>1. /\ Len(longer) = Len(instances) + 1 /\ longer[Len(instances) + 1] = Free
              /\ \A i \in 1..Len(instances) : longer[i] = instances[i]
          BY DEF InstancesFollowLoop
        <5>2. QED
          BY SMTT(60), <3>3, <4>0, <5>1
      <4>2. instances' \in Seq(Client \cup {Free})
        BY <3>3
      <4>3. /\ connWorker' \in [Client -> {"none", "hello", "auth", "serve", "ended", "joined"}]
            /\ \A c \in Client : connWorker[c] = "none" => connWorker'[c] = "none"
        BY ZenonT(60), <3>1 DEF Reap
      <4>4. instances[1] # Free => instances[1] \in Client /\ connWorker[instances[1]] = "none"
                                  /\ peer[instances[1]] # "new"
        BY SMTT(40), <4>0, ClientOnInstance
      <4>5. \A i \in 1..Len(instances') : instances'[i] # Free =>
              /\ connWorker'[instances'[i]] = "none" /\ peer'[instances'[i]] # "new"
              /\ \A j \in 1..Len(instances') : instances'[j] = instances'[i] => j = i
        <5>1. \A i \in 1..2 : i = 1 \/ i = 2
          OBVIOUS
        <5>2. QED
          BY ZenonT(60), <3>1, <4>1, <4>3, <4>4, <5>1
      <4>6. QED
        BY ZenonT(60), <3>1, <3>3, <4>1, <4>2, <4>3, <4>5
    <3>4. CASE DropAll /\ GiveUp
      BY Zenon, <3>1, <3>4, Abandoned DEF Reap
    <3>5. QED
      BY Zenon, <2>3, <3>2, <3>3, <3>4 DEF Top
  <2>4. CASE ConnectPipe
    <3>1. UNCHANGED <<peer, connWorker>>
      BY Zenon, <2>4 DEF ConnectPipe, clientVars
    <3>2. CASE DropAll /\ GiveUp
      BY ZenonT(60), <3>1, <3>2, Abandoned
    <3>3. CASE ~(DropAll /\ GiveUp)
      <4>1. /\ accepting = "accept" /\ accepting' \in {"wait", "connected"}
            /\ accepting' = "connected" => Head(instances) # Free
            /\ UNCHANGED <<instances, stopping>>
        BY ZenonT(60), <2>4, <3>3 DEF ConnectPipe
      <4>2. QED
        BY ZenonT(60), <3>1, <4>1, SameInstances
    <3>4. QED
      BY Zenon, <3>2, <3>3
  <2>5. CASE PipeConnects
    BY ZenonT(60), <2>5, SameInstances DEF PipeConnects, clientVars
  <2>6. CASE AcceptTimesOut
    BY Zenon, <2>6, Succeeded DEF AcceptTimesOut, clientVars
  <2>7. CASE PeerRefused
    BY Zenon, <2>7, Succeeded, Abandoned DEF PeerRefused, clientVars
  <2>8. CASE Accepted
    <3>1. UNCHANGED peer /\ accepting = "connected"
      BY Zenon, <2>8 DEF Accepted, clientVars
    <3>2. CASE DropAll /\ GiveUp /\ UNCHANGED connWorker
      BY ZenonT(60), <3>1, <3>2, Abandoned
    <3>3. CASE /\ connWorker' = [connWorker EXCEPT ![Head(instances)] = "hello"]
               /\ instances' = Tail(instances) /\ accepting' = "top"
      <4>1. /\ Len(instances) = 2 /\ Head(instances) = instances[1]
        BY <3>1
      <4>2. /\ Tail(instances) \in Seq(Client \cup {Free}) /\ Len(Tail(instances)) = 1
            /\ Tail(instances)[1] = instances[2]
        BY SMTT(60), <4>1
      <4>3. /\ instances[1] \in Client /\ instances[1] # instances[2]
            /\ peer[instances[1]] # "new"
        <5>1. 1 \in 1..Len(instances) /\ 2 \in 1..Len(instances) /\ 1 # 2
          BY <4>1
        <5>2. instances[1] # Free
          BY Zenon, <3>1, <4>1
        <5>3. instances[1] # instances[2]
          BY ZenonT(60), <5>1, <5>2
        <5>. QED BY Zenon, <5>1, <5>2, <5>3, ClientOnInstance
      <4>4. QED
        BY SMTT(60), <3>1, <3>3, <4>1, <4>2, <4>3
    <3>4. QED
      BY Zenon, <2>8, <3>2, <3>3 DEF Accepted
  <2>9. CASE LoopStops
    <3>1. /\ instances' = <<>> /\ accepting' = "finish" /\ stopping
          /\ UNCHANGED <<peer, connWorker, stopping>>
      BY Zenon, <2>9 DEF LoopStops, DropAll, clientVars
    <3>2. instances' \in Seq(Client \cup {Free}) /\ 1..Len(instances') = {}
      BY <3>1
    <3>. QED BY Zenon, <3>1, <3>2
  <2>10. CASE Finish
    <3>1. Reap /\ accepting' \in {"finish", "done"} /\ UNCHANGED <<instances, peer, stopping>>
          /\ accepting = "finish"
      BY Zenon, <2>10 DEF Finish, clientVars
    <3>. QED BY ZenonT(60), <3>1, SameInstances, Reaped
  <2>11. CASE AskToStop
    BY ZenonT(60), <2>11, SameInstances DEF AskToStop, clientVars
  <2>12. ASSUME NEW c \in Client, ConnectionWorker(c)
         PROVE  InstancesFollowLoop'
    <3>1. /\ UNCHANGED <<instances, accepting, stopping, peer>>
          /\ connWorker[c] \in {"hello", "auth", "serve"}
          /\ \E w \in {"auth", "serve", "ended"} : connWorker' = [connWorker EXCEPT ![c] = w]
      BY Zenon, <2>12 DEF ConnectionWorker, ReceiveHello, ReceiveAuth, WorkerEnds, WorkerCloses,
                          clientVars, acceptVars
    <3>2. PICK w \in {"auth", "serve", "ended"} : connWorker' = [connWorker EXCEPT ![c] = w]
      BY Zenon, <3>1
    <3>3. connWorker' \in [Client -> {"none", "hello", "auth", "serve", "ended", "joined"}]
      BY <3>2
    <3>4. \A d \in Client : connWorker[d] = "none" => connWorker'[d] = "none"
      BY Zenon, <3>1, <3>2
    <3>. QED BY ZenonT(60), <3>1, <3>3, <3>4, SameInstances
  <2>13. CASE UNCHANGED listenerVars
    BY ZenonT(60), <2>13, SameInstances DEF listenerVars, clientVars, acceptVars
  <2>14. QED
    BY ZenonT(60), <2>1, <2>2, <2>3, <2>4, <2>5, <2>6, <2>7, <2>8, <2>9, <2>10, <2>11, <2>12, <2>13
    DEF ListenerNext, ClientStep, ServeListener
<1>3. QED
  BY <1>1, <1>2, PTL DEF ListenerSpec

\* Until a shutdown is requested the daemon owns an instance, and the instance
\* limit leaves room for the successor it binds.
THEOREM PipeIsOwned == ListenerSpec => []PipeStaysOwned
<1>1. InstancesFollowLoop => PipeStaysOwned
  <2> SUFFICES ASSUME InstancesFollowLoop, ~stopping
               PROVE  /\ Instances >= 1
                      /\ accepting = "top" /\ ~Full => Instances < PipeInstances
    BY Zenon DEF PipeStaysOwned
  <2>1. Cardinality(Holding) \in Nat
    <3>1. IsFiniteSet(Holding)
      BY Zenon, ListenerAssumption, FS_Subset DEF Holding
    <3>2. QED
      BY Zenon, <3>1, FS_CardinalityType
  <2>2. {c \in Workers : connWorker[c] # "ended"} = Holding
    BY Zenon DEF Workers, Holding
  <2>3. Len(instances) \in {1, 2} /\ (accepting = "top" => Len(instances) = 1)
    BY Zenon DEF InstancesFollowLoop
  <2>4. MaxConnections \in Nat /\ PipeInstances \in Nat /\ MaxConnections < PipeInstances
    BY ListenerAssumption
  <2>5. ~Full => Cardinality(Holding) < MaxConnections
    BY <2>1, <2>2, <2>4 DEF Full
  <2>6. Instances >= 1
    BY <2>1, <2>3 DEF Instances
  <2>7. ASSUME accepting = "top", ~Full
        PROVE  Instances < PipeInstances
    <3>1. Cardinality(Holding) < MaxConnections /\ Len(instances) = 1
      BY Zenon, <2>3, <2>5, <2>7
    <3>2. QED
      BY <2>1, <2>4, <3>1 DEF Instances
  <2>8. QED
    BY Zenon, <2>6, <2>7
<1>2. QED
  BY <1>1, LoopOwnsInstances, PTL

-----------------------------------------------------------------------------
(* The handshake.                                                          *)

\* Both ends hold the hello h and the challenge ch.
Agree(c, h, ch) ==
  /\ hello[c] = {h} /\ challenge[c] = {ch} /\ session[c] = <<h, ch>>
  /\ ch.limit <= profile[c].offer

\* What the client's hello says of its record.
HelloOf(c, h) ==
  hello[c] = {h} /\ h.install = profile[c].install /\ h.offer = profile[c].offer

\* Where the client can be and what is on the wire, for each place of its worker.
Greeted(c) ==
  /\ peer[c] \in {"new", "connected", "hello", "closed"}
  /\ toClient[c] = <<>> /\ challenge[c] = {}
  /\ toServer[c] # <<>> =>
       peer[c] \in {"hello", "closed"} /\ \E h : HelloOf(c, h) /\ toServer[c] = <<h>>

Challenged(c, h, ch) ==
  /\ HelloOf(c, h) /\ session[c] = <<h, ch>> /\ h.install = InstallId
  /\ \/ /\ peer[c] \in {"hello", "closed"}
        /\ challenge[c] = {} /\ toServer[c] = <<>> /\ toClient[c] = <<ch>>
     \/ /\ peer[c] \in {"auth", "closed"}
        /\ challenge[c] = {ch} /\ toClient[c] = <<>> /\ ch.limit <= h.offer
        /\ toServer[c] = <<ClientAuthOf(profile[c].key, h, ch)>>

Served(c, h, ch) ==
  /\ peer[c] \in {"auth", "ready", "closed"} /\ Agree(c, h, ch)
  /\ profile[c].key = ServerKey /\ profile[c].install = InstallId

HandshakeState(c) ==
  /\ connWorker[c] \in {"none", "hello"} => Greeted(c)
  /\ connWorker[c] = "auth" => \E h, ch : Challenged(c, h, ch)
  /\ connWorker[c] = "serve" => \E h, ch : Served(c, h, ch)
  /\ connWorker[c] \in {"ended", "joined"} =>
       toClient[c] = <<>> /\ (peer[c] = "ready" => \E h, ch : Agree(c, h, ch))

HandshakeStates ==
  /\ DOMAIN hello = Client /\ DOMAIN challenge = Client /\ DOMAIN session = Client
  /\ DOMAIN toServer = Client /\ DOMAIN toClient = Client
  /\ \A c \in Client : HandshakeState(c)

\* What belongs to one connection.
Of(c) == <<peer[c], hello[c], challenge[c], connWorker[c], session[c], toServer[c], toClient[c],
           profile[c]>>

LEMMA OthersStay ==
  ASSUME NEW d \in Client, HandshakeState(d), UNCHANGED Of(d)
  PROVE  HandshakeState(d)'
<1>1. /\ peer'[d] = peer[d] /\ hello'[d] = hello[d] /\ challenge'[d] = challenge[d]
      /\ connWorker'[d] = connWorker[d] /\ session'[d] = session[d]
      /\ toServer'[d] = toServer[d] /\ toClient'[d] = toClient[d] /\ profile'[d] = profile[d]
  BY DEF Of
<1>2. Greeted(d) => Greeted(d)'
  BY Zenon, <1>1 DEF Greeted, HelloOf
<1>3. \A h, ch : Challenged(d, h, ch) => Challenged(d, h, ch)'
  BY Zenon, <1>1 DEF Challenged, HelloOf
<1>4. \A h, ch : Agree(d, h, ch) => Agree(d, h, ch)'
  BY Zenon, <1>1 DEF Agree
<1>5. \A h, ch : Served(d, h, ch) => Served(d, h, ch)'
  BY Zenon, <1>1, <1>4 DEF Served
<1>. QED BY ZenonT(60), <1>1, <1>2, <1>3, <1>4, <1>5 DEF HandshakeState

LEMMA HeadOfOne == ASSUME NEW h PROVE Head(<<h>>) = h
OBVIOUS

LEMMA OfTwo == ASSUME NEW s, NEW a, NEW b, s = <<a, b>> PROVE s[1] = a /\ s[2] = b
OBVIOUS

LEMMA TheOnlyOne == ASSUME NEW h PROVE (CHOOSE x \in {h} : TRUE) = h
BY Zenon

\* A session serves only a client with the daemon's key and install id, and two
\* ends that finished hold the same hello, challenge and frame limit.
LEMMA StatesSuffice == InstancesFollowLoop /\ HandshakeStates => HandshakesAgree
<1> SUFFICES ASSUME InstancesFollowLoop, HandshakeStates, NEW c \in Client
             PROVE  /\ connWorker[c] = "serve" =>
                         /\ profile[c].key = ServerKey /\ profile[c].install = InstallId
                         /\ hello[c] = {session[c][1]} /\ challenge[c] = {session[c][2]}
                    /\ peer[c] = "ready" =>
                         /\ session[c] # <<>>
                         /\ hello[c] = {session[c][1]} /\ challenge[c] = {session[c][2]}
                         /\ session[c][2].limit <= profile[c].offer
                         /\ connWorker[c] \in {"serve", "ended", "joined"}
  BY ZenonT(60) DEF HandshakesAgree
<1>1. \A h, ch : Agree(c, h, ch) =>
        /\ session[c] # <<>>
        /\ hello[c] = {session[c][1]} /\ challenge[c] = {session[c][2]}
        /\ session[c][2].limit <= profile[c].offer
  BY SMTT(40) DEF Agree
<1>2. HandshakeState(c) /\ connWorker[c] \in {"none", "hello", "auth", "serve", "ended", "joined"}
  BY Zenon DEF HandshakeStates, InstancesFollowLoop
<1>3. QED
  BY Zenon, <1>1, <1>2 DEF HandshakeState, Greeted, Challenged, Served

\* Every step of either end keeps what both ends know (authenticate_client,
\* receive_hello, receive_auth, receive_ready).
THEOREM EndsKnowEachOther == ListenerSpec => []HandshakeStates
<1>1. ListenerInit => HandshakeStates
  BY Zenon DEF ListenerInit, HandshakeStates, HandshakeState, Greeted
<1>2. InstancesFollowLoop /\ HandshakeStates /\ [ListenerNext]_listenerVars => HandshakeStates'
  <2> SUFFICES ASSUME InstancesFollowLoop, HandshakeStates, [ListenerNext]_listenerVars
               PROVE  HandshakeStates'
    BY Zenon
  <2> USE DEF HandshakeStates
  <2>0. /\ DOMAIN peer = Client /\ DOMAIN connWorker = Client
        /\ \A c \in Client :
             connWorker[c] \in {"none", "hello", "auth", "serve", "ended", "joined"}
    BY Zenon DEF InstancesFollowLoop
  <2>1. ASSUME NEW c \in Client, OpenPipe(c)
        PROVE  HandshakeStates'
    <3>1. UNCHANGED <<profile, hello, challenge, connWorker, session, toServer, toClient>>
      BY Zenon, <2>1 DEF OpenPipe
    <3>2. peer[c] = "new" /\ \E p \in {"connected", "closed"} : peer' = [peer EXCEPT ![c] = p]
      BY Zenon, <2>1 DEF OpenPipe
    <3>3. connWorker[c] = "none" /\ HandshakeState(c)
      BY Zenon, <3>2 DEF InstancesFollowLoop
    <3>4. HandshakeState(c)'
      BY Zenon, <2>0, <3>1, <3>2, <3>3 DEF HandshakeState, Greeted, HelloOf
    <3>5. \A d \in Client \ {c} : HandshakeState(d)'
      BY Zenon, <2>0, <3>1, <3>2, OthersStay DEF Of
    <3>6. QED
      BY Zenon, <3>1, <3>4, <3>5
  <2>2. ASSUME NEW c \in Client, OpenTimesOut(c) \/ ClientLeaves(c)
        PROVE  HandshakeStates'
    <3>1. UNCHANGED <<profile, hello, challenge, connWorker, session, toServer, toClient>>
      BY Zenon, <2>2 DEF OpenTimesOut, ClientLeaves
    <3>2. peer' = [peer EXCEPT ![c] = "closed"]
      BY Zenon, <2>2 DEF OpenTimesOut, ClientLeaves
    <3>3. HandshakeState(c)
      BY Zenon
    <3>4. HandshakeState(c)'
      <4>1. peer'[c] = "closed"
        BY Zenon, <2>0, <3>2
      <4>2. Greeted(c) => Greeted(c)'
        BY Zenon, <3>1, <4>1 DEF Greeted, HelloOf
      <4>3. \A h, ch : Challenged(c, h, ch) => Challenged(c, h, ch)'
        BY Zenon, <3>1, <4>1 DEF Challenged, HelloOf
      <4>4. \A h, ch : Served(c, h, ch) => Served(c, h, ch)'
        BY Zenon, <3>1, <4>1 DEF Served, Agree
      <4>. QED BY Zenon, <3>1, <3>3, <4>1, <4>2, <4>3, <4>4 DEF HandshakeState
    <3>5. \A d \in Client \ {c} : HandshakeState(d)'
      BY Zenon, <2>0, <3>1, <3>2, OthersStay DEF Of
    <3>6. QED
      BY Zenon, <3>1, <3>4, <3>5
  <2>3. ASSUME NEW c \in Client, SendHello(c)
        PROVE  HandshakeStates'
    <3>1. /\ UNCHANGED <<profile, challenge, connWorker, session, toClient>>
          /\ peer[c] = "connected"
      BY Zenon, <2>3 DEF SendHello
    <3>2. connWorker[c] \notin {"auth", "serve"} /\ HandshakeState(c)
      BY Zenon, <3>1 DEF HandshakeState, Challenged, Served
    <3>3. CASE peer' = [peer EXCEPT ![c] = "closed"] /\ UNCHANGED <<hello, toServer>>
      <4>1. HandshakeState(c)'
        BY Zenon, <2>0, <3>1, <3>2, <3>3 DEF HandshakeState, Greeted, HelloOf
      <4>2. \A d \in Client \ {c} : HandshakeState(d)'
        BY Zenon, <2>0, <3>1, <3>3, OthersStay DEF Of
      <4>3. QED
        BY Zenon, <3>1, <3>3, <4>1, <4>2
    <3>4. ASSUME NEW nonce \in Nonce,
                 LET h == [nonce |-> nonce, install |-> profile[c].install,
                           offer |-> profile[c].offer]
                 IN  /\ hello' = [hello EXCEPT ![c] = {h}]
                     /\ toServer' = [toServer EXCEPT ![c] = <<h>>]
                     /\ peer' = [peer EXCEPT ![c] = "hello"]
          PROVE  HandshakeStates'
      <4>1. HandshakeState(c)'
        BY Zenon, <2>0, <3>1, <3>2, <3>4 DEF HandshakeState, Greeted, HelloOf
      <4>2. \A d \in Client \ {c} : HandshakeState(d)'
        BY Zenon, <2>0, <3>1, <3>4, OthersStay DEF Of
      <4>3. QED
        BY Zenon, <3>1, <3>4, <4>1, <4>2
    <3>5. QED
      BY Zenon, <2>3, <3>3, <3>4 DEF SendHello
  <2>4. ASSUME NEW c \in Client, AnswerChallenge(c)
        PROVE  HandshakeStates'
    <3>1. /\ UNCHANGED <<profile, hello, connWorker, session>>
          /\ peer[c] = "hello" /\ toClient[c] # <<>>
          /\ peer' = [peer EXCEPT ![c] = "auth"]
          /\ toClient' = [toClient EXCEPT ![c] = <<>>]
      BY Zenon, <2>4 DEF AnswerChallenge
    <3>2. connWorker[c] = "auth" /\ HandshakeState(c)
      BY Zenon, <2>0, <3>1 DEF HandshakeState, Greeted, Served
    <3>3. PICK h, ch : Challenged(c, h, ch)
      BY Zenon, <3>2 DEF HandshakeState
    <3>4. hello[c] = {h} /\ toClient[c] = <<ch>>
      BY ZenonT(60), <3>1, <3>3 DEF Challenged, HelloOf
    <3>5. Head(toClient[c]) = ch /\ (CHOOSE x \in hello[c] : TRUE) = h
      BY Zenon, <3>4, HeadOfOne, TheOnlyOne
    <3>6. /\ ValidChallenge(h, ch)
          /\ challenge' = [challenge EXCEPT ![c] = {ch}]
          /\ toServer' = [toServer EXCEPT ![c] = <<ClientAuthOf(profile[c].key, h, ch)>>]
      BY Zenon, <2>4, <3>5 DEF AnswerChallenge
    <3>7. Challenged(c, h, ch)'
      BY Zenon, <2>0, <3>1, <3>3, <3>6 DEF Challenged, HelloOf, ValidChallenge, ClientAuthOf, ClientProof,
                                    Transcript
    <3>8. HandshakeState(c)'
      BY Zenon, <3>1, <3>2, <3>7 DEF HandshakeState
    <3>9. \A d \in Client \ {c} : HandshakeState(d)'
      BY Zenon, <2>0, <3>1, <3>6, OthersStay DEF Of
    <3>10. QED
      BY Zenon, <3>1, <3>6, <3>8, <3>9
  <2>5. ASSUME NEW c \in Client, ReceiveReady(c)
        PROVE  HandshakeStates'
    <3>1. /\ UNCHANGED <<profile, hello, challenge, connWorker, session, toServer>>
          /\ peer[c] = "auth" /\ toClient[c] # <<>>
          /\ toClient' = [toClient EXCEPT ![c] = <<>>]
          /\ \E p \in {"ready", "closed"} : peer' = [peer EXCEPT ![c] = p]
      BY Zenon, <2>5 DEF ReceiveReady
    <3>2. connWorker[c] = "serve" /\ HandshakeState(c)
      BY Zenon, <2>0, <3>1 DEF HandshakeState, Greeted, Challenged
    <3>3. HandshakeState(c)'
      <4>1. peer'[c] \in {"ready", "closed"} /\ connWorker'[c] = "serve"
        BY Zenon, <2>0, <3>1, <3>2
      <4>2. \A h, ch : Served(c, h, ch) => Served(c, h, ch)'
        BY Zenon, <3>1, <4>1 DEF Served, Agree
      <4>3. \E h, ch : Served(c, h, ch)'
        BY Zenon, <3>2, <4>2 DEF HandshakeState
      <4>. QED BY Zenon, <4>1, <4>3 DEF HandshakeState
    <3>4. \A d \in Client \ {c} : HandshakeState(d)'
      BY Zenon, <2>0, <3>1, OthersStay DEF Of
    <3>5. QED
      BY Zenon, <3>1, <3>3, <3>4
  <2>6. ASSUME NEW c \in Client, ReceiveHello(c)
        PROVE  HandshakeStates'
    <3>1. /\ UNCHANGED <<profile, peer, hello, challenge>>
          /\ connWorker[c] = "hello" /\ toServer[c] # <<>>
          /\ toServer' = [toServer EXCEPT ![c] = <<>>]
      BY Zenon, <2>6 DEF ReceiveHello, clientVars
    <3>2. PICK h : HelloOf(c, h) /\ toServer[c] = <<h>> /\ peer[c] \in {"hello", "closed"}
      BY Zenon, <3>1 DEF HandshakeState, Greeted
    <3>3. Greeted(c) /\ Head(toServer[c]) = h
      BY Zenon, <3>1, <3>2, HeadOfOne DEF HandshakeState
    <3>4. CASE WorkerCloses(c) /\ UNCHANGED session
      <4>1. HandshakeState(c)'
        BY Zenon, <2>0, <3>1, <3>3, <3>4 DEF HandshakeState, Greeted, WorkerCloses
      <4>2. \A d \in Client \ {c} : HandshakeState(d)'
        BY Zenon, <2>0, <3>1, <3>4, OthersStay DEF Of, WorkerCloses
      <4>3. QED
        BY Zenon, <3>1, <3>4, <4>1, <4>2 DEF WorkerCloses
    <3>5. ASSUME NEW ch, h.install = InstallId,
                 session' = [session EXCEPT ![c] = <<h, ch>>],
                 toClient' = [toClient EXCEPT ![c] = <<ch>>],
                 connWorker' = [connWorker EXCEPT ![c] = "auth"]
          PROVE  HandshakeStates'
      <4>1. Challenged(c, h, ch)'
        BY Zenon, <3>1, <3>2, <3>3, <3>5 DEF Challenged, HelloOf, Greeted
      <4>2. HandshakeState(c)'
        BY Zenon, <2>0, <3>5, <4>1 DEF HandshakeState
      <4>3. \A d \in Client \ {c} : HandshakeState(d)'
        BY Zenon, <2>0, <3>1, <3>5, OthersStay DEF Of
      <4>4. QED
        BY Zenon, <3>1, <3>5, <4>2, <4>3
    <3>6. QED
      BY Zenon, <2>6, <3>3, <3>4, <3>5 DEF ReceiveHello
  <2>7. ASSUME NEW c \in Client, ReceiveAuth(c)
        PROVE  HandshakeStates'
    <3>1. /\ UNCHANGED <<profile, peer, hello, challenge, session>>
          /\ connWorker[c] = "auth" /\ toServer[c] # <<>>
          /\ toServer' = [toServer EXCEPT ![c] = <<>>]
      BY Zenon, <2>7 DEF ReceiveAuth, clientVars
    <3>2. PICK h, ch : Challenged(c, h, ch)
      BY Zenon, <3>1 DEF HandshakeState
    <3>3. CASE WorkerCloses(c)
      <4>1. HandshakeState(c)'
        BY Zenon, <2>0, <3>1, <3>2, <3>3 DEF HandshakeState, Challenged, WorkerCloses
      <4>2. \A d \in Client \ {c} : HandshakeState(d)'
        BY Zenon, <2>0, <3>1, <3>3, OthersStay DEF Of, WorkerCloses
      <4>3. QED
        BY Zenon, <3>1, <3>3, <4>1, <4>2 DEF WorkerCloses
    <3>4. ASSUME VerifyAuth(ServerKey, session[c][1], session[c][2], Head(toServer[c])),
                 NEW proof, toClient' = [toClient EXCEPT ![c] = <<proof>>],
                 connWorker' = [connWorker EXCEPT ![c] = "serve"]
          PROVE  HandshakeStates'
      <4>1. /\ session[c][1] = h /\ session[c][2] = ch
            /\ Head(toServer[c]) = ClientAuthOf(profile[c].key, h, ch)
            /\ peer[c] \in {"auth", "closed"} /\ Agree(c, h, ch)
            /\ profile[c].install = InstallId
        <5>1. toServer[c] = <<ClientAuthOf(profile[c].key, h, ch)>>
          BY Zenon, <3>1, <3>2 DEF Challenged
        <5>2. session[c] = <<h, ch>>
          BY ZenonT(60), <3>2 DEF Challenged
        <5>3. session[c][1] = h /\ session[c][2] = ch
          BY Zenon, <5>2, OfTwo
        <5>4. /\ Head(toServer[c]) = ClientAuthOf(profile[c].key, h, ch)
          BY Zenon, <5>1, HeadOfOne
        <5>5. /\ peer[c] \in {"auth", "closed"} /\ Agree(c, h, ch)
              /\ profile[c].install = InstallId
          BY Zenon, <3>1, <3>2 DEF Challenged, HelloOf, Agree
        <5>. QED BY Zenon, <5>3, <5>4, <5>5
      <4>2. ClientAuthOf(profile[c].key, h, ch).proof = ClientProof(ServerKey, h, ch)
        BY Zenon, <3>4, <4>1 DEF VerifyAuth
      <4>3. profile[c].key = ServerKey
        BY Zenon, <4>2 DEF ClientAuthOf, ClientProof
      <4>4. Served(c, h, ch)'
        BY Zenon, <3>1, <4>1, <4>3 DEF Served, Agree
      <4>5. HandshakeState(c)'
        BY Zenon, <2>0, <3>4, <4>4 DEF HandshakeState
      <4>6. \A d \in Client \ {c} : HandshakeState(d)'
        BY Zenon, <2>0, <3>1, <3>4, OthersStay DEF Of
      <4>7. QED
        BY Zenon, <3>1, <3>4, <4>5, <4>6
    <3>5. QED
      BY Zenon, <2>7, <3>3, <3>4 DEF ReceiveAuth
  <2>8. ASSUME NEW c \in Client, WorkerEnds(c)
        PROVE  HandshakeStates'
    <3>1. /\ UNCHANGED <<profile, peer, hello, challenge, session, toServer>>
          /\ connWorker[c] \in {"hello", "auth", "serve"} /\ WorkerCloses(c)
      BY Zenon, <2>8 DEF WorkerEnds, clientVars
    <3>2. HandshakeState(c)'
      <4>1. peer[c] = "ready" => \E h, ch : Agree(c, h, ch)
        BY Zenon, <3>1 DEF HandshakeState, Greeted, Challenged, Served
      <4>2. QED
        BY Zenon, <2>0, <3>1, <4>1 DEF HandshakeState, WorkerCloses, Agree
    <3>3. \A d \in Client \ {c} : HandshakeState(d)'
      BY Zenon, <2>0, <3>1, OthersStay DEF Of, WorkerCloses
    <3>4. QED
      BY Zenon, <3>1, <3>2, <3>3 DEF WorkerCloses
  <2>9. CASE Top \/ Finish
    <3>1. UNCHANGED <<profile, peer, hello, challenge, session, toServer, toClient>> /\ Reap
      BY Zenon, <2>9 DEF Top, Finish, clientVars
    <3>2. ASSUME NEW d \in Client
          PROVE  HandshakeState(d)'
      <4>1. CASE connWorker[d] # "ended"
        BY Zenon, <3>1, <4>1, OthersStay DEF Of, Reap
      <4>2. CASE connWorker[d] = "ended"
        <5>1. connWorker'[d] = "joined" /\ HandshakeState(d)
          BY Zenon, <3>1, <4>2 DEF Reap
        <5>2. QED
          BY Zenon, <3>1, <4>2, <5>1 DEF HandshakeState, Agree
      <4>3. QED
        BY Zenon, <4>1, <4>2
    <3>3. QED
      BY Zenon, <3>1, <3>2
  <2>10. CASE Accepted
    <3>1. UNCHANGED <<profile, peer, hello, challenge, session, toServer, toClient>>
      BY Zenon, <2>10 DEF Accepted, clientVars
    <3>2. CASE UNCHANGED connWorker
      BY Zenon, <3>1, <3>2, OthersStay DEF Of
    <3>3. CASE connWorker' = [connWorker EXCEPT ![Head(instances)] = "hello"]
      <4>1. /\ Len(instances) = 2 /\ Head(instances) = instances[1] /\ instances[1] # Free
        BY SMTT(60), <2>10 DEF Accepted, InstancesFollowLoop
      <4>2. PICK c \in Client : Head(instances) = c /\ connWorker[c] = "none"
        <5>1. 1 \in 1..Len(instances)
          BY <4>1
        <5>. QED BY Zenon, <4>1, <5>1, ClientOnInstance
      <4>3. connWorker' = [connWorker EXCEPT ![c] = "hello"]
        BY Zenon, <3>3, <4>2
      <4>4. HandshakeState(c)'
        BY Zenon, <2>0, <3>1, <4>2, <4>3 DEF HandshakeState, Greeted, HelloOf
      <4>5. \A d \in Client \ {c} : HandshakeState(d)'
        BY Zenon, <2>0, <3>1, <4>3, OthersStay DEF Of
      <4>6. QED
        BY ZenonT(60), <3>1, <4>4, <4>5
    <3>4. QED
      BY Zenon, <2>10, <3>2, <3>3 DEF Accepted
  <2>11. CASE \/ ConnectPipe \/ PipeConnects \/ AcceptTimesOut \/ PeerRefused
              \/ LoopStops \/ AskToStop \/ UNCHANGED listenerVars
    <3>1. UNCHANGED <<profile, peer, hello, challenge, connWorker, session, toServer, toClient>>
      BY Zenon, <2>11 DEF ConnectPipe, PipeConnects, AcceptTimesOut, PeerRefused, LoopStops, AskToStop,
                   listenerVars, clientVars
    <3>2. QED
      BY Zenon, <3>1, OthersStay DEF Of
  <2>12. QED
    BY ZenonT(60), <2>1, <2>2, <2>3, <2>4, <2>5, <2>6, <2>7, <2>8, <2>9, <2>10, <2>11
    DEF ListenerNext, ClientStep, ServeListener, ConnectionWorker
<1>3. QED
  BY <1>1, <1>2, LoopOwnsInstances, PTL DEF ListenerSpec

\* An authenticated session has two ends that agree, whatever record the client
\* read and whichever clients come, leave or time out meanwhile.
THEOREM SessionsAgree == ListenerSpec => []HandshakesAgree
BY EndsKnowEachOther, LoopOwnsInstances, StatesSuffice, PTL

-----------------------------------------------------------------------------
(* Retention: what a live lease names.                                     *)

Deletions == [resource : Resources, outcome : {"pending", "removed", "failed"}]

\* Some row of reader_lease_items names the resource.
Named(r) == \E l \in Leases : lease[l] # Unset /\ r \in lease[l].items

OnceMarked(r) == intent[r] \in {"MARKED", "DELETED", "FAILED"}

\* No lease row names a marked resource, not even an expired one, which a caller
\* could take over with its items; and a deletion in progress is of a resource that
\* was marked, and is still unless another deletion of it has finished.
MarkFences ==
  /\ DOMAIN file = Blobs /\ DOMAIN dir = KeptTasks
  /\ DOMAIN intent = Resources /\ DOMAIN lease = Leases
  /\ DOMAIN plan = Collectors
  /\ \A c \in Collectors : plan[c] # Unset => plan[c] \in Deletions /\ OnceMarked(plan[c].resource)
  /\ \A r \in Resources : Marked(r) => ~Named(r)

\* Only a path without a lease becomes a candidate (mark_retention_gc).
LEMMA BatchIsUnleased ==
  ASSUME NEW batch \in Batches, NEW r \in batch
  PROVE  ~Leased(r, now)
<1> DEFINE blobs == {b \in Blobs : BlobEligible(b)}
           trees == {t \in KeptTasks : WorktreeEligible(t)}
<1>1. \E bs \in SUBSET blobs, ts \in SUBSET trees :
        batch = {BlobOf(b) : b \in bs} \cup {WorktreeOf(t) : t \in ts}
  BY Zenon DEF Batches, Oldest
<1>2. \A b \in blobs : ~Leased(BlobOf(b), now)
  BY Zenon DEF BlobEligible
<1>3. \A t \in trees : ~Leased(WorktreeOf(t), now)
  BY Zenon DEF WorktreeEligible
<1>4. QED
  BY Zenon, <1>1, <1>2, <1>3

\* The fence of a mark holds through renewals, expiries, failed deletions and
\* restarts (acquire_lease, mark_retention_gc, prepare_ and finish_gc_deletion).
THEOREM MarksFence == RetentionSpec => []MarkFences
<1>1. RetentionInit => MarkFences
  BY Zenon DEF RetentionInit, MarkFences, Named
<1>2. MarkFences /\ [RetentionNext]_retentionVars => MarkFences'
  <2> SUFFICES ASSUME MarkFences, [RetentionNext]_retentionVars
               PROVE  MarkFences'
    BY Zenon
  <2> USE DEF MarkFences, Marked, Named, OnceMarked
  <2>1. CASE Tick
    <3>1. now' = now + 1 /\ UNCHANGED <<file, dir, intent, lease, plan>>
      BY Zenon, <2>1 DEF Tick
    <3>2. QED
      BY Zenon, <3>1
  <2>2. ASSUME NEW l \in Leases, NEW r \in Resources, AcquireLease(l, r)
        PROVE  MarkFences'
    <3> DEFINE grant == [epoch |-> epoch, heartbeat |-> now, expires |-> now + LeaseTtl,
                         items |-> (IF lease[l] = Unset THEN {} ELSE lease[l].items) \cup {r}]
    <3>1. /\ ~Marked(r)
          /\ lease' = [lease EXCEPT ![l] = grant]
          /\ UNCHANGED <<now, file, dir, intent, plan>>
      BY Zenon, <2>2 DEF AcquireLease
    <3>2. grant.items = (IF lease[l] = Unset THEN {} ELSE lease[l].items) \cup {r}
      BY Zenon
    <3>3. QED
      BY Zenon, <3>1, <3>2
  <2>3. ASSUME NEW l \in Leases, ReleaseLease(l)
        PROVE  MarkFences'
    BY Zenon, <2>3 DEF ReleaseLease
  <2>4. CASE MarkRetentionGc
    <3>1. PICK batch \in Batches :
            intent' = [r \in Resources |-> IF r \in batch THEN "MARKED" ELSE intent[r]]
      BY Zenon, <2>4 DEF MarkRetentionGc
    <3>2. /\ lease' = [l \in Leases |-> IF Live(l, now) THEN lease[l] ELSE Unset]
          /\ UNCHANGED <<now, file, dir, plan>>
      BY Zenon, <2>4 DEF MarkRetentionGc
    <3>3. \A r \in batch : ~Leased(r, now)
      BY Zenon, BatchIsUnleased
    <3>4. \A r \in Resources : Named(r)' => Leased(r, now) /\ Named(r)
      BY Zenon, <3>2 DEF Leased, Live
    <3>5. \A r \in Resources : Marked(r)' => Marked(r) \/ r \in batch
      BY Zenon, <3>1
    <3>6. \A c \in Collectors :
            plan'[c] # Unset => plan'[c] \in Deletions /\ OnceMarked(plan[c].resource)'
      BY Zenon, <3>1, <3>2 DEF Deletions
    <3>7. QED
      BY ZenonT(60), <3>1, <3>2, <3>3, <3>4, <3>5, <3>6
  <2>5. ASSUME NEW c \in Collectors, NEW r \in Resources, PrepareGcDeletion(c, r)
        PROVE  MarkFences'
    <3>1. [resource |-> r, outcome |-> "pending"] \in Deletions
      BY Zenon DEF Deletions
    <3>2. QED
      BY ZenonT(60), <2>5, <3>1 DEF PrepareGcDeletion, rows
  <2>6. ASSUME NEW c \in Collectors, NEW removed \in BOOLEAN, RemovePath(c, removed)
        PROVE  MarkFences'
    <3> DEFINE done == [plan[c] EXCEPT !.outcome = IF removed THEN "removed" ELSE "failed"]
    <3>1. plan[c] \in Deletions /\ OnceMarked(plan[c].resource)
      BY Zenon, <2>6 DEF RemovePath
    <3>2. done \in Deletions /\ done.resource = plan[c].resource
      BY <3>1 DEF Deletions
    <3>3. /\ plan' = [plan EXCEPT ![c] = done]
          /\ DOMAIN file' = Blobs /\ DOMAIN dir' = KeptTasks
          /\ UNCHANGED <<intent, lease>>
      BY Zenon, <2>6 DEF RemovePath, rows
    <3>4. QED
      BY ZenonT(60), <3>1, <3>2, <3>3
  <2>7. ASSUME NEW c \in Collectors, FinishGcDeletion(c)
        PROVE  MarkFences'
    <3>1. /\ DOMAIN intent' = Resources
          /\ \A r \in Resources : Marked(r)' => Marked(r)
          /\ \A r \in Resources : OnceMarked(r) => OnceMarked(r)'
      BY ZenonT(60), <2>7 DEF FinishGcDeletion
    <3>2. plan' = [plan EXCEPT ![c] = Unset] /\ UNCHANGED <<file, dir, lease>>
      BY Zenon, <2>7 DEF FinishGcDeletion
    <3>3. QED
      BY ZenonT(60), <3>1, <3>2 DEF Deletions
  <2>8. CASE StopRetention \/ Reopen
    BY ZenonT(60), <2>8 DEF StopRetention, Reopen, rows
  <2>9. CASE \/ PublishWrite \/ PublishMove \/ PublishCommit
             \/ \E b \in Blobs : \/ PublishExisting(b) \/ PublishStage(b)
                                 \/ \E t \in KeptTasks : ReferenceBlob(t, b)
    BY <2>9 DEF PublishWrite, PublishFails, PublishMove, PublishCommit, PublishExisting,
                PublishStage, ReferenceBlob, rows
  <2>10. ASSUME NEW t \in KeptTasks,
                \/ RegisterWorktree(t) \/ Acknowledge(t)
                \/ \E ending \in {"SUCCEEDED", "FAILED"} : Finalize(t, ending)
         PROVE  MarkFences'
    BY <2>10 DEF RegisterWorktree, Acknowledge, Finalize
  <2>11. CASE UNCHANGED retentionVars
    BY Zenon, <2>11 DEF retentionVars
  <2>12. QED
    BY ZenonT(60), <2>1, <2>2, <2>3, <2>4, <2>5, <2>6, <2>7, <2>8, <2>9, <2>10, <2>11
    DEF RetentionNext
<1>3. QED
  BY <1>1, <1>2, PTL DEF RetentionSpec

\* No step removes the file of a blob or the directory of a worktree while a live
\* lease names it, except for a plan whose resource another deletion finished.
THEOREM LeasedPathsStay == RetentionSpec => LeasedPathsAreKept
<1> DEFINE Unmoved == \A r \in Resources :
                     Removed(r) /\ Leased(r, now) => intent[r] \in {"DELETED", "FAILED"}
<1>1. MarkFences /\ [RetentionNext]_retentionVars => [Unmoved]_retentionVars
  <2> SUFFICES ASSUME MarkFences, RetentionNext, NEW r \in Resources,
                      Removed(r), Leased(r, now)
               PROVE  intent[r] \in {"DELETED", "FAILED"}
    BY Zenon
  <2>1. \/ r.kind = "blob" /\ r.id \in Blobs /\ r = [kind |-> "blob", id |-> r.id]
        \/ r.kind = "worktree" /\ r.id \in KeptTasks /\ r = [kind |-> "worktree", id |-> r.id]
    BY Zenon DEF Resources, Removed
  <2>2. ASSUME NEW c \in Collectors, NEW removed \in BOOLEAN, RemovePath(c, removed)
        PROVE  OnceMarked(r)
    <3>1. plan[c] \in Deletions /\ OnceMarked(plan[c].resource)
      BY Zenon, <2>2 DEF RemovePath, MarkFences
    <3>2. plan[c].resource.kind = r.kind /\ plan[c].resource.id = r.id
      BY Zenon, <2>1, <2>2 DEF RemovePath, MarkFences, Removed
    <3>3. plan[c].resource = r
      BY Zenon, <2>1, <3>1, <3>2 DEF Deletions, Resources
    <3>4. QED
      BY Zenon, <3>1, <3>3
  <2>3. CASE PublishMove
    BY Zenon, <2>1, <2>3 DEF PublishMove, MarkFences, Removed
  <2>4. CASE Reopen
    BY Zenon, <2>1, <2>4 DEF Reopen, StagedFile, Removed
  <2>5. CASE \E t \in KeptTasks : RegisterWorktree(t)
    BY Zenon, <2>1, <2>5 DEF RegisterWorktree, MarkFences, Removed
  <2>6. CASE UNCHANGED <<file, dir>>
    BY Zenon, <2>6 DEF Removed
  <2>7. \/ \E c \in Collectors, removed \in BOOLEAN : RemovePath(c, removed)
        \/ PublishMove \/ Reopen
        \/ \E t \in KeptTasks : RegisterWorktree(t)
        \/ UNCHANGED <<file, dir>>
    BY Zenon DEF RetentionNext, Tick, Finalize, Acknowledge, PublishExisting, PublishStage,
           ReferenceBlob, PublishWrite, PublishCommit, AcquireLease, ReleaseLease,
           MarkRetentionGc, PrepareGcDeletion, FinishGcDeletion, StopRetention
  <2>8. ~Marked(r)
    BY Zenon DEF MarkFences, Named, Leased, Live
  <2>9. QED
    BY ZenonT(60), <2>2, <2>3, <2>4, <2>5, <2>6, <2>7, <2>8 DEF Marked, OnceMarked
<1>2. QED
  BY <1>1, MarksFence, PTL DEF RetentionSpec, LeasedPathsAreKept

-----------------------------------------------------------------------------
(* StoreOpen: the critical reserve.                                        *)

\* Each call owns the reserve file between its own steps: while a latch or a
\* recovery is under way the fence in memory is up, a first open has none yet and
\* finds no emergency on record, and the row is written only after the whole file
\* exists.
FenceFollowsCall ==
  /\ has_quota /\ mem = "NORMAL" => reserve = "full" /\ stored = "NORMAL"
  /\ db = "none" => mem = "closed" /\ step = "idle" /\ stored = "NORMAL"
  /\ step \in {"tag", "migrate", "reserve", "first", "firstFill"} =>
       mem = "closed" /\ (existed \/ stored = "NORMAL")
  /\ step \in {"first", "firstFill"} => ~existed
  /\ step \in {"release", "record", "refill", "normal"} => mem # "NORMAL"
  /\ step \in {"release", "recreate", "refill", "normal"} => has_quota
  /\ step = "normal" => reserve = "full"

\* The fence holds when nothing is open and is kept by every step of an open, a
\* latch, a recovery and a stop (open_with_filesystem, latch_emergency,
\* recover_emergency).
THEOREM FenceIsInductive == OpenSpec => []FenceFollowsCall
<1>1. OpenInit => FenceFollowsCall
  BY Zenon DEF OpenInit, FenceFollowsCall
<1>2. FenceFollowsCall /\ [OpenNext]_openVars => FenceFollowsCall'
  <2> SUFFICES ASSUME FenceFollowsCall, [OpenNext]_openVars
               PROVE  FenceFollowsCall'
    BY Zenon
  <2>1. CASE OpenDatabase \/ TagDatabase \/ MigrateDatabase \/ DecideEmergency
    <3>1. CASE OpenDatabase
      <4>1. CASE db = "none"
        BY ZenonT(60), <3>1, <4>1 DEF FenceFollowsCall, OpenDatabase
      <4>2. CASE db # "none"
        <5>1. /\ existed' /\ db' # "none" /\ mem' = "closed" /\ step' \in {"idle", "tag"}
          BY Zenon, <3>1, <4>2 DEF OpenDatabase
        <5>2. QED
          BY SMTT(60), <5>1 DEF FenceFollowsCall
      <4>3. QED
        BY Zenon, <4>1, <4>2
    <3>2. CASE TagDatabase \/ MigrateDatabase
      BY SMTT(60), <3>2 DEF FenceFollowsCall, TagDatabase, MigrateDatabase
    <3>3. CASE DecideEmergency
      BY SMTT(60), <3>3 DEF FenceFollowsCall, DecideEmergency
    <3>4. QED
      BY Zenon, <2>1, <3>1, <3>2, <3>3
  <2>2. CASE FirstReserve \/ FillFirst
    BY SMTT(60), <2>2 DEF FenceFollowsCall, FirstReserve, CreateReserve, FillFirst
  <2>3. CASE Latch \/ ReleaseReserve \/ RecordRelease
    BY SMTT(60), <2>3 DEF FenceFollowsCall, Latch, ReleaseReserve, RecordRelease
  <2>4. CASE Recover \/ RecreateReserve \/ RefillReserve \/ RecordNormal
    BY SMTT(60), <2>4 DEF FenceFollowsCall, Recover, RecreateReserve, CreateReserve, RefillReserve,
                RecordNormal
  <2>5. CASE StopStore
    BY SMTT(60), <2>5 DEF FenceFollowsCall, StopStore
  <2>6. CASE UNCHANGED openVars
    BY SMTT(60), <2>6 DEF FenceFollowsCall, openVars
  <2>7. QED
    BY ZenonT(60), <2>1, <2>2, <2>3, <2>4, <2>5, <2>6 DEF OpenNext
<1>3. QED
  BY <1>1, <1>2, PTL DEF OpenSpec

\* A store that has a quota and admits new work has its whole critical reserve on
\* disk and no emergency on record, through every restart and every failed commit.
THEOREM ReserveBacksNormal == OpenSpec => []NormalMeansReserve
<1>1. FenceFollowsCall => NormalMeansReserve
  BY Zenon DEF FenceFollowsCall, NormalMeansReserve
<1>2. QED
  BY <1>1, FenceIsInductive, PTL

=============================================================================
