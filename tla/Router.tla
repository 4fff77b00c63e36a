------------------------------- MODULE Router -------------------------------
(***************************************************************************)
(* One request in crates/mesh-daemon/src/router.rs: a mutation that is     *)
(* committed by the writer and then read back for its answer, or a         *)
(* wait_task long poll.  Both race the request's deadline, and every call  *)
(* of Instant::now may see a later time than the one before it.            *)
(*                                                                         *)
(* Time is in milliseconds and passes at any moment.  The task and the     *)
(* stores behind the router change and fail as their own modules allow.    *)
(***************************************************************************)
EXTENDS Naturals

CONSTANTS
    Deadline,       \* the request's deadline
    WaitMs,         \* wait_ms of a wait_task
    LastTime        \* the clock is not followed past this time

\* RpcMethod::timeout leaves wait_task a margin over wait_ms.
ASSUME RouterAssumption ==
    /\ Deadline \in Nat /\ WaitMs \in Nat /\ LastTime \in Nat
    /\ WaitMs < Deadline /\ Deadline < LastTime

VARIABLES
    now,            \* the clock
    method,         \* what the request asks for
    pc,             \* where the route worker is
    task,           \* the durable state of the task that is waited for
    page,           \* the page in hand: last_page, or the one just read
    hasPage,        \* last_page.is_some()
    alert,          \* the snapshot read with the page needs attention
    initial,        \* initial_read
    poll_deadline,  \* end of the polling, once a wait has begun
    wakeAt,         \* end of the sleep
    committed,      \* the mutation is durable
    answer,         \* the response
    answeredAt      \* when it was given

routerVars == <<now, method, poll_deadline, pc, task, page, hasPage, alert, initial, wakeAt,
          committed, answer, answeredAt>>

Method == {"mutate", "events", "attention", "poll"}

\* Each state of the task includes the ones before it.
TaskProgress == <<"quiet", "events", "attention", "terminal">>

Progress == {TaskProgress[i] : i \in DOMAIN TaskProgress}

\* "deadline" and "refused" carry effect class NO_EFFECT.
NoEffect == {"deadline", "refused"}

\* A wait_ms of 0 is the method "poll": one read, answered whatever it finds.
RouterInit ==
    /\ now = 0 /\ method \in Method
    /\ pc = "start" /\ task \in Progress /\ page = "quiet" /\ hasPage = FALSE
    /\ alert = FALSE /\ initial = TRUE /\ poll_deadline = 0 /\ wakeAt = 0
    /\ committed = FALSE /\ answer = "none" /\ answeredAt = 0

\* The earlier of the request's deadline and the end of the wait.
PollDeadline ==
    LET wait_deadline == now + (IF method = "poll" THEN 0 ELSE WaitMs)
    IN  IF Deadline < wait_deadline THEN Deadline ELSE wait_deadline

ReadDeadline == IF initial THEN Deadline ELSE poll_deadline

\* Router::remaining fails only when the deadline lies in the past.
Expired(deadline) == now > deadline

Respond(a) ==
    /\ pc' = "done" /\ answer' = a /\ answeredAt' = now

Silent == UNCHANGED <<answer, answeredAt>>

-----------------------------------------------------------------------------
Tick ==
    /\ now < LastTime
    /\ now' = now + 1
    /\ UNCHANGED <<method, poll_deadline, pc, task, page, hasPage, alert, initial, wakeAt,
                   committed, answer, answeredAt>>

TaskAdvances ==
    /\ \E i \in 1..3 :
          task = TaskProgress[i] /\ task' = TaskProgress[i + 1]
    /\ UNCHANGED <<now, method, poll_deadline, pc, page, hasPage, alert, initial, wakeAt,
                   committed, answer, answeredAt>>

\* route and dispatch: an expired request is refused before it is looked at.
Start ==
    /\ pc = "start"
    /\ \/ now >= Deadline /\ Respond("deadline")
       \/ /\ now < Deadline /\ Silent
          /\ pc' = IF method = "mutate" THEN "write" ELSE "wait"
    /\ UNCHANGED <<now, method, poll_deadline, task, page, hasPage, alert, initial, wakeAt,
                   committed>>

\* The writer call: admitted and committed, refused without a trace, or failed
\* in a way that leaves the outcome open.  remaining is checked before it.
Write ==
    /\ pc = "write"
    /\ \/ Expired(Deadline) /\ Respond("deadline") /\ UNCHANGED committed
       \/ ~Expired(Deadline) /\ Respond("refused") /\ UNCHANGED committed
       \/ ~Expired(Deadline) /\ committed' = TRUE /\ pc' = "readback" /\ Silent
       \/ /\ ~Expired(Deadline)
          /\ committed' \in BOOLEAN /\ Respond("unknown")
    /\ UNCHANGED <<now, method, poll_deadline, task, page, hasPage, alert, initial, wakeAt>>

\* The answer is read back from the store: the deadline may pass, the reader
\* pool may be saturated (NO_EFFECT by from_storage), or the read may fail.
ReadBack ==
    /\ pc = "readback"
    /\ \/ ~Expired(Deadline) /\ Respond("ok")
       \/ Expired(Deadline) /\ Respond("deadline")
       \/ ~Expired(Deadline) /\ Respond("refused")
       \/ ~Expired(Deadline) /\ Respond("unknown")
    /\ UNCHANGED <<now, method, poll_deadline, task, page, hasPage, alert, initial, wakeAt,
                   committed>>

-----------------------------------------------------------------------------
(* wait_task.                                                              *)

BeginWait ==
    /\ pc = "wait"
    /\ poll_deadline' = PollDeadline
    /\ pc' = "check"
    /\ UNCHANGED <<now, method, task, page, hasPage, alert, initial, wakeAt,
                   committed, answer, answeredAt>>

\* The head of the loop: the time left for the next read.
CheckTime ==
    /\ pc = "check"
    /\ \/ /\ Expired(ReadDeadline)
          /\ Respond(IF hasPage THEN "page" ELSE "deadline")
       \/ ~Expired(ReadDeadline) /\ pc' = "read" /\ Silent
    /\ UNCHANGED <<now, method, poll_deadline, task, page, hasPage, alert, initial, wakeAt,
                   committed>>

\* public_events_after: a page of what is durable now, or an error.  A query
\* deadline is no error when the poll is over and a page is in hand.
ReadPage ==
    /\ pc = "read"
    /\ \/ /\ page' = task /\ initial' = FALSE /\ Silent
          /\ pc' = IF method = "attention" THEN "snapshot" ELSE "ready"
          /\ alert' = FALSE
       \/ /\ \/ Respond("refused") \/ Respond("unknown")
             \/ now >= poll_deadline /\ hasPage /\ Respond("page")
          /\ UNCHANGED <<page, initial, alert>>
    /\ UNCHANGED <<now, method, poll_deadline, task, hasPage, wakeAt, committed>>

\* The snapshot of until=attention, whose failure is ignored.
ReadSnapshot ==
    /\ pc = "snapshot"
    /\ \/ alert' = FALSE
       \/ alert' = (task \in {"attention", "terminal"})
    /\ pc' = "ready"
    /\ UNCHANGED <<now, method, poll_deadline, task, page, hasPage, initial, wakeAt,
                   committed, answer, answeredAt>>

WaitReady ==
    \/ method = "poll" \/ page = "terminal"
    \/ method = "events" /\ page # "quiet"
    \/ method = "attention" /\ alert

AnswerOrSleep ==
    /\ pc = "ready"
    /\ \/ (WaitReady \/ now >= poll_deadline) /\ Respond("page")
          /\ UNCHANGED hasPage
       \/ /\ ~WaitReady /\ now < poll_deadline
          /\ hasPage' = TRUE /\ pc' = "nap" /\ Silent
    /\ UNCHANGED <<now, method, poll_deadline, task, page, alert, initial, wakeAt, committed>>

\* remaining(poll_deadline)?, then a sleep of at most ten milliseconds.
BeginSleep ==
    /\ pc = "nap"
    /\ \/ Expired(poll_deadline) /\ Respond("deadline") /\ UNCHANGED wakeAt
       \/ /\ ~Expired(poll_deadline) /\ Silent
          /\ wakeAt' = IF poll_deadline - now < 10 THEN poll_deadline ELSE now + 10
          /\ pc' = "sleep"
    /\ UNCHANGED <<now, method, poll_deadline, task, page, hasPage, alert, initial, committed>>

WakeUpOnTime ==
    /\ pc = "sleep" /\ now = wakeAt
    /\ \/ now + 1 >= poll_deadline /\ Respond("page")
       \/ now + 1 < poll_deadline /\ pc' = "check" /\ Silent
    /\ UNCHANGED <<now, method, poll_deadline, task, page, hasPage, alert, initial, wakeAt,
                   committed>>

WakeUp ==
    /\ pc = "sleep" /\ now >= wakeAt
    /\ \/ now + 1 >= poll_deadline /\ Respond("page")
       \/ now + 1 < poll_deadline /\ pc' = "check" /\ Silent
    /\ UNCHANGED <<now, method, poll_deadline, task, page, hasPage, alert, initial, wakeAt,
                   committed>>

-----------------------------------------------------------------------------
Route ==
    \/ Start \/ Write \/ ReadBack
    \/ BeginWait \/ CheckTime \/ ReadPage \/ ReadSnapshot \/ AnswerOrSleep
    \/ BeginSleep \/ WakeUp

RouterNext == Tick \/ TaskAdvances \/ Route

\* The clock and the route worker run on.
RouterFairness == WF_routerVars(Tick) /\ WF_routerVars(Route)

RouterSpec == RouterInit /\ [][RouterNext]_routerVars /\ RouterFairness

-----------------------------------------------------------------------------
\* Every request the router has begun is answered, whatever the store and the
\* clock do between two rounds of its long poll.
EveryRequestAnswered == (pc # "start") ~> (answer # "none")

\* A wait that has read a page does not end in a deadline error.
PageInHandIsReturned ==
    answer = "deadline" => ~hasPage

\* A mutation answered with effect class NO_EFFECT changed nothing.
NoEffectIsTrue == answer \in NoEffect => ~committed

=============================================================================
