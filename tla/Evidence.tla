------------------------------ MODULE Evidence ------------------------------
(***************************************************************************)
(* The evidence rows of one task in storage.rs (task row, events, one-shot  *)
(* questions and their answers, result, outbox, review, command and         *)
(* operation records, tombstone), the transactions that write them, and the *)
(* readers that rebuild each tuple from them: reader.rs inside one snapshot *)
(* and the startup checks of storage.rs.                                    *)
(*                                                                          *)
(* Each transaction replaces the whole committed database `db', and a       *)
(* reader sees one committed database.  A digest is the value it digests:   *)
(* equal digests mean equal commands.  The task's generation is fixed and   *)
(* there is one consumer, the install's own.                                *)
(***************************************************************************)
EXTENDS Domain, Naturals, Sequences, FiniteSets

CONSTANTS
    Questions,      \* interaction ids
    CommandKeys,    \* the idempotency keys clients use
    Times,          \* readings of the clock, which may go back
    Endings,        \* the terminal states the model finalizes with
    Verdicts,       \* the verdicts of reviews
    MaxOutput       \* bound of the model on the events an adapter adds to

ASSUME QuestionsAreFinite == IsFiniteSet(Questions)
ASSUME EndingsAreTerminal == Endings \subseteq Terminal
ASSUME TimesArePositive == Times \subseteq Nat \ {0}      \* 0 stands for NULL

VARIABLES
    db,             \* the committed rows
    owed            \* the transactions an expiry has still to commit

evidenceVars == <<db, owed>>

NoTime == 0         \* SQL NULL in a timestamp column
NoSeq == 0          \* SQL NULL in a sequence column
NoneOwed == [step |-> "none"]

\* `cancelled' is whether tasks.cancel_requested_at is set.
NoRow == [state |-> "ABSENT", last |-> 0, projected |-> 0, version |-> 0,
          terminal_seq |-> NoSeq, terminal_at |-> NoTime, cancelled |-> FALSE]

\* `answered' is the updated_at of an answered question; of others nobody reads it.
EvidenceInit ==
    /\ db = [task |-> NoRow, request |-> {}, events |-> <<>>,
             question |-> [q \in Questions |->
               [state |-> "NONE", expires |-> NoTime, answered |-> NoTime]],
             answers |-> {}, results |-> {}, outbox |-> {}, reviews |-> {},
             dedup |-> {}, operations |-> {}, tombstone |-> {},
             phase |-> "PRE_DISPATCH", reclaimed |-> FALSE, derived |-> "QUEUED"]
    /\ owed = NoneOwed

Ended(s) == s \in Terminal
Live(s) == s \in TaskState

-----------------------------------------------------------------------------
(* Writing rows. *)

\* derive_projection: the state a replay of the events holds after one more.
DeriveProjection(prior, kind, payload) ==
    CASE kind \in {"state_changed", "terminal"} -> payload
      [] kind = "attempt_started" -> "PREPARING"
      [] kind = "interaction_requested" -> "WAITING_APPROVAL"
      [] kind \in {"interaction_decided", "dispatch_phase"} -> "RUNNING"
      [] OTHER -> prior

\* An event that readers do not look into.
Plain(seq) == [seq |-> seq, kind |-> "plain", at |-> NoTime, state |-> "none", result |-> NoSeq]

\* append_event: last_event_seq and projection_event_seq move together, and
\* `derived' is what a replay of the events will yield.
Appended(d, kind, payload) ==
    LET seq == d.task.last + 1
    IN  [d EXCEPT !.task.last = seq, !.task.projected = seq,
                  !.derived = DeriveProjection(@, kind, payload),
                  !.events = Append(@, Plain(seq))]

\* command_dedup: one row per method and key; the digest is the command.
Recorded(d, method, command, locator) ==
    [d EXCEPT !.dedup = @ \cup
       {[method |-> method, key |-> command.key, digest |-> command,
         locator |-> locator]}]

\* command_replay.
CommandReplay(d, method, command) ==
    LET rows == {c \in d.dedup : c.method = method /\ c.key = command.key}
    IN  IF rows = {} THEN "new"
        ELSE IF \E c \in rows : c.digest = command THEN "replayed"
        ELSE "conflict"

IsNew(method, command) == CommandReplay(db, method, command) = "new"

Commit(d) == db' = d /\ UNCHANGED owed
Serving == owed.step = "none"

PendingQuestions(d) == {q \in Questions : d.question[q].state = "PENDING"}

\* The rows of the open questions once they are decided.
Settled(d, status) ==
    [q \in Questions |->
       IF d.question[q].state = "PENDING"
         THEN [d.question[q] EXCEPT !.state = status[q]] ELSE d.question[q]]

\* The open questions are decided, with one event each.
Decided(d, status) ==
    LET pending == PendingQuestions(d)
        n == Cardinality(pending)
    IN  [d EXCEPT !.task.last = @ + n, !.task.projected = d.task.last + n,
                  !.derived = IF pending = {} THEN @
                              ELSE DeriveProjection(@, "interaction_decided", "none"),
                  !.events = @ \o [i \in 1..n |-> Plain(d.task.last + i)],
                  !.question = Settled(d, status)]

-----------------------------------------------------------------------------
(* The transactions. *)

SubmitCommand(k) == [key |-> k, action |-> "submit"]

\* submit_inner with the canonical request of submit_with_request.
SubmitTask(k) ==
    LET queued == [db EXCEPT !.task.state = "QUEUED", !.request = {SubmitCommand(k)}]
    IN  /\ Serving /\ db.task.state = "ABSENT" /\ db.tombstone = {}
        /\ IsNew("submit", SubmitCommand(k))
        /\ Commit(Recorded(Appended(queued, "state_changed", "QUEUED"),
                           "submit", SubmitCommand(k), 0))

\* claim_dispatch_slot, as far as these rows go.
StartAttempt ==
    /\ Serving
    /\ db.task.state = "QUEUED"
    /\ Commit(Appended([db EXCEPT !.task.state = "PREPARING"], "attempt_started", "none"))

\* record_dispatch_phase: a started process makes the task RUNNING.
RecordDispatchPhase(phase) ==
    /\ Serving
    /\ db.task.state \in {"PREPARING", "RUNNING"}
    /\ CanAdvanceTo(db.phase, phase)
    /\ Commit(Appended([db EXCEPT !.phase = phase,
                          !.task.state = IF phase \in Started THEN "RUNNING" ELSE @],
                       "dispatch_phase", "none"))

\* record_adapter_event.
Output ==
    /\ Serving
    /\ db.task.state \in {"PREPARING", "RUNNING", "WAITING_APPROVAL",
                          "CANCEL_REQUESTED", "FINALIZING"}
    /\ db.task.last < MaxOutput
    /\ Commit(Appended(db, "text_delta", "none"))

\* open_interaction.
OpenQuestion(q, expires) ==
    /\ Serving
    /\ db.task.state \in {"PREPARING", "RUNNING"}
    /\ db.question[q].state = "NONE"
    /\ Commit(Appended([db EXCEPT !.task.state = "WAITING_APPROVAL",
                          !.question[q].state = "PENDING", !.question[q].expires = expires],
                       "interaction_requested", "none"))

ResponseCommand(k, q, kind) == [key |-> k, question |-> q, response |-> kind]

\* Faulty: the answer row gets a time of its own.
AnswerRowLate(command, now) ==
    [question |-> command.question, kind |-> command.response, at |-> now + 1]

\* The interaction_responses row.
AnswerRow(command, now) ==
    [question |-> command.question, kind |-> command.response, at |-> now]

\* respond_interaction with the stored nonce and digests.
AnswerQuestion(k, q, kind, now) ==
    LET command == ResponseCommand(k, q, kind)
        answered == [db EXCEPT !.question[q].state = "ANSWERED",
                               !.question[q].answered = now,
                               !.answers = @ \cup {AnswerRow(command, now)},
                               !.task.state = IF @ = "WAITING_APPROVAL" THEN "RUNNING" ELSE @]
    IN  /\ Serving /\ Live(db.task.state)
        /\ IsNew("interaction_response", command)
        /\ db.question[q].state = "PENDING" /\ db.question[q].expires > now
        /\ Commit(Recorded(Appended(answered, "interaction_decided", "none"),
                           "interaction_response", command, q))

\* reclaim_preflight_dispatch_slot, which any approval of the generation opens,
\* whatever other question waits.  Without a slot a RUNNING task is put back to
\* waiting.  The operation is recorded once; repeated, it changes nothing.
ReclaimPreflightSlot ==
    /\ Serving /\ ~db.reclaimed /\ db.phase \in EffectProvenAbsent
    /\ db.task.state \in {"RUNNING", "WAITING_APPROVAL"}
    /\ \E a \in db.answers : a.kind = "approve" /\ db.question[a.question].state = "ANSWERED"
    /\ \/ /\ db.task.state = "RUNNING"
          /\ Commit(Appended([db EXCEPT !.task.state = "WAITING_APPROVAL"],
                             "state_changed", "WAITING_APPROVAL"))
       \/ /\ db.task.state = "RUNNING"
          /\ Commit([db EXCEPT !.reclaimed = TRUE])
       \/ /\ db.task.state = "WAITING_APPROVAL"
          /\ Commit(Appended([db EXCEPT !.task.state = "RUNNING", !.reclaimed = TRUE],
                             "state_changed", "RUNNING"))

CancelCommand(k) == [key |-> k, action |-> "cancel"]

\* request_cancel.  A task that has ended or is being cancelled only gets the
\* command recorded.
CancelTask(k) ==
    LET settled == Decided(db, [q \in Questions |-> "CANCELLED"])
        cancelled == Appended([settled EXCEPT !.task.state = "CANCEL_REQUESTED",
                                              !.task.cancelled = TRUE],
                              "state_changed", "CANCEL_REQUESTED")
        open == ~Ended(db.task.state) /\ db.task.state # "CANCEL_REQUESTED"
    IN  /\ Serving /\ Live(db.task.state)
        /\ IsNew("cancel", CancelCommand(k))
        /\ open => Allows(db.task.state, "CANCEL_REQUESTED")
        /\ Commit(Recorded(IF open THEN cancelled ELSE db, "cancel", CancelCommand(k), 0))

\* transition to FINALIZING.
FinalizeBegins ==
    /\ Serving
    /\ db.task.state \in {"PREPARING", "RUNNING", "WAITING_APPROVAL", "CANCEL_REQUESTED"}
    /\ Allows(db.task.state, "FINALIZING")
    /\ Commit(Appended([db EXCEPT !.task.state = "FINALIZING"],
                       "state_changed", "FINALIZING"))

\* finalize's test of the state: after a cancel request only CANCELLED will do.
MayEnd(terminal) ==
    /\ Allows(db.task.state, terminal)
    /\ db.task.cancelled => terminal = "CANCELLED"

FinalizeCommand(k, terminal) == [key |-> k, action |-> terminal]

\* The rows finalize writes once the open questions are decided: terminal
\* event, result, outbox entry and task.  The result id is fresh, so is seq.
Finalized(d, terminal, now) ==
    LET seq == d.task.last + 1
    IN  [d EXCEPT
           !.task = [@ EXCEPT !.state = terminal, !.last = seq, !.projected = seq, !.version = 1,
                              !.terminal_seq = seq, !.terminal_at = now],
           !.derived = DeriveProjection(@, "terminal", terminal),
           !.events = Append(@, [seq |-> seq, kind |-> "terminal", at |-> now,
                                 state |-> terminal, result |-> seq]),
           !.results = @ \cup {[id |-> seq, seq |-> seq, at |-> now]},
           !.outbox = @ \cup {[result |-> seq, seq |-> seq, at |-> now,
                               acked_at |-> NoTime, review |-> NoSeq]}]

\* What an open question becomes when its task ends.
EndedQuestion(now) ==
    [q \in Questions |-> IF db.question[q].expires <= now THEN "EXPIRED" ELSE "CANCELLED"]

\* finalize for a command that is not recorded yet.
Finalizes(command, now) ==
    LET final == Finalized(Decided(db, EndedQuestion(now)), command.action, now)
    IN  /\ MayEnd(command.action)
        /\ db' = Recorded(final, "finalize", command, final.task.terminal_seq)

\* finalize.
FinalizeTask(k, terminal, now) ==
    /\ Serving
    /\ Live(db.task.state) /\ ~Ended(db.task.state)
    /\ IsNew("finalize", FinalizeCommand(k, terminal))
    /\ Finalizes(FinalizeCommand(k, terminal), now)
    /\ UNCHANGED owed

\* The command an expiry finalizes under: its key is made of the question.
ExpiryCommand(q, how) ==
    FinalizeCommand(<<q, how>>, IF how = "preflight" THEN "CANCELLED" ELSE "NEEDS_ATTENTION")

\* The first transaction of an expiry: question, attempt and task move, and the
\* operation is recorded without its result.
Expires(q, how, now) ==
    LET expired == [db EXCEPT !.question[q].state = "EXPIRED",
                              !.task.state = "FINALIZING",
                              !.operations = @ \cup {[of |-> q, how |-> how, locator |-> NoSeq]}]
    IN  /\ Serving
        /\ db.question[q].state = "PENDING" /\ db.question[q].expires <= now
        /\ db.task.state = "WAITING_APPROVAL"
        /\ db' = Appended(expired, "interaction_decided", "none")
        /\ owed' = [step |-> "finalize", of |-> q, how |-> how]

\* expire_interaction.
ExpireQuestion(q, now) == Expires(q, "timeout", now)

\* expire_preflight_interaction: only while the attempt has not dispatched.
ExpirePreflightQuestion(q, now) ==
    db.phase \in EffectProvenAbsent /\ Expires(q, "preflight", now)

\* Either of them called again with the recorded operation id: a pending
\* locator leads to the finalize, which may be done already.
ExpireAgain(q, how) ==
    /\ Serving
    /\ [of |-> q, how |-> how, locator |-> NoSeq] \in db.operations
    /\ owed' = [step |-> "finalize", of |-> q, how |-> how]
    /\ UNCHANGED db

\* The finalize of an expiry; it fails when the task has ended otherwise.
ExpiryFinalizes(now) ==
    LET command == ExpiryCommand(owed.of, owed.how)
    IN  /\ owed.step = "finalize"
        /\ \/ /\ ~IsNew("finalize", command)
              /\ owed' = [owed EXCEPT !.step = "locator"] /\ UNCHANGED db
           \/ /\ IsNew("finalize", command) /\ Finalizes(command, now)
              /\ owed' = [owed EXCEPT !.step = "locator"]
           \/ /\ IsNew("finalize", command) /\ ~MayEnd(command.action)
              /\ owed' = NoneOwed /\ UNCHANGED db

\* The last statement of an expiry: the operation gets its result.
SetLocator ==
    /\ owed.step = "locator"
    /\ db' = [db EXCEPT !.operations =
                {IF o.of = owed.of /\ o.how = owed.how
                   THEN [o EXCEPT !.locator = db.task.terminal_seq] ELSE o : o \in @}]
    /\ owed' = NoneOwed

\* A transaction of an expiry fails, and the rest is not attempted.
ExpiryCut ==
    /\ ~Serving
    /\ owed' = NoneOwed
    /\ UNCHANGED db

ReviewCommand(k, result, verdict) == [key |-> k, result |-> result, verdict |-> verdict]

ReviewDigest(command) == command

\* review_and_ack for a delivery the client read.  A result that is already
\* acknowledged accepts the same review only.
ReviewResult(k, verdict, now) ==
    \E o \in db.outbox :
      LET command == ReviewCommand(k, o.result, verdict)
          digest == ReviewDigest(command)
          first == [db EXCEPT
            !.reviews = @ \cup {[id |-> o.result, digest |-> digest, verdict |-> verdict,
                                 at |-> now]},
            !.outbox = (@ \ {o}) \cup {[o EXCEPT !.acked_at = now, !.review = o.result]}]
          same == \E r \in db.reviews : /\ r.id = o.review /\ r.digest = digest
                                        /\ r.verdict = verdict
      IN  /\ Serving
          /\ IsNew("review_ack", command)
          /\ o.acked_at # NoTime => same
          /\ Commit(Recorded(IF o.acked_at = NoTime THEN first ELSE db,
                             "review_ack", command, o.result))

\* Faulty: the tombstone keeps the sequence alone.
TombstoneWithoutRequest(d) == [last |-> d.task.last, evicted |-> d.task.last, request |-> {}]

\* The task_tombstones row.
Tombstone(d) == [last |-> d.task.last, evicted |-> d.task.last, request |-> d.request]

\* compact_eligible_tasks for this task, once it is old enough: everything but
\* the tombstone and the command records goes.
CompactTask ==
    /\ Serving
    /\ \E o \in db.outbox : o.acked_at # NoTime
    /\ Commit([db EXCEPT !.task = [NoRow EXCEPT !.state = "COMPACTED"],
                 !.request = {}, !.events = <<>>,
                 !.question = [q \in Questions |->
                   [state |-> "DELETED", expires |-> NoTime, answered |-> NoTime]],
                 !.answers = {}, !.results = {}, !.outbox = {}, !.reviews = {},
                 !.operations = {}, !.phase = "PRE_DISPATCH", !.reclaimed = FALSE,
                 !.derived = "QUEUED",
                 !.tombstone = {Tombstone(db)}])

\* The tasks whose events replay_projections reads.
IsReplayed(d) ==
    /\ Live(d.task.state)
    /\ Ended(d.task.state) => \E o \in d.outbox : o.acked_at = NoTime

\* replay_projections: a state that differs from what the events say is replaced
\* by it, unless either of them is terminal.
ReplayAccepts(d) ==
    IsReplayed(d) /\ d.derived # d.task.state =>
      {d.derived, d.task.state} \cap Terminal = {}

ReplayProjections(d) ==
    IF IsReplayed(d) THEN [d EXCEPT !.task.state = d.derived, !.task.projected = d.task.last]
    ELSE d

\* The process dies, between any two transactions, and the store is opened again.
Reopen ==
    /\ ReplayAccepts(db)
    /\ db' = ReplayProjections(db)
    /\ owed' = NoneOwed

EvidenceNext ==
    \/ Reopen
    \/ \E k \in CommandKeys : SubmitTask(k) \/ CancelTask(k)
    \/ StartAttempt \/ Output \/ FinalizeBegins \/ ReclaimPreflightSlot
    \/ \E phase \in {"SPAWN_PREPARED", "PROCESS_STARTED"} : RecordDispatchPhase(phase)
    \/ \E now \in Times : ExpiryFinalizes(now)
    \/ \E q \in Questions, now \in Times :
         \/ OpenQuestion(q, now + 1)
         \/ ExpireQuestion(q, now)
         \/ ExpirePreflightQuestion(q, now)
    \/ \E q \in Questions, how \in {"timeout", "preflight"} : ExpireAgain(q, how)
    \/ SetLocator
    \/ \E q \in Questions, k \in CommandKeys, kind \in ResponseKind, now \in Times :
         AnswerQuestion(k, q, kind, now)
    \/ \E k \in CommandKeys, terminal \in Endings, now \in Times :
         FinalizeTask(k, terminal, now)
    \/ \E k \in CommandKeys, verdict \in Verdicts, now \in Times :
         ReviewResult(k, verdict, now)
    \/ ExpiryCut
    \/ CompactTask

EvidenceSpec == EvidenceInit /\ [][EvidenceNext]_evidenceVars

-----------------------------------------------------------------------------
(* The readers.  Each says whether it accepts the tuple; otherwise it       *)
(* answers Quarantined.                                                     *)

\* load_cursor: live bounds, or those of the tombstone.
LoadCursor(d) ==
    IF Live(d.task.state) THEN [evicted |-> 0, last |-> d.task.last]
    ELSE LET t == CHOOSE t \in d.tombstone : TRUE
         IN  [evicted |-> t.evicted, last |-> t.last]

\* The contiguity load_event_page requires of the rows it returns.
ContiguousPrefix(d) ==
    LET cursor == LoadCursor(d)
    IN  /\ cursor.evicted <= cursor.last
        /\ Len(d.events) = cursor.last - cursor.evicted
        /\ \A n \in DOMAIN d.events : d.events[n].seq = cursor.evicted + n

\* verify_terminal_event.
VerifyTerminalEvent(d, seq, result) ==
    \E n \in DOMAIN d.events :
      LET e == d.events[n]
      IN  /\ e.seq = seq /\ e.kind = "terminal" /\ e.at = d.task.terminal_at
          /\ e.state = d.task.state /\ e.result = result

\* verify_review_command_binding: exactly one recorded command
\* names the result, and rebuilding that command gives the review's digest.
VerifyReviewCommandBinding(d, result, review) ==
    LET bound == {c \in d.dedup : c.method = "review_ack" /\ c.locator = result}
    IN  \E c \in bound :
          /\ bound = {c}
          /\ c.digest = review.digest
          /\ review.digest = ReviewCommand(c.key, result, review.verdict)

\* load_review.
LoadReview(d, o) ==
    IF o.acked_at = NoTime /\ o.review = NoSeq THEN d.reviews = {}
    ELSE \E r \in d.reviews :
           /\ d.reviews = {r} /\ r.id = o.review
           /\ r.at = o.acked_at
           /\ VerifyReviewCommandBinding(d, o.result, r)

\* load_result.
LoadResult(d) ==
    LET t == d.task
    IN  IF ~Ended(t.state)
        THEN /\ t.version = 0 /\ t.terminal_seq = NoSeq /\ t.terminal_at = NoTime
             /\ d.results = {} /\ d.outbox = {}
        ELSE /\ t.version = 1 /\ t.last = t.terminal_seq /\ t.projected = t.terminal_seq
             /\ \E r \in d.results, o \in d.outbox :
                  /\ d.results = {r} /\ d.outbox = {o}
                  /\ r.seq = t.terminal_seq /\ o.seq = t.terminal_seq
                  /\ o.result = r.id /\ r.at = o.at /\ t.terminal_at = r.at
                  /\ VerifyTerminalEvent(d, t.terminal_seq, r.id)
                  /\ LoadReview(d, o)

\* verify_interaction_command_binding.
VerifyInteractionCommandBinding(d, q, kind) ==
    LET bound == {c \in d.dedup : c.method = "interaction_response" /\ c.locator = q}
    IN  \E c \in bound : bound = {c} /\ c.digest = ResponseCommand(c.key, q, kind)

\* load_interaction_response: the one answer row of an answered question.
LoadInteractionResponse(d, q) ==
    LET rows == {a \in d.answers : a.question = q}
    IN  IF d.question[q].state # "ANSWERED" THEN rows = {}
        ELSE \E a \in rows : rows = {a} /\ VerifyInteractionCommandBinding(d, q, a.kind)

\* load_interaction_by_id.
LoadInteraction(d, q) ==
    /\ LoadInteractionResponse(d, q)
    /\ \A a \in d.answers : a.question = q => a.at = d.question[q].answered

\* load_pending_interaction.
LoadPendingInteraction(d) == \A q, r \in PendingQuestions(d) : q = r

\* The rows of load_snapshot other than the open question.
LoadRows(d) ==
    /\ \A q \in Questions : LoadInteraction(d, q)
    /\ LoadResult(d)

\* load_snapshot.
LoadSnapshot(d) ==
    /\ LoadPendingInteraction(d)
    /\ LoadRows(d)

\* load_task_request.
LoadTaskRequest(d) == Live(d.task.state) => d.request # {}

-----------------------------------------------------------------------------
(* The same evidence as the writer checks it when the store is opened.      *)

\* verify_mandatory_task_requests: of unfinished tasks only.
VerifyMandatoryTaskRequests(d) ==
    Live(d.task.state) /\ ~Ended(d.task.state) => \E c \in d.request : d.request = {c}

\* validate_interaction_response_metadata and load_interaction_response_evidence:
\* the rows that a question's answer can be built from.
InteractionResponseEvidence(d, q) ==
    {a \in d.answers : a.question = q /\ d.question[q].state = "ANSWERED"}

\* verify_interaction_response_command_binding.
VerifyInteractionResponseCommandBinding(d, a) ==
    LET bound == {c \in d.dedup : c.method = "interaction_response" /\ c.locator = a.question}
    IN  \E c \in bound : bound = {c} /\ c.digest = ResponseCommand(c.key, a.question, a.kind)

\* verify_interaction_evidence.
VerifyInteractionEvidence(d) ==
    \A q \in Questions :
      IF d.question[q].state = "ANSWERED"
      THEN \E a \in InteractionResponseEvidence(d, q) :
             VerifyInteractionResponseCommandBinding(d, a)
      ELSE \A a \in d.answers : a.question # q

\* Storage::verify_review_command_binding.
VerifyStoredReviewBinding(d, result, review) ==
    LET bound == {c \in d.dedup : c.method = "review_ack" /\ c.locator = result}
    IN  \E c \in bound :
          /\ bound = {c} /\ c.digest = review.digest
          /\ c.digest = ReviewCommand(c.key, result, review.verdict)

\* verify_review_evidence.
VerifyReviewEvidence(d) ==
    \A o \in d.outbox :
      IF o.acked_at = NoTime THEN o.review = NoSeq
      ELSE \E r \in d.reviews : r.id = o.review /\ VerifyStoredReviewBinding(d, o.result, r)

-----------------------------------------------------------------------------
(* Replays of recorded commands. *)

\* verify_task_request_tx: the stored request, or the tombstone's digest.
VerifyTaskRequest(d, command) ==
    \/ command \in d.request
    \/ d.request = {} /\ \E t \in d.tombstone : command \in t.request

\* verify_interaction_response_replay_tx.
VerifyInteractionResponseReplay(d, command) ==
    \E a \in InteractionResponseEvidence(d, command.question) : a.kind = command.response

\* verify_review_replay_tx.
VerifyReviewReplay(d, command) ==
    \E o \in d.outbox, r \in d.reviews :
      /\ o.result = command.result /\ o.acked_at # NoTime /\ r.id = o.review
      /\ r.digest = ReviewDigest(command) /\ r.verdict = command.verdict

\* load_delivery.
LoadDelivery(d, locator) == \E o \in d.outbox : o.result = locator

\* What a client gets that sends a recorded command once more.
Replayed(d, c) ==
    CASE c.method = "submit" -> VerifyTaskRequest(d, c.digest)
      [] c.method = "interaction_response" -> VerifyInteractionResponseReplay(d, c.digest)
      [] c.method = "review_ack" -> VerifyReviewReplay(d, c.digest)
      [] c.method = "finalize" -> LoadDelivery(d, c.locator)
      [] c.method = "cancel" -> TRUE

-----------------------------------------------------------------------------
(* Properties. *)

\* Whatever order submissions, answers, reclaims, cancellations, expiries,
\* finalizations, reviews, restarts and compactions commit in, a reader never
\* finds a tuple that it must quarantine: pages are contiguous, an ended task has
\* its one result, delivery, terminal event and review, and every answer and
\* review rebuilds the recorded command it came from; the store opens again.
\* Only after a slot was reclaimed may more than one question be open.
ReadsNeverQuarantine ==
    /\ db.task.state # "ABSENT" => ContiguousPrefix(db)
    /\ LoadRows(db)
    /\ db.reclaimed \/ LoadPendingInteraction(db)
    /\ ReplayAccepts(db)
    /\ LoadTaskRequest(db) /\ VerifyMandatoryTaskRequests(db)
    /\ VerifyReviewEvidence(db)
    /\ VerifyInteractionEvidence(db)

\* Refuted, with three questions: the snapshot of a task can always be read.  A
\* slot that is reclaimed for an earlier approval makes a task with an open
\* question RUNNING, so that it may open a second one; every snapshot of the
\* task is then quarantined ("task has multiple pending interactions").
SnapshotsAreReadable == LoadSnapshot(db)

\* A command sent again after its answer was lost gets that answer, however
\* much happened in between, until retention removes the task; a submission
\* and a cancel get it even then.  The result of an expiry that was cut short
\* is found again as well.
RecordedCommandsReplay ==
    /\ \A o \in db.operations : o.locator # NoSeq => LoadDelivery(db, o.locator)
    /\ \A c \in db.dedup :
         Live(db.task.state) \/ c.method \in {"submit", "cancel"} => Replayed(db, c)

=============================================================================
