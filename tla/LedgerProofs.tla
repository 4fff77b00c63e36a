--------------------------- MODULE LedgerProofs ----------------------------
(***************************************************************************)
(* What the store keeps, for any questions, commands, callers and times:   *)
(* the evidence of a task fits and replays, nothing acts without consent, a*)
(* restore loses nothing and a purge is audited.                           *)
(***************************************************************************)
EXTENDS Evidence, Approvals, Backup, PurgeTree, FiniteSetTheorems, TLAPS

-----------------------------------------------------------------------------
(* Evidence: the rows of a task.                                           *)

\* The methods a command is recorded under.
Methods == {"submit", "interaction_response", "review_ack", "finalize", "cancel"}

\* The states of a question's row.
QuestionState == {"NONE", "PENDING", "ANSWERED", "EXPIRED", "CANCELLED", "DELETED"}
\* A row of the events table.
EventRow == [seq : Nat, kind : {"plain", "terminal"}, at : Nat,
             state : TaskState \cup {"none"}, result : Nat]
\* The states of the task's row, and of one that is not there.
RowState == TaskState \cup {"ABSENT", "COMPACTED"}
\* The row of the task.
TaskRow == [state : RowState, last : Nat, projected : Nat, version : Nat,
            terminal_seq : Nat, terminal_at : Nat, cancelled : BOOLEAN]
\* The row of a question.
QuestionRow == [state : QuestionState, expires : Nat, answered : Nat]

\* Every table holds rows of its own.
RowsHaveShape(d) ==
  /\ DOMAIN d = {"task", "request", "events", "question", "answers", "results", "outbox",
                 "reviews", "dedup", "operations", "tombstone", "phase", "reclaimed", "derived"}
  /\ d.task \in TaskRow
  /\ d.events \in Seq(EventRow)
  /\ d.question \in [Questions -> QuestionRow]
  /\ d.derived \in TaskState
  /\ \A c \in d.dedup : c.method \in Methods

\* Nothing was written before the submission.
NoEvidence(d) ==
  /\ d.task = [NoRow EXCEPT !.state = d.task.state]
  /\ d.request = {} /\ d.events = <<>> /\ d.answers = {} /\ d.results = {}
  /\ d.outbox = {} /\ d.reviews = {} /\ d.operations = {}
  /\ \A q \in Questions : d.question[q].state \in {"NONE", "DELETED"}

\* The three lives of a task, and where its submission is kept in each.
SubmissionIsKept(d) ==
  \/ d.task.state = "ABSENT" /\ NoEvidence(d) /\ d.dedup = {} /\ d.tombstone = {}
  \/ /\ d.task.state \in TaskState /\ d.tombstone = {}
     /\ \E command \in d.request :
          /\ d.request = {command}
          /\ \A c \in d.dedup : c.method = "submit" => c.digest = command
  \/ /\ d.task.state = "COMPACTED" /\ NoEvidence(d)
     /\ \E t \in d.tombstone :
          /\ d.tombstone = {t} /\ t.last \in Nat /\ t.evicted = t.last
          /\ \A c \in d.dedup : c.method = "submit" => c.digest \in t.request

\* The events of a live task are numbered from 1 to its last sequence number.
EventsAreCounted(d) ==
  Live(d.task.state) =>
    /\ Len(d.events) = d.task.last /\ d.task.projected = d.task.last
    /\ \A n \in DOMAIN d.events : d.events[n].seq = n

Waiting == {"WAITING_APPROVAL", "FINALIZING"}

\* One question waits at most, in the row and in what a replay makes of the
\* events, unless a slot was reclaimed.
OneQuestionWaits(d) ==
  \/ d.reclaimed = TRUE
  \/ /\ \A q, r \in PendingQuestions(d) : q = r
     /\ PendingQuestions(d) # {} => d.task.state \in Waiting /\ d.derived \in Waiting

\* Answers, the questions they answer and the commands they came in go together.
AnswersAreBound(d) ==
  /\ \A q \in Questions :
       IF d.question[q].state = "ANSWERED"
       THEN \E a \in d.answers, c \in d.dedup :
              /\ {b \in d.answers : b.question = q} = {a}
              /\ a.at = d.question[q].answered
              /\ {b \in d.dedup : b.method = "interaction_response" /\ b.locator = q} = {c}
              /\ c.digest = ResponseCommand(c.key, q, a.kind)
       ELSE {b \in d.answers : b.question = q} = {}
  /\ Live(d.task.state) =>
       \A c \in d.dedup : c.method = "interaction_response" =>
         c.locator \in Questions /\ d.question[c.locator].state = "ANSWERED"

\* The fields of an expiry operation.
Operation == {"of", "how", "locator"}
\* The fields of a delivery in the outbox.
Delivery == {"result", "seq", "at", "acked_at", "review"}

\* The end of a task and the rows written with it.  A replay of the events ends
\* the task exactly when its row has ended.
EndIsWhole(d) ==
  IF Ended(d.task.state)
  THEN LET seq == d.task.terminal_seq
       IN /\ seq # NoSeq /\ d.task.last = seq /\ d.task.version = 1
          /\ d.results = {[id |-> seq, seq |-> seq, at |-> d.task.terminal_at]}
          /\ \E o \in d.outbox :
               /\ d.outbox = {o} /\ DOMAIN o = Delivery
               /\ o.result = seq /\ o.seq = seq /\ o.at = d.task.terminal_at
          /\ d.events[seq].kind = "terminal" /\ d.events[seq].at = d.task.terminal_at
          /\ d.events[seq].state = d.task.state /\ d.events[seq].result = seq
          /\ PendingQuestions(d) = {} /\ d.derived = d.task.state
  ELSE /\ d.task.version = 0 /\ d.task.terminal_seq = NoSeq /\ d.task.terminal_at = NoTime
       /\ d.results = {} /\ d.outbox = {} /\ ~Ended(d.derived)

\* A review is there exactly when the delivery is acknowledged, and it is the one
\* its command asked for.
ReviewIsBound(d) ==
  /\ d.outbox = {} => d.reviews = {}
  /\ \A o \in d.outbox :
       LET bound == {c \in d.dedup : c.method = "review_ack" /\ c.locator = o.result}
       IN IF o.acked_at = NoTime
          THEN o.review = NoSeq /\ d.reviews = {} /\ bound = {}
          ELSE \E r \in d.reviews, c \in bound :
                 /\ d.reviews = {r} /\ r.id = o.review /\ r.at = o.acked_at
                 /\ bound = {c} /\ c.digest = r.digest
                 /\ r.digest = ReviewCommand(c.key, o.result, r.verdict)
  /\ Live(d.task.state) =>
       \A c \in d.dedup : c.method = "review_ack" => \E o \in d.outbox : o.result = c.locator

\* Recorded ends lead to the delivery.
EndsAreFound(d) ==
  /\ Live(d.task.state) =>
       \A c \in d.dedup : c.method = "finalize" =>
         Ended(d.task.state) /\ c.locator = d.task.terminal_seq
  /\ \A o \in d.operations :
       /\ DOMAIN o = Operation
       /\ o.locator # NoSeq => Ended(d.task.state) /\ o.locator = d.task.terminal_seq

\* What the rows of a task owe to one another.
EvidenceSound(d) ==
  /\ RowsHaveShape(d) /\ SubmissionIsKept(d) /\ EventsAreCounted(d) /\ OneQuestionWaits(d)
  /\ AnswersAreBound(d) /\ EndIsWhole(d) /\ ReviewIsBound(d) /\ EndsAreFound(d)

\* What an expiry still owes is the end of a task that is there.
OwedIsDue ==
  \/ owed = NoneOwed
  \/ /\ owed \in [step : {"finalize", "locator"}, of : Questions, how : {"timeout", "preflight"}]
     /\ Live(db.task.state)
     /\ owed.step = "locator" => Ended(db.task.state)

\* The inductive invariant.
EvidenceInvariant == EvidenceSound(db) /\ OwedIsDue

-----------------------------------------------------------------------------
\* It holds of an empty store.
LEMMA EvidenceStarts == EvidenceInit => EvidenceInvariant
<1>. SUFFICES ASSUME EvidenceInit PROVE EvidenceInvariant
  BY Zenon
<1>1. RowsHaveShape(db)
  <2>1. NoRow \in TaskRow
    BY Zenon DEF NoRow, TaskRow, NoSeq, NoTime, RowState
  <2>2. <<>> \in Seq(EventRow)
    OBVIOUS
  <2>3. [q \in Questions |-> [state |-> "NONE", expires |-> NoTime, answered |-> NoTime]]
          \in [Questions -> QuestionRow]
    BY Zenon DEF QuestionRow, NoTime, QuestionState
  <2>. QED BY Zenon, <2>1, <2>2, <2>3 DEF EvidenceInit, RowsHaveShape, TaskState
<1>2. SubmissionIsKept(db)
  BY Zenon DEF EvidenceInit, SubmissionIsKept, NoEvidence, NoRow
<1>3. EventsAreCounted(db) /\ OneQuestionWaits(db) /\ AnswersAreBound(db)
  BY Zenon DEF EvidenceInit, EventsAreCounted, OneQuestionWaits, AnswersAreBound, PendingQuestions, NoRow,
         Live, TaskState, Terminal
<1>4. EndIsWhole(db) /\ ReviewIsBound(db) /\ EndsAreFound(db)
  BY Zenon DEF EvidenceInit, EndIsWhole, ReviewIsBound, EndsAreFound, NoRow, Live, Ended, TaskState, Terminal
<1>. QED BY Zenon, <1>1, <1>2, <1>3, <1>4 DEF EvidenceInvariant, EvidenceSound, OwedIsDue, EvidenceInit

\* e has one event more than d.
EventAdded(d, e) ==
  /\ \E entry \in EventRow : entry.seq = d.task.last + 1 /\ e.events = Append(d.events, entry)
  /\ e.task.last = d.task.last + 1 /\ e.task.projected = d.task.last + 1

\* e differs from d in its events, its questions and the task's state at most.
SameEnd(d, e) ==
  /\ DOMAIN e = DOMAIN d
  /\ e.task.version = d.task.version /\ e.task.terminal_seq = d.task.terminal_seq
  /\ e.task.terminal_at = d.task.terminal_at
  /\ e.request = d.request /\ e.tombstone = d.tombstone /\ e.dedup = d.dedup
  /\ e.results = d.results /\ e.outbox = d.outbox /\ e.reviews = d.reviews

\* The counters of a row.
LEMMA TaskRowKeepsShape ==
  ASSUME NEW t \in TaskRow, NEW n \in Nat
  PROVE  [t EXCEPT !.last = n, !.projected = n] \in TaskRow
BY Zenon DEF TaskRow

\* append_event adds one row with the next number and leaves the rest.
LEMMA AppendedRow ==
  ASSUME NEW d, RowsHaveShape(d), NEW kind, NEW payload,
         DeriveProjection(d.derived, kind, payload) \in TaskState
  PROVE  LET e == Appended(d, kind, payload)
         IN /\ RowsHaveShape(e) /\ EventAdded(d, e) /\ SameEnd(d, e)
            /\ e.task.state = d.task.state /\ e.question = d.question /\ e.answers = d.answers
            /\ e.operations = d.operations /\ e.reclaimed = d.reclaimed
            /\ e.derived = DeriveProjection(d.derived, kind, payload)
<1>. DEFINE entry == Plain(d.task.last + 1)
            e == Appended(d, kind, payload)
<1>1. entry \in EventRow /\ entry.seq = d.task.last + 1
  BY DEF EventRow, RowsHaveShape, TaskRow, NoTime, NoSeq, Plain
<1>2. /\ DOMAIN e = DOMAIN d
      /\ e.events = Append(d.events, entry)
      /\ e.task = [d.task EXCEPT !.last = d.task.last + 1, !.projected = d.task.last + 1]
      /\ e.request = d.request /\ e.tombstone = d.tombstone /\ e.dedup = d.dedup
      /\ e.results = d.results /\ e.outbox = d.outbox /\ e.reviews = d.reviews
      /\ e.question = d.question /\ e.answers = d.answers /\ e.operations = d.operations
      /\ e.reclaimed = d.reclaimed /\ e.derived = DeriveProjection(d.derived, kind, payload)
  BY Zenon DEF Appended, RowsHaveShape, TaskRow
<1>. HIDE DEF e, entry
<1>3. /\ e.task \in TaskRow /\ e.task.state = d.task.state
      /\ e.task.last = d.task.last + 1 /\ e.task.projected = d.task.last + 1
      /\ e.task.version = d.task.version /\ e.task.terminal_seq = d.task.terminal_seq
      /\ e.task.terminal_at = d.task.terminal_at
  <2>1. d.task \in TaskRow /\ d.task.last + 1 \in Nat
    BY DEF RowsHaveShape, TaskRow
  <2>2. e.task \in TaskRow
    BY Zenon, <1>2, <2>1, TaskRowKeepsShape
  <2>. QED BY Zenon, <1>2, <2>1, <2>2 DEF TaskRow
<1>4. RowsHaveShape(e)
  BY <1>1, <1>2, <1>3 DEF RowsHaveShape
<1>5. EventAdded(d, e)
  BY Zenon, <1>1, <1>2, <1>3 DEF EventAdded
<1>6. SameEnd(d, e)
  BY Zenon, <1>2, <1>3 DEF SameEnd
<1>. QED BY Zenon, <1>2, <1>3, <1>4, <1>5, <1>6 DEF e

\* So the events stay numbered.
LEMMA EventsStayCounted ==
  ASSUME NEW d, NEW e, RowsHaveShape(d), EventsAreCounted(d), Live(d.task.state), EventAdded(d, e)
  PROVE  EventsAreCounted(e)
<1>1. PICK entry \in EventRow : entry.seq = d.task.last + 1 /\ e.events = Append(d.events, entry)
  BY Zenon DEF EventAdded
<1>2. Len(e.events) = Len(d.events) + 1 /\ Len(d.events) = d.task.last /\ d.task.last \in Nat
      /\ \A n \in DOMAIN d.events : d.events[n].seq = n /\ e.events[n] = d.events[n]
      /\ e.events[Len(d.events) + 1] = entry /\ DOMAIN d.events = 1 .. Len(d.events)
      /\ DOMAIN e.events = 1 .. Len(d.events) + 1
  BY <1>1 DEF EventsAreCounted, RowsHaveShape, TaskRow
<1>. QED BY <1>1, <1>2 DEF EventsAreCounted, EventAdded

\* A step of an unfinished task that answers nothing.
LEMMA UnfinishedStep ==
  ASSUME NEW d, NEW e, EvidenceSound(d), RowsHaveShape(e), EventsAreCounted(e), SameEnd(d, e),
         d.task.state \in TaskState \ Terminal, e.task.state \in TaskState \ Terminal,
         e.derived \in TaskState \ Terminal, e.answers = d.answers,
         \A q \in Questions : \/ e.question[q] = d.question[q]
                              \/ "ANSWERED" \notin {e.question[q].state, d.question[q].state},
         \A o \in e.operations \ d.operations : DOMAIN o = Operation /\ o.locator = NoSeq,
         OneQuestionWaits(e)
  PROVE  EvidenceSound(e)
<1>1. Live(d.task.state) /\ Live(e.task.state) /\ ~Ended(d.task.state) /\ ~Ended(e.task.state)
      /\ ~Ended(e.derived) /\ d.task.state \notin {"ABSENT", "COMPACTED"}
  BY Zenon DEF Live, Ended, TaskState, Terminal
<1>3. SubmissionIsKept(e)
  BY <1>1 DEF EvidenceSound, SubmissionIsKept, SameEnd, Live
<1>4. AnswersAreBound(e)
  BY <1>1 DEF EvidenceSound, AnswersAreBound, SameEnd
<1>5. EndIsWhole(e) /\ ReviewIsBound(e) /\ EndsAreFound(e)
  BY Zenon, <1>1 DEF EvidenceSound, EndIsWhole, ReviewIsBound, EndsAreFound, SameEnd
<1>. QED BY Zenon, <1>3, <1>4, <1>5 DEF EvidenceSound

\* Several events added at once are numbered as well.
LEMMA EventsAreExtended ==
  ASSUME NEW s \in Seq(EventRow), NEW n \in Nat, \A i \in DOMAIN s : s[i].seq = i
  PROVE  LET t == s \o [i \in 1..n |-> Plain(Len(s) + i)]
         IN t \in Seq(EventRow) /\ Len(t) = Len(s) + n /\ \A i \in DOMAIN t : t[i].seq = i
<1>. DEFINE more == [i \in 1..n |-> Plain(Len(s) + i)]
            t == s \o more
<1>1. \A i \in 1..n : Plain(Len(s) + i) \in EventRow /\ Plain(Len(s) + i).seq = Len(s) + i
  BY DEF Plain, EventRow, NoTime, NoSeq
<1>2. more \in Seq(EventRow) /\ Len(more) = n /\ \A i \in 1..n : more[i].seq = Len(s) + i
  <2>1. more \in [1..n -> EventRow] /\ \A i \in 1..n : more[i].seq = Len(s) + i
    BY Zenon, <1>1
  <2>. HIDE DEF more
  <2>2. more \in Seq(EventRow)
    BY <2>1
  <2>3. Len(more) = n
    BY <2>1, <2>2
  <2>. QED BY Zenon, <2>1, <2>2, <2>3
<1>. HIDE DEF more
<1>3. t \in Seq(EventRow) /\ Len(t) = Len(s) + n /\ DOMAIN t = 1..(Len(s) + n)
  <2>1. t \in Seq(EventRow) /\ Len(t) = Len(s) + Len(more)
    BY <1>2
  <2>. HIDE DEF t
  <2>. QED BY <1>2, <2>1
<1>4. \A i \in 1..(Len(s) + n) : t[i] = IF i <= Len(s) THEN s[i] ELSE more[i - Len(s)]
  BY <1>2
<1>5. ASSUME NEW i \in 1..(Len(s) + n) PROVE t[i].seq = i
  <2>1. CASE i <= Len(s)
    BY <1>4, <2>1
  <2>2. CASE ~(i <= Len(s))
    <3>1. i - Len(s) \in 1..n /\ Len(s) + (i - Len(s)) = i
      BY <2>2
    <3>. QED BY <1>2, <1>4, <2>2, <3>1
  <2>. QED BY <2>1, <2>2
<1>. QED BY <1>3, <1>5 DEF more

\* What deciding the open questions of an unfinished task leaves.
LEMMA DecidingIsSound ==
  ASSUME NEW d, EvidenceSound(d), d.task.state \in TaskState \ Terminal,
         NEW status \in [Questions -> {"EXPIRED", "CANCELLED"}]
  PROVE  LET e == Decided(d, status)
         IN /\ EvidenceSound(e) /\ SameEnd(d, e) /\ e.task.state = d.task.state
            /\ e.answers = d.answers /\ e.operations = d.operations
            /\ PendingQuestions(e) = {}
<1>. DEFINE e == Decided(d, status)
            settled == Settled(d, status)
            n == Cardinality(PendingQuestions(d))
            projected == IF PendingQuestions(d) = {} THEN d.derived
                         ELSE DeriveProjection(d.derived, "interaction_decided", "none")
            events == d.events \o [i \in 1..n |-> Plain(d.task.last + i)]
<1>0. RowsHaveShape(d) /\ d.question \in [Questions -> QuestionRow] /\ d.task \in TaskRow
      /\ d.events \in Seq(EventRow) /\ Live(d.task.state) /\ ~Ended(d.task.state)
  BY Zenon DEF EvidenceSound, RowsHaveShape, Live, Ended
<1>1. /\ settled \in [Questions -> QuestionRow]
      /\ \A q \in Questions : settled[q].state # "PENDING"
      /\ \A q \in Questions : \/ settled[q] = d.question[q]
                              \/ "ANSWERED" \notin {settled[q].state, d.question[q].state}
  <2>1. ASSUME NEW q \in Questions
        PROVE  /\ settled[q] \in QuestionRow /\ settled[q].state # "PENDING"
               /\ \/ settled[q] = d.question[q]
                  \/ "ANSWERED" \notin {settled[q].state, d.question[q].state}
    <3>1. d.question[q] \in QuestionRow /\ status[q] \in {"EXPIRED", "CANCELLED"}
      BY Zenon, <1>0
    <3>. QED BY Zenon, <3>1 DEF Settled, QuestionRow, QuestionState
  <2>. QED BY Zenon, <2>1 DEF Settled
<1>2. n \in Nat /\ d.task.last + n \in Nat
  <2>1. PendingQuestions(d) \in SUBSET Questions
    BY Zenon DEF PendingQuestions
  <2>2. n \in Nat
    BY Zenon, <2>1, QuestionsAreFinite, FS_Subset, FS_CardinalityType
  <2>. HIDE DEF n
  <2>. QED BY <1>0, <2>2 DEF TaskRow
<1>3. projected \in TaskState \ Terminal
  BY Zenon, <1>0 DEF EvidenceSound, RowsHaveShape, EndIsWhole, Ended, DeriveProjection, TaskState, Terminal
<1>4. e = [d EXCEPT !.task.last = @ + n, !.task.projected = d.task.last + n, !.derived = projected,
                    !.events = events, !.question = settled]
  BY Zenon DEF Decided
<1>5. /\ events \in Seq(EventRow) /\ Len(events) = d.task.last + n
      /\ \A i \in DOMAIN events : events[i].seq = i
  <2>1. Len(d.events) = d.task.last /\ \A i \in DOMAIN d.events : d.events[i].seq = i
    BY Zenon, <1>0 DEF EvidenceSound, EventsAreCounted
  <2>. QED BY Zenon, <1>0, <1>2, <2>1, EventsAreExtended
<1>. HIDE DEF settled, n, projected, events, e
<1>6. /\ DOMAIN e = DOMAIN d /\ e.request = d.request /\ e.answers = d.answers
      /\ e.results = d.results /\ e.outbox = d.outbox /\ e.reviews = d.reviews
      /\ e.dedup = d.dedup /\ e.operations = d.operations /\ e.tombstone = d.tombstone
      /\ e.question = settled /\ e.events = events /\ e.derived = projected
      /\ e.task = [d.task EXCEPT !.last = d.task.last + n, !.projected = d.task.last + n]
  BY Zenon, <1>0, <1>4 DEF RowsHaveShape, TaskRow
<1>7. /\ e.task \in TaskRow /\ e.task.state = d.task.state
      /\ e.task.last = d.task.last + n /\ e.task.projected = d.task.last + n
      /\ e.task.version = d.task.version /\ e.task.terminal_seq = d.task.terminal_seq
      /\ e.task.terminal_at = d.task.terminal_at
  <2>. DEFINE last == d.task.last + n
  <2>2. last \in Nat
    BY Zenon, <1>2
  <2>. HIDE DEF last
  <2>3. [d.task EXCEPT !.last = last, !.projected = last] \in TaskRow
    BY Zenon, <1>0, <2>2, TaskRowKeepsShape
  <2>1. e.task \in TaskRow
    BY Zenon, <1>6, <2>3 DEF last
  <2>. QED BY Zenon, <1>0, <1>6, <2>1 DEF TaskRow
<1>8. RowsHaveShape(e)
  BY Zenon, <1>0, <1>1, <1>3, <1>5, <1>6, <1>7 DEF RowsHaveShape
<1>9. SameEnd(d, e) /\ EventsAreCounted(e)
  BY Zenon, <1>5, <1>6, <1>7 DEF SameEnd, EventsAreCounted
<1>10. PendingQuestions(e) = {}
  BY Zenon, <1>1, <1>6 DEF PendingQuestions
<1>11. OneQuestionWaits(e)
  BY Zenon, <1>10 DEF OneQuestionWaits
<1>12. e.operations \ d.operations = {}
  BY Zenon, <1>6
<1>13. EvidenceSound(e)
  BY Zenon, <1>1, <1>3, <1>6, <1>7, <1>8, <1>9, <1>11, <1>12, UnfinishedStep
<1>. QED BY Zenon, <1>6, <1>7, <1>9, <1>10, <1>13 DEF e

\* Answers and their commands do not notice a row of another method.
LEMMA AnswersStay ==
  ASSUME NEW d, NEW e, AnswersAreBound(d), e.question = d.question, e.answers = d.answers,
         Live(e.task.state) => Live(d.task.state), d.dedup \subseteq e.dedup,
         \A c \in e.dedup : c.method = "interaction_response" => c \in d.dedup
  PROVE  AnswersAreBound(e)
<1>1. \A q : {b \in e.dedup : b.method = "interaction_response" /\ b.locator = q}
           = {b \in d.dedup : b.method = "interaction_response" /\ b.locator = q}
  BY Zenon
<1>2. ASSUME NEW q \in Questions, e.question[q].state = "ANSWERED"
      PROVE  \E a \in e.answers, c \in e.dedup :
               /\ {b \in e.answers : b.question = q} = {a}
               /\ a.at = e.question[q].answered
               /\ {b \in e.dedup : b.method = "interaction_response" /\ b.locator = q} = {c}
               /\ c.digest = ResponseCommand(c.key, q, a.kind)
  <2>1. PICK a \in d.answers, c \in d.dedup :
               /\ {b \in d.answers : b.question = q} = {a}
               /\ a.at = d.question[q].answered
               /\ {b \in d.dedup : b.method = "interaction_response" /\ b.locator = q} = {c}
               /\ c.digest = ResponseCommand(c.key, q, a.kind)
    BY Zenon, <1>2 DEF AnswersAreBound
  <2>2. a \in e.answers /\ c \in e.dedup
    BY Zenon
  <2>. QED BY Zenon, <1>1, <2>1, <2>2
<1>3. \A q \in Questions : e.question[q].state # "ANSWERED" =>
                           {b \in e.answers : b.question = q} = {}
  BY ZenonT(60) DEF AnswersAreBound
<1>4. Live(e.task.state) =>
        \A c \in e.dedup : c.method = "interaction_response" =>
          c.locator \in Questions /\ e.question[c.locator].state = "ANSWERED"
  BY Zenon DEF AnswersAreBound
<1>. QED BY Zenon, <1>2, <1>3, <1>4 DEF AnswersAreBound

\* Nor does the review.
LEMMA ReviewStays ==
  ASSUME NEW d, NEW e, ReviewIsBound(d), e.outbox = d.outbox, e.reviews = d.reviews,
         Live(e.task.state) => Live(d.task.state), d.dedup \subseteq e.dedup,
         \A c \in e.dedup : c.method = "review_ack" => c \in d.dedup
  PROVE  ReviewIsBound(e)
<1>1. \A r : {c \in e.dedup : c.method = "review_ack" /\ c.locator = r}
           = {c \in d.dedup : c.method = "review_ack" /\ c.locator = r}
  BY Zenon
<1>2. Live(e.task.state) =>
        \A c \in e.dedup : c.method = "review_ack" => \E o \in e.outbox : o.result = c.locator
  BY Zenon DEF ReviewIsBound
<1>. DEFINE Bound(x, o) == {c \in x.dedup : c.method = "review_ack" /\ c.locator = o.result}
<1>3. \A o \in e.outbox : o.acked_at = NoTime =>
        o.review = NoSeq /\ e.reviews = {} /\ Bound(d, o) = {}
  BY Zenon DEF ReviewIsBound
<1>4. ASSUME NEW o \in e.outbox, o.acked_at # NoTime
      PROVE  \E r \in e.reviews, c \in Bound(d, o) :
               /\ e.reviews = {r} /\ r.id = o.review /\ r.at = o.acked_at
               /\ Bound(d, o) = {c} /\ c.digest = r.digest
               /\ r.digest = ReviewCommand(c.key, o.result, r.verdict)
  <2>1. PICK r \in d.reviews, c \in Bound(d, o) :
               /\ d.reviews = {r} /\ r.id = o.review /\ r.at = o.acked_at
               /\ Bound(d, o) = {c} /\ c.digest = r.digest
               /\ r.digest = ReviewCommand(c.key, o.result, r.verdict)
    BY Zenon, <1>4 DEF ReviewIsBound
  <2>. QED BY Zenon, <2>1
<1>5. \A o : Bound(e, o) = Bound(d, o)
  BY Zenon, <1>1
<1>6. e.outbox = {} => e.reviews = {}
  BY Zenon DEF ReviewIsBound
<1>. QED BY <1>2, <1>3, <1>4, <1>5, <1>6 DEF ReviewIsBound

\* A command that finds nothing to do, or the end already there, is recorded.
LEMMA RecordingIsSound ==
  ASSUME NEW d, EvidenceSound(d), Live(d.task.state), NEW method, NEW command, NEW locator,
         \/ method = "cancel"
         \/ method = "finalize" /\ Ended(d.task.state) /\ locator = d.task.terminal_seq
  PROVE  EvidenceSound(Recorded(d, method, command, locator))
<1>. DEFINE e == Recorded(d, method, command, locator)
            new == [method |-> method, key |-> command.key, digest |-> command, locator |-> locator]
<1>1. /\ DOMAIN e = DOMAIN d /\ e.task = d.task /\ e.request = d.request /\ e.events = d.events
      /\ e.question = d.question /\ e.answers = d.answers /\ e.results = d.results
      /\ e.outbox = d.outbox /\ e.reviews = d.reviews /\ e.operations = d.operations
      /\ e.tombstone = d.tombstone /\ e.dedup = d.dedup \cup {new}
      /\ e.derived = d.derived /\ e.reclaimed = d.reclaimed
  BY Zenon DEF EvidenceSound, RowsHaveShape, Recorded
<1>2. new.method = method /\ new.locator = locator
  BY Zenon
<1>. HIDE DEF e, new
<1>3. d.task.state # "ABSENT" /\ d.task.state # "COMPACTED"
  BY Zenon DEF Live, TaskState, Terminal
<1>4. RowsHaveShape(e)
  BY Zenon, <1>1, <1>2 DEF EvidenceSound, RowsHaveShape, Methods
<1>5. SubmissionIsKept(e)
  BY <1>1, <1>2, <1>3 DEF EvidenceSound, SubmissionIsKept
<1>6. EventsAreCounted(e) /\ OneQuestionWaits(e)
  BY <1>1 DEF EvidenceSound, EventsAreCounted, OneQuestionWaits, PendingQuestions
<1>7. AnswersAreBound(e)
  <2>1. \A c \in e.dedup : c.method = "interaction_response" => c \in d.dedup
    BY ZenonT(60), <1>1, <1>2
  <2>2. d.dedup \subseteq e.dedup
    BY Zenon, <1>1
  <2>. QED BY Zenon, <1>1, <2>1, <2>2, AnswersStay DEF EvidenceSound
<1>8. EndIsWhole(e)
  BY ZenonT(60), <1>1 DEF EvidenceSound, EndIsWhole, PendingQuestions
<1>9. ReviewIsBound(e)
  <2>1. \A c \in e.dedup : c.method = "review_ack" => c \in d.dedup
    BY Zenon, <1>1, <1>2
  <2>2. d.dedup \subseteq e.dedup
    BY Zenon, <1>1
  <2>. QED BY Zenon, <1>1, <2>1, <2>2, ReviewStays DEF EvidenceSound
<1>10. EndsAreFound(e)
  BY ZenonT(60), <1>1, <1>2 DEF EvidenceSound, EndsAreFound
<1>. QED BY Zenon, <1>4, <1>5, <1>6, <1>7, <1>8, <1>9, <1>10 DEF EvidenceSound, e

\* The rows of an end, on a task whose questions are all decided.
LEMMA EndingIsSound ==
  ASSUME NEW d, EvidenceSound(d), d.task.state = "FINALIZING", PendingQuestions(d) = {},
         NEW terminal \in Terminal, NEW now \in Nat
  PROVE  LET e == Finalized(d, terminal, now)
         IN EvidenceSound(e) /\ e.task.state = terminal /\ e.operations = d.operations
<1>. DEFINE e == Finalized(d, terminal, now)
            seq == d.task.last + 1
            entry == [seq |-> seq, kind |-> "terminal", at |-> now, state |-> terminal, result |-> seq]
            result == [id |-> seq, seq |-> seq, at |-> now]
            out == [result |-> seq, seq |-> seq, at |-> now, acked_at |-> NoTime, review |-> NoSeq]
<1>0. /\ RowsHaveShape(d) /\ d.task.last \in Nat /\ seq \in Nat \ {0}
      /\ Live(d.task.state) /\ ~Ended(d.task.state) /\ terminal \in TaskState
      /\ terminal \notin {"ABSENT", "COMPACTED", "FINALIZING"}
  BY DEF EvidenceSound, RowsHaveShape, TaskRow, Live, Ended, TaskState, Terminal
<1>1. entry \in EventRow /\ entry.seq = seq /\ entry.kind = "terminal" /\ entry.at = now
      /\ entry.state = terminal /\ entry.result = seq
  BY Zenon, <1>0 DEF EventRow
<1>2. /\ DOMAIN e = DOMAIN d /\ e.request = d.request /\ e.events = Append(d.events, entry)
      /\ e.question = d.question /\ e.answers = d.answers /\ e.results = d.results \cup {result}
      /\ e.outbox = d.outbox \cup {out} /\ e.reviews = d.reviews /\ e.dedup = d.dedup
      /\ e.operations = d.operations /\ e.tombstone = d.tombstone /\ e.derived = terminal
      /\ e.task = [d.task EXCEPT !.state = terminal, !.last = seq, !.projected = seq, !.version = 1,
                                 !.terminal_seq = seq, !.terminal_at = now]
  BY <1>0 DEF RowsHaveShape, Finalized, DeriveProjection
<1>. HIDE DEF out, result, entry, seq, e
<1>5. /\ e.task \in TaskRow /\ e.task.state = terminal /\ e.task.version = 1
      /\ e.task.terminal_seq = seq /\ e.task.terminal_at = now
      /\ e.task.last = seq /\ e.task.projected = seq
  <2>1. d.task \in TaskRow /\ terminal \in RowState /\ 1 \in Nat
    BY Zenon, <1>0 DEF RowsHaveShape, RowState
  <2>. QED BY ZenonT(60), <1>0, <1>2, <2>1 DEF TaskRow
<1>7. d.results = {} /\ d.outbox = {} /\ d.reviews = {}
  BY Zenon, <1>0 DEF EvidenceSound, EndIsWhole, ReviewIsBound
<1>8. RowsHaveShape(e)
  <2>1. e.events \in Seq(EventRow)
    <3>1. d.events \in Seq(EventRow)
      BY Zenon, <1>0 DEF RowsHaveShape
    <3>. QED BY <1>1, <1>2, <3>1
  <2>. QED BY Zenon, <1>0, <1>2, <1>5, <2>1 DEF RowsHaveShape
<1>9. SubmissionIsKept(e)
  BY <1>0, <1>2, <1>5 DEF EvidenceSound, SubmissionIsKept
<1>10. EventsAreCounted(e)
  <2>1. EventAdded(d, e)
    BY Zenon, <1>1, <1>2, <1>5 DEF EventAdded, seq
  <2>. QED BY Zenon, <1>0, <2>1, EventsStayCounted DEF EvidenceSound
<1>11. OneQuestionWaits(e) /\ PendingQuestions(e) = {}
  <2>1. PendingQuestions(e) = {}
    BY Zenon, <1>2 DEF PendingQuestions
  <2>. QED BY Zenon, <2>1 DEF OneQuestionWaits
<1>12. AnswersAreBound(e)
  BY <1>0, <1>2, <1>5 DEF EvidenceSound, AnswersAreBound
<1>13. EndIsWhole(e)
  <2>1. Ended(e.task.state) /\ e.task.last = seq /\ seq # NoSeq
    BY Zenon, <1>0, <1>5 DEF Ended, NoSeq
  <2>2. e.results = {[id |-> seq, seq |-> seq, at |-> now]}
    BY Zenon, <1>2, <1>7 DEF result
  <2>3. e.outbox = {out} /\ DOMAIN out = Delivery /\ out.result = seq /\ out.seq = seq /\ out.at = now
    BY Zenon, <1>2, <1>7 DEF out, Delivery
  <2>4. Len(d.events) = d.task.last
    BY Zenon, <1>0 DEF EvidenceSound, EventsAreCounted
  <2>5. e.events[seq] = entry
    <3>1. d.events \in Seq(EventRow)
      BY Zenon, <1>0 DEF RowsHaveShape
    <3>. QED BY <1>0, <1>1, <1>2, <2>4, <3>1 DEF seq
  <2>. QED BY Zenon, <1>1, <1>2, <1>5, <1>11, <2>1, <2>2, <2>3, <2>5 DEF EndIsWhole
<1>14. ReviewIsBound(e)
  <2>1. out.acked_at = NoTime /\ out.review = NoSeq /\ e.outbox = {out} /\ e.reviews = {}
    BY Zenon, <1>2, <1>7 DEF out
  <2>2. \A c \in e.dedup : c.method # "review_ack"
    BY Zenon, <1>0, <1>2, <1>7 DEF EvidenceSound, ReviewIsBound
  <2>. QED BY Zenon, <2>1, <2>2 DEF ReviewIsBound
<1>15. EndsAreFound(e)
  BY <1>0, <1>2, <1>5 DEF EvidenceSound, EndsAreFound
<1>. QED
  BY Zenon, <1>2, <1>5, <1>8, <1>9, <1>10, <1>11, <1>12, <1>13, <1>14, <1>15 DEF EvidenceSound, e

\* m is an unfinished task's rows after its state, questions or operations moved,
\* before the event that says so.
Moved(d, m) ==
  /\ DOMAIN m = DOMAIN d /\ m.task \in TaskRow
  /\ m.task.state \in TaskState \ Terminal
  /\ m.task.last = d.task.last /\ m.task.projected = d.task.projected
  /\ m.task.version = d.task.version /\ m.task.terminal_seq = d.task.terminal_seq
  /\ m.task.terminal_at = d.task.terminal_at
  /\ m.request = d.request /\ m.tombstone = d.tombstone /\ m.dedup = d.dedup
  /\ m.results = d.results /\ m.outbox = d.outbox /\ m.reviews = d.reviews
  /\ m.events = d.events /\ m.answers = d.answers /\ m.derived = d.derived
  /\ m.question \in [Questions -> QuestionRow]
  /\ \A q \in Questions : \/ m.question[q] = d.question[q]
                          \/ "ANSWERED" \notin {m.question[q].state, d.question[q].state}
  /\ \A o \in m.operations \ d.operations : DOMAIN o = Operation /\ o.locator = NoSeq

\* The event leaves the task with one open question at most.
EventFits(m, projected) ==
  \/ m.reclaimed = TRUE
  \/ /\ \A q, r \in PendingQuestions(m) : q = r
     /\ PendingQuestions(m) # {} => m.task.state \in Waiting /\ projected \in Waiting

\* A step that moves a live task and records it in an event.
LEMMA MovingIsSound ==
  ASSUME NEW d, EvidenceSound(d), d.task.state \in TaskState \ Terminal, NEW m, Moved(d, m),
         NEW kind, NEW payload,
         DeriveProjection(d.derived, kind, payload) \in TaskState \ Terminal,
         EventFits(m, DeriveProjection(d.derived, kind, payload))
  PROVE  LET e == Appended(m, kind, payload)
         IN EvidenceSound(e) /\ e.task.state = m.task.state /\ e.operations = m.operations
<1>. DEFINE e == Appended(m, kind, payload)
            projected == DeriveProjection(d.derived, kind, payload)
<1>1. /\ RowsHaveShape(m) /\ DeriveProjection(m.derived, kind, payload) = projected
      /\ DeriveProjection(m.derived, kind, payload) \in TaskState
  BY Zenon DEF EvidenceSound, RowsHaveShape, Moved
<1>2. /\ RowsHaveShape(e) /\ EventAdded(m, e) /\ SameEnd(m, e)
      /\ e.task.state = m.task.state /\ e.question = m.question /\ e.answers = m.answers
      /\ e.operations = m.operations /\ e.reclaimed = m.reclaimed /\ e.derived = projected
  <2>. HIDE DEF projected
  <2>1. /\ RowsHaveShape(e) /\ EventAdded(m, e) /\ SameEnd(m, e)
        /\ e.task.state = m.task.state /\ e.question = m.question /\ e.answers = m.answers
        /\ e.operations = m.operations /\ e.reclaimed = m.reclaimed
        /\ e.derived = DeriveProjection(m.derived, kind, payload)
    BY SMTT(60), <1>1, AppendedRow
  <2>. QED BY Zenon, <1>1, <2>1
<1>. HIDE DEF e, projected
<1>3. EventAdded(d, e) /\ SameEnd(d, e)
  BY <1>2 DEF Moved, EventAdded, SameEnd
<1>4. OneQuestionWaits(e)
  <2>1. PendingQuestions(e) = PendingQuestions(m)
    BY Zenon, <1>2 DEF PendingQuestions
  <2>. QED BY Zenon, <1>2, <2>1 DEF OneQuestionWaits, EventFits, projected
<1>5. e.answers = d.answers /\ e.task.state \in TaskState \ Terminal
      /\ e.derived \in TaskState \ Terminal
  BY Zenon, <1>2 DEF Moved, projected
<1>6. \A q \in Questions : \/ e.question[q] = d.question[q]
                           \/ "ANSWERED" \notin {e.question[q].state, d.question[q].state}
  BY Zenon, <1>2 DEF Moved
<1>7. \A o \in e.operations \ d.operations : DOMAIN o = Operation /\ o.locator = NoSeq
  BY Zenon, <1>2 DEF Moved
<1>8. EventsAreCounted(e)
  <2>1. Live(d.task.state)
    BY Zenon DEF Live
  <2>. QED BY Zenon, <1>3, <2>1, EventsStayCounted DEF EvidenceSound
<1>9. EvidenceSound(e)
  BY Zenon, <1>2, <1>3, <1>4, <1>5, <1>6, <1>7, <1>8, UnfinishedStep
<1>. QED BY Zenon, <1>2, <1>9 DEF e

\* The transaction commits.
LEMMA CommitKeeps ==
  ASSUME EvidenceInvariant, Serving, NEW d, EvidenceSound(d), Commit(d)
  PROVE  EvidenceInvariant'
BY Zenon DEF EvidenceInvariant, OwedIsDue, Serving, Commit, NoneOwed

\* m differs from d in the task's state, the dispatch phase and the reclaim
\* mark alone.
StateMoved(d, m) ==
  /\ DOMAIN m = DOMAIN d
  /\ m.task = [d.task EXCEPT !.state = m.task.state]
  /\ m.task.state \in TaskState \ Terminal
  /\ m.request = d.request /\ m.tombstone = d.tombstone /\ m.dedup = d.dedup
  /\ m.results = d.results /\ m.outbox = d.outbox /\ m.reviews = d.reviews
  /\ m.events = d.events /\ m.answers = d.answers /\ m.question = d.question
  /\ m.operations = d.operations /\ m.derived = d.derived

\* So nothing else moves, and the open questions stay open.
LEMMA StateMoves ==
  ASSUME NEW d, EvidenceSound(d), d.task.state \in TaskState \ Terminal, NEW m, StateMoved(d, m)
  PROVE  Moved(d, m) /\ PendingQuestions(m) = PendingQuestions(d)
<1>1. d.task \in TaskRow /\ d.question \in [Questions -> QuestionRow] /\ m.task.state \in RowState
  BY Zenon DEF EvidenceSound, RowsHaveShape, RowState, StateMoved
<1>2. /\ m.task \in TaskRow
      /\ m.task.last = d.task.last /\ m.task.projected = d.task.projected
      /\ m.task.version = d.task.version /\ m.task.terminal_seq = d.task.terminal_seq
      /\ m.task.terminal_at = d.task.terminal_at
  <2>. DEFINE s == m.task.state
  <2>1. m.task = [d.task EXCEPT !.state = s] /\ s \in RowState
    BY Zenon, <1>1 DEF StateMoved
  <2>. HIDE DEF s
  <2>. QED BY Zenon, <1>1, <2>1 DEF TaskRow
<1>3. PendingQuestions(m) = PendingQuestions(d)
  BY Zenon DEF PendingQuestions, StateMoved
<1>. QED BY Zenon, <1>1, <1>2, <1>3 DEF Moved, StateMoved

\* What an open question says of an unfinished task.
LEMMA OpenTask ==
  ASSUME NEW d, EvidenceSound(d), d.task.state \in TaskState \ Terminal
  PROVE  /\ RowsHaveShape(d) /\ Live(d.task.state) /\ ~Ended(d.task.state)
         /\ d.derived \in TaskState \ Terminal
         /\ \/ d.reclaimed = TRUE
            \/ PendingQuestions(d) = {}
            \/ d.task.state \in Waiting /\ d.derived \in Waiting
BY Zenon DEF EvidenceSound, RowsHaveShape, EndIsWhole, OneQuestionWaits, Live, Ended

\* A step that moves the state, with its event.
LEMMA StateStep ==
  ASSUME NEW d, EvidenceSound(d), d.task.state \in TaskState \ Terminal, NEW m, StateMoved(d, m),
         NEW kind, NEW payload,
         DeriveProjection(d.derived, kind, payload) \in TaskState \ Terminal,
         \/ m.reclaimed = TRUE
         \/ PendingQuestions(d) = {}
         \/ /\ m.reclaimed = d.reclaimed /\ m.task.state \in Waiting
            /\ DeriveProjection(d.derived, kind, payload) \in Waiting
  PROVE  EvidenceSound(Appended(m, kind, payload))
<1>1. Moved(d, m) /\ PendingQuestions(m) = PendingQuestions(d)
  BY Zenon, StateMoves
<1>2. \/ m.reclaimed = TRUE
      \/ \A q, r \in PendingQuestions(d) : q = r
  BY Zenon DEF EvidenceSound, OneQuestionWaits
<1>3. EventFits(m, DeriveProjection(d.derived, kind, payload))
  BY Zenon, <1>1, <1>2 DEF EventFits
<1>. QED BY Zenon, <1>1, <1>3, MovingIsSound

\* An attempt starts.
LEMMA StartAttemptSound ==
  ASSUME EvidenceInvariant, StartAttempt
  PROVE  EvidenceInvariant'
<1>. DEFINE m == [db EXCEPT !.task.state = "PREPARING"]
<1>0. EvidenceSound(db) /\ Serving /\ db.task.state = "QUEUED"
      /\ db.task.state \in TaskState \ Terminal /\ Commit(Appended(m, "attempt_started", "none"))
  BY Zenon DEF EvidenceInvariant, StartAttempt, TaskState, Terminal
<1>1. RowsHaveShape(db) /\ (db.reclaimed = TRUE \/ PendingQuestions(db) = {})
  BY Zenon, <1>0, OpenTask DEF Waiting
<1>2. StateMoved(db, m) /\ m.reclaimed = db.reclaimed
  BY ZenonT(60), <1>1 DEF StateMoved, RowsHaveShape, TaskRow, TaskState, Terminal
<1>. HIDE DEF m
<1>3. DeriveProjection(db.derived, "attempt_started", "none") \in TaskState \ Terminal
  BY Zenon DEF DeriveProjection, TaskState, Terminal
<1>4. EvidenceSound(Appended(m, "attempt_started", "none"))
  BY Zenon, <1>0, <1>1, <1>2, <1>3, StateStep
<1>. QED BY Zenon, <1>0, <1>4, CommitKeeps

\* The attempt advances to its run.
LEMMA DispatchPhaseSound ==
  ASSUME EvidenceInvariant, NEW reached, RecordDispatchPhase(reached)
  PROVE  EvidenceInvariant'
<1>. DEFINE m == [db EXCEPT !.phase = reached,
                            !.task.state = IF reached \in Started THEN "RUNNING" ELSE @]
<1>0. EvidenceSound(db) /\ Serving /\ db.task.state \in {"PREPARING", "RUNNING"}
      /\ db.task.state \in TaskState \ Terminal /\ Commit(Appended(m, "dispatch_phase", "none"))
  BY Zenon DEF EvidenceInvariant, RecordDispatchPhase, TaskState, Terminal
<1>1. RowsHaveShape(db) /\ (db.reclaimed = TRUE \/ PendingQuestions(db) = {})
  BY Zenon, <1>0, OpenTask DEF Waiting
<1>2. StateMoved(db, m) /\ m.reclaimed = db.reclaimed
  <2>. DEFINE s == IF reached \in Started THEN "RUNNING" ELSE db.task.state
  <2>1. s \in TaskState \ Terminal
    BY Zenon, <1>0 DEF TaskState, Terminal
  <2>2. m = [db EXCEPT !.phase = reached, !.task.state = s]
    BY Zenon
  <2>. HIDE DEF s, m
  <2>. QED BY ZenonT(60), <1>1, <2>1, <2>2 DEF StateMoved, RowsHaveShape, TaskRow
<1>. HIDE DEF m
<1>3. DeriveProjection(db.derived, "dispatch_phase", "none") \in TaskState \ Terminal
  BY Zenon DEF DeriveProjection, TaskState, Terminal
<1>4. EvidenceSound(Appended(m, "dispatch_phase", "none"))
  BY Zenon, <1>0, <1>1, <1>2, <1>3, StateStep
<1>. QED BY Zenon, <1>0, <1>4, CommitKeeps

\* The run writes an event.
LEMMA OutputSound ==
  ASSUME EvidenceInvariant, Output
  PROVE  EvidenceInvariant'
<1>0. EvidenceSound(db) /\ Serving /\ db.task.state \in TaskState \ Terminal
      /\ Commit(Appended(db, "text_delta", "none"))
  BY Zenon DEF EvidenceInvariant, Output, TaskState, Terminal
<1>1. /\ RowsHaveShape(db) /\ db.derived \in TaskState \ Terminal
      /\ \/ db.reclaimed = TRUE
         \/ PendingQuestions(db) = {}
         \/ db.task.state \in Waiting /\ db.derived \in Waiting
  BY Zenon, <1>0, OpenTask
<1>2. StateMoved(db, db)
  BY Zenon, <1>0, <1>1 DEF StateMoved, RowsHaveShape, TaskRow
<1>3. DeriveProjection(db.derived, "text_delta", "none") = db.derived
  BY Zenon DEF DeriveProjection
<1>4. EvidenceSound(Appended(db, "text_delta", "none"))
  BY Zenon, <1>0, <1>1, <1>2, <1>3, StateStep
<1>. QED BY Zenon, <1>0, <1>4, CommitKeeps

\* The run ends.
LEMMA FinalizeBeginsSound ==
  ASSUME EvidenceInvariant, FinalizeBegins
  PROVE  EvidenceInvariant'
<1>. DEFINE m == [db EXCEPT !.task.state = "FINALIZING"]
<1>0. EvidenceSound(db) /\ Serving /\ db.task.state \in TaskState \ Terminal
      /\ Commit(Appended(m, "state_changed", "FINALIZING"))
  BY Zenon DEF EvidenceInvariant, FinalizeBegins, TaskState, Terminal
<1>1. RowsHaveShape(db)
  BY Zenon, <1>0, OpenTask
<1>2. StateMoved(db, m) /\ m.reclaimed = db.reclaimed /\ m.task.state \in Waiting
  BY ZenonT(60), <1>1 DEF StateMoved, RowsHaveShape, TaskRow, TaskState, Terminal, Waiting
<1>. HIDE DEF m
<1>3. /\ DeriveProjection(db.derived, "state_changed", "FINALIZING") \in TaskState \ Terminal
      /\ DeriveProjection(db.derived, "state_changed", "FINALIZING") \in Waiting
  BY Zenon DEF DeriveProjection, TaskState, Terminal, Waiting
<1>4. EvidenceSound(Appended(m, "state_changed", "FINALIZING"))
  BY Zenon, <1>0, <1>2, <1>3, StateStep
<1>. QED BY Zenon, <1>0, <1>4, CommitKeeps

\* The mark of a reclaimed slot.
LEMMA ReclaimingIsSound ==
  ASSUME NEW d, EvidenceSound(d)
  PROVE  EvidenceSound([d EXCEPT !.reclaimed = TRUE])
<1>. DEFINE e == [d EXCEPT !.reclaimed = TRUE]
<1>1. /\ DOMAIN e = DOMAIN d /\ e.task = d.task /\ e.request = d.request /\ e.events = d.events
      /\ e.question = d.question /\ e.answers = d.answers /\ e.results = d.results
      /\ e.outbox = d.outbox /\ e.reviews = d.reviews /\ e.operations = d.operations
      /\ e.tombstone = d.tombstone /\ e.dedup = d.dedup /\ e.derived = d.derived
      /\ e.reclaimed = TRUE
  BY Zenon DEF EvidenceSound, RowsHaveShape
<1>. HIDE DEF e
<1>2. RowsHaveShape(e) /\ EventsAreCounted(e) /\ OneQuestionWaits(e)
  <2>1. RowsHaveShape(e)
    BY SMTT(60), <1>1 DEF EvidenceSound, RowsHaveShape
  <2>2. EventsAreCounted(e)
    BY SMTT(60), <1>1 DEF EvidenceSound, EventsAreCounted
  <2>. QED BY Zenon, <1>1, <2>1, <2>2 DEF OneQuestionWaits
<1>3. SubmissionIsKept(e)
  BY SMTT(60), <1>1 DEF EvidenceSound, SubmissionIsKept, NoEvidence
<1>4. AnswersAreBound(e) /\ ReviewIsBound(e)
  BY Zenon, <1>1, AnswersStay, ReviewStays DEF EvidenceSound
<1>5. EndIsWhole(e)
  BY ZenonT(60), <1>1 DEF EvidenceSound, EndIsWhole, PendingQuestions
<1>6. EndsAreFound(e)
  BY SMTT(60), <1>1 DEF EvidenceSound, EndsAreFound
<1>7. EvidenceSound(e)
  BY Zenon, <1>2, <1>3, <1>4, <1>5, <1>6 DEF EvidenceSound
<1>. QED BY Zenon, <1>7 DEF e

\* A slot is reclaimed, or the task is put back to waiting.
LEMMA ReclaimSound ==
  ASSUME EvidenceInvariant, ReclaimPreflightSlot
  PROVE  EvidenceInvariant'
<1>0. EvidenceSound(db) /\ Serving /\ db.task.state \in {"RUNNING", "WAITING_APPROVAL"}
      /\ db.task.state \in TaskState \ Terminal
  BY Zenon DEF EvidenceInvariant, ReclaimPreflightSlot, TaskState, Terminal
<1>1. RowsHaveShape(db)
  BY Zenon, <1>0, OpenTask
<1>. DEFINE back == [db EXCEPT !.task.state = "WAITING_APPROVAL"]
            on == [db EXCEPT !.task.state = "RUNNING", !.reclaimed = TRUE]
<1>2. \/ db.task.state = "RUNNING" /\ Commit(Appended(back, "state_changed", "WAITING_APPROVAL"))
      \/ Commit([db EXCEPT !.reclaimed = TRUE])
      \/ Commit(Appended(on, "state_changed", "RUNNING"))
  BY Zenon DEF ReclaimPreflightSlot
<1>3. StateMoved(db, back) /\ back.reclaimed = db.reclaimed
  BY ZenonT(60), <1>1 DEF StateMoved, RowsHaveShape, TaskRow, TaskState, Terminal
<1>4. StateMoved(db, on) /\ on.reclaimed = TRUE
  BY ZenonT(60), <1>1 DEF StateMoved, RowsHaveShape, TaskRow, TaskState, Terminal
<1>. HIDE DEF back, on
<1>5. CASE db.task.state = "RUNNING" /\ Commit(Appended(back, "state_changed", "WAITING_APPROVAL"))
  <2>1. db.reclaimed = TRUE \/ PendingQuestions(db) = {}
    BY Zenon, <1>0, <1>5, OpenTask DEF Waiting
  <2>2. DeriveProjection(db.derived, "state_changed", "WAITING_APPROVAL") \in TaskState \ Terminal
    BY Zenon DEF DeriveProjection, TaskState, Terminal
  <2>3. EvidenceSound(Appended(back, "state_changed", "WAITING_APPROVAL"))
    BY Zenon, <1>0, <1>3, <2>1, <2>2, StateStep
  <2>. QED BY Zenon, <1>0, <1>5, <2>3, CommitKeeps
<1>6. CASE Commit([db EXCEPT !.reclaimed = TRUE])
  BY Zenon, <1>0, <1>6, ReclaimingIsSound, CommitKeeps
<1>7. CASE Commit(Appended(on, "state_changed", "RUNNING"))
  <2>1. DeriveProjection(db.derived, "state_changed", "RUNNING") \in TaskState \ Terminal
    BY Zenon DEF DeriveProjection, TaskState, Terminal
  <2>2. EvidenceSound(Appended(on, "state_changed", "RUNNING"))
    BY Zenon, <1>0, <1>4, <2>1, StateStep
  <2>. QED BY Zenon, <1>0, <1>7, <2>2, CommitKeeps
<1>. QED BY Zenon, <1>2, <1>5, <1>6, <1>7

\* The run asks a question: the only open one, unless a slot was reclaimed.
LEMMA OpenQuestionSound ==
  ASSUME EvidenceInvariant, NEW q \in Questions, NEW expires \in Nat, OpenQuestion(q, expires)
  PROVE  EvidenceInvariant'
<1>. DEFINE new == [db.question[q] EXCEPT !.state = "PENDING", !.expires = expires]
            m == [db EXCEPT !.task.state = "WAITING_APPROVAL", !.question[q].state = "PENDING",
                            !.question[q].expires = expires]
<1>0. /\ EvidenceSound(db) /\ Serving /\ db.question[q].state = "NONE"
      /\ db.task.state \in {"PREPARING", "RUNNING"} /\ db.task.state \in TaskState \ Terminal
      /\ Commit(Appended(m, "interaction_requested", "none"))
  BY Zenon DEF EvidenceInvariant, OpenQuestion, TaskState, Terminal
<1>1. RowsHaveShape(db) /\ (db.reclaimed = TRUE \/ PendingQuestions(db) = {})
  BY Zenon, <1>0, OpenTask DEF Waiting
<1>2. db.question \in [Questions -> QuestionRow] /\ db.task \in TaskRow
  BY Zenon, <1>1 DEF RowsHaveShape
<1>3. /\ DOMAIN m = DOMAIN db
      /\ m.task = [db.task EXCEPT !.state = "WAITING_APPROVAL"]
      /\ m.request = db.request /\ m.tombstone = db.tombstone /\ m.dedup = db.dedup
      /\ m.results = db.results /\ m.outbox = db.outbox /\ m.reviews = db.reviews
      /\ m.events = db.events /\ m.answers = db.answers /\ m.derived = db.derived
      /\ m.question = [db.question EXCEPT ![q] = new]
      /\ m.operations = db.operations /\ m.reclaimed = db.reclaimed
  BY ZenonT(60), <1>1, <1>2 DEF RowsHaveShape
<1>4. new \in QuestionRow /\ new.state = "PENDING"
  <2>1. db.question[q] \in QuestionRow
    BY Zenon, <1>2
  <2>. QED BY Zenon, <2>1 DEF QuestionRow, QuestionState
<1>. HIDE DEF m, new
<1>5. /\ m.task \in TaskRow /\ m.task.state = "WAITING_APPROVAL"
      /\ m.task.last = db.task.last /\ m.task.projected = db.task.projected
      /\ m.task.version = db.task.version /\ m.task.terminal_seq = db.task.terminal_seq
      /\ m.task.terminal_at = db.task.terminal_at
  <2>1. "WAITING_APPROVAL" \in RowState
    BY Zenon DEF RowState, TaskState
  <2>. QED BY Zenon, <1>2, <1>3, <2>1 DEF TaskRow
<1>6. m.question \in [Questions -> QuestionRow]
      /\ \A r \in Questions : m.question[r] = IF r = q THEN new ELSE db.question[r]
  BY <1>2, <1>3, <1>4
<1>7. "WAITING_APPROVAL" \in TaskState \ Terminal
      /\ DeriveProjection(db.derived, "interaction_requested", "none") = "WAITING_APPROVAL"
  BY Zenon DEF DeriveProjection, TaskState, Terminal
<1>8. EventFits(m, "WAITING_APPROVAL")
  <2>1. db.reclaimed = TRUE \/ PendingQuestions(m) = {q}
    BY <1>1, <1>4, <1>6 DEF PendingQuestions
  <2>. QED BY Zenon, <1>3, <1>5, <2>1 DEF EventFits, Waiting
<1>9. Moved(db, m)
  BY ZenonT(60), <1>0, <1>3, <1>4, <1>5, <1>6, <1>7 DEF Moved
<1>10. EvidenceSound(Appended(m, "interaction_requested", "none"))
  BY Zenon, <1>0, <1>7, <1>8, <1>9, MovingIsSound
<1>. QED BY Zenon, <1>0, <1>10, CommitKeeps

\* A question expires; its operation is recorded with it.
LEMMA ExpiresSound ==
  ASSUME EvidenceInvariant, NEW q \in Questions, NEW now,
         NEW how \in {"timeout", "preflight"}, Expires(q, how, now)
  PROVE  EvidenceInvariant'
<1>. DEFINE op == [of |-> q, how |-> how, locator |-> NoSeq]
            new == [db.question[q] EXCEPT !.state = "EXPIRED"]
            m == [db EXCEPT !.question[q].state = "EXPIRED", !.task.state = "FINALIZING",
                            !.operations = @ \cup {op}]
            e == Appended(m, "interaction_decided", "none")
<1>0. /\ EvidenceSound(db) /\ db.task.state = "WAITING_APPROVAL" /\ db.question[q].state = "PENDING"
      /\ db.task.state \in TaskState \ Terminal
      /\ db' = e /\ owed' = [step |-> "finalize", of |-> q, how |-> how]
  BY Zenon DEF EvidenceInvariant, Expires, TaskState, Terminal
<1>1. RowsHaveShape(db)
  BY Zenon, <1>0, OpenTask
<1>2. db.question \in [Questions -> QuestionRow] /\ db.task \in TaskRow
  BY Zenon, <1>1 DEF RowsHaveShape
<1>3. /\ DOMAIN m = DOMAIN db
      /\ m.task = [db.task EXCEPT !.state = "FINALIZING"]
      /\ m.request = db.request /\ m.tombstone = db.tombstone /\ m.dedup = db.dedup
      /\ m.results = db.results /\ m.outbox = db.outbox /\ m.reviews = db.reviews
      /\ m.events = db.events /\ m.answers = db.answers /\ m.derived = db.derived
      /\ m.operations = db.operations \cup {op} /\ m.reclaimed = db.reclaimed
      /\ m.question = [db.question EXCEPT ![q] = new]
  BY ZenonT(60), <1>1, <1>2 DEF RowsHaveShape
<1>4. op.locator = NoSeq /\ DOMAIN op = Operation
  BY Zenon DEF Operation
<1>5. new \in QuestionRow /\ new.state = "EXPIRED"
  <2>1. db.question[q] \in QuestionRow
    BY Zenon, <1>2
  <2>. QED BY Zenon, <2>1 DEF QuestionRow, QuestionState
<1>. HIDE DEF m, op, new
<1>6. /\ m.task \in TaskRow /\ m.task.state = "FINALIZING"
      /\ m.task.last = db.task.last /\ m.task.projected = db.task.projected
      /\ m.task.version = db.task.version /\ m.task.terminal_seq = db.task.terminal_seq
      /\ m.task.terminal_at = db.task.terminal_at
  <2>1. "FINALIZING" \in RowState
    BY Zenon DEF RowState, TaskState
  <2>. QED BY Zenon, <1>2, <1>3, <2>1 DEF TaskRow
<1>7. m.question \in [Questions -> QuestionRow]
      /\ \A r \in Questions : m.question[r] = IF r = q THEN new ELSE db.question[r]
  BY <1>2, <1>3, <1>5
<1>8. "FINALIZING" \in TaskState \ Terminal
      /\ DeriveProjection(db.derived, "interaction_decided", "none") \in TaskState \ Terminal
  BY Zenon DEF DeriveProjection, TaskState, Terminal
<1>9. \A s : EventFits(m, s)
  <2>1. db.reclaimed = TRUE \/ \A r \in PendingQuestions(db) : r = q
    BY Zenon, <1>0 DEF EvidenceSound, OneQuestionWaits, PendingQuestions
  <2>2. db.reclaimed = TRUE \/ PendingQuestions(m) = {}
    BY <1>5, <1>7, <2>1 DEF PendingQuestions
  <2>. QED BY Zenon, <1>3, <2>2 DEF EventFits
<1>10. Moved(db, m)
  BY ZenonT(60), <1>0, <1>3, <1>4, <1>5, <1>6, <1>7, <1>8 DEF Moved
<1>11. EvidenceSound(e) /\ e.task.state = "FINALIZING"
  <2>. DEFINE next == DeriveProjection(db.derived, "interaction_decided", "none")
  <2>1. EventFits(m, next)
    BY Zenon, <1>9
  <2>. QED BY SMTT(60), <1>0, <1>6, <1>8, <1>10, <2>1, MovingIsSound
<1>. HIDE DEF e
<1>12. OwedIsDue'
  BY Zenon, <1>0, <1>8, <1>11 DEF OwedIsDue, Live
<1>. QED BY Zenon, <1>0, <1>11, <1>12 DEF EvidenceInvariant

\* A cancellation settles the open questions.
LEMMA CancelSound ==
  ASSUME EvidenceInvariant, NEW k, CancelTask(k)
  PROVE  EvidenceInvariant'
<1>0. EvidenceSound(db) /\ Serving /\ Live(db.task.state)
  BY Zenon DEF EvidenceInvariant, CancelTask
<1>. DEFINE open == ~Ended(db.task.state) /\ db.task.state # "CANCEL_REQUESTED"
            status == [q \in Questions |-> "CANCELLED"]
            settled == Decided(db, status)
            m == [settled EXCEPT !.task.state = "CANCEL_REQUESTED", !.task.cancelled = TRUE]
            cancelled == Appended(m, "state_changed", "CANCEL_REQUESTED")
            d == IF open THEN cancelled ELSE db
<1>1. Commit(Recorded(d, "cancel", CancelCommand(k), 0))
  BY Zenon DEF CancelTask
<1>2. EvidenceSound(d) /\ Live(d.task.state)
  <2>1. CASE ~open
    BY Zenon, <1>0, <2>1
  <2>2. CASE open
    <3>1. db.task.state \in TaskState \ Terminal /\ "CANCEL_REQUESTED" \in TaskState \ Terminal
      BY Zenon, <1>0, <2>2 DEF Live, Ended, TaskState, Terminal
    <3>2. status \in [Questions -> {"EXPIRED", "CANCELLED"}]
      BY Zenon
    <3>3. /\ EvidenceSound(settled) /\ settled.task.state = db.task.state
          /\ PendingQuestions(settled) = {}
      BY Zenon, <1>0, <3>1, <3>2, DecidingIsSound
    <3>. HIDE DEF settled
    <3>4. RowsHaveShape(settled) /\ settled.task \in TaskRow
          /\ settled.question \in [Questions -> QuestionRow]
      BY Zenon, <3>3 DEF EvidenceSound, RowsHaveShape
    <3>5. /\ DOMAIN m = DOMAIN settled /\ m.request = settled.request
          /\ m.tombstone = settled.tombstone /\ m.dedup = settled.dedup
          /\ m.results = settled.results /\ m.outbox = settled.outbox
          /\ m.reviews = settled.reviews /\ m.events = settled.events
          /\ m.answers = settled.answers /\ m.question = settled.question
          /\ m.operations = settled.operations /\ m.derived = settled.derived
          /\ m.task = [settled.task EXCEPT !.state = "CANCEL_REQUESTED", !.cancelled = TRUE]
      BY ZenonT(60), <3>4 DEF RowsHaveShape, TaskRow
    <3>. HIDE DEF m
    <3>6. /\ m.task \in TaskRow /\ m.task.state = "CANCEL_REQUESTED"
          /\ m.task.last = settled.task.last /\ m.task.projected = settled.task.projected
          /\ m.task.version = settled.task.version
          /\ m.task.terminal_seq = settled.task.terminal_seq
          /\ m.task.terminal_at = settled.task.terminal_at
      <4>1. "CANCEL_REQUESTED" \in RowState /\ TRUE \in BOOLEAN
        BY Zenon, <3>1 DEF RowState
      <4>. QED BY Zenon, <3>4, <3>5, <4>1 DEF TaskRow
    <3>7. Moved(settled, m)
      BY Zenon, <3>1, <3>4, <3>5, <3>6 DEF Moved
    <3>8. \A s : EventFits(m, s)
      <4>1. PendingQuestions(m) = {}
        BY Zenon, <3>3, <3>5 DEF PendingQuestions
      <4>. QED BY Zenon, <4>1 DEF EventFits
    <3>9. DeriveProjection(settled.derived, "state_changed", "CANCEL_REQUESTED")
            \in TaskState \ Terminal
      BY Zenon, <3>1 DEF DeriveProjection
    <3>10. EvidenceSound(cancelled) /\ cancelled.task.state = "CANCEL_REQUESTED"
      <4>. DEFINE next == DeriveProjection(settled.derived, "state_changed", "CANCEL_REQUESTED")
      <4>1. EventFits(m, next)
        BY Zenon, <3>8
      <4>2. settled.task.state \in TaskState \ Terminal
        BY Zenon, <3>1, <3>3
      <4>. QED BY SMTT(60), <3>3, <3>6, <3>7, <3>9, <4>1, <4>2, MovingIsSound
    <3>. QED BY Zenon, <2>2, <3>1, <3>10 DEF Live
  <2>. QED BY Zenon, <2>1, <2>2
<1>. HIDE DEF d
<1>3. EvidenceSound(Recorded(d, "cancel", CancelCommand(k), 0))
  BY Zenon, <1>2, RecordingIsSound
<1>. QED BY Zenon, <1>0, <1>1, <1>3, CommitKeeps

\* finalize, for a command and for an expiry.
LEMMA FinalizesSound ==
  ASSUME EvidenceSound(db), Live(db.task.state), NEW command, command.action \in Terminal,
         NEW now \in Nat, Finalizes(command, now)
  PROVE  EvidenceSound(db') /\ Ended(db'.task.state) /\ Live(db'.task.state)
<1>. DEFINE settled == Decided(db, EndedQuestion(now))
            final == Finalized(settled, command.action, now)
            e == Recorded(final, "finalize", command, final.task.terminal_seq)
<1>1. Allows(db.task.state, command.action) /\ db' = e
  BY Zenon DEF Finalizes, MayEnd
<1>2. db.task.state = "FINALIZING" /\ db.task.state \in TaskState \ Terminal
  BY Zenon, <1>1 DEF Allows, TaskState, Terminal
<1>3. EndedQuestion(now) \in [Questions -> {"EXPIRED", "CANCELLED"}]
  BY Zenon DEF EndedQuestion
<1>4. /\ EvidenceSound(settled) /\ settled.task.state = "FINALIZING"
      /\ PendingQuestions(settled) = {}
  BY Zenon, <1>2, <1>3, DecidingIsSound
<1>. HIDE DEF settled
<1>5. EvidenceSound(final) /\ final.task.state = command.action
  BY Zenon, <1>4, EndingIsSound
<1>. HIDE DEF final
<1>6. Ended(final.task.state) /\ Live(final.task.state)
  BY Zenon, <1>5 DEF Ended, Live, TaskState
<1>7. EvidenceSound(e)
  BY Zenon, <1>5, <1>6, RecordingIsSound
<1>8. e.task = final.task
  BY Zenon, <1>5 DEF EvidenceSound, RowsHaveShape, Recorded
<1>. HIDE DEF e
<1>. QED BY Zenon, <1>1, <1>6, <1>7, <1>8

\* The task is finalized by its command.
LEMMA FinalizeSound ==
  ASSUME EvidenceInvariant, NEW k, NEW terminal \in Endings, NEW now \in Times,
         FinalizeTask(k, terminal, now)
  PROVE  EvidenceInvariant'
<1>. DEFINE command == FinalizeCommand(k, terminal)
<1>1. EvidenceSound(db) /\ now \in Nat /\ Live(db.task.state) /\ Finalizes(command, now)
  BY Zenon, TimesArePositive DEF EvidenceInvariant, FinalizeTask
<1>2. command.action \in Terminal
  BY Zenon, EndingsAreTerminal DEF FinalizeCommand
<1>. HIDE DEF command
<1>3. EvidenceSound(db')
  BY Zenon, <1>1, <1>2, FinalizesSound
<1>4. owed = NoneOwed /\ owed' = owed
  BY Zenon DEF EvidenceInvariant, OwedIsDue, FinalizeTask, Serving, NoneOwed
<1>. QED BY Zenon, <1>3, <1>4 DEF EvidenceInvariant, OwedIsDue

\* The task is finalized by the expiry of its question.
LEMMA ExpiryFinalizesSound ==
  ASSUME EvidenceInvariant, NEW now \in Times, ExpiryFinalizes(now)
  PROVE  EvidenceInvariant'
<1>0. EvidenceSound(db) /\ now \in Nat
  BY Zenon, TimesArePositive DEF EvidenceInvariant
<1>. DEFINE command == ExpiryCommand(owed.of, owed.how)
            Owing == [step : {"finalize", "locator"}, of : Questions, how : {"timeout", "preflight"}]
<1>1. owed \in Owing /\ Live(db.task.state)
  BY DEF EvidenceInvariant, OwedIsDue, ExpiryFinalizes, NoneOwed
<1>2. command.action \in Terminal
  BY Zenon DEF ExpiryCommand, FinalizeCommand, Terminal
<1>3. [owed EXCEPT !.step = "locator"] \in Owing
  BY Zenon, <1>1
<1>4. \/ ~IsNew("finalize", command) /\ owed' = [owed EXCEPT !.step = "locator"] /\ UNCHANGED db
      \/ Finalizes(command, now) /\ owed' = [owed EXCEPT !.step = "locator"]
      \/ owed' = NoneOwed /\ UNCHANGED db
  BY Zenon DEF ExpiryFinalizes
<1>. HIDE DEF command
<1>5. CASE ~IsNew("finalize", command) /\ owed' = [owed EXCEPT !.step = "locator"] /\ UNCHANGED db
  <2>1. \E c \in db.dedup : c.method = "finalize"
    BY Zenon, <1>5 DEF IsNew, CommandReplay
  <2>2. Ended(db.task.state)
    BY Zenon, <1>0, <1>1, <2>1 DEF EvidenceSound, EndsAreFound
  <2>. QED BY Zenon, <1>0, <1>1, <1>3, <1>5, <2>2 DEF EvidenceInvariant, OwedIsDue
<1>6. CASE Finalizes(command, now) /\ owed' = [owed EXCEPT !.step = "locator"]
  <2>1. EvidenceSound(db') /\ Ended(db'.task.state) /\ Live(db'.task.state)
    BY Zenon, <1>0, <1>1, <1>2, <1>6, FinalizesSound
  <2>. QED BY Zenon, <1>3, <1>6, <2>1 DEF EvidenceInvariant, OwedIsDue
<1>7. CASE owed' = NoneOwed /\ UNCHANGED db
  BY Zenon, <1>0, <1>7 DEF EvidenceInvariant, OwedIsDue
<1>. QED BY Zenon, <1>4, <1>5, <1>6, <1>7

\* The store is opened again, and the task's state is what its events say.
LEMMA ReopenSound ==
  ASSUME EvidenceInvariant, Reopen
  PROVE  EvidenceInvariant'
<1>0. EvidenceSound(db) /\ db' = ReplayProjections(db) /\ owed' = NoneOwed
  BY Zenon DEF EvidenceInvariant, Reopen
<1>1. CASE ~IsReplayed(db)
  BY Zenon, <1>0, <1>1 DEF ReplayProjections, EvidenceInvariant, OwedIsDue
<1>2. CASE IsReplayed(db)
  <2>. DEFINE e == [db EXCEPT !.task.state = db.derived, !.task.projected = db.task.last]
  <2>1. db' = e /\ Live(db.task.state)
    BY Zenon, <1>0, <1>2 DEF ReplayProjections, IsReplayed
  <2>2. RowsHaveShape(db) /\ db.task \in TaskRow /\ db.derived \in TaskState
    BY Zenon, <1>0 DEF EvidenceSound, RowsHaveShape
  <2>3. db.task.projected = db.task.last
    BY Zenon, <1>0, <2>1 DEF EvidenceSound, EventsAreCounted
  <2>4. /\ DOMAIN e = DOMAIN db /\ e.request = db.request /\ e.events = db.events
        /\ e.question = db.question /\ e.answers = db.answers /\ e.results = db.results
        /\ e.outbox = db.outbox /\ e.reviews = db.reviews /\ e.operations = db.operations
        /\ e.tombstone = db.tombstone /\ e.dedup = db.dedup /\ e.derived = db.derived
        /\ e.reclaimed = db.reclaimed
        /\ e.task = [db.task EXCEPT !.state = db.derived, !.projected = db.task.last]
    BY ZenonT(60), <2>2 DEF RowsHaveShape, TaskRow
  <2>. HIDE DEF e
  <2>5. /\ e.task \in TaskRow /\ e.task.state = db.derived
        /\ e.task.last = db.task.last /\ e.task.projected = db.task.last
        /\ e.task.version = db.task.version /\ e.task.terminal_seq = db.task.terminal_seq
        /\ e.task.terminal_at = db.task.terminal_at
    <3>1. db.derived \in RowState
      BY Zenon, <2>2 DEF RowState
    <3>. QED BY Zenon, <2>2, <2>4, <3>1 DEF TaskRow
  <2>6. RowsHaveShape(e) /\ EventsAreCounted(e)
    BY Zenon, <1>0, <2>1, <2>2, <2>4, <2>5 DEF EvidenceSound, RowsHaveShape, EventsAreCounted
  <2>7. PendingQuestions(e) = PendingQuestions(db)
    BY Zenon, <2>4 DEF PendingQuestions
  <2>8. CASE Ended(db.task.state)
    <3>1. e.task.state = db.task.state
      BY Zenon, <1>0, <2>5, <2>8 DEF EvidenceSound, EndIsWhole
    <3>2. SubmissionIsKept(e)
      BY SMTT(60), <1>0, <2>1, <2>4, <3>1 DEF EvidenceSound, SubmissionIsKept, Live, TaskState, Terminal
    <3>3. AnswersAreBound(e) /\ ReviewIsBound(e)
      BY Zenon, <1>0, <2>4, <3>1, AnswersStay, ReviewStays DEF EvidenceSound
    <3>4. OneQuestionWaits(e)
      BY Zenon, <1>0, <2>7, <2>8 DEF EvidenceSound, EndIsWhole, OneQuestionWaits
    <3>5. EndIsWhole(e)
      BY ZenonT(60), <1>0, <2>4, <2>5, <2>7, <3>1 DEF EvidenceSound, EndIsWhole
    <3>6. EndsAreFound(e)
      BY Zenon, <1>0, <2>4, <2>5, <3>1 DEF EvidenceSound, EndsAreFound
    <3>7. EvidenceSound(e)
      BY Zenon, <2>6, <3>2, <3>3, <3>4, <3>5, <3>6 DEF EvidenceSound
    <3>. QED BY Zenon, <1>0, <2>1, <3>7 DEF EvidenceInvariant, OwedIsDue
  <2>9. CASE ~Ended(db.task.state)
    <3>1. db.task.state \in TaskState \ Terminal /\ db.derived \in TaskState \ Terminal
      BY Zenon, <1>0, <2>1, <2>2, <2>9 DEF EvidenceSound, EndIsWhole, Ended, Live
    <3>2. SameEnd(db, e)
      BY Zenon, <2>4, <2>5 DEF SameEnd
    <3>3. OneQuestionWaits(e)
      BY Zenon, <1>0, <2>4, <2>5, <2>7 DEF EvidenceSound, OneQuestionWaits
    <3>4. e.operations \ db.operations = {}
      BY Zenon, <2>4
    <3>5. EvidenceSound(e)
      BY Zenon, <1>0, <2>4, <2>5, <2>6, <3>1, <3>2, <3>3, <3>4, UnfinishedStep
    <3>. QED BY Zenon, <1>0, <2>1, <3>5 DEF EvidenceInvariant, OwedIsDue
  <2>. QED BY Zenon, <2>8, <2>9
<1>. QED BY Zenon, <1>1, <1>2

\* The operation's locator is set in a transaction of its own.
LEMMA SetLocatorSound ==
  ASSUME EvidenceInvariant, SetLocator
  PROVE  EvidenceInvariant'
<1>0. EvidenceSound(db)
  BY Zenon DEF EvidenceInvariant
<1>. DEFINE moved == {IF o.of = owed.of /\ o.how = owed.how
                        THEN [o EXCEPT !.locator = db.task.terminal_seq] ELSE o : o \in db.operations}
<1>1. db' = [db EXCEPT !.operations = moved] /\ owed' = NoneOwed
  BY Zenon DEF SetLocator
<1>2. Ended(db.task.state)
  BY DEF EvidenceInvariant, OwedIsDue, SetLocator, NoneOwed
<1>3. \A o \in moved : DOMAIN o = Operation /\ (o.locator # NoSeq => o.locator = db.task.terminal_seq)
  BY Zenon, <1>0 DEF EvidenceSound, EndsAreFound, Operation
<1>. HIDE DEF moved
<1>4. /\ DOMAIN db' = DOMAIN db /\ db'.task = db.task /\ db'.request = db.request
      /\ db'.events = db.events /\ db'.question = db.question /\ db'.answers = db.answers
      /\ db'.results = db.results /\ db'.outbox = db.outbox /\ db'.reviews = db.reviews
      /\ db'.dedup = db.dedup /\ db'.operations = moved /\ db'.tombstone = db.tombstone
      /\ db'.derived = db.derived /\ db'.reclaimed = db.reclaimed
  BY Zenon, <1>0, <1>1 DEF EvidenceSound, RowsHaveShape
<1>5. db.task.state \in TaskState /\ db.task.state \notin {"ABSENT", "COMPACTED"}
  BY Zenon, <1>2 DEF Ended, TaskState, Terminal
<1>6. (RowsHaveShape(db) /\ SubmissionIsKept(db) /\ EventsAreCounted(db))'
  <2>1. RowsHaveShape(db')
    BY ZenonT(60), <1>0, <1>4 DEF EvidenceSound, RowsHaveShape
  <2>2. SubmissionIsKept(db')
    BY ZenonT(60), <1>0, <1>4, <1>5 DEF EvidenceSound, SubmissionIsKept
  <2>3. EventsAreCounted(db')
    BY ZenonT(60), <1>0, <1>4 DEF EvidenceSound, EventsAreCounted
  <2>. QED BY Zenon, <2>1, <2>2, <2>3
<1>7. PendingQuestions(db') = PendingQuestions(db) /\ OneQuestionWaits(db')
  <2>1. PendingQuestions(db') = PendingQuestions(db)
    BY ZenonT(60), <1>4 DEF PendingQuestions
  <2>2. PendingQuestions(db) = {}
    BY Zenon, <1>0, <1>2 DEF EvidenceSound, EndIsWhole
  <2>. QED BY Zenon, <2>1, <2>2 DEF OneQuestionWaits
<1>8. (AnswersAreBound(db) /\ EndIsWhole(db) /\ ReviewIsBound(db))'
  <2>1. AnswersAreBound(db')
    BY Zenon, <1>0, <1>4, AnswersStay DEF EvidenceSound
  <2>2. ReviewIsBound(db')
    BY Zenon, <1>0, <1>4, ReviewStays DEF EvidenceSound
  <2>3. EndIsWhole(db')
    BY ZenonT(60), <1>0, <1>4, <1>7 DEF EvidenceSound, EndIsWhole
  <2>. QED BY Zenon, <2>1, <2>2, <2>3
<1>9. EndsAreFound(db')
  <2>1. \A c \in db.dedup : c.method = "finalize" => c.locator = db.task.terminal_seq
    BY Zenon, <1>0, <1>2, <1>5 DEF EvidenceSound, EndsAreFound, Live
  <2>. QED BY SMTT(60), <1>2, <1>3, <1>4, <2>1 DEF EndsAreFound
<1>10. EvidenceSound(db')
  BY Zenon, <1>6, <1>7, <1>8, <1>9 DEF EvidenceSound
<1>. QED BY Zenon, <1>1, <1>10 DEF EvidenceInvariant, OwedIsDue

\* An expiry asked for again, and one cut short.
LEMMA ExpiryRetriesSound ==
  ASSUME EvidenceInvariant,
         \/ ExpiryCut
         \/ \E q \in Questions, how \in {"timeout", "preflight"} : ExpireAgain(q, how)
  PROVE  EvidenceInvariant'
<1>1. CASE ExpiryCut
  BY Zenon, <1>1 DEF EvidenceInvariant, OwedIsDue, ExpiryCut
<1>2. ASSUME NEW q \in Questions, NEW how \in {"timeout", "preflight"}, ExpireAgain(q, how)
      PROVE  EvidenceInvariant'
  <2>1. /\ db.operations # {} /\ db' = db
        /\ owed' = [step |-> "finalize", of |-> q, how |-> how]
    BY Zenon, <1>2 DEF ExpireAgain
  <2>2. Live(db.task.state)
    BY Zenon, <2>1 DEF EvidenceInvariant, EvidenceSound, SubmissionIsKept, NoEvidence, Live
  <2>3. OwedIsDue'
    BY Zenon, <2>1, <2>2 DEF OwedIsDue
  <2>. QED BY Zenon, <2>1, <2>3 DEF EvidenceInvariant
<1>. QED BY Zenon, <1>1, <1>2

\* The task is submitted.
LEMMA SubmitSound ==
  ASSUME EvidenceInvariant, NEW k, SubmitTask(k)
  PROVE  EvidenceInvariant'
<1>0. EvidenceSound(db) /\ Serving /\ RowsHaveShape(db)
  BY Zenon DEF EvidenceInvariant, SubmitTask, EvidenceSound
<1>. DEFINE command == SubmitCommand(k)
            m == [db EXCEPT !.task.state = "QUEUED", !.request = {command}]
            f == Appended(m, "state_changed", "QUEUED")
            new == [method |-> "submit", key |-> command.key, digest |-> command, locator |-> 0]
            e == [f EXCEPT !.dedup = @ \cup {new}]
<1>1. Commit(e) /\ db.task.state = "ABSENT"
  BY Zenon DEF SubmitTask, Recorded
<1>2. NoEvidence(db) /\ db.dedup = {} /\ db.tombstone = {}
  BY Zenon, <1>0, <1>1 DEF EvidenceSound, SubmissionIsKept, TaskState, Terminal
<1>3. /\ DOMAIN m = DOMAIN db /\ m.task = [db.task EXCEPT !.state = "QUEUED"]
      /\ m.request = {command} /\ m.tombstone = {} /\ m.dedup = {}
      /\ m.results = {} /\ m.outbox = {} /\ m.reviews = {}
      /\ m.events = <<>> /\ m.answers = {} /\ m.question = db.question /\ m.operations = {}
      /\ m.derived = db.derived
  BY Zenon, <1>0, <1>2 DEF RowsHaveShape, NoEvidence
<1>. HIDE DEF command
<1>4. /\ m.task \in TaskRow /\ m.task.state = "QUEUED" /\ m.task.last = 0
      /\ m.task.version = 0 /\ m.task.terminal_seq = NoSeq /\ m.task.terminal_at = NoTime
  <2>1. db.task \in TaskRow /\ "QUEUED" \in RowState
    BY Zenon, <1>0 DEF RowsHaveShape, RowState, TaskState
  <2>2. db.task.last = 0 /\ db.task.version = 0 /\ db.task.terminal_seq = NoSeq
        /\ db.task.terminal_at = NoTime
    BY Zenon, <1>2 DEF NoEvidence, NoRow
  <2>. HIDE DEF m
  <2>. QED BY Zenon, <1>3, <2>1, <2>2 DEF TaskRow
<1>. HIDE DEF m
<1>5. RowsHaveShape(m)
  BY <1>0, <1>3, <1>4 DEF RowsHaveShape
<1>6. /\ DeriveProjection(m.derived, "state_changed", "QUEUED") = "QUEUED"
      /\ DeriveProjection(m.derived, "state_changed", "QUEUED") \in TaskState
  BY Zenon DEF DeriveProjection, TaskState
<1>7. /\ RowsHaveShape(f) /\ EventAdded(m, f) /\ SameEnd(m, f)
      /\ f.task.state = "QUEUED" /\ f.question = m.question /\ f.answers = m.answers
      /\ f.operations = m.operations /\ f.derived = "QUEUED"
  BY SMTT(60), <1>4, <1>5, <1>6, AppendedRow
<1>. HIDE DEF f
<1>8. /\ DOMAIN e = DOMAIN f /\ e.task = f.task /\ e.request = {command} /\ e.events = f.events
      /\ e.question = db.question /\ e.answers = {} /\ e.results = {} /\ e.outbox = {}
      /\ e.reviews = {} /\ e.operations = {} /\ e.tombstone = {} /\ e.dedup = {new}
      /\ e.task.version = 0 /\ e.task.terminal_seq = NoSeq /\ e.task.terminal_at = NoTime
      /\ e.task.state = "QUEUED" /\ e.derived = "QUEUED"
  BY Zenon, <1>3, <1>4, <1>7 DEF RowsHaveShape, SameEnd
<1>9. new.method = "submit" /\ new.digest = command
  BY Zenon
<1>. HIDE DEF e, new
<1>10. \A q \in Questions : e.question[q].state \in {"NONE", "DELETED"}
  BY Zenon, <1>2, <1>8 DEF NoEvidence
<1>11. Live("QUEUED") /\ ~Ended("QUEUED")
  BY Zenon DEF Live, Ended, TaskState, Terminal
<1>12. RowsHaveShape(e)
  <2>1. \A c \in e.dedup : c.method \in Methods
    BY Zenon, <1>8, <1>9 DEF Methods
  <2>. QED BY Zenon, <1>0, <1>7, <1>8, <2>1 DEF RowsHaveShape
<1>13. SubmissionIsKept(e)
  BY Zenon, <1>8, <1>9, <1>11 DEF SubmissionIsKept, Live
<1>14. EventsAreCounted(e)
  <2>1. EventsAreCounted(f)
    <3>2. PICK entry \in EventRow : entry.seq = 1 /\ f.events = Append(<<>>, entry)
      BY <1>3, <1>4, <1>7 DEF EventAdded
    <3>3. Len(f.events) = 1 /\ DOMAIN f.events = 1..1 /\ f.events[1] = entry
      BY <3>2
    <3>. QED BY <1>4, <1>7, <3>2, <3>3 DEF EventsAreCounted, EventAdded
  <2>. QED BY Zenon, <1>8, <2>1 DEF EventsAreCounted
<1>15. OneQuestionWaits(e) /\ AnswersAreBound(e)
  BY Zenon, <1>8, <1>9, <1>10 DEF OneQuestionWaits, AnswersAreBound, PendingQuestions
<1>16. EndIsWhole(e) /\ ReviewIsBound(e) /\ EndsAreFound(e)
  BY Zenon, <1>8, <1>9, <1>11 DEF EndIsWhole, ReviewIsBound, EndsAreFound
<1>17. EvidenceSound(e)
  BY Zenon, <1>12, <1>13, <1>14, <1>15, <1>16 DEF EvidenceSound
<1>. QED BY Zenon, <1>0, <1>1, <1>17, CommitKeeps

\* The question is answered.
LEMMA AnswerSound ==
  ASSUME EvidenceInvariant, NEW k, NEW q \in Questions, NEW kind \in ResponseKind, NEW now \in Times,
         AnswerQuestion(k, q, kind, now)
  PROVE  EvidenceInvariant'
<1>0. EvidenceSound(db) /\ now \in Nat /\ Serving /\ RowsHaveShape(db) /\ Live(db.task.state)
  BY Zenon, TimesArePositive DEF EvidenceInvariant, AnswerQuestion, EvidenceSound
<1>. DEFINE command == ResponseCommand(k, q, kind)
            answer == AnswerRow(command, now)
            entry == [db.question[q] EXCEPT !.state = "ANSWERED", !.answered = now]
            next == IF db.task.state = "WAITING_APPROVAL" THEN "RUNNING" ELSE db.task.state
            m == [db EXCEPT !.question[q].state = "ANSWERED", !.question[q].answered = now,
                            !.answers = @ \cup {answer},
                            !.task.state = IF @ = "WAITING_APPROVAL" THEN "RUNNING" ELSE @]
            f == Appended(m, "interaction_decided", "none")
            new == [method |-> "interaction_response", key |-> command.key, digest |-> command,
                    locator |-> q]
            e == [f EXCEPT !.dedup = @ \cup {new}]
<1>1. Commit(e) /\ db.question[q].state = "PENDING"
  BY Zenon DEF AnswerQuestion, Recorded
<1>2. /\ q \in PendingQuestions(db) /\ db.task.state \in TaskState \ Terminal
      /\ db.reclaimed = TRUE \/ PendingQuestions(db) = {q}
  <2>1. q \in PendingQuestions(db)
    BY Zenon, <1>1 DEF PendingQuestions
  <2>2. ~Ended(db.task.state)
    BY Zenon, <1>0, <2>1 DEF EvidenceSound, EndIsWhole
  <2>3. db.task.state \in TaskState \ Terminal
    BY Zenon, <1>0, <2>2 DEF Live, Ended
  <2>4. db.reclaimed = TRUE \/ \A r \in PendingQuestions(db) : r = q
    BY Zenon, <1>0, <2>1 DEF EvidenceSound, OneQuestionWaits
  <2>. QED BY Zenon, <2>1, <2>3, <2>4
<1>3. /\ DOMAIN m = DOMAIN db /\ m.task = [db.task EXCEPT !.state = next]
      /\ m.request = db.request /\ m.tombstone = db.tombstone /\ m.dedup = db.dedup
      /\ m.results = db.results /\ m.outbox = db.outbox /\ m.reviews = db.reviews
      /\ m.events = db.events /\ m.operations = db.operations
      /\ m.answers = db.answers \cup {answer}
      /\ m.derived = db.derived /\ m.reclaimed = db.reclaimed
      /\ m.question = [db.question EXCEPT ![q] = entry]
  <2>1. db.question \in [Questions -> QuestionRow]
    BY Zenon, <1>0 DEF RowsHaveShape
  <2>. QED BY ZenonT(60), <1>0, <2>1 DEF RowsHaveShape
<1>4. answer.question = q /\ answer.kind = kind /\ answer.at = now
  BY Zenon DEF AnswerRow, ResponseCommand
<1>5. /\ new.method = "interaction_response" /\ new.locator = q
      /\ new.digest = ResponseCommand(new.key, q, kind)
  BY Zenon DEF ResponseCommand
<1>. HIDE DEF m, answer, new
<1>6. next \in RowState /\ next \in TaskState \ Terminal
  BY Zenon, <1>2 DEF RowState, TaskState, Terminal
<1>. HIDE DEF next
<1>7. /\ m.task \in TaskRow /\ m.task.state = next
      /\ m.task.last = db.task.last /\ m.task.projected = db.task.projected
      /\ m.task.version = db.task.version /\ m.task.terminal_seq = db.task.terminal_seq
      /\ m.task.terminal_at = db.task.terminal_at
  <2>1. db.task \in TaskRow
    BY Zenon, <1>0 DEF RowsHaveShape
  <2>. QED BY Zenon, <1>3, <1>6, <2>1 DEF TaskRow
<1>8. /\ m.question \in [Questions -> QuestionRow]
      /\ m.question[q].state = "ANSWERED" /\ m.question[q].answered = now
      /\ \A r \in Questions \ {q} : m.question[r] = db.question[r]
  <2>1. db.question \in [Questions -> QuestionRow]
    BY Zenon, <1>0 DEF RowsHaveShape
  <2>2. entry \in QuestionRow /\ entry.state = "ANSWERED" /\ entry.answered = now
    BY Zenon, <1>0, <2>1 DEF QuestionRow, QuestionState
  <2>. HIDE DEF entry
  <2>. QED BY <1>3, <2>1, <2>2
<1>9. RowsHaveShape(m)
  BY Zenon, <1>0, <1>3, <1>7, <1>8 DEF RowsHaveShape
<1>10. /\ DeriveProjection(m.derived, "interaction_decided", "none") = "RUNNING"
       /\ DeriveProjection(m.derived, "interaction_decided", "none") \in TaskState
  BY Zenon DEF DeriveProjection, TaskState
<1>11. /\ RowsHaveShape(f) /\ EventAdded(m, f) /\ SameEnd(m, f)
       /\ f.task.state = next /\ f.question = m.question /\ f.answers = m.answers
       /\ f.operations = m.operations /\ f.derived = "RUNNING" /\ f.reclaimed = m.reclaimed
  BY SMTT(60), <1>7, <1>9, <1>10, AppendedRow
<1>. HIDE DEF f
<1>12. /\ DOMAIN e = DOMAIN f /\ e.task = f.task /\ e.request = f.request /\ e.events = f.events
       /\ e.question = f.question /\ e.answers = f.answers /\ e.results = f.results
       /\ e.outbox = f.outbox /\ e.reviews = f.reviews /\ e.operations = f.operations
       /\ e.tombstone = f.tombstone /\ e.dedup = f.dedup \cup {new}
       /\ e.derived = f.derived /\ e.reclaimed = f.reclaimed
  BY Zenon, <1>11 DEF RowsHaveShape
<1>. HIDE DEF e
<1>13. RowsHaveShape(e)
  <2>1. \A c \in e.dedup : c.method \in Methods
    BY Zenon, <1>5, <1>11, <1>12 DEF RowsHaveShape, Methods
  <2>. QED BY Zenon, <1>11, <1>12, <2>1 DEF RowsHaveShape
<1>14. Live(next) /\ ~Ended(next) /\ ~Ended(db.task.state) /\ e.task.state = next
       /\ db.task.state \notin {"ABSENT", "COMPACTED"} /\ ~Ended(e.derived)
  BY Zenon, <1>2, <1>6, <1>11, <1>12 DEF Live, Ended, TaskState, Terminal
<1>15. /\ e.request = db.request /\ e.tombstone = db.tombstone /\ e.dedup = db.dedup \cup {new}
       /\ e.results = db.results /\ e.outbox = db.outbox /\ e.reviews = db.reviews
       /\ e.operations = db.operations /\ e.reclaimed = db.reclaimed /\ e.answers = db.answers \cup {answer} /\ e.question = m.question
       /\ e.task.version = db.task.version /\ e.task.terminal_seq = db.task.terminal_seq
       /\ e.task.terminal_at = db.task.terminal_at
  BY <1>2, <1>3, <1>7, <1>11, <1>12 DEF SameEnd
<1>16. SubmissionIsKept(e)
  BY <1>0, <1>5, <1>6, <1>14, <1>15 DEF EvidenceSound, SubmissionIsKept
<1>17. EventsAreCounted(e)
  <2>1. EventAdded(db, e)
    BY Zenon, <1>3, <1>7, <1>11, <1>12 DEF EventAdded
  <2>. QED BY Zenon, <1>0, <2>1, EventsStayCounted DEF EvidenceSound
<1>18. OneQuestionWaits(e)
  <2>1. db.reclaimed = TRUE \/ PendingQuestions(e) = {}
    BY <1>2, <1>8, <1>15 DEF PendingQuestions
  <2>. QED BY Zenon, <1>15, <2>1 DEF OneQuestionWaits
<1>19. AnswersAreBound(e)
  <2>. DEFINE Bound(x, r) == {b \in x.dedup : b.method = "interaction_response" /\ b.locator = r}
              Answers(x, r) == {b \in x.answers : b.question = r}
  <2>1. Bound(db, q) = {} /\ Answers(db, q) = {}
    BY Zenon, <1>0, <1>1 DEF EvidenceSound, AnswersAreBound
  <2>2. Bound(e, q) = {new} /\ Answers(e, q) = {answer} /\ new \in e.dedup /\ answer \in e.answers
    BY <1>4, <1>5, <1>15, <2>1
  <2>3. \A r \in Questions \ {q} : Bound(e, r) = Bound(db, r) /\ Answers(e, r) = Answers(db, r)
    BY Zenon, <1>4, <1>5, <1>15
  <2>4. ASSUME NEW r \in Questions, e.question[r].state = "ANSWERED"
        PROVE  \E a \in e.answers, c \in e.dedup :
                 /\ Answers(e, r) = {a} /\ a.at = e.question[r].answered /\ Bound(e, r) = {c}
                 /\ c.digest = ResponseCommand(c.key, r, a.kind)
    <3>1. CASE r = q
      BY <1>4, <1>5, <1>8, <1>15, <2>2, <3>1
    <3>2. CASE r # q
      <4>1. db.question[r].state = "ANSWERED" /\ e.question[r] = db.question[r]
        BY ZenonT(60), <1>8, <1>15, <2>4, <3>2
      <4>2. PICK a \in db.answers, c \in db.dedup :
                 /\ Answers(db, r) = {a} /\ a.at = db.question[r].answered /\ Bound(db, r) = {c}
                 /\ c.digest = ResponseCommand(c.key, r, a.kind)
        BY SMTT(40), <1>0, <4>1 DEF EvidenceSound, AnswersAreBound
      <4>3. a \in e.answers /\ c \in e.dedup
        BY Zenon, <1>15
      <4>. QED BY Zenon, <2>3, <3>2, <4>1, <4>2, <4>3
    <3>. QED BY Zenon, <3>1, <3>2
  <2>5. ASSUME NEW r \in Questions, e.question[r].state # "ANSWERED"
        PROVE  Answers(e, r) = {}
    <3>1. r # q /\ db.question[r].state # "ANSWERED"
      BY SMTT(60), <1>8, <1>15, <2>5
    <3>. QED BY ZenonT(60), <1>0, <2>3, <3>1 DEF EvidenceSound, AnswersAreBound
  <2>6. \A c \in e.dedup : c.method = "interaction_response" =>
          c.locator \in Questions /\ e.question[c.locator].state = "ANSWERED"
    <3>1. \A c \in db.dedup : c.method = "interaction_response" =>
            c.locator \in Questions /\ db.question[c.locator].state = "ANSWERED"
      BY Zenon, <1>0, <1>2 DEF EvidenceSound, AnswersAreBound
    <3>2. \A r \in Questions : db.question[r].state = "ANSWERED" => e.question[r].state = "ANSWERED"
      BY Zenon, <1>8, <1>15
    <3>3. new.locator \in Questions /\ e.question[new.locator].state = "ANSWERED"
      BY Zenon, <1>0, <1>5, <1>8, <1>15
    <3>. QED BY Zenon, <1>15, <3>1, <3>2, <3>3
  <2>. QED BY <2>4, <2>5, <2>6 DEF AnswersAreBound
<1>20. EndIsWhole(e)
  BY Zenon, <1>0, <1>14, <1>15 DEF EvidenceSound, EndIsWhole
<1>21. ReviewIsBound(e)
  <2>1. \A c \in e.dedup : c.method = "review_ack" => c \in db.dedup
    BY Zenon, <1>5, <1>15
  <2>2. db.dedup \subseteq e.dedup
    BY Zenon, <1>15
  <2>. QED BY Zenon, <1>0, <1>15, <2>1, <2>2, ReviewStays DEF EvidenceSound
<1>22. EndsAreFound(e)
  BY Zenon, <1>0, <1>5, <1>14, <1>15 DEF EvidenceSound, EndsAreFound
<1>23. EvidenceSound(e)
  BY Zenon, <1>13, <1>16, <1>17, <1>18, <1>19, <1>20, <1>21, <1>22 DEF EvidenceSound
<1>. QED BY Zenon, <1>0, <1>1, <1>23, CommitKeeps

\* The result is reviewed.
LEMMA ReviewSound ==
  ASSUME EvidenceInvariant, NEW k, NEW verdict, NEW now \in Times, ReviewResult(k, verdict, now)
  PROVE  EvidenceInvariant'
<1>0. EvidenceSound(db) /\ now \in Nat \ {0} /\ Serving /\ RowsHaveShape(db)
  BY Zenon, TimesArePositive DEF EvidenceInvariant, ReviewResult, EvidenceSound
<1>. DEFINE command(o) == ReviewCommand(k, o.result, verdict)
            review(o) == [id |-> o.result, digest |-> ReviewDigest(command(o)), verdict |-> verdict,
                          at |-> now]
            acked(o) == [o EXCEPT !.acked_at = now, !.review = o.result]
            first(o) == [db EXCEPT !.reviews = @ \cup {review(o)},
                                   !.outbox = (@ \ {o}) \cup {acked(o)}]
<1>1. PICK o \in db.outbox :
        /\ IsNew("review_ack", command(o))
        /\ o.acked_at # NoTime => \E r \in db.reviews :
             /\ r.id = o.review /\ r.digest = ReviewDigest(command(o)) /\ r.verdict = verdict
        /\ Commit(Recorded(IF o.acked_at = NoTime THEN first(o) ELSE db,
                           "review_ack", command(o), o.result))
  BY Zenon DEF ReviewResult
<1>2. /\ Ended(db.task.state) /\ db.outbox = {o} /\ DOMAIN o = Delivery
      /\ o.result = db.task.terminal_seq /\ o.seq = o.result /\ o.at = db.task.terminal_at
      /\ o.result # NoSeq
  BY Zenon, <1>0, <1>1 DEF EvidenceSound, EndIsWhole
<1>3. Live(db.task.state) /\ db.task.state \notin {"ABSENT", "COMPACTED"}
  BY Zenon, <1>2 DEF Ended, Live, TaskState, Terminal
<1>4. o.acked_at = NoTime
  <2>. SUFFICES ASSUME o.acked_at # NoTime PROVE FALSE
    BY Zenon
  <2>1. PICK r \in db.reviews, c \in db.dedup :
          /\ db.reviews = {r} /\ c.method = "review_ack" /\ c.digest = r.digest
          /\ r.digest = ReviewCommand(c.key, o.result, r.verdict)
    BY Zenon, <1>0, <1>1 DEF EvidenceSound, ReviewIsBound
  <2>2. r.digest = ReviewCommand(k, o.result, verdict)
    BY Zenon, <1>1, <2>1 DEF ReviewDigest
  <2>3. c.key = k
    BY <2>1, <2>2 DEF ReviewCommand
  <2>4. command(o).key = k
    BY Zenon DEF ReviewCommand
  <2>. QED BY Zenon, <1>1, <2>1, <2>3, <2>4 DEF IsNew, CommandReplay
<1>5. db.reviews = {} /\ \A c \in db.dedup : ~(c.method = "review_ack" /\ c.locator = o.result)
  BY Zenon, <1>0, <1>1, <1>4 DEF EvidenceSound, ReviewIsBound
<1>. DEFINE done == first(o)
            out == acked(o)
            rev == review(o)
            new == [method |-> "review_ack", key |-> command(o).key, digest |-> command(o),
                    locator |-> o.result]
            e == [done EXCEPT !.dedup = @ \cup {new}]
<1>6. Commit(e)
  BY Zenon, <1>1, <1>4 DEF Recorded
<1>7. /\ DOMAIN e = DOMAIN db /\ e.task = db.task /\ e.request = db.request /\ e.events = db.events
      /\ e.question = db.question /\ e.answers = db.answers /\ e.results = db.results
      /\ e.operations = db.operations /\ e.tombstone = db.tombstone
      /\ e.outbox = (db.outbox \ {o}) \cup {out} /\ e.reviews = db.reviews \cup {rev}
      /\ e.dedup = db.dedup \cup {new} /\ e.derived = db.derived /\ e.reclaimed = db.reclaimed
  BY Zenon, <1>0 DEF RowsHaveShape
<1>8. /\ DOMAIN out = Delivery /\ out.result = o.result /\ out.seq = o.seq /\ out.at = o.at
      /\ out.acked_at = now /\ out.review = o.result
  BY Zenon, <1>2 DEF Delivery
<1>9. /\ rev.id = o.result /\ rev.at = now /\ rev.verdict = verdict
      /\ new.method = "review_ack" /\ new.locator = o.result /\ new.digest = rev.digest
      /\ rev.digest = ReviewCommand(new.key, o.result, verdict)
  BY Zenon DEF ReviewDigest, ReviewCommand
<1>. HIDE DEF e, out, rev, new, done
<1>10. e.outbox = {out} /\ e.reviews = {rev}
  BY Zenon, <1>2, <1>5, <1>7
<1>11. RowsHaveShape(e)
  BY ZenonT(60), <1>0, <1>7, <1>9 DEF RowsHaveShape, Methods
<1>12. SubmissionIsKept(e)
  BY SMTT(60), <1>0, <1>3, <1>7, <1>9 DEF EvidenceSound, SubmissionIsKept
<1>13. EventsAreCounted(e) /\ OneQuestionWaits(e)
  BY SMTT(60), <1>0, <1>7 DEF EvidenceSound, EventsAreCounted, OneQuestionWaits, PendingQuestions
<1>14. AnswersAreBound(e)
  <2>1. \A c \in e.dedup : c.method = "interaction_response" => c \in db.dedup
    BY Zenon, <1>7, <1>9
  <2>2. db.dedup \subseteq e.dedup
    BY ZenonT(60), <1>7
  <2>. QED BY Zenon, <1>0, <1>7, <2>1, <2>2, AnswersStay DEF EvidenceSound
<1>15. EndIsWhole(e)
  <2>1. /\ out \in e.outbox /\ e.outbox = {out} /\ DOMAIN out = Delivery
        /\ out.result = db.task.terminal_seq /\ out.seq = db.task.terminal_seq
        /\ out.at = db.task.terminal_at
    BY Zenon, <1>2, <1>8, <1>10
  <2>2. EndIsWhole(db)
    BY Zenon, <1>0 DEF EvidenceSound
  <2>3. PendingQuestions(e) = PendingQuestions(db)
    BY Zenon, <1>7 DEF PendingQuestions
  <2>. QED BY ZenonT(60), <1>2, <1>7, <2>1, <2>2, <2>3 DEF EndIsWhole
<1>16. ReviewIsBound(e)
  <2>. DEFINE bound == {c \in e.dedup : c.method = "review_ack" /\ c.locator = out.result}
  <2>1. bound = {new}
    BY <1>5, <1>7, <1>8, <1>9
  <2>2. out.acked_at # NoTime
    BY Zenon, <1>0, <1>8 DEF NoTime
  <2>3. /\ rev \in e.reviews /\ new \in bound /\ e.reviews = {rev} /\ rev.id = out.review
        /\ rev.at = out.acked_at /\ bound = {new} /\ new.digest = rev.digest
        /\ rev.digest = ReviewCommand(new.key, out.result, rev.verdict)
    BY ZenonT(60), <1>8, <1>9, <1>10, <2>1
  <2>4. \A c \in e.dedup : c.method = "review_ack" => c.locator = out.result
    BY ZenonT(60), <1>0, <1>2, <1>3, <1>7, <1>8, <1>9 DEF EvidenceSound, ReviewIsBound
  <2>. QED BY <1>10, <2>2, <2>3, <2>4 DEF ReviewIsBound
<1>17. EndsAreFound(e)
  BY ZenonT(60), <1>0, <1>7, <1>9 DEF EvidenceSound, EndsAreFound
<1>18. EvidenceSound(e)
  BY Zenon, <1>11, <1>12, <1>13, <1>14, <1>15, <1>16, <1>17 DEF EvidenceSound
<1>. QED BY Zenon, <1>0, <1>6, <1>18, CommitKeeps

\* The task is compacted to its tombstone.
LEMMA CompactSound ==
  ASSUME EvidenceInvariant, CompactTask
  PROVE  EvidenceInvariant'
<1>0. EvidenceSound(db) /\ Serving /\ RowsHaveShape(db) /\ db.outbox # {}
  BY Zenon DEF EvidenceInvariant, CompactTask, EvidenceSound
<1>. DEFINE gone == [NoRow EXCEPT !.state = "COMPACTED"]
            deleted == [q \in Questions |-> [state |-> "DELETED", expires |-> NoTime, answered |-> NoTime]]
            e == [db EXCEPT !.task = gone, !.request = {}, !.events = <<>>, !.question = deleted,
                            !.answers = {}, !.results = {}, !.outbox = {}, !.reviews = {},
                            !.operations = {}, !.phase = "PRE_DISPATCH", !.reclaimed = FALSE,
                            !.derived = "QUEUED", !.tombstone = {Tombstone(db)}]
<1>1. Commit(e)
  BY Zenon DEF CompactTask
<1>2. Live(db.task.state)
  BY Zenon, <1>0 DEF EvidenceSound, EndIsWhole, Ended, Live, TaskState
<1>3. /\ DOMAIN e = DOMAIN db /\ e.task = gone /\ e.request = {} /\ e.events = <<>>
      /\ e.question = deleted /\ e.answers = {} /\ e.results = {} /\ e.outbox = {}
      /\ e.reviews = {} /\ e.operations = {} /\ e.tombstone = {Tombstone(db)} /\ e.dedup = db.dedup
      /\ e.derived = "QUEUED"
  BY Zenon, <1>0 DEF RowsHaveShape
<1>4. /\ gone \in TaskRow /\ gone.state = "COMPACTED" /\ gone = [NoRow EXCEPT !.state = gone.state]
      /\ gone.version = 0 /\ gone.terminal_seq = NoSeq /\ gone.terminal_at = NoTime
  BY Zenon DEF NoRow, TaskRow, RowState, NoSeq, NoTime
<1>5. deleted \in [Questions -> QuestionRow] /\ \A q \in Questions : deleted[q].state = "DELETED"
  BY Zenon DEF QuestionRow, QuestionState, NoTime
<1>. HIDE DEF gone, deleted, e
<1>6. RowsHaveShape(e)
  <2>1. <<>> \in Seq(EventRow)
    OBVIOUS
  <2>. QED BY Zenon, <1>0, <1>3, <1>4, <1>5, <2>1 DEF RowsHaveShape, TaskState
<1>7. SubmissionIsKept(e)
  <2>1. NoEvidence(e)
    BY Zenon, <1>3, <1>4, <1>5 DEF NoEvidence
  <2>2. \E command \in db.request : /\ db.request = {command}
                     /\ \A c \in db.dedup : c.method = "submit" => c.digest = command
    BY Zenon, <1>0, <1>2 DEF EvidenceSound, SubmissionIsKept, Live, TaskState, Terminal
  <2>3. /\ Tombstone(db).last \in Nat /\ Tombstone(db).evicted = Tombstone(db).last
        /\ Tombstone(db).request = db.request
    BY Zenon, <1>0 DEF Tombstone, RowsHaveShape, TaskRow
  <2>4. \A c \in e.dedup : c.method = "submit" => c.digest \in Tombstone(db).request
    BY Zenon, <1>3, <2>2, <2>3
  <2>. QED BY Zenon, <1>3, <1>4, <2>1, <2>3, <2>4 DEF SubmissionIsKept
<1>8. ~Live("COMPACTED") /\ ~Ended("COMPACTED") /\ ~Ended("QUEUED")
  BY Zenon DEF Live, Ended, TaskState, Terminal
<1>9. EventsAreCounted(e) /\ OneQuestionWaits(e) /\ AnswersAreBound(e)
  BY Zenon, <1>3, <1>4, <1>5, <1>8 DEF EventsAreCounted, OneQuestionWaits, AnswersAreBound, PendingQuestions
<1>10. EndIsWhole(e) /\ ReviewIsBound(e) /\ EndsAreFound(e)
  BY Zenon, <1>3, <1>4, <1>8 DEF EndIsWhole, ReviewIsBound, EndsAreFound
<1>11. EvidenceSound(e)
  BY Zenon, <1>6, <1>7, <1>9, <1>10 DEF EvidenceSound
<1>. QED BY Zenon, <1>0, <1>1, <1>11, CommitKeeps

\* For any questions, commands and times, and whatever is cut short between two
\* transactions: the rows of a task fit one another (storage.rs).
THEOREM EvidenceIsSound == EvidenceSpec => []EvidenceInvariant
<1>1. EvidenceInvariant /\ [EvidenceNext]_evidenceVars => EvidenceInvariant'
  <2>. SUFFICES ASSUME EvidenceInvariant, [EvidenceNext]_evidenceVars PROVE EvidenceInvariant'
    BY Zenon
  <2>1. ASSUME NEW k \in CommandKeys, SubmitTask(k) \/ CancelTask(k)
        PROVE  EvidenceInvariant'
    BY Zenon, <2>1, SubmitSound, CancelSound
  <2>2. CASE StartAttempt \/ Output \/ FinalizeBegins \/ ReclaimPreflightSlot \/ Reopen
    BY Zenon, <2>2, StartAttemptSound, OutputSound, FinalizeBeginsSound, ReclaimSound, ReopenSound
  <2>3. ASSUME NEW q \in Questions, NEW now \in Times,
               \/ OpenQuestion(q, now + 1)
               \/ ExpireQuestion(q, now)
               \/ ExpirePreflightQuestion(q, now)
        PROVE  EvidenceInvariant'
    <3>1. now + 1 \in Nat
      BY TimesArePositive
    <3>. QED BY Zenon, <2>3, <3>1, OpenQuestionSound, ExpiresSound DEF ExpireQuestion, ExpirePreflightQuestion
  <2>4. CASE \/ ExpiryCut
             \/ \E q \in Questions, how \in {"timeout", "preflight"} : ExpireAgain(q, how)
    BY Zenon, <2>4, ExpiryRetriesSound
  <2>5. CASE SetLocator \/ CompactTask
    BY Zenon, <2>5, SetLocatorSound, CompactSound
  <2>6. ASSUME NEW q \in Questions, NEW k \in CommandKeys, NEW kind \in ResponseKind,
               NEW now \in Times, AnswerQuestion(k, q, kind, now)
        PROVE  EvidenceInvariant'
    BY Zenon, <2>6, AnswerSound
  <2>7. ASSUME NEW k \in CommandKeys, NEW terminal \in Endings, NEW now \in Times,
               FinalizeTask(k, terminal, now)
        PROVE  EvidenceInvariant'
    BY Zenon, <2>7, FinalizeSound
  <2>8. ASSUME NEW k \in CommandKeys, NEW verdict \in Verdicts, NEW now \in Times,
               ReviewResult(k, verdict, now)
        PROVE  EvidenceInvariant'
    BY Zenon, <2>8, ReviewSound
  <2>9. ASSUME NEW reached \in {"SPAWN_PREPARED", "PROCESS_STARTED"}, RecordDispatchPhase(reached)
         PROVE  EvidenceInvariant'
    BY Zenon, <2>9, DispatchPhaseSound
  <2>10. ASSUME NEW now \in Times, ExpiryFinalizes(now)
         PROVE  EvidenceInvariant'
    BY Zenon, <2>10, ExpiryFinalizesSound
  <2>11. CASE UNCHANGED evidenceVars
    BY Zenon, <2>11 DEF evidenceVars, EvidenceInvariant, OwedIsDue
  <2>. QED BY ZenonT(60), <2>1, <2>2, <2>3, <2>4, <2>5, <2>6, <2>7, <2>8, <2>11, <2>9, <2>10
           DEF EvidenceNext
<1>. QED BY <1>1, EvidenceStarts, PTL DEF EvidenceSpec

\* Every reader's checks follow from that.
LEMMA SoundRowsAreRead ==
  ASSUME EvidenceSound(db)
  PROVE  ReadsNeverQuarantine
<1>1. db.task.state # "ABSENT" => ContiguousPrefix(db)
  <2>1. CASE Live(db.task.state)
    BY SMTT(40), <2>1 DEF EvidenceSound, RowsHaveShape, TaskRow, EventsAreCounted, ContiguousPrefix, LoadCursor
  <2>2. CASE db.task.state = "COMPACTED"
    <3>1. PICK t \in db.tombstone : db.tombstone = {t} /\ t.last \in Nat /\ t.evicted = t.last
      BY Zenon, <2>2 DEF EvidenceSound, SubmissionIsKept, TaskState, Terminal
    <3>2. db.events = <<>> /\ ~Live(db.task.state)
      BY Zenon, <2>2 DEF EvidenceSound, SubmissionIsKept, NoEvidence, Live, TaskState, Terminal
    <3>3. (CHOOSE x \in db.tombstone : TRUE) = t
      BY Zenon, <3>1
    <3>4. LoadCursor(db) = [evicted |-> t.last, last |-> t.last]
      BY Zenon, <3>1, <3>2, <3>3 DEF LoadCursor
    <3>. QED BY <3>1, <3>2, <3>4 DEF ContiguousPrefix
  <2>. QED BY ZenonT(60), <2>1, <2>2 DEF EvidenceSound, SubmissionIsKept, Live
<1>2. db.reclaimed \/ LoadPendingInteraction(db)
  BY Zenon DEF EvidenceSound, OneQuestionWaits, LoadPendingInteraction
<1>3. \A q \in Questions : LoadInteraction(db, q)
  BY SMTT(40) DEF EvidenceSound, AnswersAreBound, LoadInteraction, LoadInteractionResponse,
         VerifyInteractionCommandBinding
<1>4. LoadResult(db)
  <2>1. CASE ~Ended(db.task.state)
    BY Zenon, <2>1 DEF EvidenceSound, EndIsWhole, LoadResult
  <2>2. CASE Ended(db.task.state)
    <3>. DEFINE seq == db.task.terminal_seq
                r == [id |-> seq, seq |-> seq, at |-> db.task.terminal_at]
    <3>1. PICK o \in db.outbox :
            /\ seq # NoSeq /\ db.task.last = seq /\ db.task.version = 1
            /\ db.results = {r} /\ db.outbox = {o}
            /\ o.result = seq /\ o.seq = seq /\ o.at = db.task.terminal_at
            /\ db.events[seq].kind = "terminal" /\ db.events[seq].at = db.task.terminal_at
            /\ db.events[seq].state = db.task.state /\ db.events[seq].result = seq
      BY Zenon, <2>2 DEF EvidenceSound, EndIsWhole
    <3>2. /\ Len(db.events) = seq /\ db.task.projected = seq /\ seq \in Nat
          /\ \A n \in DOMAIN db.events : db.events[n].seq = n
      BY ZenonT(60), <2>2, <3>1 DEF EvidenceSound, EventsAreCounted, Live, Ended, TaskState, RowsHaveShape, TaskRow
    <3>3. seq \in DOMAIN db.events /\ db.events[seq].seq = seq
      BY SMTT(40), <3>1, <3>2 DEF EvidenceSound, RowsHaveShape, NoSeq
    <3>4. VerifyTerminalEvent(db, seq, seq)
      BY Zenon, <3>1, <3>3 DEF VerifyTerminalEvent
    <3>5. LoadReview(db, o)
      BY Zenon, <3>1 DEF EvidenceSound, ReviewIsBound, LoadReview, VerifyReviewCommandBinding
    <3>6. r.id = seq /\ r.seq = seq /\ r.at = db.task.terminal_at /\ r \in db.results
      BY Zenon, <3>1
    <3>. HIDE DEF r
    <3>. QED BY Zenon, <2>2, <3>1, <3>2, <3>4, <3>5, <3>6 DEF LoadResult
  <2>. QED BY Zenon, <2>1, <2>2
<1>5. LoadTaskRequest(db) /\ VerifyMandatoryTaskRequests(db)
  BY Zenon DEF EvidenceSound, SubmissionIsKept, LoadTaskRequest, VerifyMandatoryTaskRequests, Live, TaskState,
         Terminal
<1>6. VerifyReviewEvidence(db)
  BY SMTT(60) DEF EvidenceSound, ReviewIsBound, VerifyReviewEvidence, VerifyStoredReviewBinding
<1>7. VerifyInteractionEvidence(db)
  BY SMTT(40) DEF EvidenceSound, AnswersAreBound, VerifyInteractionEvidence, InteractionResponseEvidence,
         VerifyInteractionResponseCommandBinding
<1>8. ReplayAccepts(db)
  BY Zenon DEF EvidenceSound, EndIsWhole, ReplayAccepts, Ended
<1>. QED BY Zenon, <1>1, <1>2, <1>3, <1>4, <1>5, <1>6, <1>7, <1>8 DEF ReadsNeverQuarantine, LoadRows

\* And every recorded command finds the rows of its answer.
LEMMA SoundRowsReplay ==
  ASSUME EvidenceSound(db)
  PROVE  RecordedCommandsReplay
<1>1. ASSUME Ended(db.task.state) PROVE LoadDelivery(db, db.task.terminal_seq)
  BY Zenon, <1>1 DEF EvidenceSound, EndIsWhole, LoadDelivery
<1>2. \A o \in db.operations : o.locator # NoSeq => LoadDelivery(db, o.locator)
  BY Zenon, <1>1 DEF EvidenceSound, EndsAreFound
<1>3. ASSUME NEW c \in db.dedup, Live(db.task.state) \/ c.method \in {"submit", "cancel"}
      PROVE  Replayed(db, c)
  <2>0. c.method \in Methods
    BY Zenon DEF EvidenceSound, RowsHaveShape
  <2>1. CASE c.method = "submit"
    <3>1. VerifyTaskRequest(db, c.digest)
      BY Zenon, <2>1 DEF EvidenceSound, SubmissionIsKept, NoEvidence, VerifyTaskRequest
    <3>. QED BY Zenon, <2>1, <3>1 DEF Replayed
  <2>2. CASE c.method = "interaction_response"
    <3>. DEFINE q == c.locator
    <3>1. q \in Questions /\ db.question[q].state = "ANSWERED"
      BY ZenonT(60), <1>3, <2>2 DEF EvidenceSound, AnswersAreBound
    <3>2. PICK a \in db.answers, b \in db.dedup :
            /\ {x \in db.answers : x.question = q} = {a}
            /\ {x \in db.dedup : x.method = "interaction_response" /\ x.locator = q} = {b}
            /\ b.digest = ResponseCommand(b.key, q, a.kind)
      BY <3>1 DEF EvidenceSound, AnswersAreBound
    <3>3. c = b /\ a.question = q
      BY Zenon, <2>2, <3>2
    <3>4. c.digest.question = q /\ c.digest.response = a.kind
      BY <3>2, <3>3 DEF ResponseCommand
    <3>5. VerifyInteractionResponseReplay(db, c.digest)
      BY Zenon, <3>1, <3>3, <3>4 DEF VerifyInteractionResponseReplay, InteractionResponseEvidence
    <3>. QED BY Zenon, <2>2, <3>5 DEF Replayed
  <2>3. CASE c.method = "review_ack"
    <3>1. PICK o \in db.outbox : o.result = c.locator
      BY Zenon, <1>3, <2>3 DEF EvidenceSound, ReviewIsBound
    <3>2. PICK r \in db.reviews, b \in db.dedup :
            /\ o.acked_at # NoTime /\ r.id = o.review
            /\ {x \in db.dedup : x.method = "review_ack" /\ x.locator = o.result} = {b}
            /\ b.digest = r.digest /\ r.digest = ReviewCommand(b.key, o.result, r.verdict)
      BY Zenon, <2>3, <3>1 DEF EvidenceSound, ReviewIsBound
    <3>3. c = b
      BY ZenonT(60), <2>3, <3>1, <3>2
    <3>4. c.digest.result = o.result /\ c.digest.verdict = r.verdict
      BY SMTT(40), <3>2, <3>3 DEF ReviewCommand
    <3>5. VerifyReviewReplay(db, c.digest)
      BY Zenon, <3>2, <3>3, <3>4 DEF VerifyReviewReplay, ReviewDigest
    <3>. QED BY Zenon, <2>3, <3>5 DEF Replayed
  <2>4. CASE c.method = "finalize"
    <3>1. LoadDelivery(db, c.locator)
      BY Zenon, <1>1, <1>3, <2>4 DEF EvidenceSound, EndsAreFound
    <3>. QED BY Zenon, <2>4, <3>1 DEF Replayed
  <2>5. CASE c.method = "cancel"
    BY Zenon, <2>5 DEF Replayed
  <2>. QED BY Zenon, <2>0, <2>1, <2>2, <2>3, <2>4, <2>5 DEF Methods
<1>. QED BY Zenon, <1>2, <1>3 DEF RecordedCommandsReplay

\* Reading back what the store wrote never quarantines a task: the checks of
\* the events' reader, of the answers, of the delivery and of the review all
\* hold of its own rows (storage.rs and reader.rs).
THEOREM NoReaderQuarantines == EvidenceSpec => []ReadsNeverQuarantine
BY EvidenceIsSound, SoundRowsAreRead, PTL DEF EvidenceInvariant

\* A command that was recorded is answered again with its own answer, as long
\* as its rows are there (storage.rs, the replay of a deduplicated command).
THEOREM CommandsReplay == EvidenceSpec => []RecordedCommandsReplay
BY EvidenceIsSound, SoundRowsReplay, PTL DEF EvidenceInvariant

-----------------------------------------------------------------------------
(* Approvals: one answer, applied once.                                    *)

\* The task's row: a question is answered exactly when a kind is recorded.
RowShape ==
  /\ DOMAIN row = {"state", "phase", "question", "kind", "finalizing", "denied", "reclaimed"}
  /\ DOMAIN row.question = Asked /\ DOMAIN row.kind = Asked
  /\ \A q \in Asked : row.question[q] = "ANSWERED" <=> row.kind[q] # "none"
  /\ row.reclaimed \in BOOLEAN

\* One record per caller.
CallShape ==
  /\ DOMAIN call = Callers
  /\ \A c \in Callers : DOMAIN call[c] = {"at", "of", "kind", "replayed", "before"}

\* A call that goes on after it committed a first answer.
Answering(c) ==
  call[c].at \in {"phase", "state", "reclaim", "finalizing", "cancel", "forward"} /\ ~call[c].replayed

\* One call committed the answer to a question, and only it may still forward it.
AnswerIsOne ==
  /\ \A c \in Callers : call[c].at = "forward" => Answering(c)
  /\ \A c \in Callers : Answering(c) =>
       call[c].of \in Asked /\ row.question[call[c].of] = "ANSWERED" /\ forwards[call[c].of] = 0
  /\ \A c, d \in Callers : Answering(c) /\ Answering(d) /\ call[c].of = call[d].of => c = d
  /\ forwards \in [Asked -> {0, 1}]
  /\ \A q \in Asked : forwards[q] # 0 => row.question[q] = "ANSWERED"

\* A slot is reclaimed only for an approval, and a caller is told to spawn only
\* once it is.
GrantIsEarned ==
  /\ row.reclaimed => Approved
  /\ granted # {} => row.reclaimed

\* The inductive invariant.
ApprovalInvariant == RowShape /\ CallShape /\ AnswerIsOne /\ GrantIsEarned

\* It holds before the first question.
LEMMA ApprovalInitSound == ApprovalInit => ApprovalInvariant
<1>. SUFFICES ASSUME ApprovalInit PROVE ApprovalInvariant
  BY Zenon
<1>1. /\ DOMAIN row = {"state", "phase", "question", "kind", "finalizing", "denied", "reclaimed"}
      /\ row.question = [q \in Asked |-> "NONE"] /\ row.kind = [q \in Asked |-> "none"]
      /\ row.reclaimed = FALSE
  BY DEF ApprovalInit
<1>2. RowShape /\ GrantIsEarned
  BY Zenon, <1>1 DEF RowShape, GrantIsEarned, ApprovalInit
<1>3. CallShape /\ \A c \in Callers : call[c].at = "idle"
  BY Zenon DEF CallShape, ApprovalInit, NoCall
<1>4. AnswerIsOne
  BY <1>3 DEF AnswerIsOne, Answering, ApprovalInit
<1>. QED BY Zenon, <1>2, <1>3, <1>4 DEF ApprovalInvariant

\* A committed answer stays.
AnswersKept ==
  \A q \in Asked : row.question[q] = "ANSWERED" =>
    row'.question[q] = "ANSWERED" /\ row'.kind[q] = row.kind[q]

\* So an approval stays.
LEMMA ApprovalStays ==
  ASSUME AnswersKept
  PROVE  Approved => Approved'
BY Zenon DEF Approved, AnswersKept

\* A step that changes the row of an open or answered question, and one call.
LEMMA RowMoves ==
  ASSUME ApprovalInvariant, RowShape', CallShape', GrantIsEarned', UNCHANGED forwards, AnswersKept,
         NEW c \in Callers, \A d \in Callers \ {c} : call'[d] = call[d],
         Answering(c)' => Answering(c) /\ call'[c].of = call[c].of,
         call'[c].at = "forward" => Answering(c)'
  PROVE  ApprovalInvariant'
<1>1. \A d \in Callers : Answering(d)' => Answering(d) /\ call'[d].of = call[d].of
  BY Zenon DEF Answering
<1>2. \A d \in Callers : call'[d].at = "forward" => Answering(d)'
  BY Zenon DEF ApprovalInvariant, AnswerIsOne, Answering
<1>3. AnswerIsOne'
  BY ZenonT(60), <1>1, <1>2 DEF ApprovalInvariant, AnswerIsOne, AnswersKept
<1>. QED BY Zenon, <1>3 DEF ApprovalInvariant

\* A step that leaves the row, and moves one call.
LEMMA CallMoves ==
  ASSUME ApprovalInvariant, NEW c \in Callers, UNCHANGED <<row, forwards>>, CallShape',
         \A d \in Callers \ {c} : call'[d] = call[d],
         Answering(c)' => Answering(c) /\ call'[c].of = call[c].of,
         call'[c].at = "forward" => Answering(c)',
         granted' = granted \/ row.reclaimed
  PROVE  ApprovalInvariant'
<1>1. AnswersKept
  BY Zenon DEF AnswersKept
<1>2. RowShape' /\ GrantIsEarned'
  <2>1. RowShape'
    BY ZenonT(60) DEF ApprovalInvariant, RowShape
  <2>. QED BY Zenon, <1>1, <2>1, ApprovalStays DEF ApprovalInvariant, GrantIsEarned
<1>. QED BY Zenon, <1>1, <1>2, RowMoves

\* A call that ends is no longer answering.
LEMMA CallReturns ==
  ASSUME ApprovalInvariant, NEW c \in Callers, Return(c)
  PROVE  /\ CallShape' /\ ~Answering(c)' /\ call'[c].at = "idle"
         /\ \A d \in Callers \ {c} : call'[d] = call[d]
BY Zenon DEF ApprovalInvariant, CallShape, Return, NoCall, Answering

\* A call that goes on keeps its answer and what it knows of a replay.
LEMMA CallGoes ==
  ASSUME ApprovalInvariant, NEW c \in Callers, NEW l, Move(c, l)
  PROVE  /\ CallShape' /\ call'[c].at = l /\ call'[c].replayed = call[c].replayed
         /\ call'[c].of = call[c].of
         /\ \A d \in Callers \ {c} : call'[d] = call[d]
BY Zenon DEF ApprovalInvariant, CallShape, Move

\* What ends a call, with the row and the child's stdin untouched.
LEMMA QuietReturn ==
  ASSUME ApprovalInvariant, NEW c \in Callers, Return(c), UNCHANGED <<row, granted, forwards>>
  PROVE  ApprovalInvariant'
BY Zenon, CallReturns, CallMoves

\* respond: the first answer is committed; a repeated one is a replay.
LEMMA RespondKeeps ==
  ASSUME ApprovalInvariant, NEW c \in Callers, NEW q \in Asked, NEW kind \in ResponseKind,
         Respond(c, q, kind)
  PROVE  ApprovalInvariant'
<1>0. kind # "none" /\ UNCHANGED <<granted, forwards>> /\ call[c].at = "idle"
  BY Zenon DEF ResponseKind, Respond, At
<1>1. CASE /\ row.question[q] = "PENDING"
           /\ row' = [row EXCEPT !.question[q] = "ANSWERED", !.kind[q] = kind,
                                 !.state = IF @ = "WAITING_APPROVAL" THEN "RUNNING" ELSE @]
           /\ call' = [call EXCEPT ![c] = [NoCall EXCEPT !.at = "phase", !.of = q, !.kind = kind]]
  <2>1. /\ DOMAIN row' = DOMAIN row /\ row'.reclaimed = row.reclaimed
        /\ row'.question = [row.question EXCEPT ![q] = "ANSWERED"]
        /\ row'.kind = [row.kind EXCEPT ![q] = kind]
    BY Zenon, <1>1 DEF ApprovalInvariant, RowShape
  <2>2. RowShape' /\ AnswersKept /\ row'.question[q] = "ANSWERED"
    BY ZenonT(60), <1>0, <1>1, <2>1 DEF ApprovalInvariant, RowShape, AnswersKept
  <2>3. GrantIsEarned'
    BY Zenon, <1>0, <2>1, <2>2, ApprovalStays DEF ApprovalInvariant, GrantIsEarned
  <2>4. CallShape' /\ call'[c].at = "phase" /\ call'[c].of = q
        /\ \A d \in Callers \ {c} : call'[d] = call[d]
    BY Zenon, <1>1 DEF ApprovalInvariant, CallShape, NoCall
  <2>5. forwards[q] = 0 /\ \A d \in Callers : Answering(d) => call[d].of # q
    BY Zenon, <1>1 DEF ApprovalInvariant, AnswerIsOne
  <2>6. \A d \in Callers \ {c} : (Answering(d)' <=> Answering(d)) /\ call'[d] = call[d]
    BY Zenon, <2>4 DEF Answering
  <2>7. AnswerIsOne'
    <3>1. \A d \in Callers : call'[d].at = "forward" => Answering(d)'
      BY Zenon, <2>4, <2>6 DEF ApprovalInvariant, AnswerIsOne
    <3>2. \A d \in Callers : Answering(d)' =>
            call'[d].of \in Asked /\ row'.question[call'[d].of] = "ANSWERED"
            /\ forwards'[call'[d].of] = 0
      <4>1. \A d \in Callers \ {c} : Answering(d)' =>
              call'[d].of \in Asked /\ row.question[call'[d].of] = "ANSWERED"
              /\ forwards[call'[d].of] = 0
        BY SMTT(30), <2>6 DEF ApprovalInvariant, AnswerIsOne
      <4>. QED BY Zenon, <1>0, <2>2, <2>4, <2>5, <4>1 DEF AnswersKept
    <3>3. \A d, e \in Callers : Answering(d)' /\ Answering(e)' /\ call'[d].of = call'[e].of => d = e
      BY ZenonT(60), <2>4, <2>5, <2>6 DEF ApprovalInvariant, AnswerIsOne
    <3>4. /\ forwards' \in [Asked -> {0, 1}]
          /\ \A r \in Asked : forwards'[r] # 0 => row'.question[r] = "ANSWERED"
      BY Zenon, <1>0, <2>2 DEF ApprovalInvariant, AnswerIsOne, AnswersKept
    <3>. QED BY Zenon, <3>1, <3>2, <3>3, <3>4 DEF AnswerIsOne
  <2>. QED BY Zenon, <2>2, <2>3, <2>4, <2>7 DEF ApprovalInvariant
<1>2. CASE UNCHANGED row
           /\ call' = [call EXCEPT ![c] = [NoCall EXCEPT !.at = "phase", !.of = q, !.kind = kind,
                                                         !.replayed = TRUE]]
  <2>1. CallShape' /\ call'[c].at = "phase" /\ call'[c].replayed
        /\ \A d \in Callers \ {c} : call'[d] = call[d]
    BY Zenon, <1>2 DEF ApprovalInvariant, CallShape, NoCall
  <2>. QED BY Zenon, <1>0, <1>2, <2>1, CallMoves DEF Answering
<1>. QED BY Zenon, <1>1, <1>2 DEF Respond

\* The snapshots between the steps of a call change nothing.
LEMMA ReadKeeps ==
  ASSUME ApprovalInvariant, NEW c \in Callers,
         ReadPhase(c) \/ ReadState(c) \/ SnapshotFails(c) \/ \E q \in Asked : ExpireReads(c, q)
  PROVE  ApprovalInvariant'
<1>1. UNCHANGED <<row, granted, forwards>>
  BY Zenon DEF ReadPhase, ReadState, SnapshotFails, ExpireReads
<1>2. CASE Return(c)
  BY Zenon, <1>1, <1>2, QuietReturn
<1>3. CASE ReadPhase(c)
  <2>1. ASSUME NEW l \in {"state", "forward"}, Move(c, l), l = "forward" => ~call[c].replayed
        PROVE  ApprovalInvariant'
    BY Zenon, <1>1, <1>3, <2>1, CallGoes, CallMoves DEF ReadPhase, At, Answering
  <2>. QED BY Zenon, <1>2, <1>3, <2>1 DEF ReadPhase
<1>4. CASE ReadState(c)
  <2>1. CallShape' /\ call'[c].at \in {"finalizing", "reclaim"} /\ call'[c].replayed = call[c].replayed
        /\ call'[c].of = call[c].of
        /\ \A d \in Callers \ {c} : call'[d] = call[d]
    BY Zenon, <1>4 DEF ApprovalInvariant, CallShape, ReadState
  <2>. QED BY Zenon, <1>1, <1>4, <2>1, CallMoves DEF ReadState, At, Answering
<1>5. ASSUME NEW q \in Asked, ExpireReads(c, q)
      PROVE  ApprovalInvariant'
  <2>1. CallShape' /\ call'[c].at \in {"expire_preflight", "expire_runtime"}
        /\ \A d \in Callers \ {c} : call'[d] = call[d]
    BY Zenon, <1>5 DEF ApprovalInvariant, CallShape, ExpireReads, NoCall
  <2>. QED BY Zenon, <1>1, <2>1, CallMoves DEF Answering
<1>. QED BY Zenon, <1>2, <1>3, <1>4, <1>5 DEF SnapshotFails

\* The slot is reclaimed, or is not.
LEMMA ReclaimKeeps ==
  ASSUME ApprovalInvariant, NEW c \in Callers,
         ReclaimSlot(c) \/ ReclaimBlocked(c) \/ ReclaimRefused(c)
  PROVE  ApprovalInvariant'
<1>1. Return(c) /\ UNCHANGED forwards
  BY Zenon DEF ReclaimSlot, ReclaimBlocked, ReclaimRefused
<1>2. CASE ReclaimRefused(c)
  BY Zenon, <1>1, <1>2, QuietReturn DEF ReclaimRefused
<1>3. CASE ReclaimSlot(c)
  <2>1. CASE row.reclaimed /\ UNCHANGED row
    BY Zenon, <1>1, <1>3, <2>1, CallReturns, CallMoves
  <2>2. CASE Approved /\ row' = [row EXCEPT !.state = "RUNNING", !.reclaimed = TRUE]
    <3>1. /\ RowShape' /\ row'.question = row.question /\ row'.kind = row.kind /\ row'.reclaimed
      BY Zenon, <2>2 DEF ApprovalInvariant, RowShape
    <3>2. AnswersKept
      BY Zenon, <3>1 DEF AnswersKept
    <3>3. GrantIsEarned'
      BY Zenon, <2>2, <3>1, <3>2, ApprovalStays DEF GrantIsEarned
    <3>. QED BY Zenon, <1>1, <3>1, <3>2, <3>3, CallReturns, RowMoves
  <2>. QED BY Zenon, <1>3, <2>1, <2>2 DEF ReclaimSlot, Reclaims, Reclaimable
<1>4. CASE ReclaimBlocked(c)
  <2>1. /\ RowShape' /\ row'.question = row.question /\ row'.kind = row.kind
        /\ row'.reclaimed = row.reclaimed
    BY Zenon, <1>4 DEF ApprovalInvariant, RowShape, ReclaimBlocked
  <2>2. AnswersKept
    BY Zenon, <2>1 DEF AnswersKept
  <2>3. GrantIsEarned'
    BY Zenon, <1>4, <2>1, <2>2, ApprovalStays DEF ApprovalInvariant, GrantIsEarned, ReclaimBlocked
  <2>. QED BY Zenon, <1>1, <2>1, <2>2, <2>3, CallReturns, RowMoves
<1>. QED BY Zenon, <1>2, <1>3, <1>4

\* The end of a task decides the questions that are still open.
LEMMA SettlingKeeps ==
  ASSUME ApprovalInvariant, DOMAIN row' = DOMAIN row, row'.question = SettledQuestions,
         row'.kind = row.kind, row'.reclaimed = row.reclaimed, UNCHANGED granted
  PROVE  RowShape' /\ AnswersKept /\ GrantIsEarned'
<1>1. \A q \in Asked : row'.question[q] = "ANSWERED" <=> row.question[q] = "ANSWERED"
  BY Zenon DEF SettledQuestions
<1>2. RowShape' /\ AnswersKept
  <2>1. DOMAIN row'.question = Asked
    BY Zenon DEF SettledQuestions
  <2>. QED BY Zenon, <1>1, <2>1 DEF ApprovalInvariant, RowShape, AnswersKept
<1>. QED BY Zenon, <1>2, ApprovalStays DEF ApprovalInvariant, GrantIsEarned

\* A denial moves the task to its end and leaves the question as it is.
LEMMA DenyKeeps ==
  ASSUME ApprovalInvariant, NEW c \in Callers, DenyFinalizing(c) \/ DenyFinalize(c)
  PROVE  ApprovalInvariant'
<1>1. UNCHANGED <<granted, forwards>>
  BY Zenon DEF DenyFinalizing, DenyFinalize
<1>2. CASE DenyFinalizing(c)
  <2>1. /\ RowShape' /\ row'.question = row.question /\ row'.kind = row.kind
        /\ row'.reclaimed = row.reclaimed
    BY Zenon, <1>2 DEF ApprovalInvariant, RowShape, DenyFinalizing
  <2>2. AnswersKept
    BY Zenon, <2>1 DEF AnswersKept
  <2>3. GrantIsEarned'
    BY Zenon, <1>1, <2>1, <2>2, ApprovalStays DEF ApprovalInvariant, GrantIsEarned
  <2>4. /\ CallShape' /\ \A d \in Callers \ {c} : call'[d] = call[d]
        /\ call'[c].at = "cancel" /\ call[c].at = "finalizing"
        /\ call'[c].replayed = call[c].replayed /\ call'[c].of = call[c].of
    BY Zenon, <1>2, CallGoes DEF DenyFinalizing, At
  <2>5. (Answering(c)' => Answering(c)) /\ call'[c].at # "forward"
    BY Zenon, <2>4 DEF Answering
  <2>. QED BY Zenon, <1>1, <2>1, <2>2, <2>3, <2>4, <2>5, RowMoves
<1>3. CASE DenyFinalize(c) /\ row' = row
  BY Zenon, <1>1, <1>3, QuietReturn DEF DenyFinalize
<1>4. CASE /\ DenyFinalize(c)
           /\ row' = [row EXCEPT !.state = "CANCELLED", !.denied = TRUE, !.question = SettledQuestions]
  <2>1. /\ DOMAIN row' = DOMAIN row /\ row'.question = SettledQuestions /\ row'.kind = row.kind
        /\ row'.reclaimed = row.reclaimed
    BY Zenon, <1>4 DEF ApprovalInvariant, RowShape
  <2>. QED BY Zenon, <1>1, <1>4, <2>1, SettlingKeeps, CallReturns, RowMoves DEF DenyFinalize
<1>. QED BY Zenon, <1>2, <1>3, <1>4 DEF DenyFinalize

\* The answer is written to the child's stdin: by the one call that committed
\* it.
LEMMA ForwardKeeps ==
  ASSUME ApprovalInvariant, NEW c \in Callers, Forward(c)
  PROVE  ApprovalInvariant'
<1>. DEFINE q == call[c].of
<1>1. /\ CallShape' /\ ~Answering(c)' /\ call'[c].at = "idle"
      /\ \A d \in Callers \ {c} : call'[d] = call[d]
  BY Zenon, CallReturns DEF Forward
<1>2. /\ Answering(c) /\ q \in Asked /\ row.question[q] = "ANSWERED" /\ forwards[q] = 0
      /\ UNCHANGED <<row, granted>>
  BY Zenon DEF ApprovalInvariant, AnswerIsOne, Forward, At
<1>3. /\ forwards' \in [Asked -> {0, 1}]
      /\ \A r \in Asked \ {q} : forwards'[r] = forwards[r]
  <2>1. forwards \in [Asked -> {0, 1}]
    BY Zenon DEF ApprovalInvariant, AnswerIsOne
  <2>2. forwards' = [forwards EXCEPT ![q] = @ + IF row.phase = "running" THEN 1 ELSE 0]
    BY Zenon DEF Forward
  <2>. HIDE DEF q
  <2>. QED BY <1>2, <2>1, <2>2
<1>4. \A d \in Callers : Answering(d)' =>
        Answering(d) /\ call'[d] = call[d] /\ call[d].of # q
  BY Zenon, <1>1, <1>2 DEF ApprovalInvariant, AnswerIsOne, Answering
<1>. HIDE DEF q
<1>5. AnswerIsOne'
  <2>1. \A d \in Callers : call'[d].at = "forward" => Answering(d)'
    BY Zenon, <1>1 DEF ApprovalInvariant, AnswerIsOne, Answering
  <2>2. \A d \in Callers : Answering(d)' =>
          call'[d].of \in Asked /\ row'.question[call'[d].of] = "ANSWERED"
          /\ forwards'[call'[d].of] = 0
    <3>1. \A d \in Callers : Answering(d)' =>
            call'[d].of \in Asked \ {q} /\ row.question[call'[d].of] = "ANSWERED"
            /\ forwards[call'[d].of] = 0
      BY SMTT(30), <1>4 DEF ApprovalInvariant, AnswerIsOne
    <3>. QED BY Zenon, <1>2, <1>3, <3>1
  <2>3. \A d, e \in Callers : Answering(d)' /\ Answering(e)' /\ call'[d].of = call'[e].of => d = e
    BY ZenonT(60), <1>4 DEF ApprovalInvariant, AnswerIsOne
  <2>4. \A r \in Asked : forwards'[r] # 0 => row'.question[r] = "ANSWERED"
    BY Zenon, <1>2, <1>3 DEF ApprovalInvariant, AnswerIsOne
  <2>. QED BY Zenon, <1>3, <2>1, <2>2, <2>3, <2>4 DEF AnswerIsOne
<1>6. RowShape' /\ GrantIsEarned'
  BY Zenon, <1>2 DEF ApprovalInvariant, RowShape, GrantIsEarned, Approved
<1>. QED BY Zenon, <1>1, <1>5, <1>6 DEF ApprovalInvariant

\* An expiry takes an open question only.
LEMMA ExpireKeeps ==
  ASSUME ApprovalInvariant, NEW c \in Callers, ExpirePending(c)
  PROVE  ApprovalInvariant'
<1>1. Return(c) /\ UNCHANGED <<granted, forwards>>
  BY Zenon DEF ExpirePending
<1>2. CASE row' = row
  BY Zenon, <1>1, <1>2, QuietReturn
<1>3. CASE row' # row
  <2>1. row' = [row EXCEPT !.question = SettledQuestions,
                           !.state = IF At(c, "expire_preflight") THEN "CANCELLED"
                                     ELSE "NEEDS_ATTENTION",
                           !.phase = IF At(c, "expire_runtime") /\ @ = "running" THEN "gone" ELSE @]
    BY Zenon, <1>3 DEF ExpirePending
  <2>2. /\ DOMAIN row' = DOMAIN row /\ row'.question = SettledQuestions /\ row'.kind = row.kind
        /\ row'.reclaimed = row.reclaimed
    BY Zenon, <2>1 DEF ApprovalInvariant, RowShape
  <2>. QED BY Zenon, <1>1, <2>2, SettlingKeeps, CallReturns, RowMoves
<1>. QED BY Zenon, <1>2, <1>3

\* What happens around the calls.
LEMMA AroundKeeps ==
  ASSUME ApprovalInvariant,
         \/ TimeAndSlots \/ RequestCancel \/ ChildStartsOrEnds \/ \E q \in Asked : OpenPending(q)
         \/ UNCHANGED approvalVars
  PROVE  ApprovalInvariant'
<1>1. UNCHANGED <<call, granted, forwards>>
  BY Zenon DEF TimeAndSlots, RequestCancel, ChildStartsOrEnds, OpenPending, approvalVars
<1>2. RowShape' /\ AnswersKept /\ row'.reclaimed = row.reclaimed
  <2>1. CASE UNCHANGED row
    BY Zenon, <2>1 DEF ApprovalInvariant, RowShape, AnswersKept
  <2>2. CASE ChildStartsOrEnds
    <3>1. /\ DOMAIN row' = DOMAIN row /\ row'.question = row.question /\ row'.kind = row.kind
          /\ row'.reclaimed = row.reclaimed
      BY Zenon, <2>2 DEF ApprovalInvariant, RowShape, ChildStartsOrEnds
    <3>. QED BY Zenon, <3>1 DEF ApprovalInvariant, RowShape, AnswersKept
  <2>3. ASSUME NEW q \in Asked, OpenPending(q)
        PROVE  RowShape' /\ AnswersKept /\ row'.reclaimed = row.reclaimed
    <3>1. /\ DOMAIN row' = DOMAIN row /\ row'.kind = row.kind /\ row'.reclaimed = row.reclaimed
          /\ row'.question = [row.question EXCEPT ![q] = "PENDING"] /\ row.question[q] = "NONE"
      BY Zenon, <2>3 DEF ApprovalInvariant, RowShape, OpenPending
    <3>. QED BY ZenonT(60), <3>1 DEF ApprovalInvariant, RowShape, AnswersKept
  <2>4. CASE RequestCancel
    <3>. DEFINE cancelled == [q \in Asked |-> IF row.question[q] = "PENDING" THEN "CANCELLED"
                                              ELSE row.question[q]]
    <3>1. /\ DOMAIN row' = DOMAIN row /\ row'.kind = row.kind /\ row'.reclaimed = row.reclaimed
          /\ row'.question = cancelled
      BY Zenon, <2>4 DEF ApprovalInvariant, RowShape, RequestCancel
    <3>2. /\ DOMAIN cancelled = Asked
          /\ \A q \in Asked : cancelled[q] = "ANSWERED" <=> row.question[q] = "ANSWERED"
      BY Zenon
    <3>. HIDE DEF cancelled
    <3>. QED BY ZenonT(60), <3>1, <3>2 DEF ApprovalInvariant, RowShape, AnswersKept
  <2>. QED BY Zenon, <2>1, <2>2, <2>3, <2>4 DEF TimeAndSlots, approvalVars
<1>3. GrantIsEarned' /\ CallShape'
  BY Zenon, <1>1, <1>2, ApprovalStays DEF ApprovalInvariant, GrantIsEarned, CallShape
<1>4. \A c \in Callers : Answering(c)' <=> Answering(c)
  BY Zenon, <1>1 DEF Answering
<1>5. AnswerIsOne'
  BY ZenonT(60), <1>1, <1>2, <1>4 DEF ApprovalInvariant, AnswerIsOne, AnswersKept
<1>. QED BY Zenon, <1>2, <1>3, <1>5 DEF ApprovalInvariant

\* One call committed the answer to a question and only it forwards it; a slot is
\* reclaimed, and a caller told to spawn, only after an approval (approvals.rs).
THEOREM AnswerIsApplied == ApprovalSpec => []ApprovalInvariant
<1>1. ApprovalInvariant /\ [ApprovalNext]_approvalVars => ApprovalInvariant'
  BY Zenon, RespondKeeps, ReadKeeps, ReclaimKeeps, DenyKeeps, ForwardKeeps, ExpireKeeps, AroundKeeps
  DEF ApprovalNext
<1>. QED BY <1>1, ApprovalInitSound, PTL DEF ApprovalSpec

\* Silence is not consent, for any number of callers and questions: nobody is told
\* to spawn without a committed approval, and nothing reaches the child without a
\* committed answer to its question, and that once.
THEOREM ConsentIsRequired == ApprovalSpec => []OnlyConsentActs
<1>1. ApprovalInvariant => OnlyConsentActs
  <2>. SUFFICES ASSUME ApprovalInvariant PROVE OnlyConsentActs
    BY Zenon
  <2>1. granted # {} => Approved
    BY Zenon DEF ApprovalInvariant, GrantIsEarned
  <2>2. ASSUME NEW q \in Asked
        PROVE  /\ row.question[q] \in {"EXPIRED", "CANCELLED"} => forwards[q] = 0
               /\ forwards[q] <= 1
    <3>1. forwards[q] \in {0, 1} /\ (forwards[q] # 0 => row.question[q] = "ANSWERED")
      BY Zenon DEF ApprovalInvariant, AnswerIsOne
    <3>. QED BY <3>1
  <2>. QED BY Zenon, <2>1, <2>2 DEF OnlyConsentActs
<1>. QED BY <1>1, AnswerIsApplied, PTL

-----------------------------------------------------------------------------
(* Backup: a restore brings back the database as it stands.                *)

\* A database counts its committed commands in its mutation epoch.
CountsItsWrites(b) ==
  /\ DOMAIN b = {"epoch", "writes", "quiet", "recorded"}
  /\ b.epoch \in Nat /\ b.writes = b.epoch /\ b.quiet \in Nat

\* So does every copy; a manifest names the epoch of the snapshot it was
\* written for; and the epoch a restore was admitted at is still that of the
\* database when the file is replaced.
CopiesMatchManifests ==
  /\ CountsItsWrites(base)
  /\ DOMAIN snapshot = Backups /\ DOMAIN manifest = Backups
  /\ \A i \in Backups : snapshot[i] # NoBackup => CountsItsWrites(snapshot[i])
  /\ \A i \in Backups : manifest[i] # NoBackup => manifest[i].epoch = manifest[i].hash.epoch
  /\ running => working = NoBackup \/ working.at # "replace"
  /\ working # NoBackup =>
       /\ DOMAIN working = {"id", "at", "copy"}
       /\ working.id \in Backups
       /\ CountsItsWrites(working.copy)
       /\ working.at = "manifest" => snapshot[working.id] = working.copy
       /\ working.at = "replace" => working.copy.epoch = base.epoch /\ rescued = base

\* Every step of a backup and of a restore keeps the copies matched.
LEMMA CopiesStayMatched ==
  ASSUME CopiesMatchManifests, [BackupNext]_backupVars
  PROVE  CopiesMatchManifests'
<1>. USE DEF CopiesMatchManifests
<1>1. CASE UNCHANGED backupVars
  BY Zenon, <1>1 DEF backupVars
<1>2. CASE Mutate
  <2>1. CountsItsWrites(base')
    BY <1>2 DEF Mutate, CountsItsWrites
  <2>. QED BY Zenon, <1>2, <2>1 DEF Mutate, Free
<1>11. CASE MutateQuietly
  <2>1. CountsItsWrites(base')
    BY <1>11 DEF MutateQuietly, CountsItsWrites
  <2>. QED BY Zenon, <1>11, <2>1 DEF MutateQuietly, Free
<1>3. ASSUME NEW i \in Backups, CopyDatabase(i) PROVE CopiesMatchManifests'
  BY Zenon, <1>3 DEF CopyDatabase
<1>4. CASE PublishSnapshot
  <2>1. /\ working'.id = working.id /\ working'.copy = working.copy /\ working'.at = "manifest"
        /\ DOMAIN working' = {"id", "at", "copy"}
    BY Zenon, <1>4 DEF PublishSnapshot
  <2>2. snapshot'[working.id] = working.copy
    BY Zenon, <1>4 DEF PublishSnapshot
  <2>3. \A i \in Backups : snapshot'[i] = IF i = working.id THEN working.copy ELSE snapshot[i]
    BY Zenon, <1>4 DEF PublishSnapshot
  <2>. QED BY Zenon, <1>4, <2>1, <2>2, <2>3 DEF PublishSnapshot
<1>5. CASE PublishManifest
  <2>1. /\ working'.id = working.id /\ working'.copy = working.copy /\ working'.at = "row"
        /\ DOMAIN working' = {"id", "at", "copy"}
    BY Zenon, <1>5 DEF PublishManifest
  <2>2. \A i \in Backups : manifest'[i] =
          IF i = working.id THEN [epoch |-> working.copy.epoch, hash |-> snapshot[working.id]]
          ELSE manifest[i]
    BY Zenon, <1>5 DEF PublishManifest
  <2>3. snapshot[working.id] = working.copy
    BY Zenon, <1>5 DEF PublishManifest
  <2>. QED BY Zenon, <1>5, <2>1, <2>2, <2>3 DEF PublishManifest
<1>6. CASE RecordBackup
  <2>1. CountsItsWrites(base')
    BY Zenon, <1>6 DEF RecordBackup, CountsItsWrites
  <2>. QED BY Zenon, <1>6, <2>1 DEF RecordBackup
<1>7. ASSUME NEW i \in Backups, BeginRestore(i) PROVE CopiesMatchManifests'
  BY Zenon, <1>7 DEF BeginRestore, RestoreAllowed
<1>8. CASE ReplaceDatabase
  BY Zenon, <1>8 DEF ReplaceDatabase
<1>9. CASE StopDaemon
  BY Zenon, <1>9 DEF StopDaemon
<1>10. CASE StartDaemon
  <2>1. CountsItsWrites(base')
    BY <1>10 DEF StartDaemon, CountsItsWrites
  <2>. QED BY Zenon, <1>10, <2>1 DEF StartDaemon
<1>. QED BY Zenon, <1>1, <1>2, <1>3, <1>4, <1>5, <1>6, <1>7, <1>8, <1>9, <1>10, <1>11 DEF BackupNext

\* A copy counts its writes in its epoch, and a manifest names the epoch of the
\* snapshot it was written for (storage.rs, backup and restore).
THEOREM CopiesAreMatched == BackupSpec => []CopiesMatchManifests
<1>1. BackupInit => CopiesMatchManifests
  BY DEF BackupInit, CopiesMatchManifests, CountsItsWrites
<1>. QED BY <1>1, CopiesStayMatched, PTL DEF BackupSpec

\* A restore, whenever it was admitted and however often it was cut short,
\* never takes a committed command away, and what else it takes away is in the
\* rescue copy (restore_backup_offline).
THEOREM NoWriteIsLost == BackupSpec => RestoreLosesNothing
<1>. DEFINE Kept == /\ base'.writes >= base.writes
                    /\ base'.quiet < base.quiet => rescued = base
<1>1. CopiesMatchManifests /\ [BackupNext]_backupVars => [Kept]_backupVars
  <2>1. SUFFICES ASSUME CopiesMatchManifests, BackupNext PROVE Kept
    BY Zenon
  <2>2. CountsItsWrites(base) /\ base.writes \in Nat /\ base.quiet \in Nat
    BY Zenon, <2>1 DEF CopiesMatchManifests, CountsItsWrites
  <2>3. CASE base' = base
    BY <2>2, <2>3
  <2>4. CASE Mutate
    BY <2>2, <2>4 DEF Mutate, CountsItsWrites
  <2>7. CASE MutateQuietly
    BY <2>2, <2>7 DEF MutateQuietly, CountsItsWrites
  <2>8. CASE StartDaemon
    BY <2>2, <2>8 DEF StartDaemon, CountsItsWrites
  <2>5. CASE RecordBackup
    BY <2>2, <2>5 DEF RecordBackup, CountsItsWrites
  <2>6. CASE ReplaceDatabase
    BY <2>1, <2>2, <2>6 DEF ReplaceDatabase, CopiesMatchManifests, CountsItsWrites
  <2>. QED
    BY Zenon, <2>1, <2>3, <2>4, <2>5, <2>6, <2>7, <2>8 DEF BackupNext, CopyDatabase,
       BeginRestore, PublishSnapshot, PublishManifest, StopDaemon
<1>. QED BY <1>1, CopiesAreMatched, PTL DEF BackupSpec, RestoreLosesNothing

-----------------------------------------------------------------------------
(* PurgeTree: the fingerprint of what was unlinked.                        *)

\* What an entry of a fingerprint says was unlinked.
Unlinks(entries) == {[path |-> e.path, id |-> e.id] : e \in entries}

\* Every object has an identity that was given out before.
IdentitiesAreOld ==
  /\ changes \in Nat
  /\ DOMAIN tree = TreePaths
  /\ \A p \in PathsIn(tree) :
       /\ DOMAIN tree[p] = {"id", "kind", "reparse", "acl"}
       /\ tree[p].id \in 0..(5 + changes)

\* No object in the tree is the one an entry of the removal recorded at its
\* path: a replacement has another identity.
NeverTheSameAgain ==
  \A e \in removed.entries :
    /\ e.id \in 0..(5 + changes)
    /\ e.path \in PathsIn(tree) => tree[e.path].id # e.id

\* So no two entries of a removal cancel out in its fingerprint, which
\* therefore records everything that was unlinked.
FingerprintIsFaithful ==
  /\ IdentitiesAreOld
  /\ NeverTheSameAgain
  /\ unlinked = Unlinks(removed.entries)
  /\ phase = "done" => removed = audited

\* The tree that remove_purge_directory finds has identities of its own.
LEMMA InitialIdentities == tree \in InstallTrees /\ changes = 0 => IdentitiesAreOld
<1>1. SUFFICES ASSUME tree \in InstallTrees, changes = 0 PROVE IdentitiesAreOld
  BY Zenon
<1>2. DOMAIN tree = TreePaths
  BY Zenon, <1>1 DEF InstallTrees
<1>3. \A p \in TreePaths : tree[p] # Absent =>
        \E i \in {1, 2, 3, 4, 5} : \E k, a : tree[p] = Node(i, k, a)
  <2>1. PICK b \in {Absent, DataFile(5), DataFile(4)} :
          tree = [p \in TreePaths |->
                    CASE p = <<>> -> Node(1, "dir", ApplyUserOnlyAcl(Inherit))
                      [] p = <<Key>> -> Node(2, "file", ApplyUserOnlyAcl({}))
                      [] p = <<Data>> -> Node(3, "dir", DataRootAcl)
                      [] p = FileA -> DataFile(4)
                      [] p = FileB -> b]
    BY Zenon, <1>1 DEF InstallTrees
  <2>2. ASSUME NEW p \in TreePaths
        PROVE  \/ tree[p] = Node(1, "dir", ApplyUserOnlyAcl(Inherit))
               \/ tree[p] = Node(2, "file", ApplyUserOnlyAcl({}))
               \/ tree[p] = Node(3, "dir", DataRootAcl)
               \/ tree[p] = DataFile(4)
               \/ tree[p] = b
    BY <2>1 DEF TreePaths
  <2>. QED BY Zenon, <2>1, <2>2 DEF DataFile
<1>4. ASSUME NEW p \in PathsIn(tree)
      PROVE  /\ DOMAIN tree[p] = {"id", "kind", "reparse", "acl"}
             /\ tree[p].id \in 0..5
  <2>1. PICK i \in {1, 2, 3, 4, 5} : \E k, a : tree[p] = Node(i, k, a)
    BY Zenon, <1>2, <1>3 DEF PathsIn
  <2>2. PICK k, a : tree[p] = Node(i, k, a)
    BY Zenon, <2>1
  <2>. QED BY <2>2 DEF Node
<1>. QED BY <1>1, <1>2, <1>4 DEF IdentitiesAreOld

\* What is unlinked goes into the second fingerprint with the identity it had.
LEMMA RemovalIsRecorded ==
  ASSUME FingerprintIsFaithful, RemoveEntry
  PROVE  FingerprintIsFaithful'
<1>1. PICK p \in PathsIn(tree) :
        \/ /\ tree' = [tree EXCEPT ![p] = Absent]
           /\ removed' = AddReport(removed, tree, outside, p)
           /\ unlinked' = unlinked \cup {[path |-> p, id |-> tree[p].id]}
           /\ phase' = IF p = <<>> THEN "compare" ELSE phase
        \/ phase' = "refused" /\ UNCHANGED <<tree, removed, unlinked>>
  BY Zenon DEF RemoveEntry
<1>2. phase = "removing" /\ changes' = changes
  BY Zenon DEF RemoveEntry
<1>3. CASE phase' = "refused" /\ UNCHANGED <<tree, removed, unlinked>>
  BY Zenon, <1>2, <1>3 DEF FingerprintIsFaithful, IdentitiesAreOld, NeverTheSameAgain
<1>4. CASE /\ tree' = [tree EXCEPT ![p] = Absent]
           /\ removed' = AddReport(removed, tree, outside, p)
           /\ unlinked' = unlinked \cup {[path |-> p, id |-> tree[p].id]}
           /\ phase' = IF p = <<>> THEN "compare" ELSE phase
  <2>. DEFINE e == [path |-> p, id |-> tree[p].id, kind |-> tree[p].kind,
                    links |-> Links(tree, outside, p)]
  <2>1. /\ e.path = p /\ e.id = tree[p].id /\ p \in DOMAIN tree
        /\ e.id \in 0..(5 + changes)
    BY Zenon DEF FingerprintIsFaithful, IdentitiesAreOld, PathsIn
  <2>2. e \notin removed.entries
    BY Zenon, <2>1 DEF FingerprintIsFaithful, NeverTheSameAgain
  <2>3. removed'.entries = removed.entries \cup {e}
    BY Zenon, <1>4, <2>2 DEF AddReport, Fingerprint
  <2>. HIDE DEF e
  <2>4. PathsIn(tree') = PathsIn(tree) \ {p} /\ \A q \in PathsIn(tree') : tree'[q] = tree[q]
    BY Zenon, <1>4, <2>1 DEF PathsIn
  <2>5. IdentitiesAreOld'
    <3>1. DOMAIN tree' = TreePaths
      BY Zenon, <1>4 DEF FingerprintIsFaithful, IdentitiesAreOld
    <3>. QED BY Zenon, <1>2, <2>4, <3>1 DEF FingerprintIsFaithful, IdentitiesAreOld
  <2>6. NeverTheSameAgain'
    BY Zenon, <1>2, <2>1, <2>3, <2>4 DEF FingerprintIsFaithful, NeverTheSameAgain
  <2>7. unlinked' = Unlinks(removed'.entries)
    BY Zenon, <1>4, <2>1, <2>3 DEF FingerprintIsFaithful, Unlinks
  <2>8. phase' # "done"
    BY Zenon, <1>2, <1>4
  <2>. QED BY Zenon, <2>5, <2>6, <2>7, <2>8 DEF FingerprintIsFaithful
<1>. QED BY Zenon, <1>1, <1>3, <1>4

\* What another process creates has an identity nobody has seen.
LEMMA OthersUseNewIdentities ==
  ASSUME FingerprintIsFaithful, OtherProcess
  PROVE  FingerprintIsFaithful'
<1>1. changes \in Nat /\ changes' = changes + 1 /\ UNCHANGED <<phase, audited, removed, unlinked>>
  BY Zenon DEF OtherProcess, FingerprintIsFaithful, IdentitiesAreOld
<1>2. DOMAIN tree' = TreePaths
  BY Zenon DEF OtherProcess, FingerprintIsFaithful, IdentitiesAreOld
<1>3. \A q \in PathsIn(tree') :
        /\ DOMAIN tree'[q] = {"id", "kind", "reparse", "acl"}
        /\ \/ q \in PathsIn(tree) /\ tree'[q].id = tree[q].id
           \/ tree'[q].id = 6 + changes
  <2>1. ASSUME NEW q \in PathsIn(tree'), NEW p \in {FileA, FileB},
               tree' = [tree EXCEPT ![p] = DataFile(6 + changes)]
        PROVE  /\ DOMAIN tree'[q] = {"id", "kind", "reparse", "acl"}
               /\ \/ q \in PathsIn(tree) /\ tree'[q].id = tree[q].id
                  \/ tree'[q].id = 6 + changes
    <3>1. CASE q = p
      <4>1. tree'[q] = DataFile(6 + changes)
        BY Zenon, <2>1, <3>1, <1>2 DEF FingerprintIsFaithful, IdentitiesAreOld, PathsIn
      <4>. QED BY <4>1 DEF DataFile, Node
    <3>2. CASE q # p
      BY Zenon, <2>1, <3>2, <1>2 DEF FingerprintIsFaithful, IdentitiesAreOld, PathsIn
    <3>. QED BY Zenon, <3>1, <3>2
  <2>2. ASSUME NEW q \in PathsIn(tree'), NEW p \in {FileA, FileB}, tree[p] # Absent,
               tree' = [tree EXCEPT ![p] = Absent]
        PROVE  /\ DOMAIN tree'[q] = {"id", "kind", "reparse", "acl"}
               /\ q \in PathsIn(tree) /\ tree'[q].id = tree[q].id
    BY Zenon, <2>2, <1>2 DEF FingerprintIsFaithful, IdentitiesAreOld, PathsIn
  <2>3. ASSUME NEW q \in PathsIn(tree'), NEW p \in {FileA, FileB}, tree[p] # Absent,
               tree' = [tree EXCEPT ![p].acl = ApplyUserOnlyAcl({})]
        PROVE  /\ DOMAIN tree'[q] = {"id", "kind", "reparse", "acl"}
               /\ q \in PathsIn(tree) /\ tree'[q].id = tree[q].id
    <3>1. p \in PathsIn(tree)
      BY Zenon, <2>3 DEF FingerprintIsFaithful, IdentitiesAreOld, PathsIn, TreePaths
    <3>2. q \in PathsIn(tree)
      BY Zenon, <2>3, <1>2, <3>1 DEF FingerprintIsFaithful, IdentitiesAreOld, PathsIn
    <3>3. tree'[q] = IF q = p THEN [tree[p] EXCEPT !.acl = ApplyUserOnlyAcl({})] ELSE tree[q]
      BY Zenon, <2>3, <1>2, <3>1, <3>2 DEF FingerprintIsFaithful, IdentitiesAreOld, PathsIn
    <3>. QED BY Zenon, <3>1, <3>2, <3>3 DEF FingerprintIsFaithful, IdentitiesAreOld
  <2>4. ASSUME NEW q \in PathsIn(tree'), tree' = tree
        PROVE  /\ DOMAIN tree'[q] = {"id", "kind", "reparse", "acl"}
               /\ q \in PathsIn(tree) /\ tree'[q].id = tree[q].id
    BY Zenon, <2>4 DEF FingerprintIsFaithful, IdentitiesAreOld
  <2>. QED BY Zenon, <2>1, <2>2, <2>3, <2>4 DEF OtherProcess
<1>4. IdentitiesAreOld'
  <2>1. ASSUME NEW q \in PathsIn(tree') PROVE tree'[q].id \in 0..(5 + changes')
    BY <2>1, <1>1, <1>3 DEF FingerprintIsFaithful, IdentitiesAreOld
  <2>. QED BY <1>1, <1>2, <1>3, <2>1 DEF IdentitiesAreOld
<1>5. NeverTheSameAgain'
  <2>1. ASSUME NEW e \in removed.entries
        PROVE  /\ e.id \in 0..(5 + changes')
               /\ e.path \in PathsIn(tree') => tree'[e.path].id # e.id
    <3>1. /\ e.id \in 0..(5 + changes)
          /\ e.path \in PathsIn(tree) => tree[e.path].id # e.id
      BY Zenon DEF FingerprintIsFaithful, NeverTheSameAgain
    <3>. QED BY <1>1, <1>3, <3>1
  <2>. QED BY Zenon, <1>1, <2>1 DEF NeverTheSameAgain
<1>. QED BY Zenon, <1>1, <1>4, <1>5 DEF FingerprintIsFaithful

\* The second fingerprint says what was unlinked, and a call that is done has
\* compared it with the first (mesh-win32/src/windows.rs, the audits before and
\* during a purge).
THEOREM FingerprintsAreFaithful == TreeSpec => []FingerprintIsFaithful
<1>1. TreeInit => FingerprintIsFaithful
  BY InitialIdentities DEF TreeInit, FingerprintIsFaithful, NeverTheSameAgain, Nothing, Unlinks
<1>2. FingerprintIsFaithful /\ [TreeNext]_treeVars => FingerprintIsFaithful'
  <2>1. SUFFICES ASSUME FingerprintIsFaithful, [TreeNext]_treeVars PROVE FingerprintIsFaithful'
    BY Zenon
  <2>. USE DEF FingerprintIsFaithful, IdentitiesAreOld, NeverTheSameAgain
  <2>2. CASE UNCHANGED treeVars
    BY Zenon, <2>1, <2>2 DEF treeVars
  <2>3. CASE StageTree \/ Reaudit
    BY Zenon, <2>1, <2>3 DEF StageTree, Reaudit
  <2>4. CASE AuditBegin
    <3>1. removed' = Nothing /\ unlinked' = {} /\ UNCHANGED <<tree, changes>>
      BY Zenon, <2>4 DEF AuditBegin
    <3>2. phase' = "done" => audited' = Nothing
      BY Zenon, <2>4 DEF AuditBegin
    <3>. QED BY Zenon, <2>1, <3>1, <3>2 DEF Nothing, Unlinks
  <2>5. CASE Compare
    BY Zenon, <2>1, <2>5 DEF Compare
  <2>6. CASE CrashPurger
    BY Zenon, <2>1, <2>6 DEF CrashPurger, Nothing, Unlinks
  <2>. QED
    BY Zenon, <2>1, <2>2, <2>3, <2>4, <2>5, <2>6, RemovalIsRecorded, OthersUseNewIdentities DEF TreeNext
<1>. QED BY <1>1, <1>2, PTL DEF TreeSpec

\* When the call reports success, what it unlinked is exactly what the first
\* audit recorded, whatever the other process did in between.
THEOREM SuccessIsAudited == TreeSpec => []SuccessMeansAudited
<1>1. FingerprintIsFaithful => SuccessMeansAudited
  BY Zenon DEF FingerprintIsFaithful, SuccessMeansAudited, Unlinks
<1>. QED BY <1>1, FingerprintsAreFaithful, PTL

=============================================================================
