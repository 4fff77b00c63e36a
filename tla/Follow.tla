------------------------------- MODULE Follow -------------------------------
(***************************************************************************)
(* The follow console of crates/mesh-daemon/src/follow.rs: it polls one     *)
(* task's durable events page by page and prints them until the task has    *)
(* ended, while the daemon goes on appending events, ending the task,       *)
(* admitting newer tasks and, much later, compacting it.                    *)
(*                                                                          *)
(* Wording, colours and wrapping are left out.  An event is the kind of     *)
(* piece follow_piece makes of it: "text" and "think" are the two streams   *)
(* the console collects, "line" is printed at once and "skip" makes no      *)
(* piece (an unknown kind, an empty text, a noise warning).                 *)
(***************************************************************************)
EXTENDS EventPage

CONSTANTS
    ConsolePage,    \* PAGE
    EventSize,      \* the encoded size of each kind of event
    RecentTasks,    \* the newest tasks `terminal' looks at, 200
    MaxEvents,      \* bound of the model on the log
    MaxBusy         \* bound of the model on transient read errors

ASSUME FollowAssumption == ConsolePage \in Nat /\ FrameLimit \in Nat

VARIABLES
    feed,           \* the task's committed rows
    console,        \* the follow loop
    shown           \* what it has printed, collected and folded

followVars == <<feed, console, shown>>

Pieces == {"text", "think", "line"}
Kinds == Pieces \cup {"skip"}

FollowInit ==
    /\ feed = [events |-> <<"line">>, ended |-> FALSE, compacted |-> FALSE, newer |-> 0]
    /\ console = [pc |-> "events", after |-> 0, empty |-> FALSE, busy |-> 0]
    /\ shown = [printed |-> <<>>, text_hold |-> <<>>, fold |-> <<>>]

-----------------------------------------------------------------------------
(* The task, as the writer commits it. *)

\* append_event for a live task; the last one is finalize's terminal event.
CommitEvent(kind, ends) ==
    /\ ~feed.ended
    /\ Len(feed.events) < MaxEvents - 1 \/ ends
    /\ ends => kind = "line"
    /\ feed' = [feed EXCEPT !.events = Append(@, kind), !.ended = ends]
    /\ UNCHANGED <<console, shown>>

\* A later submit.
NewerTask ==
    /\ feed.newer < RecentTasks
    /\ feed' = [feed EXCEPT !.newer = @ + 1]
    /\ UNCHANGED <<console, shown>>

\* compact_eligible_tasks: the tombstone keeps the last sequence only.
CompactFollowed ==
    /\ feed.ended /\ ~feed.compacted
    /\ feed' = [feed EXCEPT !.compacted = TRUE]
    /\ UNCHANGED <<console, shown>>

-----------------------------------------------------------------------------
(* What the console reads, each in a snapshot of its own. *)

\* public_events_after.
Events(after) ==
    LET last == Len(feed.events)
        sizes == [n \in 1..last |-> EventSize[feed.events[n]]]
    IN  LoadEventPage(sizes, IF feed.compacted THEN last ELSE 0, last, after,
                      ConsolePage, FrameLimit)

\* The task is among the newest ones task_summaries returns.
Listed == ~feed.compacted /\ feed.newer < RecentTasks

\* ReaderFollow::terminal: an absent task counts as running.
TaskTerminal == Listed /\ feed.ended

-----------------------------------------------------------------------------
(* FollowStream.  An element is the event number; order is what counts. *)

\* flush_text, flush_fold.
FlushText(s) == [s EXCEPT !.printed = @ \o s.text_hold, !.text_hold = <<>>]
FlushFold(s) == [s EXCEPT !.printed = @ \o s.fold, !.fold = <<>>]

\* finish.
FinishPrinting(s) == FlushFold(FlushText(s))

\* Faulty: text is collected while a fold is still open.
WriteStreamKeepsFold(s, n) == [s EXCEPT !.text_hold = Append(@, n)]

\* write_stream.  follow_piece makes no channel but text and think, so the
\* branch for other channels is never taken.
WriteStream(s, n) ==
    LET flushed == FlushFold(s)
    IN  [flushed EXCEPT !.text_hold = Append(@, n)]

\* write_fold.
WriteFold(s, n) ==
    LET open == IF s.fold = <<>> THEN FlushFold(FlushText(s)) ELSE s
    IN  [open EXCEPT !.fold = Append(@, n)]

\* FollowStream::write on the piece of event n.
WritePiece(s, n, kind) ==
    CASE kind = "text" -> WriteStream(s, n)
      [] kind = "think" -> WriteFold(s, n)
      [] kind = "line" -> [FinishPrinting(s) EXCEPT !.printed = Append(@, n)]
      [] kind = "skip" -> s

\* The loop over one page.
WritePage(s, from, to) ==
    LET written[n \in from..to] ==
          IF n = from THEN s ELSE WritePiece(written[n - 1], n, feed.events[n])
    IN  written[to]

-----------------------------------------------------------------------------
(* follow_loop. *)

\* Either read may time out or find the pool saturated; the loop sleeps with a
\* growing delay and starts over.
ReadBusy ==
    /\ console.pc \in {"events", "terminal"} /\ console.busy < MaxBusy
    /\ console' = [console EXCEPT !.pc = "events", !.busy = @ + 1]
    /\ UNCHANGED <<feed, shown>>

\* source.events.  Every other error is permanent (classify_follow_storage)
\* and ends the loop without finish.
ReadEvents ==
    LET page == Events(console.after)
    IN  /\ console.pc = "events"
        /\ \/ /\ page.outcome = "ok"
              /\ shown' = WritePage(shown, console.after, page.next)
              /\ console' = [console EXCEPT !.pc = "terminal", !.after = page.next,
                                            !.empty = page.next = console.after]
           \/ /\ page.outcome # "ok"
              /\ console' = [console EXCEPT !.pc = "failed"]
              /\ UNCHANGED shown
        /\ UNCHANGED feed

\* `Ok(true) if events.is_empty()'.
LoopEnds == TaskTerminal /\ console.empty

\* source.terminal.
ReadTerminal ==
    /\ console.pc = "terminal"
    /\ \/ /\ LoopEnds
          /\ shown' = FinishPrinting(shown)
          /\ console' = [console EXCEPT !.pc = "done"]
       \/ /\ ~LoopEnds
          /\ console' = [console EXCEPT !.pc = "events"]
          /\ UNCHANGED shown
    /\ UNCHANGED feed

ConsoleStep == ReadBusy \/ ReadEvents \/ ReadTerminal

FollowNext ==
    \/ \E kind \in Kinds, ends \in BOOLEAN : CommitEvent(kind, ends)
    \/ NewerTask
    \/ CompactFollowed
    \/ ConsoleStep

FollowSpec == FollowInit /\ [][FollowNext]_followVars

-----------------------------------------------------------------------------
(* Properties. *)

\* However pages are cut and streams alternate, what the console has printed,
\* followed by what it holds back, is every event it has read that makes a
\* piece, once and in the order of their sequence, and when it ends normally
\* nothing is held back.
PrintedInOrder ==
    LET read == shown.printed \o shown.text_hold \o shown.fold
    IN  /\ \A i, j \in DOMAIN read : i < j => read[i] < read[j]
        /\ {read[i] : i \in DOMAIN read} =
             {n \in 1..console.after : feed.events[n] \in Pieces}
        /\ console.pc = "done" => shown.text_hold = <<>> /\ shown.fold = <<>>

\* A follower that ended normally printed the task's last event.
\* follow.rs: "It reprints the same persisted events that `wait_task` and the
\* dashboard already read."
DoneIsComplete ==
    console.pc = "done" => console.after = Len(feed.events)

=============================================================================
