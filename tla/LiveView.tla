------------------------------ MODULE LiveView ------------------------------
(***************************************************************************)
(* The dashboard page on a task: the browser code of packages/dashboard     *)
(* (index.ts, model.ts) with its routes, overlapping loads and one live     *)
(* event source, and the server's event stream (run_event_stream of         *)
(* dashboard/mod.rs) that feeds it from the durable events.                 *)
(*                                                                          *)
(* Every response is a snapshot taken when the server answers and applied   *)
(* when the page gets to it; the user may have navigated in between.  Event *)
(* payloads and rendering are left out: an event is its sequence number.    *)
(***************************************************************************)
EXTENDS EventPage, Functions

CONSTANTS
    Viewed,         \* task ids
    LoadPages,      \* the pages loadTask reads, 2
    ViewPage,       \* events on a page of loadTask or of the stream, 200
    KeptEvents,     \* the events mergeEvents keeps, 400
    MaxLoads,       \* bound of the model on loads in flight
    MaxSeq          \* bound of the model on a task's events

\* The constants of index.ts and model.ts; what loadTask may read fits the view.
ASSUME LoadFitsView ==
    /\ {LoadPages, ViewPage, KeptEvents, FrameLimit} \subseteq Nat \ {0}
    /\ LoadPages * ViewPage <= KeptEvents

VARIABLES
    rows,           \* the committed state of each task
    route,          \* state.route
    loads,          \* refreshes in flight, newest last
    detail,         \* state.detail
    source,         \* the open EventSource and the stream behind it
    stream_task,    \* streamTaskId
    connection      \* state.connection

viewVars == <<rows, route, loads, detail, source, stream_task, connection>>

Routes == {"overview", "tasks", "settings"} \cup Viewed
NoTask == "none"
NoDetail == [task |-> NoTask]
NoSource == [task |-> NoTask]

ViewInit ==
    /\ rows = [t \in Viewed |-> [last |-> 1, ended |-> FALSE]]
    /\ route = "overview"
    /\ loads = <<>>
    /\ detail = NoDetail
    /\ source = NoSource
    /\ stream_task = NoTask
    /\ connection = "idle"

-----------------------------------------------------------------------------
(* The server. *)

\* A committed event; the last one is finalize's.
RowsGrow(t, ends) ==
    /\ ~rows[t].ended
    /\ rows[t].last < MaxSeq - 1 \/ ends
    /\ rows' = [rows EXCEPT ![t] = [last |-> @.last + 1, ended |-> ends]]
    /\ UNCHANGED <<route, loads, detail, source, stream_task, connection>>

\* The page of load_event_page; every event is of size one here.
PageNext(t, after) ==
    LoadEventPage([n \in 1..rows[t].last |-> 1], 0, rows[t].last, after,
                  ViewPage, FrameLimit).next

\* public_task_detail: one snapshot of task and page.
TaskDetail(t, after) ==
    [task |-> t, ended |-> rows[t].ended, events |-> (after + 1)..PageNext(t, after),
     next |-> PageNext(t, after), last |-> rows[t].last]

-----------------------------------------------------------------------------
(* model.ts. *)

\* mergeEvents: by sequence number, the last ones kept.
MergeEvents(current, incoming) ==
    LET all == current \cup incoming
    IN  {n \in all : Cardinality({m \in all : m >= n}) <= KeptEvents}

Larger(a, b) == IF a > b THEN a ELSE b

\* mergeTaskDetail.
MergeTaskDetail(current, incoming) ==
    [incoming EXCEPT !.events = MergeEvents(current.events, incoming.events),
                     !.next = Larger(current.next, incoming.next)]

-----------------------------------------------------------------------------
(* Routes and loads. *)

\* refresh: a new load, which makes every earlier one stale (loadGeneration).
\* Its first request depends on the route.
Refresh(r) ==
    /\ Len(loads) < MaxLoads
    /\ loads' = Append([i \in DOMAIN loads |-> [loads[i] EXCEPT !.fresh = FALSE]],
         [pc |-> IF r \in Viewed \cup {"tasks"} THEN "tasks" ELSE r, of |-> r,
          fresh |-> TRUE, page |-> 0, after |-> 0, got |-> NoDetail, answer |-> NoDetail])

\* closeStream.
Closed == source' = NoSource /\ stream_task' = NoTask

\* onHashChange; two hashes may parse to the same route.
HashChange(r) ==
    /\ route' = r
    /\ Refresh(r)
    /\ IF r # stream_task
         THEN Closed
         ELSE UNCHANGED <<source, stream_task>>
    /\ UNCHANGED <<rows, detail, connection>>

\* The refresh button, and navigate to the current route.  The settings route
\* closes the stream before its first await.
RefreshAgain ==
    /\ Refresh(route)
    /\ IF route = "settings" THEN Closed ELSE UNCHANGED <<source, stream_task>>
    /\ UNCHANGED <<rows, route, detail, connection>>

Without(i) == [j \in 1..(Len(loads) - 1) |-> IF j < i THEN loads[j] ELSE loads[j + 1]]

\* A request fails: refresh reports it unless a newer one has begun.
LoadFails(i) ==
    /\ connection' = IF loads[i].fresh THEN "error" ELSE connection
    /\ loads' = Without(i)
    /\ UNCHANGED <<rows, route, detail, source, stream_task>>

\* loadOverview and loadTasks on the overview: no state of this model.
OverviewLoaded(i) ==
    /\ loads[i].pc = "overview"
    /\ loads' = Without(i)
    /\ UNCHANGED <<rows, route, detail, source, stream_task, connection>>

\* loadSettings, then `connection: "idle"', whatever is shown by now.
SettingsLoaded(i) ==
    /\ loads[i].pc = "settings"
    /\ loads' = Without(i)
    /\ connection' = "idle"
    /\ UNCHANGED <<rows, route, detail, source, stream_task>>

\* refresh after loadTasks: stop when stale, clear without a task, else ask
\* for the task's first page.
TasksLoaded(i) ==
    /\ loads[i].pc = "tasks"
    /\ \/ /\ ~loads[i].fresh
          /\ loads' = Without(i)
          /\ UNCHANGED <<detail, source, stream_task, connection>>
       \/ /\ loads[i].fresh /\ loads[i].of = "tasks"
          /\ loads' = Without(i)
          /\ Closed
          /\ detail' = NoDetail
          /\ connection' = "idle"
       \/ /\ loads[i].fresh /\ loads[i].of # "tasks"
          /\ loads' = [loads EXCEPT ![i].pc = "detail"]
          /\ UNCHANGED <<detail, source, stream_task, connection>>
    /\ UNCHANGED <<rows, route>>

\* The server answers a page of loadTask.
DetailAnswered(i) ==
    /\ loads[i].pc = "detail"
    /\ loads' = [loads EXCEPT ![i].pc = "answer",
                              ![i].answer = TaskDetail(loads[i].of, loads[i].after)]
    /\ UNCHANGED <<rows, route, detail, source, stream_task, connection>>

\* `generation !== loadGeneration || !taskRouteIs(taskId)' does not hold.
Wanted(load) == load.fresh /\ route = load.of

\* Faulty: the stream starts at the newest event rather than the newest read.
StreamFromLast(got) == got.last

\* startStream(taskId, detail.nextSeq).
StreamFrom(got) == got.next

OpenedSource(t, after) ==
    [task |-> t, pc |-> "poll", cursor |-> after, wire |-> <<>>]

\* loadTask, from one answer to the next await or to its end.
DetailLoaded(i) ==
    LET load == loads[i]
        got == IF load.page = 0 THEN load.answer ELSE MergeTaskDetail(load.got, load.answer)
        more == /\ load.answer.events # {} /\ load.answer.next < load.answer.last
                /\ load.page + 1 < LoadPages
    IN  /\ load.pc = "answer"
        /\ \/ /\ ~Wanted(load)
              /\ loads' = Without(i)
              /\ UNCHANGED <<detail, source, stream_task, connection>>
           \/ /\ Wanted(load) /\ more
              /\ loads' = [loads EXCEPT ![i].pc = "detail", ![i].page = @ + 1,
                             ![i].got = got, ![i].after = load.answer.next]
              /\ UNCHANGED <<detail, source, stream_task, connection>>
           \/ /\ Wanted(load) /\ ~more
              /\ loads' = Without(i)
              /\ detail' = got
              /\ IF got.ended
                   THEN Closed /\ connection' = "complete"
                   ELSE /\ source' = OpenedSource(load.of, StreamFrom(got))
                        /\ stream_task' = load.of
                        /\ connection' = "connected"
        /\ UNCHANGED <<rows, route>>

-----------------------------------------------------------------------------
(* The event stream and its source. *)

\* One poll of run_event_stream (the first by initial_event_poll) and what it
\* emits: the page, then mesh_complete once an ended task is caught up.
StreamPolls ==
    LET t == source.task
        next == PageNext(t, source.cursor)
        events == [n \in 1..(next - source.cursor) |-> source.cursor + n]
        complete == rows[t].ended /\ next >= rows[t].last
    IN  /\ source.pc = "poll"
        /\ source.wire = <<>>
        /\ source' = [source EXCEPT !.cursor = next,
             !.wire = IF complete THEN events \o <<0>> ELSE events,
             !.pc = IF complete THEN "closed" ELSE "poll"]
        /\ UNCHANGED <<rows, route, loads, detail, stream_task, connection>>

\* The stream's lifetime is over (mesh_timeout), a poll failed (mesh_error), or
\* the connection broke (onerror): the page closes the source and does not open
\* another until the next refresh.
StreamBreaks(label) ==
    /\ source.pc = "poll"
    /\ label = "timeout" => source.wire = <<>>
    /\ source' = NoSource
    /\ connection' = label
    /\ UNCHANGED <<rows, route, loads, detail, stream_task>>

\* The mesh_event listener merges one event; the task's state stays as loaded.
EventArrives ==
    /\ source.wire # <<>> /\ Head(source.wire) # 0
    /\ LET n == Head(source.wire)
           merged == [detail EXCEPT !.events = MergeEvents(@, {n}), !.next = Larger(@, n)]
           ours == stream_task = source.task /\ detail.task = source.task
       IN  /\ detail' = IF ours THEN merged ELSE detail
           /\ connection' = IF ours THEN "connected" ELSE connection
    /\ source' = [source EXCEPT !.wire = Tail(@)]
    /\ UNCHANGED <<rows, route, loads, stream_task>>

\* mesh_complete: finishStream.
CompleteArrives ==
    /\ source.wire # <<>> /\ Head(source.wire) = 0
    /\ source' = NoSource
    /\ connection' = "complete"
    /\ UNCHANGED <<rows, route, loads, detail, stream_task>>

StreamStep ==
    /\ source # NoSource
    /\ \/ StreamPolls
       \/ \E label \in {"timeout", "error"} : StreamBreaks(label)
       \/ EventArrives
       \/ CompleteArrives

ViewNext ==
    \/ \E t \in Viewed, ends \in BOOLEAN : RowsGrow(t, ends)
    \/ \E r \in Routes : HashChange(r)
    \/ RefreshAgain
    \/ \E i \in DOMAIN loads :
         \/ LoadFails(i) \/ OverviewLoaded(i) \/ SettingsLoaded(i)
         \/ TasksLoaded(i) \/ DetailAnswered(i) \/ DetailLoaded(i)
    \/ StreamStep

ViewSpec == ViewInit /\ [][ViewNext]_viewVars

-----------------------------------------------------------------------------
(* Properties. *)

\* The timeline has no holes: the page shows the newest KeptEvents of all the
\* events up to its cursor, through paging, streaming and reloads, and never an
\* event of another task.
TimelineHasNoHoles ==
    detail # NoDetail =>
      /\ detail.events = {n \in 1..detail.next : n > detail.next - KeptEvents}
      /\ detail.next <= rows[detail.task].last

\* A page that says the durable events are caught up shows how the task ended.
\* README: "the local loopback dashboard renders the same durable task evidence
\* as MCP".
CompleteShowsOutcome ==
    connection = "complete" /\ detail.task = route => detail.ended

-----------------------------------------------------------------------------
(* The pure rules of model.ts: what the settings form is normalised to      *)
(* before it is sent, how the output pane is cut, which locators are        *)
(* collected and how routes and hashes correspond.                          *)

\* boundedInteger: anything that is no integer in the range is the fallback.
BoundedInteger(value, fallback, minimum, maximum) ==
    IF value \in minimum..maximum THEN value ELSE fallback

\* adapterName.
BindingTarget(value, fallback, targets) == IF value \in targets THEN value ELSE fallback

\* The first of each value, as `new Set' keeps them.
Distinct(s) ==
    LET kept[n \in 0..Len(s)] ==
          IF n = 0 THEN <<>>
          ELSE LET before == kept[n - 1]
               IN  IF s[n] \in Range(before) THEN before ELSE Append(before, s[n])
    IN  kept[Len(s)]

\* policy: the admitted values, with a default among them.
Policy(value, default, fallback, admitted) ==
    LET chosen == SelectSeq(value.allowed, LAMBDA v : v \in admitted)
        allowed == IF chosen = <<>> THEN fallback ELSE Distinct(chosen)
        candidate == IF value.default = "missing" THEN default ELSE value.default
    IN  [allowed |-> allowed,
         default |-> IF candidate \in Range(allowed) THEN candidate ELSE allowed[1]]

\* transports: at most two admitted ones.
Transports(value, fallback, admitted) ==
    LET chosen == Distinct(SelectSeq(value, LAMBDA v : v \in admitted))
    IN  IF chosen = <<>> THEN fallback
        ELSE SubSeq(chosen, 1, IF Len(chosen) < 2 THEN Len(chosen) ELSE 2)

\* normalizeSettings, on one setting of each sort; keys it does not know are
\* dropped.
NormalizeSettings(s) ==
    [global |-> BoundedInteger(s.global, 3, 1, 16),
     review |-> BindingTarget(s.review, "luna", {"claude", "grok", "kimi", "luna", "pi"}),
     effort |-> Policy(s.effort, "medium", <<"medium">>, {"low", "medium", "high"}),
     grok |-> Transports(s.grok, <<"acp">>, {"acp", "stream_json"})]

\* What safeSettings of the wire schema requires of the same settings.
ValidSettings(s) ==
    /\ s.global \in 1..16
    /\ s.review \in {"claude", "grok", "kimi", "luna", "pi"}
    /\ Len(s.effort.allowed) \in 1..3 /\ IsInjective(s.effort.allowed)
    /\ Range(s.effort.allowed) \subseteq {"low", "medium", "high"}
    /\ Len(s.grok) \in 1..2 /\ IsInjective(s.grok)
    /\ Range(s.grok) \subseteq {"acp", "stream_json"}

\* eventOutput on the lengths of the text parts: what is shown of each, and
\* whether the pane says it was cut.
EventOutput(parts, maximum) ==
    LET total[n \in 0..Len(parts)] == IF n = 0 THEN 0 ELSE total[n - 1] + parts[n]
        shown == [n \in DOMAIN parts |->
          IF total[n] <= maximum THEN parts[n]
          ELSE IF total[n - 1] < maximum THEN maximum - total[n - 1] ELSE 0]
    IN  [shown |-> shown, truncated |-> total[Len(parts)] > maximum]

\* artifactHints over the locators of each event, in order: each once, up to a
\* maximum.
ArtifactHints(locators, maximum) ==
    LET upTo[n \in 0..Len(locators)] == IF n = 0 THEN <<>> ELSE upTo[n - 1] \o locators[n]
        all == Distinct(upTo[Len(locators)])
    IN  SubSeq(all, 1, IF Len(all) < maximum THEN Len(all) ELSE maximum)

\* parseRoute on the parts of a hash, with the ids TASK_ID_PATTERN admits.  A
\* route is the parts routeHash joins.
ParseRoute(parts, ids) ==
    IF parts = <<>> \/ parts[1] \notin {"settings", "improvement", "tasks"}
      THEN <<"overview">>
    ELSE IF parts[1] # "tasks" THEN <<parts[1]>>
    ELSE IF Len(parts) > 1 /\ parts[2] \in ids THEN <<"tasks", parts[2]>>
    ELSE <<"tasks">>

=============================================================================
