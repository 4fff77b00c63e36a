----------------------------- MODULE AdapterRun -----------------------------
(***************************************************************************)
(* One task's way through its adapter: bound to an adapter instance when   *)
(* it is submitted (router.rs), probed again and planned when it is        *)
(* dispatched (adapters/registry.rs, dispatcher.rs), greeted over ACP      *)
(* where the plan says so, and read from the spool file line by line until *)
(* a frame, a deadline or the exit decides it (dispatcher.rs).             *)
(*                                                                         *)
(* The executable may be replaced and the settings changed at any time;    *)
(* the provider prints what it likes, and the spool thread copies it in    *)
(* pieces that need not end where a line ends.  Claiming, fencing and      *)
(* cancelling are Daemon's; here a run ends with its verdict.              *)
(***************************************************************************)
EXTENDS AdapterRules, FiniteSets

CONSTANTS
    Agents,         \* the families a task's role may be bound to
    Surfaces,       \* digest of an executable -> the surfaces its help names
    Lines,          \* family -> what its provider may print
    MaxLines,       \* bound: lines printed in a run
    FlushSize       \* pieces of text at which the activity buffer is flushed

\* What the decoders give: NormalizedKind, with the warnings that carry thinking and
\* the records of unknown type apart. No decoder makes an InteractionDecided.
KindNames == {"text", "thinking", "warning", "usage", "tool_proposal", "interaction_requested",
              "state_changed", "unknown", "protocol_error", "terminal"}

\* Every line a provider may print decodes to a sequence of known kinds.
ASSUME LinesAreDecoded ==
    \A a \in Agents : \A l \in Lines[a] :
      LET kinds == Decode(a, l)
      IN  /\ Len(kinds) \in Nat /\ DOMAIN kinds = 1 .. Len(kinds)
          /\ \A j \in DOMAIN kinds : kinds[j].kind \in KindNames

VARIABLES
    agent,          \* the family the task's role is bound to
    exe,            \* the digest of the installed executable, 0 while it is missing
    switch,         \* the family is enabled in the settings
    bound,          \* the instance the task is bound to, <<>> before the submit
    step,           \* the next step of the run
    probe,          \* what the captures of this dispatch have shown
    record,         \* the admission of this dispatch
    started,        \* the digest of the process's image, 0 before the launch
    asked,          \* ACP requests written to the provider's stdin
    exit,           \* the process's exit code, "none" while it runs
    printed,        \* lines the provider has printed
    copied,         \* how many of them are whole in the spool file
    cut,            \* and whether a part of the next one is there
    consumed,       \* lines persist_new_frames has taken
    activity,       \* the buffered pieces of text and their channel
    recorded,       \* the adapter events recorded for its frames, in order
    outcome         \* how the run ended, and what decided it

fileVars == <<agent, exe, switch>>
planVars == <<bound, probe, record, started>>
spoolVars == <<exit, printed, copied, cut>>
readVars == <<consumed, activity, recorded>>
runVars == <<fileVars, planVars, step, asked, spoolVars, readVars, outcome>>

Digests == DOMAIN Surfaces
NoProbeYet == [version |-> FALSE, surfaces |-> {}, digest |-> ZeroDigest]
NoActivity == [channel |-> "none", text |-> <<>>]
Undecided == [state |-> "none", by |-> "none"]

RunInit ==
    /\ agent \in Agents /\ exe \in Digests /\ switch = TRUE
    /\ bound = <<>> /\ step = "submit"
    /\ probe = NoProbeYet /\ record = NoProbe(agent, "executable not found")
    /\ started = ZeroDigest
    /\ asked = {} /\ exit = "none" /\ printed = <<>> /\ copied = 0 /\ cut = FALSE
    /\ consumed = 0 /\ activity = NoActivity /\ recorded = <<>>
    /\ outcome = Undecided

AtStep(s) == step = s

Decide(state, by) == outcome' = [state |-> state, by |-> by] /\ step' = "done"

-----------------------------------------------------------------------------
(* The installation changes. *)

\* Both matter until the process is created.
Replace ==
    /\ started = ZeroDigest /\ step # "done"
    /\ exe' \in (Digests \cup {ZeroDigest}) \ {exe}
    /\ UNCHANGED <<agent, switch, planVars, step, asked, spoolVars, readVars, outcome>>

SwitchAdapter ==
    /\ started = ZeroDigest /\ step # "done"
    /\ switch' = ~switch
    /\ UNCHANGED <<agent, exe, planVars, step, asked, spoolVars, readVars, outcome>>

-----------------------------------------------------------------------------
(* Submit and dispatch. *)

ProbeOf(d) == [version |-> d # ZeroDigest, digest |-> d,
                 surfaces |-> IF d = ZeroDigest THEN {} ELSE Surfaces[d]]

\* assign_adapter: the task is bound to the instance its role's family has now.
SubmitRun ==
    /\ AtStep("submit")
    /\ LET r == ProbeFamily(agent, switch, exe # ZeroDigest, ProbeOf(exe))
       IN  /\ r.status = "ENABLED"
           /\ bound' = r.id
    /\ step' = "version"
    /\ UNCHANGED <<fileVars, probe, record, started, asked, spoolVars, readVars, outcome>>

\* capture_stdout of "--version": nothing when the command fails or is killed
\* at its deadline.
CaptureVersion ==
    /\ AtStep("version")
    /\ probe' \in {[NoProbeYet EXCEPT !.version = v] : v \in {FALSE, exe # ZeroDigest}}
    /\ step' = "help"
    /\ UNCHANGED <<fileVars, bound, record, started, asked, spoolVars, readVars, outcome>>

\* capture_stdout of "--help" and of the transport's own help, both only once
\* the version was captured.
CaptureHelp ==
    /\ AtStep("help")
    /\ probe' \in {[probe EXCEPT !.surfaces = s] :
                     s \in {{}} \cup (IF probe.version /\ exe # ZeroDigest
                                      THEN {Surfaces[exe]} ELSE {})}
    /\ step' = "digest"
    /\ UNCHANGED <<fileVars, bound, record, started, asked, spoolVars, readVars, outcome>>

\* The probe itself: the digest is taken last.  A disabled or missing family
\* has another identity: the adapter has disappeared, and the task is planned
\* again.  One that is no longer enabled fails it.
TakeDigest ==
    /\ AtStep("digest")
    /\ record' = ProbeFamily(agent, switch, exe # ZeroDigest, [probe EXCEPT !.digest = exe])
    /\ probe' = [probe EXCEPT !.digest = exe]
    /\ CASE record'.id # bound -> step' = "version" /\ UNCHANGED outcome
         [] record'.id = bound /\ record'.status # "ENABLED" -> Decide("FAILED", "admission")
         [] record'.id = bound /\ record'.status = "ENABLED" ->
              step' = "plan" /\ UNCHANGED outcome
    /\ UNCHANGED <<fileVars, bound, started, asked, spoolVars, readVars>>

Request ==
    [extras |-> {}, objective |-> "do", workspace |-> "repo", resume |-> FALSE,
     quality |-> "standard", effort |-> "medium"]

\* spawn_plan hashes the file again and refuses one that changed since the
\* probe.
PlanLaunch ==
    /\ AtStep("plan")
    /\ LET p == SpawnPlan(Request, record, exe)
       IN  IF p.why = "ok" THEN step' = "spawn" /\ UNCHANGED outcome
                           ELSE Decide("FAILED", "plan")
    /\ UNCHANGED <<fileVars, planVars, asked, spoolVars, readVars>>

\* The process is created from the file's path.
Launch ==
    /\ AtStep("spawn")
    /\ IF exe = ZeroDigest
         THEN Decide("FAILED", "spawn") /\ UNCHANGED started
         ELSE /\ started' = exe
              /\ step' = (IF SpawnPlan(Request, record, record.digest).transport = "acp"
                            THEN "initialize" ELSE "poll")
              /\ UNCHANGED outcome
    /\ probe' = NoProbeYet
    /\ UNCHANGED <<fileVars, bound, record, asked, spoolVars, readVars>>

-----------------------------------------------------------------------------
(* The provider, and the thread that copies its output. *)

\* An answer comes to what was asked; anything else comes at any time.
ProviderPrints ==
    /\ started # ZeroDigest /\ exit = "none" /\ Len(printed) < MaxLines
    /\ \E l \in Lines[agent] : /\ l.re \in asked \cup {"none"}
                        /\ printed' = Append(printed, l)
    /\ UNCHANGED <<fileVars, planVars, step, asked, exit, copied, cut, readVars, outcome>>

ProviderExits ==
    /\ started # ZeroDigest /\ exit = "none"
    /\ exit' \in {"0", "1"}
    /\ UNCHANGED <<fileVars, planVars, step, asked, printed, copied, cut, readVars, outcome>>

\* A read of the pipe may end inside a line; at the quota the copying stops.
SpoolCopies ==
    /\ copied < Len(printed)
    /\ \/ ~cut /\ cut' = TRUE /\ UNCHANGED copied
       \/ copied' = copied + 1 /\ cut' = FALSE
    /\ UNCHANGED <<fileVars, planVars, step, asked, exit, printed, readVars, outcome>>

-----------------------------------------------------------------------------
(* drive_acp.  A request's answer is looked for among all lines of the spool *)
(* file, and only a result counts.                                           *)

Answered(id) ==
    \E i \in 1 .. copied : printed[i].type = "result" /\ printed[i].re = id

Following == [initialize |-> IF agent = "grok" THEN "authenticate" ELSE "session/new",
              authenticate |-> "session/new"]

\* Each request is written once the one before it is answered; authenticate
\* need not be.
Ask(id) ==
    /\ AtStep(id) /\ id \notin asked
    /\ asked' = asked \cup {id}
    /\ UNCHANGED <<fileVars, planVars, step, spoolVars, readVars, outcome>>

Greet(id) ==
    /\ AtStep(id) /\ id \in asked
    /\ Answered(id) \/ id = "authenticate"
    /\ step' = Following[id]
    /\ UNCHANGED <<fileVars, planVars, asked, spoolVars, readVars, outcome>>

\* The session's id is taken from the first answer, and the prompt written.
SessionStarts ==
    /\ AtStep("session/new") /\ Answered("session/new")
    /\ LET first == CHOOSE i \in 1 .. copied :
                      /\ printed[i].type = "result" /\ printed[i].re = "session/new"
                      /\ \A j \in 1 .. i - 1 :
                           ~(printed[j].type = "result" /\ printed[j].re = "session/new")
       IN  IF printed[first].sub = "session"
             THEN /\ step' = "poll" /\ asked' = asked \cup {"session/prompt"}
                  /\ UNCHANGED outcome
             ELSE Decide("FAILED", "handshake") /\ UNCHANGED asked
    /\ UNCHANGED <<fileVars, planVars, spoolVars, readVars>>

\* No answer in time, or the request could not be written.
GreetingFails(id) ==
    /\ AtStep(id)
    /\ Decide("FAILED", "handshake")
    /\ UNCHANGED <<fileVars, planVars, asked, spoolVars, readVars>>

-----------------------------------------------------------------------------
(* persist_new_frames. *)

\* The events and the buffer after a step of the reader: o is both.
\* persist_activity's operation id is made of the payload, so that an event
\* that was recorded before is a replay.
Record(o, e) ==
    [o EXCEPT !.recorded = IF \E i \in DOMAIN @ : @[i] = e THEN @ ELSE Append(@, e)]

Flush(o) ==
    IF o.activity.channel = "none" THEN o
    ELSE [Record(o, [kind |-> o.activity.channel, of |-> o.activity.text])
            EXCEPT !.activity = NoActivity]

\* Faulty: a change of the channel does not flush.
AppendMixedChannels(o, channel, text) ==
    LET b == [o EXCEPT !.activity = [channel |-> channel, text |-> Append(@.text, text)]]
    IN  IF Len(b.activity.text) >= FlushSize THEN Flush(b) ELSE b

\* ActivityBuffer::append.
AppendActivity(o, channel, text) ==
    LET a == IF o.activity.channel \in {"none", channel} THEN o ELSE Flush(o)
        b == [a EXCEPT !.activity = [channel |-> channel, text |-> Append(@.text, text)]]
    IN  IF Len(b.activity.text) >= FlushSize THEN Flush(b) ELSE b

\* What one kind does.
Handle(o, k) ==
    CASE k.kind = "text" -> AppendActivity(o, "text_delta", k.of)
      [] k.kind = "thinking" -> AppendActivity(o, "warning", k.of)
      [] k.kind \in {"unknown", "state_changed", "interaction_requested"} -> o
      [] k.kind \in {"warning", "usage"} -> Record(Flush(o), [kind |-> k.kind, of |-> <<k.of>>])
      [] k.kind = "tool_proposal" ->
           Record(Record(Flush(o), [kind |-> k.kind, of |-> <<k.of>>]),
                  [kind |-> "warning", of |-> <<"tool">>])
      [] k.kind = "protocol_error" ->
           LET e == Record(Flush(o), [kind |-> k.kind, of |-> <<k.of>>])
           IN  IF Decisive(k) THEN [e EXCEPT !.verdict = Verdict(k)] ELSE e
      [] k.kind = "terminal" -> [Flush(o) EXCEPT !.verdict = Verdict(k)]

\* The kinds of a line are taken in order until one decides the run.
HandleLine(o, kinds) ==
    LET taken[j \in 0 .. Len(kinds)] ==
          IF j = 0 THEN o
          ELSE IF taken[j - 1].verdict # "none" THEN taken[j - 1]
          ELSE Handle(taken[j - 1], kinds[j])
    IN  taken[Len(kinds)]

\* Faulty: a line behind the one that decides is read too.
PersistEveryLine(from, to) ==
    LET read[n \in from .. to] ==
          IF n = from THEN [activity |-> activity, recorded |-> recorded, verdict |-> "none"]
          ELSE HandleLine([read[n - 1] EXCEPT !.verdict = "none"], Decode(agent, printed[n]))
    IN  Flush(read[to])

\* And so are the lines; what is left in the buffer is flushed behind them.
PersistNewFrames(from, to) ==
    LET read[n \in from .. to] ==
          IF n = from THEN [activity |-> activity, recorded |-> recorded, verdict |-> "none"]
          ELSE IF read[n - 1].verdict # "none" THEN read[n - 1]
          ELSE HandleLine(read[n - 1], Decode(agent, printed[n]))
    IN  IF read[to].verdict = "none" THEN Flush(read[to]) ELSE read[to]

\* complete_spool_lines: the tail of the file is left until its line is whole.
Taken == copied

\* A spool file that cannot be read decides nothing.
Read(end) ==
    LET o == PersistNewFrames(consumed, copied)
    IN  \/ /\ consumed' = Taken
           /\ activity' = o.activity /\ recorded' = o.recorded
           /\ IF o.verdict # "none" THEN Decide(o.verdict, "frame") ELSE end
        \/ end /\ UNCHANGED readVars

PollSpool ==
    /\ AtStep("poll")
    /\ Read(step' = "wait" /\ UNCHANGED outcome)
    /\ UNCHANGED <<fileVars, planVars, asked, spoolVars>>

\* The process still runs: the next poll, or the deadline, or the wait fails.
StillRuns ==
    /\ AtStep("wait")
    /\ \/ exit = "none" /\ step' = "poll" /\ UNCHANGED outcome
       \/ Decide("FAILED", "deadline")
    /\ UNCHANGED <<fileVars, planVars, asked, spoolVars, readVars>>

\* The process has gone: one more read, and then finalize_exit goes by the
\* exit code, or fails a run that printed more than its quota.  It waits for
\* the spool threads after that read, not before.
AfterExit ==
    /\ AtStep("wait") /\ exit # "none"
    /\ \E state \in {"FAILED"} \cup (IF exit = "0" THEN {"SUCCEEDED"} ELSE {}) :
         Read(Decide(state, "exit"))
    /\ UNCHANGED <<fileVars, planVars, asked, spoolVars>>

RunNext ==
    \/ Replace \/ SwitchAdapter
    \/ SubmitRun \/ CaptureVersion \/ CaptureHelp \/ TakeDigest
    \/ PlanLaunch \/ Launch
    \/ ProviderPrints \/ ProviderExits \/ SpoolCopies
    \/ \E id \in {"initialize", "authenticate", "session/new"} : Ask(id)
    \/ \E id \in {"initialize", "authenticate"} : Greet(id)
    \/ SessionStarts
    \/ \E id \in {"initialize", "session/new"} : GreetingFails(id)
    \/ PollSpool \/ StillRuns \/ AfterExit

RunSpec == RunInit /\ [][RunNext]_runVars

-----------------------------------------------------------------------------
(* Properties. *)

\* The kinds line i decodes to.
KindsOf(i) == Decode(agent, printed[i])

\* No frame of the first n lines decides a run.
NothingDecides(n) ==
    \A i \in 1 .. n : \A j \in DOMAIN KindsOf(i) : ~Decisive(KindsOf(i)[j])

\* Kind j of line i does, and none before it.
DecidesFirst(i, j) ==
    /\ Decisive(KindsOf(i)[j])
    /\ NothingDecides(i - 1) /\ \A m \in 1 .. j - 1 : ~Decisive(KindsOf(i)[m])

\* However the spool is cut into reads, a run is decided by the first frame
\* the provider printed that decides one, and by nothing else while such a
\* frame lies in what was read.
DecidedByFirstFrame ==
    /\ outcome.by = "frame" =>
         \E i \in 1 .. Len(printed) : \E j \in DOMAIN KindsOf(i) :
           DecidesFirst(i, j) /\ outcome.state = Verdict(KindsOf(i)[j])
    /\ outcome.by # "frame" => NothingDecides(consumed)

\* An event of that channel holds the piece of text.
RecordedOn(channel, text) ==
    \E e \in DOMAIN recorded :
      /\ recorded[e].kind = channel
      /\ \E n \in DOMAIN recorded[e].of : recorded[e].of[n] = text

\* Text is not lost or mixed on its way through the buffer: between two reads,
\* and at the end, every piece of text and of thinking that was read is in an
\* event of its own channel.
EveryPieceIsRecorded ==
    step \in {"wait", "done"} =>
      /\ activity = NoActivity
      /\ outcome.by # "frame" =>
           \A i \in 1 .. consumed : \A j \in DOMAIN KindsOf(i) :
             LET k == KindsOf(i)[j]
             IN  /\ k.kind = "text" => RecordedOn("text_delta", k.of)
                 /\ k.kind = "thinking" => RecordedOn("warning", k.of)

-----------------------------------------------------------------------------
(* What the repository says of a run and the code does not keep. *)

\* Exit code 0 without a terminal frame is not a success.
ExitZeroIsNotSuccess == outcome.state = "SUCCEEDED" => outcome.by = "frame"

\* A stale probe record is refused: the file that was hashed last shows the
\* transport the admission was given for.
StaleProbeIsRefused ==
    [][step = "plan" /\ step' = "spawn" =>
         (IF record.transport = "acp" THEN "acp" ELSE "stream") \in Surfaces[exe]]_runVars

=============================================================================
