------------------------------- MODULE MCWork --------------------------------
(***************************************************************************)
(* The work of a task on a small instance: planning rounds, the runs of    *)
(* two adapters, and how long what they leave is kept.  Each of them reads *)
(* only rows the others do not change, so each behaviour exercises one of  *)
(* them.                                                                   *)
(***************************************************************************)
EXTENDS AdapterRun, Scheduler, Retention, TLC

VARIABLE family

workVars == <<family, vars, runVars, retentionVars>>

\* Only a planning round and a run have more than one initial state.
WorkInit ==
  /\ family \in {"plan", "run", "retention"}
  /\ IF family = "plan" THEN Init
     ELSE /\ candidates = [t \in Tasks |-> CHOOSE c \in Candidate : TRUE]
          /\ limits = LimitsFromSettings(NoSetting, NoSetting)
          /\ bypass_bound = 1 /\ occupied_global = 0 /\ occupied = [a \in Adapters |-> 0]
          /\ Init
  /\ IF family = "run" THEN RunInit
     ELSE agent = "claude" /\ exe = 1 /\ RunInit
  /\ RetentionInit

\* What a step of each of them leaves alone.
OffPlan == <<family, runVars, retentionVars>>
OffRun == <<family, vars, retentionVars>>
OffRetention == <<family, vars, runVars>>

WorkNext ==
  \/ family = "plan" /\ Next /\ UNCHANGED OffPlan
  \/ family = "run" /\ RunNext /\ UNCHANGED OffRun
  \/ family = "retention" /\ RetentionNext /\ UNCHANGED OffRetention

WorkSpec == WorkInit /\ [][WorkNext]_workVars

Symmetry == Permutations(Adapters) \cup Permutations(Collectors)

-----------------------------------------------------------------------------
(* The lines two adapters print, and what their executables offer: the Grok *)
(* binary may be replaced by one without the agent client protocol.         *)

MCOffers == 1 :> {"acp", "stream"} @@ 2 :> {"stream"}

\* A line of the agent client protocol, and a line of Claude's stream.
AcpLine(type, sub, text, re) ==
  [type |-> type, sub |-> sub, text |-> text, id |-> TRUE, options |-> TRUE, re |-> re]
ClaudeLine(type, sub, text, blocks) ==
  [type |-> type, sub |-> sub, text |-> text, id |-> TRUE, usage |-> TRUE, error |-> FALSE,
   blocks |-> blocks, re |-> "none"]
Block(type, text) == [type |-> type, text |-> text, id |-> TRUE]

GrokLines ==
  {AcpLine("result", "capabilities", "", "initialize"), AcpLine("result", "session", "", "session/new"),
   AcpLine("result", "other", "", "session/new"),
   AcpLine("error", "", "", "authenticate"), AcpLine("result", "stop end_turn", "", "session/prompt"),
   AcpLine("bare update", "agent_message_chunk", "a", "none"),
   AcpLine("vendor", "retry_state failed", "", "none")}
ClaudeLines ==
  {ClaudeLine("stream_event", "text_delta", "a", <<>>), ClaudeLine("stream_event", "thinking_delta", "b", <<>>),
   ClaudeLine("assistant", "", "", <<Block("text", "a"), Block("tool_use", "t")>>),
   ClaudeLine("result", "success", "", <<>>), ClaudeLine("result", "error", "", <<>>),
   [type |-> "malformed", re |-> "none"]}
MCLines == [grok |-> GrokLines, claude |-> ClaudeLines]

-----------------------------------------------------------------------------
(* The adapter rules on every small input.                                 *)

\* A version is proven exactly by a run of digits and dots that is three
\* numbers, wherever it stands in the output (parse_version).
ASSUME VersionIsThreeNumbers ==
  \A n \in 0..7 : \A s \in [1..n -> {"d", ".", "x"}] :
    ParsesVersion(s) =
      \E i, p, q, j \in 1..n :
        /\ i < p /\ p + 1 < q /\ q < j /\ s[p] = "." /\ s[q] = "."
        /\ \A k \in (i..j) \ {p, q} : s[k] = "d"
        /\ (i = 1 \/ s[i - 1] = "x") /\ (j = n \/ s[j + 1] = "x")

Evidences == [digest : {0, 1}, version : BOOLEAN, surfaces : SUBSET {"acp", "stream", "permission"}]

PlainRequest ==
  [extras |-> {}, objective |-> "o", workspace |-> "w", resume |-> FALSE,
   quality |-> "standard", effort |-> "high"]

\* An adapter is enabled only by a proof of its file, its version and the
\* transport it will be driven over, and only an enabled one can be launched
\* (probe_family, spawn_plan).
ASSUME AdmissionIsEarned ==
  \A f \in Families, enabled, found \in BOOLEAN, e \in Evidences :
    LET admitted == ProbeFamily(f, enabled, found, e)
        launch == SpawnPlan(PlainRequest, admitted, e.digest)
    IN  /\ admitted.status = "ENABLED" =>
             /\ enabled /\ found /\ Proven(e)
             /\ (IF admitted.transport = "acp" THEN "acp" ELSE "stream") \in e.surfaces
        /\ (launch.transport # "none") = (admitted.status = "ENABLED")
        /\ launch.transport # "none" => launch.transport = admitted.transport
        /\ SpawnPlan([PlainRequest EXCEPT !.extras = {"model"}], admitted, e.digest).transport = "none"

\* What assign_adapter binds a task to can be launched while its file stays the
\* same, and nothing else can.
ASSUME AssignedCanBeLaunched ==
  \A e \in Evidences, on \in SUBSET Families, role \in {"freelancer", "reviewer"},
     f \in Families \cup CodexNative \cup {"unknown"} :
    LET admitted == [g \in Families |-> ProbeFamily(g, g \in on, TRUE, e)]
        bindings == [r \in {"reviewer"} |-> f]
        id == AssignAdapter(<<>>, role, bindings, admitted)
    IN  /\ id # <<"adapter_unavailable">> =>
             \E g \in Families : /\ admitted[g].id = id
                                 /\ SpawnPlan(PlainRequest, admitted[g], e.digest).why = "ok"
        /\ \A g \in Families :
             AssignAdapter(admitted[g].id, role, bindings, admitted) =
               IF admitted[g].status = "ENABLED" THEN admitted[g].id ELSE <<"adapter_unavailable">>

\* An executable that is used exists, the configured one first, and detection
\* never overwrites a settings file (resolve_executable, seed_detected_adapters).
ASSUME ExecutablesExist ==
  \A files \in SUBSET {"p", "q", "r"} :
    LET got == ResolveExecutable("q", <<"p", "r">>, files)
    IN  /\ got \in files \cup {"none"} /\ ("q" \in files => got = "q")
        /\ (got = "none") = (files = {})
        /\ SeedDetectedAdapters(TRUE, files) = <<>>

\* A child of an adapter gets the first proxy that is set, never an empty one.
ASSUME ProxyIsTheFirstSet ==
  \A env \in [{"GROK_FORWARD_PROXY", "HTTPS_PROXY", "HTTP_PROXY", "ALL_PROXY", "NO_PROXY"} -> {"", "a"}],
     configured \in {"", "c"} :
    LET got == ExtraEnv("kimi", env, configured)
    IN  /\ ExtraEnv("pi", env, configured) = <<>>
        /\ got # <<>> => got[1] # "" /\ got[2] # ""
        /\ (got # <<>> /\ got[1] = "c") = (env["GROK_FORWARD_PROXY"] = "" /\ configured = "c")

SomeKeys == {<<"input", "tokens">>, <<"token">>, <<"api", "key">>, <<"x", "model">>, <<"text">>,
             <<"modelUsage">>, <<"model", "count">>}
SomeLeaves == [path : {<<k>> : k \in SomeKeys} \cup {<<k, l>> : k, l \in SomeKeys}, text : {"t", "pem"}]

\* A raw line keeps its usage counters and nothing under a sensitive key or in
\* the form of a path or key; cleaning twice changes nothing (sanitize_value).
ASSUME CleaningIsExact ==
  \A leaf \in SomeLeaves :
    LET once == SanitizeValue({leaf})
        kept == \E x \in once : x.text = leaf.text
    IN  /\ SanitizeValue(once) = once
        /\ kept = (leaf.text = "t" /\ \A i \in DOMAIN leaf.path :
                                        leaf.path[i] \in {<<"input", "tokens">>, <<"text">>})

SomeBlocks == {<<>>} \cup {<<[type |-> t, text |-> x, id |-> i]>> :
                  t \in {"text", "thinking", "tool_use", "tool_result"}, x \in {"", "a"}, i \in BOOLEAN}
StreamLines ==
  [type : {"blank", "malformed", "system", "assistant", "user", "stream_event", "control_request",
           "result", "progress", "other"},
   sub : {"init", "status", "text_delta", "tool_use", "can_use_tool", "success", "cancelled", "other"},
   text : {"", "a"}, id : BOOLEAN, usage : BOOLEAN, error : BOOLEAN, blocks : SomeBlocks]
WireLines ==
  [type : {"blank", "malformed", "session/update", "session/request_permission", "initialize",
           "vendor", "result", "error", "other"},
   sub : {"none", "agent_message_chunk", "tool_call", "plan", "stop end_turn", "stop cancelled",
          "stop other", "session", "retry_state failed", "other"},
   text : {"", "a"}, id : BOOLEAN, options : BOOLEAN]

\* A line decides a run only with its last event, succeeds only by an explicit
\* success, asks only together with the call it asks about, and what is bound
\* of it is durable (decode_stream_json_line, decode_acp_line).
ASSUME LinesDecideLast ==
  \A f \in {"claude", "grok"} : \A l \in IF f = "claude" THEN StreamLines ELSE WireLines :
    LET kinds == Decode(f, l)
    IN  \A i \in DOMAIN kinds :
          /\ Decisive(kinds[i]) => i = Len(kinds)
          /\ Decisive(kinds[i]) /\ Verdict(kinds[i]) = "SUCCEEDED" =>
               l.type = "result" /\ l.sub \in {"success", "stop end_turn"}
          /\ kinds[i].kind = "interaction_requested" => i = 2 /\ kinds[1].kind = "tool_proposal"
          /\ BindProtocolEvent(kinds[i], FALSE) = "invalid" => kinds[i].kind = "terminal"
          /\ BindProtocolEvent(kinds[i], TRUE) # "invalid"

\* No answer approves what was not approved, and an exit after the start is
\* never reported as having had no effect (classify_adapter_exit).
ASSUME AnswersAreNotInvented ==
  /\ \A id \in {"number", "text id", "bad"}, kind \in {"approve", "deny", "text"}, option \in BOOLEAN :
       /\ EncodeClaudePermission(id, kind) = "allow" => kind = "approve"
       /\ EncodeAcpPermission(id, option, kind) = "selected" => option /\ id = "number"
  /\ \A terminal \in BOOLEAN : ClassifyAdapterExit(terminal, TRUE)[2] # "NO_EFFECT"

=============================================================================
