---------------------------- MODULE AdapterRules ----------------------------
(***************************************************************************)
(* The provider adapters as functions (adapters.rs and adapters/): how an  *)
(* executable is probed and admitted, what launch an admission allows, and *)
(* how a line the provider prints becomes mesh events.                     *)
(*                                                                         *)
(* A help or version text is what the code looks for in it, a JSON value   *)
(* its keys and the fields a decoder reads, a text a token; "" is a text   *)
(* that is blank.                                                          *)
(***************************************************************************)
EXTENDS Integers, Sequences

Families == {"claude", "grok", "kimi", "pi"}
CodexNative == {"luna"}

\* digest_file of a file that cannot be read.
ZeroDigest == 0

-----------------------------------------------------------------------------
(* Admission.  Evidence e: the digest of the file, whether its version was   *)
(* parsed, and the surfaces its help names.                                  *)

\* A version is the first run of digits and dots that is three numbers.
IsVersion(run) ==
    /\ run # <<>> /\ run[1] = "d" /\ run[Len(run)] = "d"
    /\ Len(SelectSeq(run, LAMBDA c : c = ".")) = 2
    /\ \A i \in 1 .. Len(run) - 1 : ~(run[i] = "." /\ run[i + 1] = ".")

ParsesVersion(stdout) ==
    \E i, j \in DOMAIN stdout :
        /\ i <= j
        /\ \A k \in i .. j : stdout[k] \in {"d", "."}
        /\ i = 1 \/ stdout[i - 1] \notin {"d", "."}
        /\ j = Len(stdout) \/ stdout[j + 1] \notin {"d", "."}
        /\ IsVersion(SubSeq(stdout, i, j))

\* base_admission: unavailable until the probe says otherwise.
BaseAdmission(family, transport, e) ==
    [adapter |-> family, id |-> <<family, "config">>, status |-> "UNAVAILABLE",
     digest |-> e.digest, transport |-> transport, capabilities |-> {},
     reason |-> ""]

Unavailable(record, reason) == [record EXCEPT !.reason = reason]

UnavailableReason(e) ==
    IF e.digest = ZeroDigest THEN "executable digest missing"
    ELSE IF ~e.version THEN "version proof missing" ELSE "fixture bundle missing"

Proven(e) == e.digest # ZeroDigest /\ e.version

Enable(record, transport, capabilities) ==
    [record EXCEPT !.status = "ENABLED", !.transport = transport,
                   !.capabilities = capabilities]

AssignRuntimeCapabilities(e) ==
    {c \in {"streaming", "approvals"} :
       (IF c = "streaming" THEN "stream" ELSE "permission") \in e.surfaces}

ProbeClaude(e) ==
    LET base == BaseAdmission("claude", "stream_json", e)
    IN  IF ~Proven(e) THEN Unavailable(base, UnavailableReason(e))
        ELSE IF "stream" \in e.surfaces
          THEN Enable(base, "stream_json", AssignRuntimeCapabilities(e))
        ELSE [Unavailable(base, "no proven transport surface")
                EXCEPT !.capabilities = AssignRuntimeCapabilities(e)]

AssignAcpCapabilities == {"streaming", "approvals"}

ProbeGrok(e) ==
    LET base == BaseAdmission("grok", "acp", e)
    IN  IF ~Proven(e) THEN Unavailable(base, UnavailableReason(e))
        ELSE IF "acp" \in e.surfaces THEN Enable(base, "acp", AssignAcpCapabilities)
        ELSE IF "stream" \in e.surfaces THEN Enable(base, "stream_json", {"streaming"})
        ELSE Unavailable(base, "no proven transport surface")

ProbeKimi(e) ==
    LET base == BaseAdmission("kimi", "acp", e)
    IN  IF ~Proven(e) THEN Unavailable(base, UnavailableReason(e))
        ELSE IF "acp" \in e.surfaces THEN Enable(base, "acp", AssignAcpCapabilities)
        ELSE IF "stream" \in e.surfaces THEN Enable(base, "stream_json", {"streaming"})
        ELSE Unavailable(base, "no proven transport surface")

\* registry::unavailable: a record without a probe, under another identity.
NoProbe(family, reason) ==
    [adapter |-> family, id |-> <<family, "zero">>, status |-> "UNAVAILABLE",
     digest |-> ZeroDigest,
     transport |-> IF family = "claude" THEN "stream_json" ELSE "acp",
     capabilities |-> {}, reason |-> reason]

\* probe_family, from the settings' switch, whether an executable was found,
\* and what running it showed.
ProbeFamily(family, enabled, found, e) ==
    IF family = "pi" THEN NoProbe("pi", "pi has no admitted spawn surface")
    ELSE IF ~found THEN NoProbe(family, "executable not found")
    ELSE IF ~enabled THEN NoProbe(family, "disabled in settings")
    ELSE CASE family = "claude" -> ProbeClaude(e)
           [] family = "grok" -> ProbeGrok(e)
           [] family = "kimi" -> ProbeKimi(e)

\* The family a role is bound to, "none" where there is none.
RoleFamily(role, bindings) ==
    LET name == IF role \in DOMAIN bindings THEN bindings[role]
                ELSE IF role = "freelancer" THEN "kimi" ELSE "none"
    IN  IF name \in Families \cup CodexNative THEN name ELSE "none"

EnabledForRole(role, bindings, record) ==
    LET family == RoleFamily(role, bindings)
    IN  /\ family \notin CodexNative \cup {"none"}
        /\ record[family].status = "ENABLED"

\* assign_adapter of the router: the instance a task is bound to at submit.
AssignAdapter(requested, role, bindings, record) ==
    IF requested # <<>>
      THEN IF \E f \in Families : record[f].id = requested /\ record[f].status = "ENABLED"
             THEN requested ELSE <<"adapter_unavailable">>
      ELSE IF EnabledForRole(role, bindings, record)
             THEN record[RoleFamily(role, bindings)].id ELSE <<"adapter_unavailable">>

\* The configured file if it exists, else the first default that does.
ResolveExecutable(configured, defaults, files) ==
    IF configured \in files THEN configured
    ELSE LET present == SelectSeq(defaults, LAMBDA p : p \in files)
         IN  IF present = <<>> THEN "none" ELSE Head(present)

\* seed_detected_adapters: what the first run writes, <<>> where it writes
\* nothing.
SeedDetectedAdapters(exists, detected) ==
    IF exists \/ detected = {} THEN <<>>
    ELSE [f \in detected |-> TRUE]

-----------------------------------------------------------------------------
(* The launch. *)

Admits(record, capability) ==
    record.status # "UNAVAILABLE" /\ capability \in record.capabilities

\* The answer of confirm_admission when the file's digest is now d.
ConfirmAdmission(record, d) ==
    CASE record.status = "UNAVAILABLE" -> "unavailable"
      [] record.status # "UNAVAILABLE" /\ d = ZeroDigest -> "digest unavailable"
      [] record.status # "UNAVAILABLE" /\ d # ZeroDigest ->
           IF d = record.digest THEN "ok" ELSE "admission stale"

RequireCapabilities(record, required) ==
    IF record.status = "UNAVAILABLE" THEN "unavailable"
    ELSE IF required \subseteq record.capabilities THEN "ok" ELSE "capability not admitted"

SelectGrokTransport(record, fallback) ==
    IF record.status = "UNAVAILABLE" THEN "unavailable"
    ELSE IF fallback
      THEN IF record.transport = "stream_json" \/ Admits(record, "streaming")
             THEN "stream_json" ELSE "capability not admitted"
    ELSE IF record.transport = "acp" /\ Admits(record, "streaming")
      THEN "acp" ELSE "capability not admitted"

SelectKimiTransport(record, fallback) ==
    IF record.status = "UNAVAILABLE" THEN "unavailable"
    ELSE IF fallback /\ (record.transport = "stream_json" \/ Admits(record, "streaming"))
      THEN "stream_json"
    ELSE IF ~fallback /\ record.transport = "acp" /\ Admits(record, "streaming")
      THEN "acp"
    ELSE "capability not admitted"

Mapping(quality, effort, effective, exact) ==
    [quality |-> "standard", quality_exact |-> quality = "standard",
     effort |-> effective, effort_exact |-> exact]

MapClaudeQualityEffort(quality, effort) == Mapping(quality, effort, effort, TRUE)

MapGrokQualityEffort(transport, quality, effort) ==
    LET exact == transport = "stream_json"
    IN  Mapping(quality, effort, IF exact THEN effort ELSE "medium", exact)

MapKimiQualityEffort(quality, effort) ==
    Mapping(quality, effort, "medium", effort = "medium")

ModelKeys == {"model", "model_name", "fallback_model", "advisor", "anthropic_model"}

\* reject_model_fields looks at the keys of every depth.
RejectModelFields(keys) == keys \cap ModelKeys # {}

Refused(why) == [transport |-> "none", why |-> why]

\* What the three plan_*_spawn functions check first, in their order.
PlanChecks(r, record, d) ==
    IF RejectModelFields(r.extras) THEN "model name rejected"
    ELSE IF r.objective = "" \/ r.workspace = "" THEN "invalid request"
    ELSE IF r.resume /\ ~Admits(record, "session_resume") THEN "capability not admitted"
    ELSE IF ConfirmAdmission(record, d) # "ok" THEN ConfirmAdmission(record, d)
    ELSE RequireCapabilities(record, {"streaming"})

\* Claude's plan has no workspace, and the objective follows "--".
PlanClaudeSpawn(r, record, d) ==
    LET checks == PlanChecks([r EXCEPT !.workspace = "any"], record, d)
    IN  IF checks # "ok" THEN Refused(checks)
        ELSE IF r.objective = "--model" THEN Refused("model name rejected")
        ELSE [transport |-> "stream_json", why |-> "ok",
              mapping |-> MapClaudeQualityEffort(r.quality, r.effort)]

\* The objective is an argument of the fallback's command line only.
PlanGrokSpawn(r, record, d, transport) ==
    LET checks == PlanChecks(r, record, d)
    IN  IF checks # "ok" THEN Refused(checks)
        ELSE IF SelectGrokTransport(record, transport = "stream_json")
                  \notin {"acp", "stream_json"}
          THEN Refused("capability not admitted")
        ELSE IF transport = "stream_json" /\ r.objective \in {"-x", "--model"}
          THEN Refused("invalid request")
        ELSE [transport |-> transport, why |-> "ok",
              mapping |-> MapGrokQualityEffort(transport, r.quality, r.effort)]

PlanKimiSpawn(r, record, d, transport) ==
    LET checks == PlanChecks(r, record, d)
    IN  IF checks # "ok" THEN Refused(checks)
        ELSE IF SelectKimiTransport(record, transport = "stream_json")
                  \notin {"acp", "stream_json"}
          THEN Refused("capability not admitted")
        ELSE IF transport = "stream_json" /\ r.objective \in {"-x", "--model"}
          THEN Refused("invalid request")
        ELSE [transport |-> transport, why |-> "ok",
              mapping |-> MapKimiQualityEffort(r.quality, r.effort)]

\* spawn_plan of the dispatcher: ACP where it can be had, else the fallback.
SpawnPlan(r, record, d) ==
    LET select(f) == IF record.adapter = "grok" THEN SelectGrokTransport(record, f)
                     ELSE SelectKimiTransport(record, f)
        transport == IF select(FALSE) = "acp" THEN "acp" ELSE select(TRUE)
    IN  CASE record.adapter = "claude" -> PlanClaudeSpawn(r, record, d)
          [] record.adapter \in {"grok", "kimi"} /\ transport \notin {"acp", "stream_json"} ->
               Refused(transport)
          [] record.adapter = "grok" /\ transport \in {"acp", "stream_json"} ->
               PlanGrokSpawn(r, record, d, transport)
          [] record.adapter = "kimi" /\ transport \in {"acp", "stream_json"} ->
               PlanKimiSpawn(r, record, d, transport)
          [] record.adapter = "pi" -> Refused("unknown adapter")

\* extra_env: the proxy variables a child gets.  The environment is read
\* before the settings only for the first of its variables.
ExtraEnv(adapter, env, configured) ==
    LET proxies == SelectSeq(<<env["GROK_FORWARD_PROXY"], configured, env["HTTPS_PROXY"],
                               env["HTTP_PROXY"], env["ALL_PROXY"]>>, LAMBDA p : p # "")
    IN  IF proxies = <<>> \/ adapter \notin {"claude", "grok", "kimi"} THEN <<>>
        ELSE <<Head(proxies), IF env["NO_PROXY"] = "" THEN "loopback" ELSE env["NO_PROXY"]>>

-----------------------------------------------------------------------------
(* What a raw line may keep.  A key is its words, a value its leaves.        *)

SensitiveKeys ==
    {<<"advisor">>, <<"anthropic", "model">>, <<"api", "key">>, <<"account", "id">>,
     <<"credential">>, <<"fallback", "model">>, <<"model">>, <<"model", "name">>,
     <<"organization", "id">>, <<"password">>, <<"prompt">>, <<"secret">>, <<"token">>,
     <<"user", "id">>}

\* The words of the keys the providers print that mention a model.
ModelWords == {"model", "modelUsage", "modelState", "currentModelId"}
MarkedWords == ModelWords \cup {"apiKeySource", "apikey", "configOptions"}

IsSensitiveKey(key) ==
    \/ \E i \in DOMAIN key : SubSeq(key, i, Len(key)) \in SensitiveKeys
    \/ \E i \in DOMAIN key : key[i] \in MarkedWords
    \/ \E i \in 1 .. Len(key) - 1 : key[i] = "api" /\ key[i + 1] = "key"

\* Texts that name a user directory, a drive path, a key or a certificate.
MachineTexts == {"home path", "drive path", "sk- key", "pem"}

SanitizeText(text) == IF text \in MachineTexts THEN "[redacted]" ELSE text

\* A leaf is the keys above it and its text.
SanitizeValue(leaves) ==
    {[path |-> l.path,
      text |-> IF \E i \in DOMAIN l.path : IsSensitiveKey(l.path[i])
                 THEN "[redacted]" ELSE SanitizeText(l.text)] : l \in leaves}

-----------------------------------------------------------------------------
(* The decoders: a line becomes a sequence of kinds. *)

K(kind, of) == [kind |-> kind, of |-> of]

\* nonempty_text and its kin: nothing for a blank text.
Unless(blank, kinds) == IF blank THEN <<>> ELSE kinds

Malformed == <<K("protocol_error", "malformed_frame")>>
Unknown == <<K("unknown", "")>>

ClassifyStreamEvent(l) ==
    CASE l.sub = "text_delta" -> Unless(l.text = "", <<K("text", l.text)>>)
      [] l.sub = "thinking_delta" -> Unless(l.text = "", <<K("thinking", l.text)>>)
      [] l.sub = "tool_use" -> Unless(l.text = "", <<K("warning", l.text)>>)
      [] OTHER -> <<>>

\* A tool_use block proposes the call if its id is a protocol id, and names
\* it if it has a name.
ToolUse(b) ==
    Unless(~b.id, <<K("tool_proposal", b.text)>>) \o Unless(b.text = "", <<K("warning", b.text)>>)

\* The events of the blocks of a message, in order.
InOrder(events) ==
    LET upTo[n \in 0..Len(events)] == IF n = 0 THEN <<>> ELSE upTo[n - 1] \o events[n]
    IN  upTo[Len(events)]

ClassifyAssistant(blocks) ==
    InOrder([i \in DOMAIN blocks |->
        CASE blocks[i].type = "text" ->
               Unless(blocks[i].text = "", <<K("text", blocks[i].text)>>)
          [] blocks[i].type = "thinking" ->
               Unless(blocks[i].text = "", <<K("thinking", blocks[i].text)>>)
          [] blocks[i].type = "tool_use" -> ToolUse(blocks[i])
          [] OTHER -> <<>>])

ClassifyUser(blocks) ==
    InOrder([i \in DOMAIN blocks |->
        Unless(blocks[i].type # "tool_result" \/ blocks[i].text = "",
               <<K("warning", blocks[i].text)>>)])

ClassifyControlRequest(l) ==
    Unless(l.sub # "can_use_tool" \/ ~l.id,
           <<K("tool_proposal", l.text), K("interaction_requested", l.text)>>)

ClassifyClaudeResult(l) ==
    LET end == CASE l.sub = "cancelled" -> "CANCELLED"
                 [] l.sub = "success" /\ ~l.error -> "SUCCEEDED"
                 [] OTHER -> "FAILED"
    IN  Unless(~l.usage, <<K("usage", "")>>) \o <<K("terminal", end)>>

ClassifyClaudeEvent(l) ==
    CASE l.type = "system" ->
           (CASE l.sub = "init" -> <<K("state_changed", "RUNNING")>>
              [] l.sub = "status" -> Unless(l.text = "", <<K("warning", l.text)>>)
              [] l.sub = "api_retry" -> <<K("warning", "retry")>>
              [] OTHER -> <<>>)
      [] l.type = "assistant" -> ClassifyAssistant(l.blocks)
      [] l.type = "user" -> ClassifyUser(l.blocks)
      [] l.type = "stream_event" -> ClassifyStreamEvent(l)
      [] l.type = "control_request" -> ClassifyControlRequest(l)
      [] l.type = "result" -> ClassifyClaudeResult(l)
      [] OTHER -> <<>>

\* decode_stream_json_line: a known type that says nothing is silent, any
\* other one is a warning.
DecodeStreamJsonLine(l) ==
    CASE l.type = "blank" -> <<>>
      [] l.type = "malformed" -> Malformed
      [] OTHER ->
           LET kinds == ClassifyClaudeEvent(l)
           IN  IF kinds # <<>> THEN kinds
               ELSE Unless(l.type \in {"system", "stream_event", "assistant", "user",
                                       "progress"}, Unknown)

Quiet == {"plan", "available_commands_update", "tool_call_update",
          "agent_thought_chunk", "user_message_chunk", "session_info_update"}

ClassifyUpdate(l) ==
    CASE l.sub = "none" -> <<>>
      [] l.sub = "agent_message_chunk" -> Unless(l.text = "", <<K("text", l.text)>>)
      [] l.sub = "tool_call" -> Unless(~l.id, <<K("tool_proposal", l.text)>>)
      [] l.sub \in Quiet -> <<>>
      [] OTHER -> Unknown

\* permission_request: the id is a number or a protocol id, and some option's
\* id is one.
ClassifyPermissionRequest(l) ==
    IF l.id /\ l.options
      THEN <<K("tool_proposal", l.text), K("interaction_requested", l.text)>>
      ELSE Unknown

ClassifyAcpResult(l) ==
    CASE l.sub = "stop end_turn" -> <<K("terminal", "SUCCEEDED")>>
      [] l.sub = "stop cancelled" -> <<K("terminal", "CANCELLED")>>
      [] l.sub = "stop other" -> <<K("terminal", "FAILED")>>
      [] l.sub = "session" -> <<K("state_changed", "RUNNING")>>
      [] l.sub = "capabilities" -> <<K("state_changed", "PREPARING")>>
      [] OTHER -> <<>>

ClassifyVendorFrame(l) ==
    CASE l.sub = "prompt_complete error" -> <<K("protocol_error", "provider_http")>>
      [] l.sub = "retry_state failed" -> <<K("protocol_error", "provider_http")>>
      [] l.sub = "retry_state" -> <<K("warning", "retry")>>
      [] OTHER -> <<>>

\* classify_frame and decode_acp_line.  A frame with a method is never taken
\* for an answer.
DecodeAcpLine(l) ==
    CASE l.type = "blank" -> <<>>
      [] l.type \in {"malformed", "not an object"} -> Malformed
      [] l.type \in {"session/update", "bare update"} -> ClassifyUpdate(l)
      [] l.type = "session/request_permission" -> ClassifyPermissionRequest(l)
      [] l.type \in {"initialize", "session/new", "session/prompt", "session/cancel"} -> <<>>
      [] l.type = "vendor" -> ClassifyVendorFrame(l)
      [] l.type = "result" -> ClassifyAcpResult(l)
      [] l.type = "error" -> <<K("protocol_error", "jsonrpc")>>
      [] OTHER -> Unknown

Decode(family, l) == IF family = "claude" THEN DecodeStreamJsonLine(l) ELSE DecodeAcpLine(l)

\* The kinds that end a run when persist_new_frames meets them.
Decisive(k) ==
    \/ k.kind = "terminal"
    \/ k.kind = "protocol_error" /\ k.of \in {"jsonrpc", "provider_http"}

Verdict(k) == IF k.kind = "terminal" /\ k.of = "SUCCEEDED" THEN "SUCCEEDED" ELSE "FAILED"

\* The answer to a permission request: Claude takes any protocol id, the ACP
\* wire only a number, and neither a text.
EncodeClaudePermission(id, kind) ==
    IF id = "bad" \/ kind = "text" THEN "invalid"
    ELSE IF kind = "approve" THEN "allow" ELSE "deny"

EncodeAcpPermission(id, option, kind) ==
    IF id # "number" \/ kind = "text" \/ ~option THEN "invalid" ELSE "selected"

\* bind_protocol_event: only a terminal event needs the result it names.
BindProtocolEvent(k, result) ==
    CASE k.kind = "terminal" -> IF result THEN "terminal" ELSE "invalid"
      [] k.kind = "text" -> "text_delta"
      [] k.kind \in {"thinking", "unknown", "warning"} -> "warning"
      [] OTHER -> k.kind

\* classify_adapter_exit: an exit without a terminal frame is malformed.
ClassifyAdapterExit(terminal, started) ==
    IF ~started THEN <<"ADAPTER_UNAVAILABLE", "NO_EFFECT">>
    ELSE IF terminal THEN <<"CANCELLED", "POSSIBLE_EFFECT">>
    ELSE <<"PROTOCOL_MALFORMED", "UNKNOWN_EFFECT">>

=============================================================================
