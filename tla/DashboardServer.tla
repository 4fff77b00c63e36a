-------------------------- MODULE DashboardServer --------------------------
(***************************************************************************)
(* The loopback dashboard of crates/mesh-daemon/src/dashboard/mod.rs: the   *)
(* request guard, the one-time bootstrap and its sessions, and the settings *)
(* route with the settings store of settings/mod.rs.  Updates run on        *)
(* blocking threads and share one temporary file name.                      *)
(***************************************************************************)
EXTENDS Naturals, Sequences, FiniteSets

CONSTANTS
    Tokens,         \* random tokens, never drawn twice
    Updaters,       \* blocking threads that run SettingsStore::update
    Documents,      \* the settings objects clients write
    BootstrapTtl,   \* BOOTSTRAP_TTL_MS
    SessionTtl,     \* SESSION_TTL_MS
    MaxTime,        \* bound of the model on the clock
    MaxConfig       \* bound of the model on config_version

VARIABLES
    time,           \* the session store's clock
    sessions,       \* SessionInner
    disk,           \* config.toml, config.toml.tmp and the audit log
    update          \* the settings updates in progress

dashboardVars == <<time, sessions, disk, update>>

-----------------------------------------------------------------------------
(* The request guard, on the parts of a request it looks at. *)

\* split_host_port and loopback_host: host and port of an authority, where the
\* port is a number or missing.
LoopbackHosts == {"127.0.0.1", "localhost", "[::1]"}
IsLoopbackAuthority(a) == a.host \in LoopbackHosts

\* normalize_authority: a missing port is 80.
NormalizeAuthority(a) ==
    [host |-> a.host, port |-> IF a.port = "missing" THEN "80" ELSE a.port]

\* origin_matches_host.
OriginMatchesHost(origin, host) ==
    /\ origin.scheme = "http"
    /\ IsLoopbackAuthority(origin) /\ IsLoopbackAuthority(host)
    /\ NormalizeAuthority(origin) = NormalizeAuthority(host)

\* strict_content_length on the header's values, each the number it spells or
\* nothing: the length, or nothing for an invalid framing.
StrictContentLength(values) ==
    IF values = <<>> THEN {0} ELSE IF Len(values) = 1 THEN values[1] ELSE {}

\* security_guard.
SecurityGuard(r, bound) ==
    LET length == StrictContentLength(r.lengths)
        limit == IF r.route = "settings" /\ r.method = "PUT" THEN bound ELSE 0
    IN  IF ~IsLoopbackAuthority(r.host) THEN "host_not_allowed"
        ELSE IF \E o \in r.origin : ~OriginMatchesHost(o, r.host) THEN "origin_not_allowed"
        ELSE IF r.chunked \/ length = {} THEN "invalid_body_framing"
        ELSE IF \E n \in length : n > limit THEN "body_too_large"
        ELSE "next"

\* event_stream_cursor with parse_last_event_id: the query's cursor and the
\* Last-Event-ID header are sets of at most one number.
EventStreamCursor(query, header, limit, most) ==
    IF query # {} /\ header # {} /\ query # header THEN "cursor_mismatch"
    ELSE IF limit \notin 1..most THEN "invalid_event_query"
    ELSE LET given == query \cup header
         IN  IF given = {} THEN 0 ELSE CHOOSE n \in given : TRUE

\* static_asset: an allow list, no path of the file system.
StaticAsset(path) == path \in {"dashboard.js", "dashboard.css", "index.html"}

-----------------------------------------------------------------------------
(* Settings documents as TOML and JSON. *)

NoPath == "null"
Adapters == {"claude", "grok", "kimi", "pi"}

\* render_toml: a null path is left out.
RenderToml(paths) ==
    [a \in {b \in DOMAIN paths : paths[b] # NoPath} |-> paths[a]]

\* parse_toml with normalize_toml_nulls: three of the four adapters get their
\* null back.
ParseToml(paths) ==
    [a \in DOMAIN paths \cup {"claude", "grok", "kimi"} |->
       IF a \in DOMAIN paths THEN paths[a] ELSE NoPath]

\* portable_export and portable_import: every path becomes null.
PortableExport(paths) == [a \in DOMAIN paths |-> NoPath]

\* classify_changes: a key that changed, appeared or disappeared.
ClassifyChanges(previous, next) ==
    LET changed == {k \in DOMAIN previous \cup DOMAIN next :
          \/ k \notin DOMAIN previous \/ k \notin DOMAIN next
          \/ previous[k] # next[k]}
    IN  [hot_reload |-> changed \ {"concurrency"},
         restart_required |-> changed \cap {"concurrency"}]

-----------------------------------------------------------------------------
(* Sessions.  The store's mutex makes each operation one step. *)

NoUpdate == [pc |-> "idle"]

NoFile == [kind |-> "absent", version |-> 0]
Torn == [kind |-> "torn", version |-> 0]
Document(v, d) == [kind |-> "whole", version |-> v, settings |-> d]
Whole(content) == content.kind = "whole"

DashboardInit ==
    /\ time = 0
    /\ sessions = [drawn |-> {}, bootstrap |-> {}, live |-> {}]
    /\ disk = [config |-> NoFile, tmp |-> NoFile, audit |-> {}]
    /\ update = [u \in Updaters |-> NoUpdate]

TimePasses ==
    /\ time < MaxTime
    /\ time' = time + 1
    /\ UNCHANGED <<sessions, disk, update>>

\* mint_bootstrap.
MintBootstrap(token) ==
    /\ token \notin sessions.drawn
    /\ sessions' = [sessions EXCEPT
         !.drawn = @ \cup {token},
         !.bootstrap = {b \in @ : b.expiry > time} \cup
                       {[token |-> token, expiry |-> time + BootstrapTtl]}]
    /\ UNCHANGED <<time, disk, update>>

\* What an exchange leaves of the bootstrap tokens, expired or not.
Spent(b) == sessions.bootstrap \ {b}

\* exchange_bootstrap.  The session and its CSRF token are drawn together, so
\* one token stands for both.
ExchangeBootstrap(b, token) ==
    /\ b \in sessions.bootstrap
    /\ token \notin sessions.drawn
    /\ sessions' = IF b.expiry <= time
         THEN [sessions EXCEPT !.bootstrap = Spent(b)]
         ELSE [sessions EXCEPT
                 !.bootstrap = Spent(b),
                 !.drawn = @ \cup {token},
                 !.live = {s \in @ : s.expiry > time} \cup
                          {[token |-> token, expiry |-> time + SessionTtl]}]
    /\ UNCHANGED <<time, disk, update>>

\* active_session, csrf_for_session.
ActiveSession(token) == \E s \in sessions.live : s.token = token /\ s.expiry > time

-----------------------------------------------------------------------------
(* The settings store.  A file holds a whole document, or the beginning of  *)
(* one ("torn").  `File::create' opens and truncates an existing file, so   *)
(* two updates may hold the same temporary file; when one renames it the    *)
(* other's handle follows it to config.toml.                                *)

\* load: the version, or 0 on any error.
LoadedVersion == disk.config.version

\* update: whatever version the client sent, the next one.
NextVersion == LoadedVersion + 1

\* settings_put up to the first load of update.  `alone' remembers that no
\* other update has been under way at the same time.
PutSettings(u, token, d) ==
    /\ update[u].pc = "idle"
    /\ ActiveSession(token)
    /\ LoadedVersion < MaxConfig
    /\ update' = [w \in Updaters |->
         IF w = u THEN [pc |-> "stage", doc |-> Document(NextVersion, d), at |-> "none",
                        alone |-> \A v \in Updaters : update[v] = NoUpdate]
         ELSE IF update[w] = NoUpdate THEN NoUpdate
         ELSE [update[w] EXCEPT !.alone = FALSE]]
    /\ UNCHANGED <<time, sessions, disk>>

UpdateStep(u, pc, at) == update' = [update EXCEPT ![u].pc = pc, ![u].at = at]
UpdateFails(u) == update' = [update EXCEPT ![u] = NoUpdate]

\* write_and_flush: create or truncate ...
CreateStaged(u) ==
    /\ update[u].pc = "stage"
    /\ \/ /\ disk' = [disk EXCEPT !.tmp = Torn]
          /\ UpdateStep(u, "write", "tmp")
       \/ UpdateFails(u) /\ UNCHANGED disk
    /\ UNCHANGED <<time, sessions>>

\* Faulty: the staged file is renamed into place before it is written.
WriteStagedInPlace(u) ==
    /\ update[u].pc = "write"
    /\ disk' = [disk EXCEPT !.config = disk.tmp, !.tmp = NoFile]
    /\ UpdateStep(u, "audit", "none")
    /\ UNCHANGED <<time, sessions>>

\* ... then write and sync through the handle.  A document written over what
\* another update wrote to the same file may leave a rest of that behind.  An
\* error leaves what was written so far, in a file nobody removes.
WriteStaged(u) ==
    LET before == IF update[u].at = "tmp" THEN disk.tmp ELSE disk.config
        after == {update[u].doc} \cup (IF Whole(before) THEN {Torn} ELSE {})
        Holds(content) == disk' = IF update[u].at = "tmp" THEN [disk EXCEPT !.tmp = content]
                                  ELSE [disk EXCEPT !.config = content]
    IN  /\ update[u].pc = "write"
        /\ \/ /\ \E content \in after : Holds(content)
              /\ UpdateStep(u, "rename", update[u].at)
           \/ /\ \E content \in after \cup {before, Torn} : Holds(content)
              /\ UpdateFails(u)
        /\ UNCHANGED <<time, sessions>>

\* rename over config.toml: handles of other updates on the file move along.
\* When it fails, as it must without a temporary file, that file is removed.
RenameStaged(u) ==
    /\ update[u].pc = "rename"
    /\ \/ /\ disk.tmp # NoFile
          /\ disk' = [disk EXCEPT !.config = disk.tmp, !.tmp = NoFile]
          /\ update' = [w \in Updaters |->
               IF w = u THEN [update[u] EXCEPT !.pc = "audit"]
               ELSE IF update[w].pc = "write" /\ update[w].at = "tmp"
                    THEN [update[w] EXCEPT !.at = "config"]
               ELSE update[w]]
       \/ /\ disk' = [disk EXCEPT !.tmp = NoFile]
          /\ UpdateFails(u)
    /\ UNCHANGED <<time, sessions>>

\* The audit line, best effort.
AppendAudit(u) ==
    /\ update[u].pc = "audit"
    /\ \/ disk' = [disk EXCEPT !.audit = @ \cup {update[u].doc}]
       \/ UNCHANGED disk
    /\ update' = [update EXCEPT ![u] = NoUpdate]
    /\ UNCHANGED <<time, sessions>>

\* The daemon stops: every update is cut, sessions are gone, files stay.
DashboardCrash ==
    /\ update # [u \in Updaters |-> NoUpdate]
    /\ update' = [u \in Updaters |-> NoUpdate]
    /\ sessions' = [sessions EXCEPT !.bootstrap = {}, !.live = {}]
    /\ UNCHANGED <<time, disk>>

DashboardNext ==
    \/ TimePasses
    \/ \E t \in Tokens : MintBootstrap(t)
    \/ \E b \in sessions.bootstrap, t \in Tokens : ExchangeBootstrap(b, t)
    \/ \E u \in Updaters, t \in Tokens, d \in Documents : PutSettings(u, t, d)
    \/ \E u \in Updaters :
         CreateStaged(u) \/ WriteStaged(u) \/ RenameStaged(u) \/ AppendAudit(u)
    \/ DashboardCrash

DashboardSpec == DashboardInit /\ [][DashboardNext]_dashboardVars

-----------------------------------------------------------------------------
(* Properties. *)

\* An update that no other update overlaps never tears config.toml, whatever
\* earlier updates, failed writes and crashes left in the shared temporary
\* file, and when it is done a whole document is in place.
SettingsStayWhole ==
    [][disk'.config = Torn =>
         \/ disk.config = Torn /\ \A u \in Updaters : update[u] # NoUpdate /\ update[u].alone
                                                        => update[u].pc # "audit"
         \/ \E u \in Updaters : update[u] # NoUpdate /\ ~update[u].alone]_dashboardVars

\* settings/mod.rs: "Atomically persists the next document version".
SettingsAreAtomic == disk.config # Torn

\* Every document that is replaced is replaced by the next version.
VersionsGrow ==
    [][disk'.config # disk.config /\ Whole(disk.config) =>
         /\ Whole(disk'.config)
         /\ disk'.config.version = disk.config.version + 1]_dashboardVars

=============================================================================
