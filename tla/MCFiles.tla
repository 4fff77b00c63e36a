------------------------------- MODULE MCFiles -------------------------------
(***************************************************************************)
(* Files, stores and pages on a small instance: the native file boundary,  *)
(* the removal of an installation tree, the opening of the store, backup   *)
(* and restore, the worktree manager, the dashboard server with its        *)
(* settings file and the dashboard page.  They work on disjoint state, so  *)
(* each behaviour exercises one of them: nothing is lost by not            *)
(* interleaving them.                                                      *)
(***************************************************************************)
EXTENDS SequencesExt, ControlFiles, PurgeTree, StoreOpen, Backup, Worktrees,
        DashboardServer, LiveView, TLC

CONSTANTS w1, w2, r1

\* Two attempts of one repository.
MCRepoOf == (w1 :> r1) @@ (w2 :> r1)

VARIABLE family

keepVars == <<family, fileVars, treeVars, openVars, backupVars, worktreeVars, dashboardVars, viewVars>>

\* Only the removal of a tree has more than one initial state.
KeepInit ==
  /\ family \in {"files", "tree", "open", "backup", "worktrees", "server", "page"}
  /\ IF family = "tree" THEN TreeInit
     ELSE tree = (CHOOSE t \in InstallTrees : TRUE) /\ outside = {} /\ TreeInit
  /\ FilesInit /\ OpenInit /\ BackupInit /\ WorktreesInit /\ DashboardInit /\ ViewInit

\* What a step of each of them leaves alone.
OffFiles == <<family, treeVars, openVars, backupVars, worktreeVars, dashboardVars, viewVars>>
OffTree == <<family, fileVars, openVars, backupVars, worktreeVars, dashboardVars, viewVars>>
OffOpen == <<family, fileVars, treeVars, backupVars, worktreeVars, dashboardVars, viewVars>>
OffBackup == <<family, fileVars, treeVars, openVars, worktreeVars, dashboardVars, viewVars>>
OffWorktrees == <<family, fileVars, treeVars, openVars, backupVars, dashboardVars, viewVars>>
OffServer == <<family, fileVars, treeVars, openVars, backupVars, worktreeVars, viewVars>>
OffPage == <<family, fileVars, treeVars, openVars, backupVars, worktreeVars, dashboardVars>>

KeepNext ==
  \/ family = "files" /\ FilesNext /\ UNCHANGED OffFiles
  \/ family = "tree" /\ TreeNext /\ UNCHANGED OffTree
  \/ family = "open" /\ OpenNext /\ UNCHANGED OffOpen
  \/ family = "backup" /\ BackupNext /\ UNCHANGED OffBackup
  \/ family = "worktrees" /\ WorktreesNext /\ UNCHANGED OffWorktrees
  \/ family = "server" /\ DashboardNext /\ UNCHANGED OffServer
  \/ family = "page" /\ ViewNext /\ UNCHANGED OffPage

KeepSpec == KeepInit /\ [][KeepNext]_keepVars

Symmetry == Permutations(Procs) \cup Permutations(Viewed)

-----------------------------------------------------------------------------
(* The file rules on every short input.                                     *)

Component(units) == <<[kind |-> "normal", units |-> units]>>

\* A name is reserved exactly when it is a device name followed by blanks
\* and, possibly, a dot and anything after it.
ASSUME \A n \in 0..3, m \in 0..2 :
  \A s \in [1..n -> {"n", "U", "l", "."}], t \in [1..m -> {".", " ", "x"}] :
    IsReservedDevice(s \o t) =
      \/ n = 3 /\ UpperAll(s) = <<"N", "U", "L">> /\ (m = 0 \/ t[1] # "x")
                 /\ (m = 2 /\ t[1] = " " => t[2] # "x")

ASSUME \A d \in {"0", "1", "9", "sup1", "sup4"} :
  IsReservedDevice(<<"c", "O", "m", d>>) = (d \in {"1", "9", "sup1"})

\* Nothing that ends in a dot or a blank, or that names a device, a stream or
\* a parent, is ever resolved below a root.
ASSUME \A n \in 0..3 : \A s \in [1..n -> {"n", "u", "l", ".", " ", ":"}] :
  ValidateRelativePath(Component(s)) =>
    /\ n > 0 /\ s[n] \notin {".", " "}
    /\ \A i \in 1..n : s[i] # ":"
    /\ UpperAll(s) # <<"N", "U", "L">>

ASSUME ~ValidateRelativePath(<<>>) /\ ~ValidateRelativePath(<<[kind |-> "parent", units |-> <<>>]>>)

ASSUME /\ PathIsSameOrDescendant(<<<<"R", "o">>, <<"x">>>>, <<<<"r", "O">>>>)
       /\ ~PathIsSameOrDescendant(<<<<"r">>>>, <<<<"r">>, <<"x">>>>)

\* What protection gives is what verification accepts, inheritance gives data
\* children their contract and never gives a control child its own.
ASSUME /\ VerifyDataRootAcl(DataRootAcl)
       /\ \A isDir \in BOOLEAN :
            /\ VerifyDataDescendantAcl(ChildAcl(DataRootAcl, isDir), isDir)
            /\ VerifyDataDescendantAcl(ChildAcl(ChildAcl(DataRootAcl, TRUE), isDir), isDir)
            /\ VerifyControlAcl(ApplyUserOnlyAcl(DirFlags(isDir)), isDir)
            /\ ~VerifyControlAcl(ChildAcl(ApplyUserOnlyAcl(Inherit), isDir), isDir)
            /\ ~VerifyControlAcl(ChildAcl(DataRootAcl, isDir), isDir)
            /\ ~VerifyDataDescendantAcl(ApplyUserOnlyAcl(DirFlags(isDir)), isDir)

ASSUME \A prot \in BOOLEAN, sids \in SUBSET (Sids \cup {"everyone"}), f \in SUBSET Inherit :
  VerifyDataRootAcl(Granting(sids, f, prot)) <=> prot /\ sids = Sids /\ f = Inherit

ASSUME /\ InspectVolume([drive |-> "fixed", filesystem |-> <<"n", "T", "f", "S">>, acls |-> TRUE])
       /\ ~InspectVolume([drive |-> "remote", filesystem |-> <<"N", "T", "F", "S">>, acls |-> TRUE])

ASSUME /\ ValidateInstallId(<<"0", "f">>, 2)
       /\ ~ValidateInstallId(<<"0", "F">>, 2) /\ ~ValidateInstallId(<<"0">>, 2)

-----------------------------------------------------------------------------
(* The checks of whole files, directories and roots.                        *)

Bodies == UNION {[1..n -> {0, 1}] : n \in 0..3}
Dir(acl) == Node(1, "dir", acl)
File(acl) == Node(2, "file", acl)
LockNode == [id |-> 9, kind |-> "file", reparse |-> FALSE, acl |-> ExactFile, bytes |-> <<>>]

\* A file that grows or shrinks between the question for its length and the
\* read is never taken for what was asked, at or beyond the limit too.
ASSUME \A stat \in 0..4, body \in Bodies :
  /\ ReadBoundedFile(stat, body, 2) => Len(body) = stat /\ Len(body) \in 1..2
  /\ ReadControlFile(stat, body, 2, File(ExactFile)) <=> Len(body) = stat /\ stat <= 2
  /\ ~ReadControlFile(stat, body, 2, File(ChildAcl(ExactDir, FALSE)))
  /\ \A expected \in Bodies :
       VerifyControlFileDigest(stat, body, expected, 2) =>
         body = expected /\ CopyReaderVerified(body, body, expected, File(ExactFile))
  /\ ReadExactControlHandle(stat, body) <=> Len(body) = stat

\* The data root a first start makes is the one every later start accepts, and
\* a control root another user could read is never adopted once it has content.
ASSUME LET volume == [drive |-> "fixed", filesystem |-> <<"N", "T", "F", "S">>, acls |-> TRUE]
           inherited == Dir(ChildAcl(ExactDir, TRUE))
           Opened(root, isEmpty) == OpenOrCreateControlRoot(root, isEmpty, inherited, None, Absent)
       IN /\ ValidateDataRoot(<<>>, Dir(DataRootAcl), volume, Absent)
          /\ ~ValidateDataRoot(<<>>, Dir(ExactDir), volume, Absent)
          /\ ~ValidateDataRoot(<<[reparse |-> TRUE]>>, Dir(DataRootAcl), volume, Absent)
          /\ \A root \in {Absent, inherited, Dir(ExactDir)}, isEmpty \in BOOLEAN :
               IF root = inherited /\ ~isEmpty THEN Opened(root, isEmpty) = Absent
               ELSE ValidateControlRoot(<<>>, Opened(root, isEmpty), volume, Absent)

ASSUME LET folder == Dir(ChildAcl(DataRootAcl, TRUE)) document == DataFile(4) IN
  /\ ValidatePathSecurity(<<folder, document>>, Absent) /\ ValidatePathSecurity(<<folder, Absent>>, Absent)
  /\ ~ValidatePathSecurity(<<document, Absent>>, Absent)
  /\ ~ValidatePathSecurity(<<folder, File(ExactFile)>>, Absent)
  /\ RemoveRegularFile(Absent, Absent) = "absent" /\ RemoveRegularFile(folder, Absent) = "refused"
  /\ ~MoveFile(document, document, FALSE, TRUE, Absent) /\ MoveFile(document, Absent, FALSE, TRUE, Absent)

ASSUME LET f(id, n) == [DataFile(id) EXCEPT !.id = id] @@ [allocated |-> n] IN
  /\ AllocatedTreeBytes({f(1, 3), f(2, 3)}, 3, None) = 6
  /\ AllocatedTreeBytes({f(1, 4), f(2, 4)}, 3, None) = None
  /\ CreateFlushedZeroFile(f(1, 3) @@ [sparse |-> FALSE, compressed |-> FALSE], 3)
  /\ ~CreateFlushedZeroFile(f(1, 2) @@ [sparse |-> FALSE, compressed |-> FALSE], 3)
  /\ SyncDirectory("access_denied") = "unsupported" /\ SyncDirectory("disk_full") = "failed"

\* What a finished purge leaves is clean; one record, stage or installation
\* more is not, nor is another file in the place of the held lock.
ASSUME LET root == [n \in {"slots", "installs"} |-> Dir(ExactDir)]
           empty == [n \in {} |-> LockNode]
           Content(stable, installs) ==
             [slots |-> [n \in {"stable"} |-> Dir(ExactDir)], stable |-> stable, installs |-> installs]
           locked == [n \in {"install.lock"} |-> LockNode]
           Clean(stable, installs) ==
             VerifyCleanAbsence(root, Content(stable, installs), LockNode, <<4, 4, 8>>)
       IN /\ Clean(locked, empty)
          /\ ~Clean(locked, locked)
          /\ ~Clean(empty, empty)
          /\ ~Clean([n \in {"install.lock", "install.json"} |-> LockNode], empty)
          /\ ~Clean([n \in {"install.lock"} |-> [LockNode EXCEPT !.id = 8]], empty)

ASSUME LET image == <<Dir(ExactDir), File(ExactFile)>> IN
  /\ ExecutableOutside(image, <<<<"x">>, <<"d">>>>, <<<<"X">>, <<"c">>>>, Absent)
  /\ ~ExecutableOutside(image, <<<<"x">>, <<"C">>>>, <<<<"X">>, <<"c">>>>, Absent)

-----------------------------------------------------------------------------
(* The arithmetic and the migration rules of the store.                     *)

\* A store that may not write may never be one that has room for its reserve
\* and for the declared bytes, and a recovery needs more room than that.
ASSUME \A quota \in {80, 100}, res \in 8..10, used \in 0..100, free \in {0, 7, 8, 16, 20, 40}, n \in {0, 1, 40} :
  /\ EnsureCapacity(used, free, quota, res, n) => used + n + res <= quota /\ free >= res + n
  /\ RecoveryCapacity(used, free, quota, res) => EnsureCapacity(used, free, quota, res, 0)

ASSUME \A quota \in 0..700, res \in 0..70 :
  QuotaValid(quota, res, 1) => quota - res >= 9 * res

\* Every version up to the binary's migrates to exactly the binary's schema.
ASSUME \A v \in 0 .. Schema + 1 :
  (Migrate(v, "i", "i", 0, 1 .. v) = "migrated") = (v <= Schema)

ASSUME /\ Migrate(1, "i", "j", 0, {1}) = "foreign"
       /\ Schema > 1 => Migrate(2, "i", "i", 0, {1}) = "mismatch"

ASSUME LET good == [k \in 1 .. Schema |-> k]
       IN /\ ChecksumsVerify(Schema, good, good)
          /\ ~ChecksumsVerify(Schema, [good EXCEPT ![1] = 0], good)
          /\ ~ChecksumsVerify(Schema - 1, [k \in 1 .. Schema - 1 |-> k], good)

ASSUME /\ EnsureEmptyConfig({}, TRUE) = "installed"
       /\ EnsureEmptyConfig({[version |-> 1, exact |-> FALSE]}, TRUE) = "quarantined"
       /\ \A e \in {"NORMAL", "EMERGENCY"}, w \in BOOLEAN : MutationAllowed(e, w, TRUE)
       /\ ~MutationAllowed("EMERGENCY", FALSE, FALSE) /\ ~MutationAllowed("NORMAL", TRUE, FALSE)

-----------------------------------------------------------------------------
(* Git's answers, on every short one.                                       *)

Chunks == UNION {[1..n -> 1..3] : n \in 0..3}
Total(s) == FoldLeft(LAMBDA a, b : a + b, 0, s)

\* What is kept never passes the cap, and the flag is set exactly when
\* something was dropped.
ASSUME \A s \in Chunks, cap \in 0..5 :
  /\ Capture(s, cap).kept = (IF Total(s) < cap THEN Total(s) ELSE cap)
  /\ Capture(s, cap).truncated = (Total(s) > cap)

Token(x, y, n) == [length |-> n, x |-> x, y |-> y, space |-> TRUE, utf8 |-> TRUE]
StatusTokens == {Token("M", " ", 4), Token("R", " ", 5), Token("?", "?", 4), Token("U", "U", 4),
           Token(" ", "D", 4), Token("x", " ", 4), Token(" ", " ", 0)}
Outputs == UNION {[1..n -> StatusTokens] : n \in 0..3}

\* A workspace is found clean exactly when Git printed nothing but separators,
\* and no accepted entry escapes the summary.
ASSUME \A s \in Outputs :
  LET parsed == ParsePorcelain(s)
      sum == DirtySummary(parsed.entries)
  IN /\ (CleanStatus([exit |-> 0, truncated |-> FALSE, tokens |-> s]) = "clean")
          = (\A i \in DOMAIN s : s[i].length = 0)
     /\ ~parsed.failed /\ parsed.entries # <<>> => Describe(sum) # <<>>
     /\ sum.staged + sum.conflicted <= sum.total /\ sum.untracked + sum.staged <= sum.total

Object(n) == [length |-> n, hex |-> TRUE]
Reference == [empty |-> FALSE, dash |-> FALSE, exit |-> 0, truncated |-> FALSE, oid |-> Object(40)]
Checkout == [exists |-> TRUE, commonDir |-> TRUE, bare |-> FALSE, topLevel |-> TRUE, markers |-> {},
             head |-> TRUE, base |-> Reference,
             status |-> [exit |-> 0, truncated |-> FALSE, tokens |-> <<>>]]
Markers == {"MERGE_HEAD", "rebase-merge", "rebase-apply", "sequencer", "CHERRY_PICK_HEAD", "REVERT_HEAD"}

\* Admission refuses whatever marker is present except a lone cherry-pick or
\* revert head, which the code reads only below the sequencer directory.
ASSUME \A ms \in SUBSET Markers :
  (AdmitRepository([Checkout EXCEPT !.markers = ms]) = "admitted")
    = (ms \subseteq {"CHERRY_PICK_HEAD", "REVERT_HEAD"})

\* What admission accepted passes re-verification while nothing changes; what
\* re-verification refuses admission refuses too.
ASSUME \A head, exists \in BOOLEAN, e \in {0, 1, 128} :
  LET r == [Checkout EXCEPT !.head = head, !.exists = exists, !.base.exit = e]
  IN AdmitRepository(r) = "admitted" => ReverifyAdmission(r, exists, e = 0) = "admitted"

ASSUME /\ ~ValidOid(Object(39)) /\ ValidOid(Object(64)) /\ ~ValidOid(Object(65))
       /\ ResolveBase([Reference EXCEPT !.dash = TRUE]) = "InvalidBaseReference"
       /\ ResolveBase([Reference EXCEPT !.oid = Object(7)]) = "ProtocolViolation"
       /\ ~JoinVerified([absolute |-> FALSE, parts |-> <<"a", "..", "b">>])

Hatch == [mode |-> "current_directory", profile |-> "CURRENT_DIRECTORY", allowed |-> TRUE,
          approval |-> "APPROVE", path |-> <<"directory", "directory">>]

\* The current directory is used only on an explicit request, setting and
\* approval, through directories alone, and is never claimed isolated.
ASSUME \A m \in {"current_directory", "worktree"}, on \in BOOLEAN, a \in {"APPROVE", "DENY", "none"},
          p \in [1..2 -> {"directory", "reparse", "file"}] :
  LET request == [Hatch EXCEPT !.mode = m, !.allowed = on, !.approval = a, !.path = p]
  IN (AdmitCurrentDirectory(request) = "BEST_EFFORT")
       = (m = Hatch.mode /\ on /\ a = "APPROVE" /\ p = Hatch.path)

ASSUME ListContains({1, 2}, {2}, 2) /\ ~ListContains({1, 2}, {2}, 1)

Tree == [tab |-> TRUE, utf8 |-> TRUE, fields |-> 3, octal6 |-> TRUE, type |-> "blob", oid |-> Object(40)]
Owned == [owned |-> TRUE, removed |-> FALSE, directory |-> TRUE, marker |-> TRUE, head |-> Object(40),
          tree |-> Object(40), truncated |-> {}, entries |-> {Tree}, tokens |-> <<Token("M", " ", 4)>>,
          untracked |-> {[absolute |-> FALSE, parts |-> <<"a">>]}]

ASSUME /\ CaptureEvidence(Owned) = "captured"
       /\ CaptureEvidence([Owned EXCEPT !.entries = {[Tree EXCEPT !.type = "tag"]}]) = "ProtocolViolation"
       /\ CaptureEvidence([Owned EXCEPT !.truncated = {"diff"}]) = "OutputTruncated"
       /\ CaptureEvidence([Owned EXCEPT !.tokens = <<Token("R", " ", 5)>>]) = "ProtocolViolation"
       /\ CaptureEvidence([Owned EXCEPT !.marker = FALSE]) = "ExternalModification"

-----------------------------------------------------------------------------
(* The rules of the dashboard, over bounded inputs.                         *)

Raw ==
    [global : {0, 1, 16, 17}, review : {"luna", "kimi", "other"},
     effort : [default : {"missing", "low", "other"},
               allowed : {<<>>, <<"low">>, <<"other">>, <<"high", "other", "high">>}],
     grok : {<<>>, <<"acp">>, <<"other">>, <<"acp", "acp", "stream_json">>}]

\* Whatever is typed into the form, what is sent passes the wire schema and is
\* a fixed point of the normalisation.
ASSUME FormIsSchemaValid ==
    \A raw \in Raw :
      LET s == NormalizeSettings(raw)
      IN  ValidSettings(s) /\ NormalizeSettings(s) = s

\* The output pane never exceeds its bound and says so exactly when it cut.
ASSUME OutputIsBounded ==
    \A parts \in UNION {[1..n -> 0..3] : n \in 0..3}, maximum \in 1..5 :
      LET o == EventOutput(parts, maximum)
          sum(s) == FoldSeq(+, 0, s)
      IN  /\ sum(o.shown) <= maximum
          /\ o.truncated = (o.shown # parts)
          /\ o.truncated => sum(o.shown) = maximum

ASSUME HintsAreDistinct ==
    LET hints == ArtifactHints(<<<<"a", "b">>, <<"a">>, <<"c", "d">>>>, 3)
    IN  hints = <<"a", "b", "c">>

ASSUME RoutesAreStable ==
    \A parts \in UNION {[1..n -> {"tasks", "settings", "x", "t1"}] : n \in 0..3} :
      ParseRoute(ParseRoute(parts, {"t1"}), {"t1"}) = ParseRoute(parts, {"t1"})

Authority == [host : {"localhost", "127.0.0.1", "other"}, port : {"missing", "80", "8080"}]

Origins == {{}} \cup {{[scheme |-> s, host |-> a.host, port |-> a.port]} :
                      s \in {"http", "https"}, a \in Authority}

\* Only a settings write may have a body, only a bounded one, and a request
\* with an origin comes from the page's own host and port.
ASSUME GuardAdmitsOnlyTheOwnPage ==
    \A host \in Authority, origin \in Origins, path \in {"settings", "tasks"},
       verb \in {"GET", "PUT"}, chunked \in BOOLEAN, 
       lengths \in {<<>>, <<{0}>>, <<{5}>>, <<{9}>>, <<{}>>, <<{5}, {5}>>} :
      LET r == [host |-> host, origin |-> origin, route |-> path, method |-> verb,
                chunked |-> chunked, lengths |-> lengths]
      IN  SecurityGuard(r, 5) = "next" =>
            /\ host.host # "other"
            /\ lengths \in {<<>>, <<{0}>>} \/ (lengths = <<{5}>> /\ path = "settings" /\ verb = "PUT")
            /\ \A o \in origin : o.scheme = "http" /\ o.host = host.host /\
                 (o.port = host.port \/ {o.port, host.port} = {"missing", "80"})

ASSUME CursorComesFromOnePlace ==
    /\ EventStreamCursor({}, {}, 1, 2) = 0
    /\ EventStreamCursor({3}, {}, 1, 2) = 3 /\ EventStreamCursor({}, {4}, 1, 2) = 4
    /\ EventStreamCursor({3}, {4}, 1, 2) = "cursor_mismatch"
    /\ EventStreamCursor({3}, {3}, 3, 2) = "invalid_event_query"
    /\ StaticAsset("index.html") /\ ~StaticAsset("../config.toml")

Paths(adapters) == [adapters -> {NoPath, "p"}]

\* A document of the three schema-required adapters survives the file, and an
\* exported one names no path of this machine.
ASSUME RequiredPathsSurviveTheFile ==
    \A paths \in Paths({"claude", "grok", "kimi"}) \cup Paths(Adapters) :
      /\ "pi" \notin DOMAIN paths => ParseToml(RenderToml(paths)) = paths
      /\ "pi" \in DOMAIN paths => (ParseToml(RenderToml(paths)) = paths) = (paths["pi"] # NoPath)
      /\ \A a \in DOMAIN paths : PortableExport(paths)[a] = NoPath

ASSUME ChangesAreClassified ==
    LET c == ClassifyChanges([concurrency |-> 1, effort |-> 1, quality |-> 1],
                             [concurrency |-> 2, effort |-> 1, retention |-> 1])
    IN  c.restart_required = {"concurrency"} /\ c.hot_reload = {"quality", "retention"}
=============================================================================
