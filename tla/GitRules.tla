------------------------------ MODULE GitRules ------------------------------
(***************************************************************************)
(* The decisions worktree.rs takes on what Git and the filesystem report:  *)
(* admission of a checkout, its re-verification, the current-directory     *)
(* hatch, the strict parsers of Git's machine output, and the evidence.    *)
(***************************************************************************)
EXTENDS Integers, Sequences, FiniteSets

\* capture: bytes past the cap are drained and dropped, and the flag stays set
\* after the first chunk that did not fit.
Capture(chunks, cap) ==
  LET read(acc, count) ==
        IF acc.truncated THEN acc
        ELSE LET space == IF acc.kept > cap THEN 0 ELSE cap - acc.kept
             IN [kept |-> acc.kept + (IF count < space THEN count ELSE space),
                 truncated |-> count > space]
      after[n \in 0..Len(chunks)] ==
        IF n = 0 THEN [kept |-> 0, truncated |-> FALSE] ELSE read(after[n - 1], chunks[n])
  IN after[Len(chunks)]

\* valid_oid.
ValidOid(oid) == oid.length \in 40 .. 64 /\ oid.hex

\* join_verified: a path Git reports stays below the root.
JoinVerified(path) ==
  ~path.absolute /\ \A i \in DOMAIN path.parts : path.parts[i] \notin {"..", "/", "prefix"}

-----------------------------------------------------------------------------
(* git status --porcelain=v1 -z                                             *)

PorcelainX == {" ", "M", "T", "A", "D", "R", "C", "U", "?", "!"}
PorcelainY == PorcelainX \ {"A"}

RenameLetter == {"R", "C"}

\* parse_porcelain_token: two status letters, a space, and a path.
ParseToken(token) ==
  IF token.length < 4 THEN "short"
  ELSE IF token.x \notin PorcelainX \/ token.y \notin PorcelainY THEN "code"
  ELSE IF ~token.space THEN "separator"
  ELSE IF ~token.utf8 THEN "path"
  ELSE IF token.x \in RenameLetter \/ token.y \in RenameLetter THEN "rename"
  ELSE "single"

\* parse_porcelain_z: tokens between NULs; a rename takes the next token, which
\* must not be empty, as its source.
ParsePorcelain(tokens) ==
  LET step(acc, token) ==
        IF acc.failed THEN acc
        ELSE IF acc.pending # <<>>
             THEN IF token.length = 0 \/ ~token.utf8 THEN [acc EXCEPT !.failed = TRUE]
                  ELSE [acc EXCEPT !.entries = Append(@, acc.pending[1]), !.pending = <<>>]
        ELSE IF token.length = 0 THEN acc
        ELSE CASE ParseToken(token) = "single" -> [acc EXCEPT !.entries = Append(@, token)]
               [] ParseToken(token) = "rename" -> [acc EXCEPT !.pending = <<token>>]
               [] OTHER -> [acc EXCEPT !.failed = TRUE]
      after[n \in 0..Len(tokens)] ==
        IF n = 0 THEN [entries |-> <<>>, pending |-> <<>>, failed |-> FALSE]
        ELSE step(after[n - 1], tokens[n])
      end == after[Len(tokens)]
  IN [end EXCEPT !.failed = @ \/ end.pending # <<>>]

\* DirtySummary::from_entries; a conflicted entry counts as nothing else.
DirtySummary(entries) ==
  LET count(P(_)) == Len(SelectSeq(entries, P))
      conflicted(e) == e.x = "U" \/ e.y = "U"
      staged(e) == ~conflicted(e) /\ e.x \in {"M", "T", "A", "D", "R", "C"}
      unstaged(e) == ~conflicted(e) /\ e.y \in {"M", "T", "D", "R", "C"}
      untracked(e) == ~conflicted(e) /\ e.x = "?"
  IN [total |-> Len(entries), conflicted |-> count(conflicted), staged |-> count(staged),
      unstaged |-> count(unstaged), untracked |-> count(untracked)]

\* DirtySummary::describe names each nonzero count, conflicts first.
Describe(summary) ==
  SelectSeq(<<"conflicted", "staged", "unstaged", "untracked">>, LAMBDA f : summary[f] > 0)

\* require_clean_status.
CleanStatus(run) ==
  IF run.exit # 0 THEN "git"
  ELSE IF run.truncated THEN "truncated"
  ELSE LET parsed == ParsePorcelain(run.tokens)
       IN IF parsed.failed THEN "protocol"
          ELSE IF parsed.entries # <<>> THEN "dirty" ELSE "clean"

\* parse_ls_tree_z: one entry is mode, type, object id, a tab and a path.
ParseTreeEntry(entry) ==
  /\ entry.tab /\ entry.utf8 /\ entry.fields = 3
  /\ entry.octal6
  /\ entry.type \in {"blob", "tree", "commit"}
  /\ ValidOid(entry.oid)

\* parse_worktree_list, worktree_list_contains: listed paths that still resolve
\* are compared in canonical form.
ListContains(listed, resolves, path) == \E p \in listed : p \in resolves /\ p = path

-----------------------------------------------------------------------------
(* Admission                                                                *)

\* detect_in_progress_operation: the first marker present.
OperationInProgress(markers) ==
  IF "MERGE_HEAD" \in markers THEN "merge"
  ELSE IF markers \cap {"rebase-merge", "rebase-apply"} # {} THEN "rebase"
  ELSE IF "sequencer" \notin markers THEN "none"
  ELSE IF "CHERRY_PICK_HEAD" \in markers THEN "cherry-pick"
  ELSE IF "REVERT_HEAD" \in markers THEN "revert"
  ELSE "sequencer"

\* resolve_base_oid.
ResolveBase(base) ==
  IF base.empty \/ base.dash THEN "InvalidBaseReference"
  ELSE IF base.exit = 128 THEN "MissingBaseCommit"
  ELSE IF base.exit # 0 THEN "GitCommandFailed"
  ELSE IF base.truncated THEN "OutputTruncated"
  ELSE IF ~ValidOid(base.oid) THEN "ProtocolViolation"
  ELSE "resolved"

\* admit_repository: the tests in the order of the code.
AdmitRepository(repo) ==
  IF ~repo.exists \/ ~repo.commonDir THEN "NotAGitRepository"
  ELSE IF repo.bare THEN "BareRepository"
  ELSE IF ~repo.topLevel THEN "NotAGitRepository"
  ELSE IF OperationInProgress(repo.markers) # "none" THEN "OperationInProgress"
  ELSE IF ~repo.head THEN "UnbornRepository"
  ELSE IF ResolveBase(repo.base) # "resolved" THEN ResolveBase(repo.base)
  ELSE IF CleanStatus(repo.status) # "clean" THEN "DirtyWorkspace"
  ELSE "admitted"

\* reverify_admission: identity, a head, the pinned object, cleanliness; an
\* operation in progress is not looked for again.
ReverifyAdmission(repo, sameCommonDir, hasBase) ==
  IF ~repo.exists \/ ~sameCommonDir THEN "RepositoryChanged"
  ELSE IF ~repo.head THEN "UnbornRepository"
  ELSE IF ~hasBase THEN "MissingBaseCommit"
  ELSE IF CleanStatus(repo.status) # "clean" THEN "DirtyWorkspace"
  ELSE "admitted"

\* validate_current_directory_path: no component may be a reparse point and
\* every one must be a directory, the first bad one deciding.
ValidatePath(components) ==
  LET bad == {i \in DOMAIN components : components[i] # "directory"}
  IN IF components = <<>> THEN "NotADirectory"
     ELSE IF bad = {} THEN "valid"
     ELSE IF components[CHOOSE i \in bad : \A j \in bad : i <= j] = "reparse" THEN "Reparse"
     ELSE "NotADirectory"

\* admit_current_directory_escape: the request says so, the setting allows it,
\* and the one approval is an approve; isolation is best effort at most.
AdmitCurrentDirectory(request) ==
  IF request.mode # "current_directory" \/ request.profile # "CURRENT_DIRECTORY"
  THEN "RequestMismatch"
  ELSE IF ~request.allowed THEN "Disabled"
  ELSE IF request.approval # "APPROVE" THEN "ApprovalRequired"
  ELSE IF ValidatePath(request.path) # "valid" THEN ValidatePath(request.path)
  ELSE "BEST_EFFORT"

\* capture_evidence on an owned worktree: each Git answer in turn.
CaptureEvidence(w) ==
  IF ~w.owned THEN "WorktreeNotOwned"
  ELSE IF w.removed THEN "WorktreeMissing"
  ELSE IF ~w.directory \/ ~w.marker THEN "ExternalModification"
  ELSE IF ~ValidOid(w.head) \/ ~ValidOid(w.tree) THEN "ProtocolViolation"
  ELSE IF w.truncated # {} THEN "OutputTruncated"
  ELSE IF \E e \in w.entries : ~ParseTreeEntry(e) THEN "ProtocolViolation"
  ELSE IF ParsePorcelain(w.tokens).failed THEN "ProtocolViolation"
  ELSE IF \E p \in w.untracked : ~JoinVerified(p) THEN "ProtocolViolation"
  ELSE "captured"

=============================================================================
