----------------------------- MODULE FileRules -----------------------------
(***************************************************************************)
(* The rules the native file boundary (mesh-win32/src/windows.rs) applies  *)
(* to names, attributes and security descriptors before it touches an     *)
(* object.  Every operator is a pure function of what Windows reports.     *)
(***************************************************************************)
EXTENDS Naturals, Sequences, FiniteSets, FiniteSetsExt

CONSTANT MaxUnits         \* MAX_NTFS_COMPONENT_UTF16_UNITS

ASSUME FileRulesAssumption == MaxUnits \in Nat \ {0}

-----------------------------------------------------------------------------
(* Names.  A component is a sequence of one-character units.               *)

\* The lower-case letters the reserved and expected names are spelled with.
Fold == [a |-> "A", c |-> "C", d |-> "D", f |-> "F", i |-> "I", k |-> "K", l |-> "L",
         m |-> "M", n |-> "N", o |-> "O", p |-> "P", r |-> "R", s |-> "S", t |-> "T",
         u |-> "U", x |-> "X"]

Upper(u) == IF u \in DOMAIN Fold THEN Fold[u] ELSE u

UpperAll(s) == [i \in 1..Len(s) |-> Upper(s[i])]

IsForbiddenUnit(u) == u \in {"control", "quote", "*", ":", "<", ">", "?", "|"}

\* What precedes the first dot, without its trailing spaces.
Stem(units) ==
  LET dots == {i \in 1..Len(units) : units[i] = "."}
      cut == IF dots = {} THEN Len(units) ELSE Min(dots) - 1
      solid == {i \in 1..cut : units[i] # " "}
  IN SubSeq(units, 1, IF solid = {} THEN 0 ELSE Max(solid))

IsReservedDevice(units) ==
  LET stem == UpperAll(Stem(units))
  IN \/ stem \in {<<"C","O","N">>, <<"P","R","N">>, <<"A","U","X">>, <<"N","U","L">>,
                  <<"C","L","O","C","K","$">>, <<"C","O","N","I","N","$">>,
                  <<"C","O","N","O","U","T","$">>}
     \/ /\ Len(stem) = 4
        /\ SubSeq(stem, 1, 3) \in {<<"C","O","M">>, <<"L","P","T">>}
        /\ stem[4] \in {"1","2","3","4","5","6","7","8","9","sup1","sup2","sup3"}

\* validate_relative_path: a path is its components, each with the kind the
\* standard library gives it.
ValidateRelativePath(path) ==
  /\ path # <<>>
  /\ \A i \in 1..Len(path) :
       LET units == path[i].units
       IN /\ path[i].kind = "normal"
          /\ Len(units) \in 1..MaxUnits
          /\ \A j \in 1..Len(units) : ~IsForbiddenUnit(units[j])
          /\ units[Len(units)] \notin {".", " "}
          /\ ~IsReservedDevice(units)

\* Ordinal comparison that ignores case.
SamePath(p, q) == Len(p) = Len(q) /\ \A i \in 1..Len(p) : UpperAll(p[i]) = UpperAll(q[i])

PathIsSameOrDescendant(p, root) == \E n \in 0..Len(p) : SamePath(SubSeq(p, 1, n), root)

\* An installation identity: 32 lower-case hexadecimal digits (here n of them).
ValidateInstallId(id, n) ==
  /\ Len(id) = n
  /\ \A i \in 1..n : id[i] \in {"0","1","2","3","4","5","6","7","8","9","a","b","c","d","e","f"}

-----------------------------------------------------------------------------
(* Attributes of an existing object: its kind and whether it is a reparse   *)
(* point.                                                                   *)

VerifyRegularAttributes(a) == ~a.reparse /\ a.kind = "file"

VerifyDirectoryAttributes(a) == ~a.reparse /\ a.kind = "dir"

\* at[n] is what the n-th component of a supplied path names, or Missing.
ValidateExistingComponents(at, Missing) ==
  \A n \in DOMAIN at : at[n] = Missing \/ ~at[n].reparse

\* The fixed NTFS volume with persistent ACLs the roots must live on.
InspectVolume(v) == v.drive = "fixed" /\ UpperAll(v.filesystem) = <<"N","T","F","S">> /\ v.acls

-----------------------------------------------------------------------------
(* Security descriptors.                                                    *)

Inherit == {"object", "container"}      \* OBJECT_INHERIT_ACE | CONTAINER_INHERIT_ACE

Sids == {"user", "system", "administrators"}

\* The descriptor with one full-access entry for each of sids.
Granting(sids, flags, prot) ==
  [owner |-> "user", protected |-> prot,
   aces |-> {[type |-> "allow", flags |-> flags, mask |-> "all", sid |-> s] : s \in sids}]

\* apply_user_only_acl
ApplyUserOnlyAcl(flags) == Granting({"user"}, flags, TRUE)

VerifyUserOnlyDescriptor(d, flags) ==
  /\ d.owner = "user"
  /\ d.protected
  /\ Cardinality(d.aces) = 1
  /\ \A ace \in d.aces :
       ace = [type |-> "allow", flags |-> flags, mask |-> "all", sid |-> "user"]

\* protect_data_root gives the empty data root this descriptor.
DataRootAcl == Granting(Sids, Inherit, TRUE)

VerifyDataDescriptor(d, prot, flags) ==
  /\ d.owner = "user"
  /\ d.protected = prot
  /\ Cardinality(d.aces) = 3
  /\ \A ace \in d.aces : ace.type = "allow" /\ ace.flags = flags /\ ace.mask = "all"
  /\ {ace.sid : ace \in d.aces} = Sids

VerifyDataRootAcl(d) == VerifyDataDescriptor(d, TRUE, Inherit)

DirFlags(isDir) == IF isDir THEN Inherit ELSE {}

VerifyDataDescendantAcl(d, isDir) ==
  VerifyDataDescriptor(d, FALSE, {"inherited"} \cup DirFlags(isDir))

VerifyControlAcl(d, isDir) == VerifyUserOnlyDescriptor(d, DirFlags(isDir))

\* What NTFS gives a new child of a directory: the parent's inheritable
\* entries, marked inherited, in an unprotected list.
ChildAcl(parent, isDir) ==
  [owner |-> "user", protected |-> FALSE,
   aces |-> {[ace EXCEPT !.flags = {"inherited"} \cup DirFlags(isDir)] :
             ace \in {a \in parent.aces : Inherit \subseteq a.flags}}]

\* protect_data_root, protect_control_root: an exact root is left alone, an
\* empty one is given the descriptor, anything else is refused.
ProtectRoot(d, isEmpty, exact, Refused) ==
  IF d = exact THEN d ELSE IF isEmpty THEN exact ELSE Refused

-----------------------------------------------------------------------------
(* The purge audit's contract for each object of an installation tree.      *)

ChildContract(parent, name) ==
  CASE parent = "tombstoneRoot" /\ UpperAll(name) = UpperAll(<<"d","a","t","a">>) -> "dataRoot"
    [] parent \in {"dataRoot", "dataDescendant"} -> "dataDescendant"
    [] OTHER -> "control"

MeetsContract(node, contract) ==
  LET isDir == node.kind = "dir"
  IN CASE contract = "dataRoot" -> isDir /\ VerifyDataRootAcl(node.acl)
       [] contract = "dataDescendant" -> VerifyDataDescendantAcl(node.acl, isDir)
       [] OTHER -> VerifyControlAcl(node.acl, isDir)

\* verify_purge_handle: the object is the one enumerated, no reparse point.
VerifyPurgeHandle(node, enumerated, contract) ==
  /\ ~node.reparse
  /\ node.kind = enumerated.kind
  /\ node.id = enumerated.id
  /\ MeetsContract(node, contract)

-----------------------------------------------------------------------------
(* What the boundary decides about a whole file, directory or root.  An     *)
(* object is a node [kind, reparse, acl, id]; Missing stands for no object. *)

(* Reads.  `stat' is the length asked first, `body' what the stream gives,  *)
(* at most one unit beyond the limit: the file may change in between.       *)

\* read_bounded_file: the protected key, never empty.
ReadBoundedFile(stat, body, max) == stat \in 1..max /\ Len(body) = stat

\* read_control_file_path: type and descriptor are verified again at the end.
ReadControlFile(stat, body, max, after) ==
  /\ stat <= max /\ Len(body) = stat
  /\ VerifyRegularAttributes(after) /\ VerifyControlAcl(after.acl, FALSE)

\* verify_control_file_digest: `body' is the whole stream, which stands for
\* its digest.
VerifyControlFileDigest(stat, body, expected, max) ==
  stat <= max /\ Len(body) <= max /\ Len(body) = stat /\ body = expected

\* read_exact_control_handle: exactly the stated length and then the end.
ReadExactControlHandle(stat, body) == Len(body) = stat

\* copy_reader_verified: the stream and, reopened, the file on disk.
CopyReaderVerified(stream, onDisk, expected, at) ==
  stream = expected /\ VerifyRegularAttributes(at) /\ onDisk = expected

\* create_flushed_zero_file: a reserve whose clusters really are allocated.
CreateFlushedZeroFile(f, length) ==
  /\ VerifyRegularAttributes(f) /\ ~f.sparse /\ ~f.compressed
  /\ length # 0 => f.allocated >= length

\* sync_directory: a host that cannot flush a directory is told apart from an
\* error of the flush.
SyncDirectory(os) ==
  IF os = "ok" THEN "synced"
  ELSE IF os \in {"access_denied", "invalid_handle", "invalid_function", "not_supported"}
       THEN "unsupported" ELSE "failed"

-----------------------------------------------------------------------------
(* Roots and paths below them.                                             *)

\* validate_data_root_phase1: the path as supplied, then the canonical one.
ValidateRootPhase1(supplied, root, volume, Missing) ==
  /\ ValidateExistingComponents(supplied, Missing)
  /\ root # Missing /\ VerifyDirectoryAttributes(root)
  /\ InspectVolume(volume)

ValidateDataRoot(supplied, root, volume, Missing) ==
  ValidateRootPhase1(supplied, root, volume, Missing) /\ VerifyDataRootAcl(root.acl)

ValidateControlRoot(supplied, root, volume, Missing) ==
  ValidateRootPhase1(supplied, root, volume, Missing) /\ VerifyControlAcl(root.acl, TRUE)

\* open_or_create_product_control_root_in: the fixed child of LocalAppData is
\* created when missing, protected when empty and verified in any case.
OpenOrCreateControlRoot(root, isEmpty, fresh, Refused, Missing) ==
  LET found == IF root = Missing THEN fresh ELSE root
      acl == ProtectRoot(found.acl, isEmpty \/ root = Missing, ApplyUserOnlyAcl(Inherit), Refused)
  IN IF VerifyDirectoryAttributes(found) /\ acl # Refused THEN [found EXCEPT !.acl = acl]
     ELSE Missing

\* validate_relative_path_security: at[n] is the n-th component; everything up
\* to the first missing one is exact, and only the last may be a file.
ValidatePathSecurity(at, Missing) ==
  \A n \in DOMAIN at :
    (\A m \in 1..n : at[m] # Missing) =>
      /\ ~at[n].reparse
      /\ at[n].kind = "dir" \/ n = Len(at)
      /\ VerifyDataDescendantAcl(at[n].acl, at[n].kind = "dir")

\* move_file: on one volume, from a regular file, over nothing or, when it may
\* replace, over whatever is there.
MoveFile(staged, final, replace, sameVolume, Missing) ==
  staged # Missing /\ VerifyRegularAttributes(staged) /\ sameVolume /\ (final = Missing \/ replace)

\* remove_regular_file: "absent" is an answer, not an error.
RemoveRegularFile(node, Missing) ==
  IF node = Missing THEN "absent"
  ELSE IF VerifyRegularAttributes(node) THEN "removed" ELSE "refused"

\* allocated_tree_bytes: every entry once, the sum within the integer width.
AllocatedTreeBytes(nodes, width, Refused) ==
  LET files == {n \in nodes : n.kind = "file"}
      total == FoldSet(LAMBDA n, sum : sum + n.allocated, 0, files)
  IN IF /\ \A n \in nodes : ~n.reparse /\ VerifyDataDescendantAcl(n.acl, n.kind = "dir")
        /\ total < 2^width
     THEN total ELSE Refused

\* validate_current_executable_outside_control_root
ExecutableOutside(at, path, root, Missing) ==
  /\ ValidateExistingComponents(at, Missing)
  /\ VerifyRegularAttributes(at[Len(at)])
  /\ ~PathIsSameOrDescendant(path, root)

-----------------------------------------------------------------------------
(* The stable slot while install.lock is held.  A directory is a function   *)
(* from names to nodes; a file's node also has its bytes.                   *)

\* enumerate_stable_control_directory: the entry called install.lock is the
\* very file the caller holds, empty and exact; every other entry is read
\* through its own handle, within the limits.
EnumerateStable(dir, held, maxEntries, maxFile, maxTotal) ==
  LET others == DOMAIN dir \ {"install.lock"}
      plain == {n \in others : VerifyRegularAttributes(dir[n])}
      total == FoldSet(LAMBDA n, sum : sum + Len(dir[n].bytes), 0, plain)
  IN /\ VerifyRegularAttributes(held) /\ held.bytes = <<>> /\ VerifyControlAcl(held.acl, FALSE)
     /\ "install.lock" \in DOMAIN dir /\ dir["install.lock"].id = held.id
     /\ VerifyRegularAttributes(dir["install.lock"])
     /\ Cardinality(DOMAIN dir) <= maxEntries
     /\ \A n \in others : VerifyControlAcl(dir[n].acl, dir[n].kind = "dir")
     /\ \A n \in plain : Len(dir[n].bytes) <= maxFile
     /\ total <= maxTotal

\* verify_slots_structure
VerifySlots(slots) ==
  /\ DOMAIN slots = {"stable"}
  /\ VerifyDirectoryAttributes(slots["stable"]) /\ VerifyControlAcl(slots["stable"].acl, TRUE)

\* verify_empty_control_directory
VerifyEmptyControl(node, content) ==
  VerifyControlAcl(node.acl, TRUE) /\ DOMAIN content = {}

\* verify_clean_install_purge_absence: what a finished purge leaves, and
\* nothing else: slots/stable/install.lock and two empty directories.
VerifyCleanAbsence(root, content, held, limits) ==
  /\ DOMAIN root \subseteq {"slots", "installs", "purge"} /\ "slots" \in DOMAIN root
  /\ \A n \in DOMAIN root :
       VerifyDirectoryAttributes(root[n]) /\ VerifyControlAcl(root[n].acl, TRUE)
  /\ VerifySlots(content["slots"])
  /\ EnumerateStable(content["stable"], held, limits[1], limits[2], limits[3])
  /\ DOMAIN content["stable"] = {"install.lock"}
  /\ \A n \in DOMAIN root \ {"slots"} : VerifyEmptyControl(root[n], content[n])
=============================================================================
