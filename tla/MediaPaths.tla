------------------------------ MODULE MediaPaths ------------------------------
(* From the path of a rundown row to the file CasparCG opens: the media root   *)
(* PlayOut verifies against the transcoder's registry (media_root.rs,          *)
(* mediaRoot.ts), and the resolver every take, load and queue sync goes        *)
(* through (caspar.rs).                                                        *)
(*                                                                             *)
(* A path is a sequence of segments. A folder is a place on some disk; `where` *)
(* says which folder a root path leads to on this PC, `Spelling` the path that *)
(* canonicalize gives a folder, so that two roots may lead to one folder.      *)
(* Case, separators and prefixes are spelling and are left out.                *)
EXTENDS Naturals, Sequences, SequencesExt

CONSTANTS Folders,             \* places: the registry's and others
          Registry,            \* the folder the transcoder publishes to
          Roots,               \* root paths of this PC
          Spelling,            \* Spelling[f]: the true path of a folder
          TranscoderRoots,     \* target_folder as the transcoder may spell it
          Names,               \* relative paths of clips
          NonAscii,            \* segments CasparCG cannot be given
          Extra,               \* Extra[<<a, b>>]: what segment a has after its prefix b
          Drives,              \* first segments of absolute paths
          Holdings,            \* what the folders may hold
          LocalPaths,          \* paths of rows that are not registry assets
          None,
          MaxChanges           \* bound: changes of the settings

VARIABLES where,        \* where[r]: the folder root r leads to, None when unreachable
          holds,        \* holds[f]: the clips in folder f
          marked,       \* folders that carry a registry marker
          target,       \* target_folder of the transcoder
          local,        \* Local media path, <<>> when not set
          mediaPath,    \* <media-path> of the engine, <<>> when not read
          known,        \* mediaRootRegistryId: the folder whose marker was verified
          advertised,   \* mediaRootContext.advertisedRoot
          status,       \* MediaRootStatus of the settings as they are
          answer,       \* the last prepare_caspar_media_path since the status was read
          changes

pathVars == <<where, holds, marked, target, local, mediaPath, known, advertised, status,
              answer, changes>>
world == <<where, holds, marked, target>>

-----------------------------------------------------------------------------
(* Paths.                                                                      *)
Inside(path, root) == Len(path) > Len(root) /\ IsPrefix(root, path)
Below(path, root) == SubSeq(path, Len(root) + 1, Len(path))

StripRoot_AsText(path, root) ==
  IF root # <<>> /\ Len(path) >= Len(root) /\ IsPrefix(Front(root), path)
     /\ <<path[Len(root)], Last(root)>> \in DOMAIN Extra
  THEN <<Extra[<<path[Len(root)], Last(root)>>]>> \o Below(path, root)
  ELSE IF root # <<>> /\ Inside(path, root) THEN Below(path, root) ELSE <<>>

\* strip_root: whole segments, and nothing that climbs out again.
StripRoot(path, root) ==
  IF root # <<>> /\ Inside(path, root) /\ ".." \notin Range(Below(path, root))
  THEN Below(path, root) ELSE <<>>

\* try_string_strip_prefix: the prefix of the text, not of the segments, so that
\* a sibling folder whose name is longer is taken for the root.
TryStringStripPrefix(path, root) == StripRoot_AsText(path, root)

IsCasparSafePath(path) == Range(path) \cap NonAscii = {}

Leads(root) == IF root \in Roots THEN where[root] ELSE None

\* canonicalize, for a file and for a root that can be reached.
Present == {f \in Roots \X Names : where[f[1]] # None /\ f[2] \in holds[where[f[1]]]}
Exists(path) == \E f \in Present : f[1] \o f[2] = path
TrueRoot(root) == IF Leads(root) = None THEN root ELSE Spelling[Leads(root)]
Canonicalize(path) ==
  IF Exists(path)
  THEN LET f == CHOOSE f \in Present : f[1] \o f[2] = path IN Spelling[where[f[1]]] \o f[2]
  ELSE path

\* same_folder, which falls back to canonical paths.
SameFolder(a, b) ==
  /\ a # <<>> /\ b # <<>>
  /\ a = b \/ (Leads(a) # None /\ Leads(a) = Leads(b))

-----------------------------------------------------------------------------
(* The resolver. An answer names a clip below the engine's media path, or an   *)
(* alias of a file under the local root (ClipAliases).                         *)
Clip(path) == [kind |-> "clip", path |-> path]
Alias(path) == [kind |-> "alias", path |-> path]
Refusal == [kind |-> "error", path |-> <<>>]
SafeClip(path) == IF path # <<>> /\ IsCasparSafePath(path) THEN {Clip(path)} ELSE {}

\* Attempt 1: the file is below the media root.
UnderTheRoot(path, root) ==
  LET source == Canonicalize(path) IN
  IF root = <<>> \/ ~Inside(source, TrueRoot(root)) THEN {}
  ELSE LET r == Below(source, TrueRoot(root)) IN
       IF IsCasparSafePath(r) THEN {Clip(r)} ELSE IF Exists(path) THEN {Alias(source)} ELSE {}

\* Attempt 3: a file of that name in the media root or in one of its folders.
ByName(path, root) ==
  LET At(r) == SafeClip(StripRoot(Canonicalize(r), TrueRoot(root)))
      Here == root \o <<Last(path)>>
      There == {root \o n : n \in {m \in Names : Len(m) = 2 /\ Last(m) = Last(path)}}
  IN IF root = <<>> \/ Exists(path) THEN {}
     ELSE IF Exists(Here) /\ At(Here) # {} THEN At(Here)
     ELSE UNION {At(r) : r \in {r \in There : Exists(r)}}

\* Attempts 4 and 4b: a relative path as it is, or what follows "media".
AsWritten(path) ==
  LET source == Canonicalize(path)
      media == {i \in 2..Len(source) - 1 : source[i] = "media"}
  IN IF source[1] \notin Drives /\ IsCasparSafePath(source) THEN {Clip(source)}
     ELSE IF media = {} THEN {}
     ELSE SafeClip(SubSeq(source, (CHOOSE i \in media : \A j \in media : j <= i) + 1, Len(source)))

\* Attempt 5: an alias of a file that exists.
ByAlias(path, root) ==
  IF Exists(path) /\ root # <<>> THEN {Alias(Canonicalize(path))} ELSE {Refusal}

ResolveCasparMediaPath(path, root) ==
  LET attempts == <<UnderTheRoot(path, root),
                    IF root = <<>> THEN {} ELSE SafeClip(TryStringStripPrefix(path, TrueRoot(root))),
                    ByName(path, root), AsWritten(path), ByAlias(path, root)>>
      first == CHOOSE i \in 1..5 : attempts[i] # {} /\ \A j \in 1..i - 1 : attempts[j] = {}
  IN attempts[first]

RegistryRelativePath_OrGuess(path, root) ==
  LET r == StripRoot(path, advertised) IN
  IF root # <<>> /\ Exists(root \o r) THEN {Clip(r)} ELSE ResolveCasparMediaPath(path, root)

\* registry_relative_path: the part below the advertised root, which must be a
\* file below the local one; an alias when CasparCG cannot be given its name.
RegistryRelativePath(path, root) ==
  LET r == StripRoot(path, advertised) IN
  IF root = <<>> \/ ~Exists(root \o r) THEN {Refusal}
  ELSE IF IsCasparSafePath(r) THEN {Clip(r)} ELSE {Alias(Canonicalize(root \o r))}

ResolveWithAdvertisedRoot(path, root) ==
  IF StripRoot(path, advertised) # <<>>
  THEN RegistryRelativePath(path, root)
  ELSE ResolveCasparMediaPath(path, root)

\* What the engine opens for an answer: below its media path, or the alias,
\* which is there when it plays from the local root.
Plays(a) ==
  IF a.kind = "clip" /\ Leads(mediaPath) # None /\ a.path \in holds[Leads(mediaPath)]
    THEN Spelling[Leads(mediaPath)] \o a.path
  ELSE IF a.kind = "alias" /\ SameFolder(mediaPath, local) THEN a.path
  ELSE <<>>

-----------------------------------------------------------------------------
(* Verification. A marker and an advert are named by the folder whose registry *)
(* id, or data folder, they carry.                                             *)
Answers == {"v2", "diagnostics", "down"}

\* classify: against the advert, or, with the transcoder down, against the
\* registry id verified earlier.
Classify(reply, marker) ==
  LET judge == IF reply = "down" THEN known ELSE Registry IN
  IF marker = None THEN IF reply = "down" /\ known = None THEN "unknown" ELSE "missing"
  ELSE IF judge = None THEN "unknown"
  ELSE IF marker # judge THEN "mismatch"
  ELSE IF reply = "diagnostics" THEN "weak" ELSE "strong"

\* look_locally: the marker in the folder this PC sees.
LookLocally == IF Leads(local) \in marked THEN Leads(local) ELSE None

\* media_root_status: caspar_matches is "none" when the engine's path is unread.
MediaRootStatus(reply) ==
  [verified |-> Classify(reply, LookLocally),
   matches |-> IF mediaPath = <<>> THEN "none"
               ELSE IF Leads(local) # None /\ SameFolder(mediaPath, local) THEN "yes" ELSE "no"]

Unread == [verified |-> "unread", matches |-> "none"]
NoAnswer == [of |-> <<>>, got |-> Refusal]

\* refresh of mediaRoot.ts, with registryIdToRemember.
Refresh(reply) ==
  /\ status' = MediaRootStatus(reply)
  /\ advertised' = IF reply = "down" THEN advertised ELSE target
  /\ known' = CASE status'.verified \notin {"strong", "weak"} -> known
                [] reply = "v2" -> Registry
                [] OTHER -> LookLocally
  /\ answer' = NoAnswer
  /\ UNCHANGED <<world, local, mediaPath, changes>>

\* fixCasparMediaPath: offered for a verified root CasparCG does not play from.
FixCasparMediaPath ==
  /\ status.matches = "no" /\ status.verified \in {"strong", "weak"} /\ Leads(local) # None
  /\ mediaPath' = local /\ status' = Unread /\ answer' = NoAnswer
  /\ UNCHANGED <<world, local, known, advertised, changes>>

\* The operator sets another Local media path; the status is read again.
SetLocalMediaPath(root) ==
  /\ root # local /\ changes < MaxChanges
  /\ local' = root /\ status' = Unread /\ answer' = NoAnswer /\ changes' = changes + 1
  /\ UNCHANGED <<world, mediaPath, known, advertised>>

Assets == {target \o n : n \in Names}

PrepareCasparMediaPath(path) ==
  /\ \E a \in ResolveWithAdvertisedRoot(path, local) : answer' = [of |-> path, got |-> a]
  /\ UNCHANGED <<world, local, mediaPath, known, advertised, status, changes>>

\* A folder is reached under its true path or not at all; other roots are drives
\* mapped to it.
Init ==
  /\ where \in {w \in [Roots -> Folders \cup {None}] :
                  \A f \in Folders : w[Spelling[f]] \in {f, None}}
  /\ holds \in Holdings
  /\ marked \in {{Registry}, Folders}
  /\ target \in TranscoderRoots
  /\ local \in Roots \cup {<<>>} /\ mediaPath \in Roots \cup {<<>>}
  /\ known = None /\ advertised = <<>> /\ status = Unread /\ answer = NoAnswer
  /\ changes = 0

Next ==
  \/ \E reply \in Answers : Refresh(reply)
  \/ FixCasparMediaPath
  \/ \E root \in Roots : SetLocalMediaPath(root)
  \/ \E path \in Assets \cup LocalPaths : PrepareCasparMediaPath(path)

Spec == Init /\ [][Next]_pathVars

TypeOK ==
  /\ where \in [Roots -> Folders \cup {None}]
  /\ known \in Folders \cup {None}
  /\ status.verified \in {"unread", "strong", "weak", "mismatch", "missing", "unknown"}
  /\ answer.got.kind \in {"clip", "alias", "error"}

-----------------------------------------------------------------------------
Verified == status.verified \in {"strong", "weak"} /\ status.matches = "yes"
Asked(n) == answer.of = target \o n /\ advertised = target

(* With a verified media root the engine plays from, a take of a registry      *)
(* asset plays that asset or is refused because the asset is not there: never  *)
(* another file of the same name (registry_relative_path, AE-1).               *)
VerifiedAssetPlays ==
  \A n \in Names : Verified /\ Asked(n) =>
    IF n \in holds[Registry] THEN Plays(answer.got) = Spelling[Registry] \o n
                             ELSE answer.got = Refusal

=============================================================================
