------------------------------- MODULE Services -------------------------------
(* The components around playout, which share no state with each other: a      *)
(* behaviour is one of the chosen part, and the other parts stand still.       *)
EXTENDS ClipAliases, Integers, Sequences, FiniteSets

CONSTANTS
  Files, Contents, Trims, SidecarTrims, Stored, Jobs, MaxJobs, MaxCopies,
  MaxSidecars, MaxFaults,                                                      \* MediaStore
  Clips, Requests, CACHE_ENTRIES, DISK_CACHE_ENTRIES, MaxExports, MaxCloses,   \* AudioPeaks
  Folders, Registry, Roots, Spelling, TranscoderRoots, Names, NonAscii, Extra,
  Drives, Holdings, LocalPaths, MaxChanges,                                    \* MediaPaths
  Durations, TrimIns, TrimOuts, Rates, Blocking,                               \* Readiness
  Ports, Calls, Taken                                                          \* OscListener

VARIABLES part,
  file, sidecar, index, lock, db, job, running, count,                   \* MediaStore
  version, request, active, cancel, memory, disk, panel, closes,         \* AudioPeaks
  where, holds, marked, target, local, mediaPath, known, advertised,     \* MediaPaths
  status, answer, changes,
  row, shown,                                                            \* Readiness
  call, record, stopping, listening, watching, everFed                   \* OscListener

storeVars == <<file, sidecar, index, lock, db, job, running, count>>
peaksVars == <<version, request, active, cancel, memory, disk, panel, closes>>
pathVars == <<where, holds, marked, target, local, mediaPath, known, advertised, status,
              answer, changes>>
readinessVars == <<row, shown>>
oscVars == <<call, record, stopping, listening, watching, everFed>>
serviceVars == <<part, aliasVars, storeVars, peaksVars, pathVars, readinessVars, oscVars>>

Store == INSTANCE MediaStore WITH None <- Nobody
Peaks == INSTANCE AudioPeaks WITH None <- Nobody, MaxVersion <- MaxExports
Paths == INSTANCE MediaPaths WITH None <- Nobody
Ready == INSTANCE Readiness
Osc == INSTANCE OscListener

\* Calls of configure_caspar_osc_listener are numbered from 1; a request is not the mark
\* of no request.
ASSUME CallNumbers == Calls \subseteq Nat \ {0}
ASSUME RequestNames == Nobody \notin Requests
ASSUME TrimNumbers == TrimOuts \subseteq Int

\* The mark of nothing is no path, no content and no slot; a trim of 0 is none.
ASSUME StoreNames ==
  /\ IsFiniteSet(Files) /\ Nobody \notin Files /\ Nobody \notin Contents /\ Nobody \notin Jobs
  /\ Stored \in [Files -> Contents \cup {Nobody}]
  /\ Trims \subseteq Nat /\ SidecarTrims \subseteq Nat

\* A clip is named by its path below a root, which does not climb out of it; the
\* mark of no folder is none.
ASSUME PathNames ==
  /\ Registry \in Folders /\ Nobody \notin Folders
  /\ Names \subseteq Seq(STRING) \ {<<>>} /\ \A n \in Names : \A i \in DOMAIN n : n[i] # ".."
  /\ Roots \subseteq Seq(STRING) \ {<<>>} /\ TranscoderRoots \subseteq Seq(STRING) \ {<<>>}
\* No root of this PC lies in another one.
ASSUME RootsApart ==
  \A r, s \in Roots, n, m \in Names : r \o n = s \o m => r = s /\ n = m

-----------------------------------------------------------------------------
Off == {"off"}   \* every variable of a part that stands still, but the aliases'

PartsInit ==
  /\ Init
  /\ IF part = "store" THEN Store!Init
     ELSE /\ file \in Off /\ sidecar \in Off /\ index \in Off /\ lock \in Off
          /\ db \in Off /\ job \in Off /\ running \in Off /\ count \in Off
  /\ IF part = "peaks" THEN Peaks!Init
     ELSE /\ version \in Off /\ request \in Off /\ active \in Off /\ cancel \in Off
          /\ memory \in Off /\ disk \in Off /\ panel \in Off /\ closes \in Off
  /\ IF part = "paths" THEN Paths!Init
     ELSE /\ where \in Off /\ holds \in Off /\ marked \in Off /\ target \in Off
          /\ local \in Off /\ mediaPath \in Off /\ known \in Off /\ advertised \in Off
          /\ status \in Off /\ answer \in Off /\ changes \in Off
  /\ IF part = "readiness" THEN Ready!Init
     ELSE /\ row \in Off /\ shown \in Off
  /\ IF part = "osc" THEN Osc!Init
     ELSE /\ call \in Off /\ record \in Off /\ stopping \in Off /\ listening \in Off
          /\ watching \in Off /\ everFed \in Off

PartsNext ==
  \/ /\ part = "aliases" /\ Next
     /\ UNCHANGED <<part, storeVars, peaksVars, pathVars, readinessVars, oscVars>>
  \/ /\ part = "store" /\ Store!Next
     /\ UNCHANGED <<part, aliasVars, peaksVars, pathVars, readinessVars, oscVars>>
  \/ /\ part = "peaks" /\ Peaks!Next
     /\ UNCHANGED <<part, aliasVars, storeVars, pathVars, readinessVars, oscVars>>
  \/ /\ part = "paths" /\ Paths!Next
     /\ UNCHANGED <<part, aliasVars, storeVars, peaksVars, readinessVars, oscVars>>
  \/ /\ part = "readiness" /\ Ready!Next
     /\ UNCHANGED <<part, aliasVars, storeVars, peaksVars, pathVars, oscVars>>
  \/ /\ part = "osc" /\ Osc!Next
     /\ UNCHANGED <<part, aliasVars, storeVars, peaksVars, pathVars, readinessVars>>

PartsSpec ==
  /\ part \in {"aliases", "store", "peaks", "paths", "readiness", "osc"} /\ PartsInit
  /\ [][PartsNext]_serviceVars

-----------------------------------------------------------------------------
(* Each property is of the part that moves; GivenAliasIsTheClip is             *)
(* ClipAliases' own.                                                           *)

(* A row the cache vouches for, and a record of the index, tell of the file    *)
(* that is there and not of one it replaced (media_index.rs, scanner.rs, db.rs). *)
CacheTellsOfTheFile == part = "store" => Store!CacheTellsOfTheFile

(* No writer of the index undoes another's work: neither a save that read it   *)
(* before, nor a scan or a probe that found no trim (media_index.rs).          *)
NoLostUpdate == [][part = "store" => Store!Kept]_storeVars

(* What a cache answers is the envelope of the file as it is now, and only the *)
(* scan of the clip that the panel has open goes on (audio_peaks.rs).          *)
PeaksOfTheOpenClip ==
  part = "peaks" => Peaks!EnvelopeIsOfTheFile /\ Peaks!ScansTheOpenClip

(* With a verified root a take plays the registry's asset or is refused, never *)
(* another file of its name; and an asset is not ready in one view and refused *)
(* in the other (resolution and readiness, caspar.rs and ingestor_api.rs).     *)
ReadyAssetPlays ==
  /\ part = "paths" => Paths!VerifiedAssetPlays
  /\ part = "readiness" => Ready!ShownAlike

(* When no call is under way one listener, on the recorded port, and one       *)
(* watchdog feed the playback state (configure_caspar_osc_listener).           *)
OneFeed == part = "osc" => Osc!OneFeed
=============================================================================
