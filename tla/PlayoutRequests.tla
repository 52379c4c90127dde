--------------------------- MODULE PlayoutRequests ---------------------------
(***************************************************************************)
(* The registrations the frontend sends to the Rust playback state: what   *)
(* each caller of caspar_register_playback computes from a rundown row.    *)
(*                                                                         *)
(* An item is a record                                                     *)
(*   [id, file, length, known, trimIn, trimOut]                            *)
(* where length is the real length of the file, known says whether the     *)
(* rundown has resolved it (duration_ms > 0) and trimOut = 0 is the        *)
(* sentinel "to the end of the file".                                      *)
(***************************************************************************)
EXTENDS Naturals

CONSTANTS NoTrim,   \* trimOutMs left undefined
          NoPath    \* an empty or absent path

\* hydrateItem: a resolved duration replaces the sentinel and a degenerate OUT.
HydratedOut(item) ==
  IF ~item.known THEN item.trimOut
  ELSE IF item.trimOut = 0 \/ item.trimOut > item.length \/ item.trimOut <= item.trimIn
       THEN item.length
       ELSE item.trimOut

\* frame_trim_for_file, at tick precision: the window that will be played.
FrameTrimOut(item) ==
  LET out == HydratedOut(item)
  IN  IF out = 0 \/ out > item.length THEN item.length ELSE out
ValidTrim(item) == item.trimIn < FrameTrimOut(item)
ContentDuration(item) == FrameTrimOut(item) - item.trimIn

\* dispatchPlay: a manual take, an automatic hard PLAY or a resume at seek.
TakeRequest(item, next, seek, gen) ==
  LET dur == ContentDuration(item) - seek
  IN  [uuid |-> item.id, gen |-> gen, file |-> item.file, next |-> next, dur |-> dur,
       trimIn |-> item.trimIn + seek,
       trimOut |-> IF HydratedOut(item) # 0 THEN HydratedOut(item) ELSE dur,
       adopted |-> FALSE, elapsed |-> 0]

\* advanceToNext: the preloaded clip took over by itself.
NaturalTransitionRequest(item, next, gen) ==
  [uuid |-> item.id, gen |-> gen, file |-> item.file, next |-> next,
   dur |-> ContentDuration(item), trimIn |-> item.trimIn, trimOut |-> NoTrim,
   adopted |-> FALSE, elapsed |-> 0]

\* playItemAt, live branch: no media path; duration 0 runs until taken off.
LiveRequest(uuid, dur, gen) ==
  [uuid |-> uuid, gen |-> gen, file |-> NoPath, next |-> NoPath, dur |-> dur,
   trimIn |-> 0, trimOut |-> NoTrim, adopted |-> FALSE, elapsed |-> 0]

\* synchronizeOnAirState: the clip found on air at a handshake.
AdoptionRequest(item, next, elapsed, gen) ==
  [uuid |-> item.id, gen |-> gen, file |-> item.file, next |-> next,
   dur |-> ContentDuration(item), trimIn |-> item.trimIn,
   trimOut |-> IF HydratedOut(item) # 0 THEN HydratedOut(item) ELSE item.length,
   adopted |-> TRUE, elapsed |-> elapsed]

\* onForkOnAir: the clock of a clip the fork engine reported on air.
ForkOnAirRequest(item, gen) ==
  [uuid |-> item.id, gen |-> gen, file |-> item.file, next |-> NoPath,
   dur |-> ContentDuration(item), trimIn |-> item.trimIn, trimOut |-> NoTrim,
   adopted |-> TRUE, elapsed |-> item.trimIn]
=============================================================================
