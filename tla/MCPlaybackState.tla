--------------------------- MODULE MCPlaybackState ---------------------------
(* Small instances of PlaybackState: two rows on two files. *)
EXTENDS PlaybackState

CONSTANTS a, b, f, g

R == INSTANCE PlayoutRequests WITH NoTrim <- NoValue, NoPath <- NoFile

MCUuids == {a, b}
MCFiles == {f, g}
MCPositions == {0, 2, 3, 6}

ItemA == [id |-> a, file |-> f, length |-> 3, known |-> TRUE, trimIn |-> 0, trimOut |-> 0]
ItemB == [id |-> b, file |-> g, length |-> 4, known |-> TRUE, trimIn |-> 2, trimOut |-> 3]
\* A second cut of the first file: same basename, another window.
SubclipA == [id |-> b, file |-> f, length |-> 6, known |-> TRUE, trimIn |-> 3, trimOut |-> 6]

\* Takes, a natural transition, an adoption and a live row of unknown length.
MCRequests ==
  {R!TakeRequest(ItemA, g, 0, 1), R!TakeRequest(ItemB, NoFile, 0, 2),
   R!NaturalTransitionRequest(ItemB, f, 1), R!TakeRequest(SubclipA, g, 0, 2),
   R!AdoptionRequest(SubclipA, g, 4, 1), R!LiveRequest(b, 0, 2)}

ASSUME CoherentInstance == CoherentRequests
=============================================================================
