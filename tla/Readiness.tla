------------------------------- MODULE Readiness -------------------------------
(* Whether an asset may be played, as the library shows it (v2 rows) and as    *)
(* the rundown shows it (v1 single asset and batch), from ingestor_api.rs.     *)
(* One registry row is read by both; a path, a frame rate or a report is       *)
(* abstracted to what the predicate tells apart.                               *)
EXTENDS Integers, Sequences

CONSTANTS Durations, TrimIns, TrimOuts, Rates, Blocking

VARIABLES row,     \* the registry's row
          shown    \* what each view makes of it

readinessVars == <<row, shown>>

Statuses == {"ready", "completed", "processing", "missing", "error", "failed"}
Rows == [status : Statuses, mezzanineOk : BOOLEAN, path : {"file", "empty", "staging"},
         duration : Durations, trimIn : TrimIns, trimOut : TrimOuts,
         fps : Rates, blocking : Blocking]

\* evaluate_strict_readiness: the first requirement a row fails, "" when none.
Requirements(r) ==
  <<<<r.status \in {"ready", "completed"}, "status">>,
    <<r.mezzanineOk, "mezzanine">>,
    <<r.path # "empty", "path">>,
    <<r.path # "staging", "staging">>,
    <<r.duration > 0, "duration">>,
    <<r.trimIn >= 0 /\ r.trimOut > r.trimIn /\ r.trimOut <= r.duration, "trim">>,
    <<r.fps > 0, "fps">>,
    <<r.blocking = 0, "blocking">>>>

EvaluateStrictReadiness(r) ==
  LET failed == SelectSeq(Requirements(r), LAMBDA q : ~q[1]) IN
  IF failed = <<>> THEN "" ELSE failed[1][2]

Colour(r) ==
  IF r.status \in {"error", "failed"} \/ ~r.mezzanineOk \/ r.blocking > 0 THEN "error"
  ELSE IF r.status = "missing" THEN "missing"
  ELSE "processing"

\* map_v2_to_asset_response.
MapV2ToAssetResponse(r) ==
  LET reason == EvaluateStrictReadiness(r) IN
  [status |-> IF reason = "" THEN "ready" ELSE Colour(r), reason |-> reason]

\* apply_strict_readiness: a rate that is not asserted is not judged, and a trim
\* out of 0 means the end of the file.
Judged(r) ==
  LET rated == [r EXCEPT !.fps = IF @ > 0 THEN @ ELSE 1] IN
  [rated EXCEPT !.trimOut = IF @ <= 0 THEN r.duration ELSE @]

AppliedColour(r) ==
  IF r.status \in {"error", "failed"} \/ ~r.mezzanineOk \/ r.blocking > 0 THEN "error"
  ELSE IF r.status = "missing" THEN "missing"
  ELSE "processing"

ApplyStrictReadiness(r) ==
  LET reason == EvaluateStrictReadiness(Judged(r)) IN
  [status |-> IF reason = "" THEN "ready" ELSE AppliedColour(r), reason |-> reason]

Unseen == [status |-> "", reason |-> ""]

Init == row \in Rows /\ shown = [library |-> Unseen, rundown |-> Unseen]

Show ==
  /\ shown' = [library |-> MapV2ToAssetResponse(row), rundown |-> ApplyStrictReadiness(row)]
  /\ UNCHANGED row

Next == Show
Spec == Init /\ [][Next]_readinessVars

(* A row whose trim out and frame rate are asserted is shown alike, for the    *)
(* same reason, in the library and in the rundown: no asset is red in one and  *)
(* green in the other (audit F-3, TRIM-CONTRACT-AUDIT C-4).                    *)
ShownAlike ==
  row.trimOut > 0 /\ row.fps > 0 => shown.library = shown.rundown
=============================================================================
