----------------------------- MODULE MCTransport -----------------------------
(* A rundown of three rows, and the orders its edits leave behind: the         *)
(* successors swapped, the middle row deleted, the last row deleted, and the   *)
(* row on air moved behind the others.                                         *)
EXTENDS Transport
CONSTANTS r1, r2, r3
MCRows == {r1, r2, r3}
MCRundown == <<r1, r2, r3>>
MCEdits == {<<r1, r3, r2>>, <<r1, r3>>, <<r1, r2>>, <<r2, r3, r1>>}
=============================================================================
