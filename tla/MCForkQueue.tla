---------------------------- MODULE MCForkQueue -----------------------------
(* A short rundown whose order, trims and readiness change while the engine *)
(* plays it.                                                                *)
EXTENDS ForkQueue

MCRows == <<"a", "b", "c">>
=============================================================================
