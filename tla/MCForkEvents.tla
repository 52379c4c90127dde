---------------------------- MODULE MCForkEvents ----------------------------
(* Two kinds of events, so that one can overwrite its predecessor in the       *)
(* bundle while the other stays visible.                                       *)
EXTENDS ForkEvents
CONSTANTS onair, ended
MCKinds == {onair, ended}
=============================================================================
