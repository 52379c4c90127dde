---------------------------- MODULE MCAmcpClient ----------------------------
(* Three commands: an acknowledged one, a query with a body, a malformed   *)
(* one that is echoed. One slot makes a caller wait for the channel.       *)
EXTENDS AmcpClient
CONSTANTS play, info, bad
MCKind == (play :> "ack") @@ (info :> "block") @@ (bad :> "echo")
=============================================================================
