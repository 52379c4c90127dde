----------------------------- MODULE MCIngestor -----------------------------
(* The ingestor client with two commands in two slots over a registry of     *)
(* three assets, a fault and a change of token or service.                   *)
EXTENDS Ingestor

=============================================================================
