--------------------------- MODULE MCPowerSeqStation ---------------------------
(* TLC instances of PowerSeqStation. *)
EXTENDS PowerSeqStation, PowerSeqConfigs
=============================================================================
