--------------------------- MODULE MCPowerSeqIdle ---------------------------
(* Instances of PowerSeqIdle and PowerSeqWake for TLC. *)
EXTENDS PowerSeqWake, PowerSeqConfigs
=============================================================================
