--------------------------- MODULE MCPowerSeqSequences ---------------------------
(* Instances of PowerSeqSequences, and of the phase on disk, for TLC. *)
EXTENDS PowerSeqSequences, PowerSeqCycle, PowerSeqConfigs
=============================================================================
