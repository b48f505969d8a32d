--------------------------- MODULE MCPowerSeqLive ---------------------------
(* TLC instances of PowerSeqLive. *)
EXTENDS PowerSeqLive, PowerSeqConfigs
LiveLists == [IdleLists EXCEPT !.shutdown = <<Offline({"ant"}, 1)>>, !.idle_shutdown = <<>>]
=============================================================================
