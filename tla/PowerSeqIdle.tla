---------------------------- MODULE PowerSeqIdle ----------------------------
(***************************************************************************)
(* The idle logic of PowerSeq: standby, wake, idle shutdown and the hold of *)
(* the antenna mode, over time, restarts and reconnects.  The history      *)
(* variables remember when things really were so; they never guard or      *)
(* change a step.                                                          *)
(***************************************************************************)
EXTENDS PowerSeq

VARIABLES
    enteredAt,  \* when the station last got from another phase to running
    heldAt      \* when this process last knew of a power hold

Remember ==
    /\ enteredAt' = IF Up /\ phase # "running" /\ phase' = "running" THEN now ELSE enteredAt
    /\ heldAt' = IF pc' = "down" THEN Never
                 ELSE IF powerHold \/ powerHold' THEN now ELSE heldAt

HInit == Init /\ enteredAt = Never /\ heldAt = Never
HNext == Next /\ Remember
HSpec == HInit /\ [][HNext]_<<vars, enteredAt, heldAt>>
-----------------------------------------------------------------------------
Decides(c) == pc = "select" /\ cmd' = c

\* The station does not stand by before it has been running for the idle timeout,
\* however often the sequencer was restarted in between (runningSince is restored).
\* The hold of the antenna mode is off.
NoEarlyStandby ==
    [][Decides("standby") => now - enteredAt >= IdleTimeout /\ ~powerHold]_<<vars, enteredAt, heldAt>>

\* The idle shutdown is not decided within the shutdown timeout of the last entry
\* into running, through restarts and crashes, nor of the last moment of a power hold
\* this process knew of.
NoEarlyShutdown ==
    [][Decides("idle_shutdown") => /\ now - enteredAt >= ShutdownTimeout
                                   /\ now - heldAt >= ShutdownTimeout]_<<vars, enteredAt, heldAt>>
=============================================================================
