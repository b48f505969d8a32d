---------------------------- MODULE PowerSeqWake ----------------------------
(***************************************************************************)
(* When the idle logic of PowerSeq must wake the station.                  *)
(***************************************************************************)
EXTENDS PowerSeqIdle

VARIABLE stoodByAt  \* when the station last got from another phase to standby

StandbyOnDisk == file' # None /\ file'.disp.phase = "standby"

\* Forgotten when neither the process nor the state file knows of a standby.
WNext ==
    /\ HNext
    /\ stoodByAt' = CASE Up /\ phase # "standby" /\ phase' = "standby" -> now
                      [] phase' # "standby" /\ ~StandbyOnDisk         -> Never
                      [] OTHER                                        -> stoodByAt

WInit == HInit /\ stoodByAt = Never
WSpec == WInit /\ [][WNext]_<<vars, enteredAt, heldAt, stoodByAt>>
-----------------------------------------------------------------------------
\* Activity later than the entry into standby wakes the station at the next idle tick of a
\* connected sequencer that knows of no hold and has waited for one to be reported: no hold
\* that came and went, no restart, no silent antenna mode and no command turned down since
\* makes it miss the activity.
ActivityWakes ==
    [][phase = "standby" /\ state[ActivitySlot] # None /\ state[ActivitySlot].last > stoodByAt
         /\ online /\ ~powerHold /\ antModeWait = 0 /\ IdleTick
           => cmd' = "wake"]_<<vars, stoodByAt>>
=============================================================================
