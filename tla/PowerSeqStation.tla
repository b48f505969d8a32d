-------------------------- MODULE PowerSeqStation --------------------------
(***************************************************************************)
(* PowerSeq in the station it switches: the readback of a watched device   *)
(* steps when the power of the antenna gear is switched, by the sequencer  *)
(* or by the antenna mode under a power hold, and for some time after.     *)
(* Nobody operates the radio here: every change of a watch is the          *)
(* station's own doing.                                                    *)
(***************************************************************************)
EXTENDS PowerSeq

CONSTANTS
    KnockTime,      \* how long after the switching readbacks may step
    WatchedSlot     \* the one watched slot of this station

ASSUME PlantAssumption == KnockTime \in Nat /\ KnockTime <= WatchSettle /\ WatchedSlot \in WatchSlots

VARIABLES
    readback,       \* what the device last published, retained by the broker
    knock,          \* ticks during which the readback may still step
    held            \* the retained power_hold of the antenna mode

plant == <<readback, knock, held>>

Hearing == Up /\ online

\* The readback steps; the sequencer hears of it unless the connection is down.
Knock ==
    /\ held \/ knock > 0
    /\ \E v \in Values \ {readback} :
          /\ readback' = v
          /\ IF Hearing THEN \E p \in Payloads[WatchedSlot] : p.val = v /\ SetState(WatchedSlot, p)
                        ELSE UNCHANGED vars
    /\ UNCHANGED <<knock, held>>

\* The antenna mode takes or ends its hold; it switches the power back off at the end.
Hold ==
    /\ ReadsAntMode
    /\ held' = ~held
    /\ knock' = IF held THEN KnockTime ELSE knock
    /\ IF Hearing THEN SetAntMode(held') ELSE UNCHANGED vars
    /\ UNCHANGED readback

\* The broker delivers what it retains, once or again.
Redeliver ==
    /\ \/ SetAntMode(held)
       \/ \E p \in Payloads[WatchedSlot] : p.val = readback /\ SetState(WatchedSlot, p)
       \/ Receive(ActivitySlot)
    /\ UNCHANGED plant

\* A delivery does not take as long as a tick.
Delivered ==
    Hearing => /\ ReadsAntMode => antModeSeen /\ powerHold = held
               /\ StateField(WatchedSlot) = readback
               /\ \A s \in Heard : status[s] = "online" /\ state[s] # None

Passes ==
    /\ Delivered
    /\ Tick
    /\ knock' = Less(knock)
    /\ UNCHANGED <<readback, held>>

\* The sequencer runs; switching the power starts the readback stepping.
Sequences ==
    /\ Runner
    /\ knock' = IF sent' # sent THEN KnockTime ELSE knock
    /\ UNCHANGED <<readback, held>>

Surroundings ==
    /\ \/ \E s \in Heard : SetStatus(s, TRUE)
       \/ Connect \/ Disconnect
       \/ Request("start")
       \/ Restart \/ Crash
    /\ UNCHANGED plant

SInit == Init /\ readback \in Values /\ knock = 0 /\ held = FALSE
SNext == Knock \/ Hold \/ Redeliver \/ Passes \/ Sequences \/ Surroundings
SSpec == SInit /\ [][SNext]_<<vars, plant>>
-----------------------------------------------------------------------------
\* The station does not wake itself: the steps that its own power switching, or a
\* borrow of the antenna mode, puts on the watched readbacks are never taken for
\* activity (noteWatchesLocked, the 2026-10-19 standby that woke after two seconds).
NoSelfWake == [][cmd' # "wake"]_<<vars, plant>>
=============================================================================
