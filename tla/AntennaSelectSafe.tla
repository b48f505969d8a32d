------------------------- MODULE AntennaSelectSafe --------------------------
(***************************************************************************)
(* What antennaselect promises once nothing is on its way any more, and    *)
(* what it never takes for someone at the station.                         *)
(***************************************************************************)
EXTENDS AntennaSelect

\* The memory is of its shape.  A stall is only counted while a re-extend is owed and no
\* lock is in force; an active station was seen so, and its clock does not run out under a
\* live hold (checkReextendStall, markActive, applyHolds).
TypeOK ==
    /\ client \in Selectors
    /\ client.redo.stall # "no" =>
          client.redo.pending /\ ~client.locked /\ client.last.freq # 0 /\ client.redo.retracted
    /\ client.activity = "active" => client.idle.seen /\ (client.idle.over => ~HoldLive(client))
    /\ net.due \subseteq Topics /\ switch.selected \in Ports

\* No message is on its way and no tick changes anything more.
Quiet ==
    /\ Subscribed = Topics /\ net.due = {}
    /\ ~switch.due /\ ~ctl.cmd /\ ctl.locked = locked
    /\ Sent(CheckIdle(client)) = client
    /\ client.redo.stall = "running" => client.redo.retried

\* What the ladder makes of the world as it is.
Wanted == Resolve([online |-> Live, freq |-> radio.freq, tx |-> radio.tx,
                   activity |-> client.activity, request |-> operator,
                   selected |-> switch.selected, locked |-> locked, ground |-> locked]).target

\* The switch ends up where the ladder wants it, whatever was lost, moved by hand or
\* rebooted meanwhile: grounded under a lock and when nobody is there.  Only a transmission
\* holds it back (update, Next).
SwitchFollows == Quiet /\ Wanted # "" /\ client.tx # "tx" => switch.selected = Wanted

\* The elements are out wherever the radio uses the followed antenna.
Extended == Quiet /\ Wanted = FollowPort /\ Live /\ radio.freq # 0 /\ ctl.dev => ctl.out

\* After a lock the followed antenna's elements are out again wherever the radio uses it,
\* though the frequency that drives them out may be refused, lost on the way or dropped by
\* a controller without its RCU-06 (applyAntMode, applyFollowState, checkReextendStall).
\* The re-extend is forgotten by a restart, by a lock unseen from end to end, and when the
\* controller's reports are missing while the one re-send of the stall is out.  It is
\* misled by an old report: one that says "out" while the controller still holds the lock,
\* or whose latch a power cycle has cleared, ends it; one that says "unlocked" lets its one
\* re-send out too early.
ReExtends == ~past.forgot /\ ~past.misled => Extended

\* The idle clock is put back or the station woken.
Woke ==
    /\ client'.activity = "active"
    /\ \/ client.activity # "active"
       \/ client.idle.over /\ ~client'.idle.over
       \/ client'.idle.seen /\ ~client.idle.seen

\* A new subscription brings the retained message of the topic.
Replays(topic) == Subscribe /\ Subscriptions[net.subs + 1] = topic

\* Nothing but a hand at the radio or the console, a transmission or a live hold is taken
\* for presence: not a lost and found radio, flexbridge or slice, not a lock, not the first
\* sample after a restart (onRadioState, liveFreqHz).  Two replays are: after an outage the
\* radio may have been moved unseen, and an operator's retained hold looks like a new one,
\* after a restart too, against antenna-select-mqtt-api.md:105 (applyOperatorHold).
OnlyPresenceWakes ==
    [][Woke => \/ past.touched # {} \/ client'.tx = "tx" \/ HoldLive(client')
               \/ Replays("cmd") /\ HoldActive(operator)]_vars
=============================================================================
