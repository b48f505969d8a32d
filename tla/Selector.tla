------------------------------ MODULE Selector ------------------------------
(***************************************************************************)
(* What antennaselect remembers between two messages and what each         *)
(* handler makes of it (internal/mqtt: client.go, hold.go).  The handlers  *)
(* run one after the other on the jobs worker.  Pure: the client is a      *)
(* record, every operator returns the next one.                            *)
(*                                                                         *)
(* Clocks are abstracted to whether they have run out.  /state is not      *)
(* kept: it is published whenever what it says of the client changes.      *)
(***************************************************************************)
EXTENDS Reconcile

\* bridge, dev: radioBridgeOnline, radioDeviceOnline.
\* last: what was last sent, the dedup.
\* redo: the unlock re-extend: pending, the controller's last report, the stall's clock.
\* idle: the time since lastActivity, and activitySeen.
\* base: the VFO baseline: seenRadio and liveFreqHz.
\* hold: the hold slot: its /status, its /state and whether hold_until has passed.
NewSelector ==
    [bridge |-> FALSE, dev |-> FALSE, freq |-> 0, tx |-> "", activity |-> "",
     request |-> "auto", selected |-> "", locked |-> FALSE, ground |-> FALSE,
     last |-> [select |-> "", freq |-> 0, band |-> "", inline |-> "none"],
     redo |-> [pending |-> FALSE, dev |-> "unseen", retracted |-> FALSE, lock |-> FALSE,
               stall |-> "no", retried |-> FALSE],
     idle |-> [over |-> FALSE, seen |-> FALSE],
     base |-> [seen |-> FALSE, freq |-> 0],
     hold |-> [online |-> FALSE, held |-> "no"]]

Selectors ==
    [bridge : BOOLEAN, dev : BOOLEAN, freq : Freqs \cup {0}, tx : {"", "rx", "tx"},
     activity : {"", "active", "inactive"}, request : Ports \cup {"auto", "manual"},
     selected : Ports \cup {""}, locked : BOOLEAN, ground : BOOLEAN,
     last : [select : Ports \cup {""}, freq : Freqs \cup {0},
             band : {Band(f) : f \in Freqs} \cup {""}, inline : {"none", "in", "bypass"}],
     redo : [pending : BOOLEAN, dev : {"unseen", "off", "on"}, retracted : BOOLEAN,
             lock : BOOLEAN, stall : {"no", "running", "over"}, retried : BOOLEAN],
     idle : [over : BOOLEAN, seen : BOOLEAN],
     base : [seen : BOOLEAN, freq : Freqs \cup {0}],
     hold : [online : BOOLEAN, held : {"no", "live", "stale"}]]

\* The inputs of the decision.
Inputs(c) == [online |-> c.bridge /\ c.dev, freq |-> c.freq, tx |-> c.tx,
              activity |-> c.activity, request |-> c.request, selected |-> c.selected,
              locked |-> c.locked, ground |-> c.ground]
-----------------------------------------------------------------------------
(* update(): the decision is taken anew after every mutation. *)

\* Mutant: a select is sent once, whatever the switch reports after it.
EmitsOnce(c) ==
    LET a == Actions(Inputs(c))
    IN [a EXCEPT !.select = IF @ = c.last.select THEN "" ELSE @,
                 !.freq   = IF @ = c.last.freq THEN 0 ELSE @,
                 !.band   = IF @ = c.last.band THEN "" ELSE @,
                 !.inline = IF @ = c.last.inline THEN "none" ELSE @]

\* What is published: a select until the switch reports it, once while the switch's
\* position is unknown; the others when they differ from what was last sent.
Emits(c) ==
    LET a == Actions(Inputs(c))
    IN [a EXCEPT !.select = IF c.selected = "" /\ @ = c.last.select THEN "" ELSE @,
                 !.freq   = IF @ = c.last.freq THEN 0 ELSE @,
                 !.band   = IF @ = c.last.band THEN "" ELSE @,
                 !.inline = IF @ = c.last.inline THEN "none" ELSE @]

\* The client once e is published.
Record(c, e) ==
    [c EXCEPT !.last = [select |-> IF e.select = "" THEN @.select ELSE e.select,
                        freq   |-> IF e.freq = 0 THEN @.freq ELSE e.freq,
                        band   |-> IF e.band = "" THEN @.band ELSE e.band,
                        inline |-> IF e.inline = "none" THEN @.inline ELSE e.inline]]

Sent(c) == Record(c, Emits(c))
-----------------------------------------------------------------------------
(* Presence. *)

\* markActive()
MarkActive(c) ==
    [c EXCEPT !.activity = "active", !.idle = [over |-> FALSE, seen |-> TRUE]]

\* stationHold.live()
HoldLive(c) == c.hold.online /\ c.hold.held = "live"

\* applyHolds()
ApplyHolds(c) == IF HoldLive(c) THEN MarkActive(c) ELSE c

\* onHoldStatus(), onHoldState()
OnHoldStatus(c, online) == ApplyHolds([c EXCEPT !.hold.online = online])
OnHoldState(c, held)    == ApplyHolds([c EXCEPT !.hold.held = held])

\* Mutant: the baseline outlives a reset of the slice.
OnRadioStateKept(c, r) ==
    LET live == r.up /\ r.freq # 0
        vfo  == live /\ c.base.freq # 0 /\ r.freq # c.base.freq
        tx   == c.base.seen /\ r.up /\ r.tx = "tx"
    IN [(IF vfo \/ tx THEN MarkActive(c) ELSE c)
           EXCEPT !.dev = r.up, !.freq = r.freq, !.tx = r.tx,
                  !.base = [seen |-> TRUE, freq |-> IF live THEN r.freq ELSE @.freq]]

\* onRadioState(): a VFO turned or a transmission, against the baseline, is activity.
OnRadioState(c, r) ==
    LET live == r.up /\ r.freq # 0
        vfo  == live /\ c.base.freq # 0 /\ r.freq # c.base.freq
        tx   == c.base.seen /\ r.up /\ r.tx = "tx"
    IN [(IF vfo \/ tx THEN MarkActive(c) ELSE c)
           EXCEPT !.dev = r.up, !.freq = r.freq, !.tx = r.tx,
                  !.base = [seen |-> TRUE,
                            freq |-> IF live \/ r.freq = 0 THEN r.freq ELSE @.freq]]

\* onRadioStatus()
OnRadioStatus(c, online) == [c EXCEPT !.bridge = online]

\* onAntSwitchState()
OnAntSwitchState(c, port) == [c EXCEPT !.selected = port]

\* onOperatorCmd(), applyOperatorHold(): a release is no activity.
OnOperatorCmd(c, request) ==
    LET d == [c EXCEPT !.request = request]
    IN IF HoldActive(request) THEN MarkActive(d) ELSE d
-----------------------------------------------------------------------------
(* The lock, and the re-extend after it. *)

\* checkReextendStall(): the onset is recorded at every evaluation; the tick, fire, sends
\* the frequency once more when the grace is over.
CheckReextendStall(c, fire) ==
    IF ~ /\ c.redo.pending /\ ~c.locked /\ c.last.freq # 0
         /\ c.redo.dev = "on" /\ c.redo.retracted /\ ~c.redo.lock
    THEN [c EXCEPT !.redo.stall = "no"]
    ELSE IF c.redo.stall = "no" THEN [c EXCEPT !.redo.stall = "running"]
    ELSE IF fire /\ c.redo.stall = "over" /\ ~c.redo.retried
         THEN [c EXCEPT !.redo.stall = "no", !.redo.retried = TRUE, !.last.freq = 0]
    ELSE c

\* Mutant: an unlock sends the frequency again, once.
ApplyAntModeOnce(c, locked, ground) ==
    LET d == [c EXCEPT !.locked = locked, !.ground = ground]
    IN CheckReextendStall(
         IF c.locked /\ ~locked
         THEN [d EXCEPT !.last = [@ EXCEPT !.freq = 0, !.select = "", !.inline = "none"]]
         ELSE d, FALSE)

\* Mutant: the stall is not looked at when the lock changes.
ApplyAntModeUnchecked(c, locked, ground) ==
    LET d == [c EXCEPT !.locked = locked, !.ground = ground]
    IN IF c.locked /\ ~locked
       THEN [d EXCEPT !.last = [@ EXCEPT !.freq = 0, !.select = "", !.inline = "none"],
                      !.redo = [@ EXCEPT !.pending = TRUE, !.retried = FALSE]]
       ELSE d

\* applyAntMode(): no activity; an unlock forgets what was sent and owes a re-extend.
ApplyAntMode(c, locked, ground) ==
    LET d == [c EXCEPT !.locked = locked, !.ground = ground]
    IN CheckReextendStall(
         IF c.locked /\ ~locked
         THEN [d EXCEPT !.last = [@ EXCEPT !.freq = 0, !.select = "", !.inline = "none"],
                        !.redo = [@ EXCEPT !.pending = TRUE, !.retried = FALSE]]
         ELSE d, FALSE)

\* applyFollowState(): elements out confirm the re-extend; a controller that comes back
\* with the elements in has lost the frequency.
ApplyFollowState(c, online, retracted, lock) ==
    LET back == c.redo.dev = "off" /\ online
        d == [c EXCEPT !.redo = [@ EXCEPT !.dev = IF online THEN "on" ELSE "off",
                                          !.retracted = retracted, !.lock = lock]]
        owed == c.redo.pending /\ ~c.locked
    IN CheckReextendStall(
         IF owed /\ online /\ ~retracted   THEN [d EXCEPT !.redo.pending = FALSE]
         ELSE IF owed /\ back /\ retracted THEN [d EXCEPT !.last.freq = 0]
         ELSE d, FALSE)

\* checkIdle()
CheckIdle(c) ==
    LET d == ApplyHolds(c)
    IN CheckReextendStall(IF d.idle.over THEN [d EXCEPT !.activity = "inactive"] ELSE d, TRUE)
=============================================================================
