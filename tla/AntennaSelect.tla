--------------------------- MODULE AntennaSelect ----------------------------
(***************************************************************************)
(* antennaselect among the slots it listens to and commands: the radio     *)
(* (flexbridge), the lock (antmode), the antenna switch, the controller of *)
(* the followed antenna (ultrabridge), an operator and a consumer that     *)
(* holds the station.                                                      *)
(*                                                                         *)
(* A topic in net.due has a message on its way; its publisher goes on when *)
(* it has been handled.  Without a link messages are lost; a new link is   *)
(* subscribed to one topic after the other and each replays what is        *)
(* retained.  The neighbours are modelled as far as antennaselect sees     *)
(* them.                                                                   *)
(***************************************************************************)
EXTENDS Selector, Sequences

CONSTANTS
    Scenarios,  \* sets of things that may happen; a behaviour is of one of them
    Requests    \* what the operator may request besides auto

ASSUME AntennaSelectAssumption == Requests \subseteq Ports \cup {"manual"}

VARIABLES
    client,     \* antennaselect
    radio,      \* flexbridge's retained status and state
    locked,     \* antmode's retained lock, which grounds
    switch,     \* the antenna switch: its position, its retained command, whether it is due
    ctl,        \* the controller: its RCU-06, where the elements are driven, its retract
                \* latch, its view of the lock, its retained command
    operator,   \* the retained request
    hold,       \* the consumer's retained status and state
    net,        \* the link to the broker, how many topics are subscribed, those with a message due
    past,       \* history for the properties
    happens     \* the scenario

vars == <<client, radio, locked, switch, ctl, operator, hold, net, past, happens>>

\* subscribeAll(), subscribeHolds(): the order of the subscriptions.
Subscriptions == <<"lock", "radio", "bridge", "switch", "follow", "holdStatus", "hold", "cmd">>
Topics == {Subscriptions[i] : i \in DOMAIN Subscriptions}

Connected    == [link |-> TRUE, subs |-> 0, due |-> {}]
Disconnected == [link |-> FALSE, subs |-> 0, due |-> {}]

Init ==
    /\ happens \in Scenarios
    /\ client = NewSelector
    /\ \E f \in Freqs : radio = [bridge |-> TRUE, up |-> TRUE, freq |-> f, tx |-> "rx"]
    /\ locked = FALSE
    /\ switch = [selected |-> "off", cmd |-> "", due |-> FALSE]
    /\ ctl = [dev |-> TRUE, out |-> TRUE, retracted |-> FALSE, locked |-> FALSE, cmd |-> FALSE]
    /\ operator = "auto"
    /\ hold = [online |-> FALSE, held |-> "no"]
    /\ net = Connected
    /\ past = [touched |-> {}, forgot |-> FALSE, misled |-> FALSE]
-----------------------------------------------------------------------------
(* Messages. *)

\* A publisher whose last message has been handled publishes again.
Ready(topic) == topic \notin net.due
Subscribed == {Subscriptions[i] : i \in 1..net.subs}
Publish(topics) == net' = [net EXCEPT !.due = @ \cup (topics \cap Subscribed)]

\* The one re-send of an unlock is spent, and the elements have not been reported out.  It
\* is forgotten when the controller's reports do not arrive.
SpentRedo(c) == c.redo.pending /\ c.redo.retried

\* An unlock, which owes a re-extend.
Unlocks(c) == client.locked /\ ~c.locked

\* A report of the controller is taken for the end of the re-extend while the elements are in
\* or the controller holds the lock and may yet drive them in; or the one re-send goes out to
\* a controller that refuses it, whose report of its lock is still on its way.
Misled(c) ==
    \/ client.redo.pending /\ ~c.redo.pending /\ (ctl.locked \/ ~ctl.out)
    \/ ~SpentRedo(client) /\ SpentRedo(c) /\ ctl.locked

\* update() after a mutation to c, which leaves the link at n.  The first k of a select and a
\* frequency arrive; a link that is lost meanwhile takes the rest with it, and what was due.
Update(c, n, touched) ==
    LET e == Emits(c)
        s == Record(c, e)
    IN /\ \E k \in IF ~net.link THEN {0} ELSE IF "link" \in happens THEN 0..2 ELSE {2} :
             /\ switch' = IF k >= 1 /\ e.select # ""
                          THEN [switch EXCEPT !.cmd = e.select, !.due = TRUE] ELSE switch
             /\ ctl' = IF k = 2 /\ e.freq # 0 THEN [ctl EXCEPT !.cmd = TRUE] ELSE ctl
             /\ net' = IF k = 2 THEN n ELSE Disconnected
             /\ past' = [touched |-> touched,
                         forgot |-> \/ SpentRedo(s) /\ "follow" \notin Subscribed'
                                    \/ past.forgot /\ ~Unlocks(c),
                         misled |-> \/ Misled(c)
                                    \/ past.misled /\ ~Unlocks(c)]
       /\ client' = s
       /\ UNCHANGED <<radio, locked, operator, hold, happens>>

\* The handler of a topic, of the message that is due.
Handled(topic) ==
    CASE topic = "lock"       -> ApplyAntMode(client, locked, locked)
      [] topic = "radio"      -> OnRadioState(client, radio)
      [] topic = "bridge"     -> OnRadioStatus(client, radio.bridge)
      [] topic = "switch"     -> OnAntSwitchState(client, switch.selected)
      [] topic = "follow"     -> ApplyFollowState(client, ctl.dev, ctl.retracted, ctl.locked)
      [] topic = "holdStatus" -> OnHoldStatus(client, hold.online)
      [] topic = "hold"       -> OnHoldState(client, hold.held)
      [] topic = "cmd"        -> OnOperatorCmd(client, operator)

Receive(topic) ==
    /\ topic \in net.due
    /\ Update(Handled(topic), [net EXCEPT !.due = @ \ {topic}], past.touched \ {topic})

\* The next subscription, and the retained message it brings.
Subscribe ==
    /\ net.link /\ net.subs < Len(Subscriptions)
    /\ LET topic == Subscriptions[net.subs + 1]
       IN Update(Handled(topic), [net EXCEPT !.subs = @ + 1], past.touched \ {topic})

\* idleLoop()
Tick == Update(CheckIdle(client), net, past.touched)

\* The idle timeout passes; a live hold puts it off at every tick.
IdleElapses ==
    /\ "idle" \in happens
    /\ ~client.idle.over /\ ~HoldLive(client)
    /\ client' = [client EXCEPT !.idle.over = TRUE]
    /\ UNCHANGED <<radio, locked, switch, ctl, operator, hold, net, past, happens>>

\* reextendStallGrace passes; it is longer than the subscriptions take.
StallElapses ==
    /\ client.redo.stall = "running" /\ (net.link => Subscribed = Topics)
    /\ client' = [client EXCEPT !.redo.stall = "over"]
    /\ UNCHANGED <<radio, locked, switch, ctl, operator, hold, net, past, happens>>

\* hold_until passes: of the hold as the client knows it, and of the retained one.
HoldExpires ==
    /\ hold.held = "live" \/ client.hold.held = "live"
    /\ \E fresh \in IF net.link THEN {FALSE} ELSE BOOLEAN :
          hold' = IF fresh \/ hold.held # "live" THEN hold ELSE [hold EXCEPT !.held = "stale"]
    /\ client' = IF client.hold.held = "live" THEN [client EXCEPT !.hold.held = "stale"]
                 ELSE client
    /\ UNCHANGED <<radio, locked, switch, ctl, operator, net, past, happens>>

LinkDown ==
    /\ "link" \in happens /\ net.link
    /\ net' = Disconnected
    /\ past' = [past EXCEPT !.forgot = @ \/ SpentRedo(client)]
    /\ UNCHANGED <<client, radio, locked, switch, ctl, operator, hold, happens>>

\* What is retained is replayed: the radio may have moved unseen.
LinkUp ==
    /\ ~net.link
    /\ net' = Connected
    /\ past' = [past EXCEPT !.touched = @ \cup {"radio"}]
    /\ UNCHANGED <<client, radio, locked, switch, ctl, operator, hold, happens>>

\* A restart remembers nothing: the first sample of the radio is the baseline.
Restart ==
    /\ "restart" \in happens
    /\ client' = NewSelector
    /\ net' = Connected
    /\ past' = [touched |-> past.touched \ {"radio"}, forgot |-> TRUE, misled |-> FALSE]
    /\ UNCHANGED <<radio, locked, switch, ctl, operator, hold, happens>>
-----------------------------------------------------------------------------
(* flexbridge and whoever is at the radio. *)

Touched(topic) == past' = [past EXCEPT !.touched = @ \cup {topic}]
Live == radio.bridge /\ radio.up

RadioSays(what, r) ==
    /\ what \in happens /\ Ready("radio")
    /\ radio' = r
    /\ Publish({"radio"})
    /\ UNCHANGED <<client, locked, switch, ctl, operator, hold, happens>>

Tune == \E f \in Freqs \ {radio.freq} :
            /\ Live /\ radio.freq # 0 /\ radio.tx = "rx"
            /\ RadioSays("tune", [radio EXCEPT !.freq = f]) /\ Touched("radio")

Key == /\ Live /\ radio.freq # 0
       /\ \E tx \in {"rx", "tx"} \ {radio.tx} : RadioSays("key", [radio EXCEPT !.tx = tx])
       /\ Touched("radio")

\* flexbridge loses track of the slice, and finds one.
Slice == \E f \in IF radio.freq = 0 THEN Freqs ELSE {0} :
             /\ Live /\ radio.tx = "rx"
             /\ RadioSays("slice", [radio EXCEPT !.freq = f]) /\ UNCHANGED past

\* Reset() of flexbridge, and the radio's link again.
RadioLink ==
    /\ radio.bridge
    /\ RadioSays("radio", [radio EXCEPT !.up = ~@, !.freq = 0, !.tx = "rx"])
    /\ UNCHANGED past

\* flexbridge dies, its state frozen, or starts.
Bridge ==
    /\ "bridge" \in happens /\ Ready("bridge") /\ Ready("radio")
    /\ IF radio.bridge
       THEN radio' = [radio EXCEPT !.bridge = FALSE] /\ Publish({"bridge"})
       ELSE /\ radio' = [bridge |-> TRUE, up |-> FALSE, freq |-> 0, tx |-> "rx"]
            /\ Publish({"bridge", "radio"})
    /\ UNCHANGED <<client, locked, switch, ctl, operator, hold, past, happens>>

\* A request; a release is no presence.
Request ==
    /\ "request" \in happens /\ Ready("cmd")
    /\ operator' \in Requests \cup {"auto"}
    /\ Publish({"cmd"})
    /\ IF HoldActive(operator') THEN Touched("cmd") ELSE UNCHANGED past
    /\ UNCHANGED <<client, radio, locked, switch, ctl, hold, happens>>

\* The consumer starts or dies; it refreshes its hold or gives it up.
HoldStatus ==
    /\ "hold" \in happens /\ Ready("holdStatus")
    /\ hold' = [hold EXCEPT !.online = ~@]
    /\ Publish({"holdStatus"})
    /\ UNCHANGED <<client, radio, locked, switch, ctl, operator, past, happens>>

HoldState ==
    /\ "hold" \in happens /\ Ready("hold") /\ hold.online
    /\ \E h \in {"live", "no"} : hold' = [hold EXCEPT !.held = h]
    /\ Publish({"hold"})
    /\ UNCHANGED <<client, radio, locked, switch, ctl, operator, past, happens>>
-----------------------------------------------------------------------------
(* antmode, the switch and the controller. *)

Lock ==
    /\ "lock" \in happens /\ Ready("lock") /\ ~locked
    /\ locked' = TRUE /\ Publish({"lock"})
    /\ UNCHANGED <<client, radio, switch, ctl, operator, hold, past, happens>>

\* Whatever the controller has heard.  A client that has no link may never hear of the lock.
Unlock ==
    /\ Ready("lock") /\ locked
    /\ locked' = FALSE /\ Publish({"lock"})
    /\ past' = [past EXCEPT !.forgot = @ \/ ~client.locked]
    /\ UNCHANGED <<client, radio, switch, ctl, operator, hold, happens>>

SwitchSays(s) ==
    /\ Ready("switch")
    /\ switch' = s /\ Publish({"switch"})
    /\ UNCHANGED <<client, radio, locked, ctl, operator, hold, past, happens>>

SwitchMoves == switch.due /\ SwitchSays([switch EXCEPT !.selected = switch.cmd, !.due = FALSE])

\* It starts at off and finds the retained command.
SwitchReboots ==
    "reboot" \in happens
        /\ SwitchSays([switch EXCEPT !.selected = "off", !.due = switch.cmd # ""])

\* Someone drives the switch past antennaselect.
SwitchByHand ==
    /\ "hand" \in happens
    /\ \E p \in Ports : switch' = [switch EXCEPT !.cmd = p, !.due = TRUE]
    /\ UNCHANGED <<client, radio, locked, ctl, operator, hold, net, past, happens>>

\* The controller becomes c; /state says its latch, and not where the elements are.
CtlSays(c) ==
    /\ Ready("follow")
    /\ ctl' = c
    /\ IF [c EXCEPT !.out = ctl.out, !.cmd = ctl.cmd] = ctl THEN UNCHANGED net
       ELSE Publish({"follow"})
    /\ UNCHANGED <<client, radio, locked, switch, operator, hold, past, happens>>

CtlHears == ctl.locked # locked /\ CtlSays([ctl EXCEPT !.locked = locked])

\* On the lock as the controller knows it, which may be gone.
CtlRetract ==
    /\ ctl.locked /\ ctl.dev /\ (ctl.out \/ ~ctl.retracted)
    /\ CtlSays([ctl EXCEPT !.out = FALSE, !.retracted = TRUE])

\* A frequency is refused under the lock and lost without the RCU-06; otherwise it drives
\* the elements out.
CtlTune ==
    /\ ctl.cmd
    /\ CtlSays(IF ~ctl.locked /\ ctl.dev
               THEN [ctl EXCEPT !.cmd = FALSE, !.out = TRUE, !.retracted = FALSE]
               ELSE [ctl EXCEPT !.cmd = FALSE])

CtlDevGone == "dev" \in happens /\ ctl.dev /\ CtlSays([ctl EXCEPT !.dev = FALSE])

\* The RCU-06 comes back; the power cycle may have driven the elements out.  Under the lock
\* the latch is cleared, wherever they are.
CtlDevBack ==
    /\ "dev" \in happens /\ ~ctl.dev
    /\ \E out \in {ctl.out, TRUE} :
          CtlSays([ctl EXCEPT !.dev = TRUE, !.out = out, !.retracted = @ /\ ~ctl.locked])

\* A new link of the controller: it says again what it said.
CtlRepublishes ==
    /\ "dev" \in happens /\ Ready("follow")
    /\ Publish({"follow"})
    /\ UNCHANGED <<client, radio, locked, switch, ctl, operator, hold, past, happens>>

Next ==
    \/ \E topic \in Topics : Receive(topic)
    \/ Subscribe \/ Tick \/ IdleElapses \/ StallElapses \/ HoldExpires
    \/ LinkDown \/ LinkUp \/ Restart
    \/ Tune \/ Key \/ Slice \/ RadioLink \/ Bridge
    \/ Request \/ HoldStatus \/ HoldState
    \/ Lock \/ Unlock
    \/ SwitchMoves \/ SwitchReboots \/ SwitchByHand
    \/ CtlHears \/ CtlRetract \/ CtlTune \/ CtlDevGone \/ CtlDevBack \/ CtlRepublishes

Spec == Init /\ [][Next]_vars
=============================================================================
