-------------------------- MODULE PowerSeqConfigs --------------------------
(***************************************************************************)
(* Step lists and observations for TLC, cut down from config.example.toml. *)
(***************************************************************************)
EXTENDS PowerSeq

Off == 0
On  == 1

Cmd(s, v)         == [kind |-> "cmd", slots |-> {s}, want |-> v, hold |-> 0, span |-> 0]
Online(S, t)      == [kind |-> "wait_online", slots |-> S, want |-> None, hold |-> 0, span |-> t]
Offline(S, t)     == [kind |-> "wait_offline", slots |-> S, want |-> None, hold |-> 0, span |-> t]
Field(s, v, h, t) == [kind |-> "wait_state", slots |-> {s}, want |-> v, hold |-> h, span |-> t]
Pause(t)          == [kind |-> "delay", slots |-> {}, want |-> None, hold |-> 0, span |-> t]
Wol               == [kind |-> "wol", slots |-> {}, want |-> None, hold |-> 0, span |-> 0]

\* A value of the one field that is looked at.
Report(v, t) == [dev |-> TRUE, val |-> v, last |-> t]
Says(v)      == Report(v, Never)

(* Sequences without idle standby: power the supply, confirm the PA, arm it. *)
SeqSlots == {"psu", "pa", "arm"}
SeqLists ==
    [startup       |-> <<Wol, Cmd("psu", On), Online({"pa"}, 1), Field("pa", On, 1, 2), Cmd("arm", On)>>,
     shutdown      |-> <<Cmd("arm", Off), Pause(1), Cmd("psu", Off)>>,
     standby       |-> <<>>,
     wake          |-> <<>>,
     idle_shutdown |-> <<>>]
SeqPayloads == [s \in SeqSlots |-> IF s = "pa" THEN {Says(On), Says(Off)} ELSE {}]

(* The idle logic: the activity of the antenna selector and a slot that is switched. *)
CmdSlots == {"ant", "power"}
IdleLists ==
    [startup       |-> <<Cmd("power", On)>>,
     shutdown      |-> <<Cmd("power", Off)>>,
     standby       |-> <<Cmd("power", Off)>>,
     wake          |-> <<Cmd("power", On)>>,
     idle_shutdown |-> <<Cmd("power", Off)>>]
\* The selector inactive without a stamp, active since tick 2.
WakePayloads == [s \in CmdSlots |-> IF s = "ant" THEN {Says(Inactive), Report(1, 2)} ELSE {}]

(* The station: a rotator whose readback is watched. *)
PlantSlots == {"ant", "power", "rot"}
PlantLists ==
    [startup       |-> <<Cmd("power", On)>>,
     shutdown      |-> <<Cmd("power", Off)>>,
     standby       |-> <<Cmd("power", Off)>>,
     wake          |-> <<Cmd("power", On)>>,
     idle_shutdown |-> <<>>]
PlantPayloads ==
    [s \in PlantSlots |-> CASE s = "ant"   -> {Says(Inactive)}
                            [] s = "rot"   -> {Says(v) : v \in Values}
                            [] s = "power" -> {}]
=============================================================================
