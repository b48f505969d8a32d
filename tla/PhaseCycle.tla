----------------------------- MODULE PhaseCycle -----------------------------
(***************************************************************************)
(* What the sequencer promises a consumer of its phase, restarts and       *)
(* crashes included: the station goes around one cycle of resting phases,  *)
(* every move between them is announced before it happens, and a move that *)
(* does not reach its end is an idle with a fault.                         *)
(***************************************************************************)
CONSTANT Faults         \* reasons of a failed move; "none" is no fault

VARIABLES phase, fault, reason

Rest == {"idle", "running", "standby"}

End == [starting         |-> "running",
        waking           |-> "running",
        entering_standby |-> "standby",
        stopping         |-> "idle"]

Init == phase \in Rest /\ fault = "none" /\ reason = "none"

\* A move begins and clears the fault.
Moves(from, to) == phase = from /\ phase' = to /\ fault' = "none"

Start      == Moves("idle", "starting") /\ reason' = "none"
Stop       == \E p \in Rest : Moves(p, "stopping") /\ reason' = "operator"
IdleStop   == Moves("standby", "stopping") /\ reason' = "idle_shutdown"
EnterRest  == Moves("running", "entering_standby") /\ UNCHANGED reason
Wake       == Moves("standby", "waking") /\ UNCHANGED reason

\* The move is complete.
Finish == phase \in DOMAIN End /\ phase' = End[phase] /\ fault' = "none" /\ UNCHANGED reason

\* The move failed or was interrupted.
Fail == phase \in DOMAIN End /\ phase' = "idle" /\ fault' \in Faults \ {"none"} /\ UNCHANGED reason

\* A restart with a configuration that has no standby.
Unconfigured == phase = "standby" /\ phase' = "idle" /\ fault' \in Faults \ {"none"} /\ UNCHANGED reason

Next == Start \/ Stop \/ IdleStop \/ EnterRest \/ Wake \/ Finish \/ Fail \/ Unconfigured

Spec == Init /\ [][Next]_<<phase, fault, reason>>
=============================================================================
