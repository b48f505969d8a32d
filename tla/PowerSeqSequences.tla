------------------------- MODULE PowerSeqSequences -------------------------
(***************************************************************************)
(* Sequences, operator commands and restarts of PowerSeq: the properties,  *)
(* and the history variable they need, which never guards or changes a step.*)
(***************************************************************************)
EXTENDS PowerSeq

VARIABLE met       \* wait steps of the sequence at which the condition was seen to hold

Remember ==
    met' = IF pc = "wait" /\ CondHolds /\ online THEN met \cup {run.at}
           ELSE IF run' = NoRun THEN {} ELSE met

HInit == Init /\ met = {}
HNext == Next /\ Remember
HSpec == HInit /\ [][HNext]_<<vars, met>>
-----------------------------------------------------------------------------
Sends(l, i, s) == Lists[l][i].kind = "cmd" /\ s \in Lists[l][i].slots

\* The last value the first n steps of list l send to slot s is the last command s got.
AppliedTo(l, n, s) ==
    \A i \in 1..n :
        Sends(l, i, s) /\ (\A j \in i+1..n : ~Sends(l, j, s)) => sent[s] = Lists[l][i].want

Applied(l, s) == AppliedTo(l, Len(Lists[l]), s)

\* An idle without a fault is what it says, also after a crash at any point: a
\* station that was never energized, or one that the whole list of the stop it
\* names has shut down.
FaultlessIdleIsOff ==
    Up /\ phase = "idle" /\ disp.fault = "none" =>
        \A s \in Slots :
            CASE disp.reason = "none"          -> sent[s] = None
              [] disp.reason = "operator"      -> Applied("shutdown", s)
              [] disp.reason = "idle_shutdown" -> Applied("idle_shutdown", s)

\* A running phase means that the whole startup list has been sent, or, after a standby,
\* the whole wake list.
RunningIsOn ==
    Up /\ phase = "running" =>
        \/ \A s \in Slots : Applied("startup", s)
        \/ StandbyEnabled /\ \A s \in Slots : Applied("wake", s)

\* No command is emitted past a wait step whose condition the runner has not seen
\* to hold during this very run of the list.
EmittedAfterWaits ==
    [][sent' # sent =>
         \A i \in 1..run.at : Lists[run.list][i].kind \in {"wait_online", "wait_offline", "wait_state"}
                              => i \in met]_<<vars, met>>
=============================================================================
