------------------------------ MODULE AntPolicy -----------------------------
(***************************************************************************)
(* antmode's policy (internal/policy): which antenna mode the station is   *)
(* in, who put it there and when automation may change it.  Pure: the      *)
(* policy is a record, every operator returns the next one.                *)
(*                                                                         *)
(* Quiet time is counted in intervals between two successful polls.        *)
(***************************************************************************)
EXTENDS Integers

CONSTANTS
    Warnings,   \* ids of qualifying warnings
    AutoEnter,  \* storm.auto_enter
    ExitAfter,  \* quiet intervals before an auto storm exits
    MaxSeq      \* bound on seq

ASSUME PolicyAssumption ==
    /\ AutoEnter \in BOOLEAN
    /\ ExitAfter \in Nat \ {0}
    /\ MaxSeq \in Nat

Modes == {"normal", "storm", "maintenance"}

Policies == [mode : Modes, source : {"manual", "auto"}, seq : 0..MaxSeq,
             acked : SUBSET Warnings, dismissed : SUBSET Warnings,
             quiet : 0..ExitAfter, clean : BOOLEAN]

\* A fresh state, its seq seeded from the clock.
NewPolicy(n) == [mode |-> "normal", source |-> "manual", seq |-> n,
                 acked |-> {}, dismissed |-> {}, quiet |-> 0, clean |-> FALSE]

\* Beyond the bound no lock is entered or parked again.
Spent(p) == p.seq = MaxSeq

\* Mutant: an entry keeps the seq of the lock before it.
EnterSameSeq(p, m, src) ==
    [p EXCEPT !.mode = m, !.source = src, !.quiet = 0, !.clean = FALSE]

\* enter()
Enter(p, m, src) ==
    [p EXCEPT !.mode = m, !.source = src, !.seq = IF m = "normal" THEN @ ELSE @ + 1,
              !.quiet = 0, !.clean = FALSE]

\* Mutant: a manual normal acknowledges nothing.
SetModeUnacked(p, m, active) ==
    IF m = p.mode \/ (m # "normal" /\ Spent(p)) THEN p ELSE Enter(p, m, "manual")

\* SetMode(): the current mode is a no-op; normal acknowledges what is active.
SetMode(p, m, active) ==
    IF m = p.mode \/ (m # "normal" /\ Spent(p)) THEN p
    ELSE Enter(IF m = "normal" THEN [p EXCEPT !.acked = @ \cup active] ELSE p, m, "manual")

\* Repark()
Repark(p) == IF p.mode = "normal" \/ Spent(p) THEN p ELSE [p EXCEPT !.seq = @ + 1]

\* Dismiss()
Dismiss(p, active) == [p EXCEPT !.dismissed = @ \cup active]

\* Mutant: an outage does not break the interval.
PollFailedUnbroken(p) == p

\* Poll() of an outage.
PollFailed(p) == [p EXCEPT !.clean = FALSE]

AutoStorm(p) == p.mode = "storm" /\ p.source = "auto"

\* Mutant: the quiet time counts on, the storm does not exit.
PollCountsOn(p, active) ==
    IF ~AutoStorm(p) \/ active # {} THEN p
    ELSE [p EXCEPT !.quiet = IF p.clean THEN @ + 1 ELSE @, !.clean = TRUE]

\* Poll() of a successful poll: prunes the sets; an auto storm counts the interval since
\* the last clean poll, and exits after the holdoff.
Poll(p, active) ==
    LET q == [p EXCEPT !.acked = @ \cap active, !.dismissed = @ \cap active]
        k == IF q.quiet < ExitAfter /\ q.clean THEN q.quiet + 1 ELSE q.quiet
    IN IF ~AutoStorm(p) THEN q
       ELSE IF active # {} THEN [q EXCEPT !.quiet = 0, !.clean = FALSE]
       ELSE IF k = ExitAfter THEN Enter(q, "normal", "auto")
       ELSE [q EXCEPT !.quiet = k, !.clean = TRUE]

\* Evaluate(): automatic storm entry.
Evaluate(p, active, manned) ==
    IF p.mode = "normal" /\ ~manned /\ AutoEnter /\ ~(active \subseteq p.acked) /\ ~Spent(p)
    THEN Enter(p, "storm", "auto") ELSE p

\* Suggested()
Suggested(p, active, manned) ==
    p.mode = "normal" /\ (manned \/ ~AutoEnter) /\ ~(active \subseteq (p.acked \cup p.dismissed))
=============================================================================
