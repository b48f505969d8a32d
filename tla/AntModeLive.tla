----------------------------- MODULE AntModeLive ----------------------------
(***************************************************************************)
(* What antmode always gets done, under the fairness of its worker, of the *)
(* one-second tick and of the queue of jobs.  Nothing is assumed of the    *)
(* operator, of the siblings, of the warnings or of the wind.              *)
(***************************************************************************)
EXTENDS AntModeLock

\* The worker comes to the end of every handler and of the queue; time passes.
Fairness ==
    /\ []<>(at.pc = "idle" /\ eng.run.connected /\ ~net.republish /\ eng.run.ready)
    /\ []<>past.beat /\ []<>~past.beat

LiveSpec == Spec /\ Fairness
-----------------------------------------------------------------------------
\* Every lock comes to an end, parked or failed, whatever the switch, the elements, the
\* rotator and the antenna power do or do not report, unless the radio keeps transmitting
\* into the antenna (stepLock: every phase has a timeout).
LockSettles ==
    <>[]~Transmitting(eng) =>
        (Locked(eng) ~> ~Locked(eng) \/ eng.phase \in {"parked", "failed"})

\* Borrowed power is given back, or is powerseq's, in the end: provided powerseq comes to
\* stay online with a phase, and the radio falls silent (stepBorrow).
BorrowEnds ==
    <>[](~Transmitting(eng) /\ eng.see.seqOn /\ eng.see.seqPhase # "")
        => (eng.borrow.open ~> ~eng.borrow.open \/ eng.pol.mode = "maintenance")
=============================================================================
