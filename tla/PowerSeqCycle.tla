--------------------------- MODULE PowerSeqCycle ---------------------------
(***************************************************************************)
(* The phase on disk, which is what a restart goes by, moves as PhaseCycle *)
(* says, as long as no write fails.                                        *)
(***************************************************************************)
EXTENDS PowerSeq

Durable == IF file = None THEN IdleDisp ELSE file.disp

Cycle == INSTANCE PhaseCycle
            WITH phase <- Durable.phase, fault <- Durable.fault, reason <- Durable.reason

\* Crashes, restarts, lost connections and failed publishes never make the phase on
\* disk skip a move, and never turn an interrupted move into a resting phase that
\* carries no fault (New, begin, setPhase, persist).
DurableCycle == Cycle!Spec
=============================================================================
