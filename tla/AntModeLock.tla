----------------------------- MODULE AntModeLock ----------------------------
(***************************************************************************)
(* antmode's retained /state moves as ParkLock says, across crashes, lost  *)
(* publishes and adoption, as long as no write of the file fails.          *)
(***************************************************************************)
EXTENDS AntMode

\* The lock a bridge reads: normal as long as nothing is published.
Published == IF state = None THEN [mode |-> "normal", seq |-> 0, lock |-> NoLock]
             ELSE [mode |-> state.mode, lock |-> state.lock,
                   seq |-> IF state.mode = "normal" THEN state.seq ELSE state.lock.seq]

Bus == INSTANCE ParkLock
          WITH mode <- Published.mode, seq <- Published.seq,
               retract <- Published.lock.retract, park <- Published.lock.park,
               Unaimed <- NoAz

\* No restart, no adoption and no lost publish makes the bridges see a park re-aimed, a
\* lock taken back or a seq used twice (publishState, New, OwnState, computePark).
LockGrows == Bus!Spec
=============================================================================
