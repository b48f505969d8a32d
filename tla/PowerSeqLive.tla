---------------------------- MODULE PowerSeqLive ----------------------------
(***************************************************************************)
(* What PowerSeq must eventually do.                                       *)
(***************************************************************************)
EXTENDS PowerSeq

\* A process that stays up: what follows is not promised of one that is stopped or dies.
LiveNext == Next /\ (Up => pc' # "down")

\* The runner goroutine and the clock do not stop.  Go's select picks among the
\* ready cases at random, so endless commands starve neither the ticker nor
\* republishCh.
Fairness == /\ WF_vars(Runner) /\ WF_vars(Tick)
            /\ SF_vars(IdleTick) /\ SF_vars(Republish)

LiveSpec == Init /\ [][LiveNext]_vars /\ Fairness
-----------------------------------------------------------------------------
\* Every sequence ends: no wait, delay, lost connection or failing publish holds
\* the runner for good, and there is no cancel to free it.
SequenceEnds == phase \in Moving ~> phase \in Resting

\* If the connection stays up and the sequencer comes to rest, the retained /state
\* is in the end the sequencer's, also after the broker lost it.
StateIsPublished ==
    <>[](Up /\ online) => [](phase \in Resting => <>(published = disp \/ phase \notin Resting))
=============================================================================
