----------------------- MODULE PowerSeqSequenceProofs -----------------------
(***************************************************************************)
(* The sequences of PowerSeq and the state file: with a state file whose   *)
(* writes succeed, the phase on disk implements PhaseCycle and the resting *)
(* phases say what was sent.  With any file, no command overtakes a wait.  *)
(***************************************************************************)
EXTENDS PowerSeqCycle, PowerSeqSequences, PowerSeqProofs

(* The phase on disk goes around the cycle *)

\* From d on disk, e is the same or one move of the cycle ahead.
Ahead(d, e) ==
    \/ e.phase = d.phase /\ e.fault = d.fault /\ e.reason = d.reason
    \/ \E m \in Moves : /\ d.phase = m.from /\ e.phase = m.mid /\ e.fault = "none"
                        /\ e.reason = IF m.reason = "keep" THEN d.reason ELSE m.reason
    \/ /\ \E l \in ListNames : d.phase = MidPhase[l] /\ e.phase = EndPhase[l]
       /\ e.fault = "none" /\ e.reason = d.reason
    \/ /\ d.phase \in Moving \cup {"standby"} /\ e.phase = "idle"
       /\ e.fault \in Faults \ {"none"} /\ e.reason = d.reason

\* The file is what was last written; only a change of phase not yet written is ahead
\* of it.
DiskInv ==
    /\ Up => file = saved
    /\ pc = "persist" => Ahead(Durable, disp)

LEMMA AheadSteps ==
    ASSUME TypeInv, Ahead(Durable, disp), Durable' = disp
    PROVE  Cycle!Next \/ UNCHANGED <<Durable.phase, Durable.fault, Durable.reason>>
  <1> USE DEF Cycle!Next, Cycle!Moves, Cycle!Rest, Cycle!End
  <1>1. CASE disp.phase = Durable.phase /\ disp.fault = Durable.fault
                /\ disp.reason = Durable.reason
    BY <1>1
  <1>2. CASE \E m \in Moves : /\ Durable.phase = m.from /\ disp.phase = m.mid /\ disp.fault = "none"
                              /\ disp.reason = IF m.reason = "keep" THEN Durable.reason
                                               ELSE m.reason
    BY <1>2 DEF Moves, StopFrom, Resting, Move, Cycle!Start, Cycle!Stop, Cycle!IdleStop,
                    Cycle!EnterRest, Cycle!Wake
  <1>3. CASE /\ \E l \in ListNames : Durable.phase = MidPhase[l] /\ disp.phase = EndPhase[l]
             /\ disp.fault = "none" /\ disp.reason = Durable.reason
    BY <1>3 DEF ListNames, MidPhase, EndPhase, Cycle!Finish
  <1>4. CASE /\ Durable.phase \in Moving \cup {"standby"} /\ disp.phase = "idle"
             /\ disp.fault \in Faults \ {"none"} /\ disp.reason = Durable.reason
    BY <1>4 DEF Moving, Cycle!Fail, Cycle!Unconfigured
  <1> QED
    BY <1>1, <1>2, <1>3, <1>4 DEF Ahead

LEMMA InitCycle == Init => DiskInv /\ Cycle!Init
  BY DEF Init, DiskInv, Up, Durable, IdleDisp, OldStandby, Cycle!Init, Cycle!Rest

\* Where nothing waits to be written, the phase on disk is the sequencer's.
LEMMA Written ==
    ASSUME StateFile, TypeInv, PhaseInv, DiskInv, Up, pc # "persist"
    PROVE  Durable = disp /\ file # None
  BY DEF PhaseInv, SavedInv, DiskInv, Durable

LEMMA BeginAhead ==
    ASSUME NEW c, Begin(c), Durable = disp, Durable' = Durable
    PROVE  Ahead(Durable', disp')
  <1>1. PICK m \in Moves : /\ m.from = phase
                           /\ disp' = [phase |-> m.mid, step |-> 0, fault |-> "none",
                                       reason |-> IF m.reason = "keep" THEN disp.reason ELSE m.reason]
    BY DEF Begin
  <1>2. /\ Durable'.phase = m.from /\ disp'.phase = m.mid /\ disp'.fault = "none"
        /\ disp'.reason = IF m.reason = "keep" THEN Durable'.reason ELSE m.reason
    BY <1>1 DEF phase
  <1> QED
    BY <1>2 DEF Ahead

LEMMA CycleOthers ==
    ASSUME StateFile, ~WriteFaults, ~LosesFile, TypeInv, PhaseInv, DiskInv, Others
    PROVE  DiskInv' /\ Durable' = Durable
  <1>1. CASE \/ \E s \in Heard, on \in BOOLEAN : SetStatus(s, on)
             \/ \E s \in Heard : BadState(s)
             \/ \E hold \in BOOLEAN : SetAntMode(hold)
             \/ \E c \in {"start", "stop"} : Request(c)
             \/ Connect \/ Disconnect \/ Cancel \/ LoseFile \/ Wipe \/ Tick
    <2>1. UNCHANGED <<disp, pc, saved, file>>
      BY <1>1 DEF SetStatus, BadState, SetAntMode, Request, Connect, Disconnect, Cancel,
                  LoseFile, Wipe, Tick, core, runner, disk
    <2> QED
      BY <2>1 DEF DiskInv, Up, Durable
  <1>2. CASE Restart
    <2>1. file # None => file.disp \in Disp
      BY DEF TypeInv, TypeOK, DiskOK, Saved
    <2>2. Ahead(Durable, Restored)
      BY <2>1 DEF Ahead, Durable, Restored, IdleDisp, Disp, Faults
    <2> QED
      BY <1>2, <2>2 DEF Restart, RestoredClocks, DiskInv, Durable
  <1>3. CASE Crash
    BY <1>3 DEF Crash, Ended, DiskInv, Up, Durable
  <1> QED
    BY <1>1, <1>2, <1>3 DEF Others

LEMMA CycleRunner ==
    ASSUME StateFile, ~WriteFaults, ~LosesFile, TypeInv, PhaseInv, DiskInv, Runner
    PROVE  DiskInv' /\ (Cycle!Next \/ UNCHANGED <<Durable.phase, Durable.fault, Durable.reason>>)
  <1>0. Snap # None /\ Snap.disp = disp
    BY NoneAssumption DEF TypeInv, TypeOK, CoreOK, Snap, Saved
  <1>1. CASE PersistStep
    <2>1. file' = saved' /\ Durable' = disp /\ pc' = "publish"
      BY <1>0, <1>1 DEF PersistStep, Persist, Write, disk, DiskInv, Up, Durable
    <2>2. Ahead(Durable, disp)
      BY <1>1 DEF PersistStep, DiskInv
    <2> QED
      BY <2>1, <2>2, AheadSteps DEF DiskInv
  <1>2. CASE PublishState \/ Republish \/ ExecTimed
    BY <1>2 DEF PublishState, Republish, ExecTimed, core, disk, DiskInv, Up, Durable,
                TypeInv, TypeOK, RunnerOK
  <1>3. ASSUME TakeCmd \/ BeginIdle
        PROVE  DiskInv' /\ Durable' = Durable
    <2>1. Durable = disp /\ UNCHANGED <<saved, file>> /\ Up
      BY <1>3, Written DEF TakeCmd, BeginIdle, Up, disk
    <2>2. Durable' = Durable
      BY <2>1 DEF Durable
    <2>3. CASE \E c \in {"start", "stop", cmd} \cup {Head(cmdCh)} : Begin(c)
      BY <2>1, <2>2, <2>3, BeginAhead DEF DiskInv, Up
    <2>4. CASE UNCHANGED disp /\ pc' = "select"
      BY <2>1, <2>2, <2>4 DEF DiskInv, Up
    <2> QED
      BY <1>3, <2>2, <2>3, <2>4 DEF TakeCmd, BeginIdle
  <1>4. CASE IdleTick
    <2>1. Durable = disp /\ Up
      BY <1>4, Written DEF IdleTick, Up
    <2>2. file' = saved' /\ Durable' = disp /\ pc' # "persist"
      BY <1>0, <1>4, <2>1 DEF IdleTick, Persist, Write, disk, DiskInv, Up, Durable
    <2> QED
      BY <2>1, <2>2 DEF DiskInv
  <1>5. CASE Exit
    <2>1. Durable = disp /\ Up
      BY <1>5, Written DEF Exit, Up
    <2>2. Durable' = disp /\ pc' = "down"
      BY <1>0, <1>5, <2>1 DEF Exit, Ended, Write, Durable
    <2> QED
      BY <2>1, <2>2 DEF DiskInv, Up
  <1>6. ASSUME pc \in {"step", "exec", "wait", "delay"}, UNCHANGED disk,
               NEW f \in Faults,
               \/ f # "none" /\ Abort(f)
               \/ f = "none" /\ SetPhase(EndPhase[run.list], f)
               \/ pc' # "persist"
               \/ pc' = "persist" /\ disp'.phase = phase /\ disp'.fault = "none"
                    /\ disp'.reason = disp.reason,
               Up'
        PROVE  DiskInv' /\ Durable' = Durable
    <2>1. Durable = disp /\ Up
      BY <1>6, Written DEF Up
    <2>2. Durable' = Durable /\ file' = saved'
      BY <1>6, <2>1 DEF Durable, disk, DiskInv
    <2>3. phase = MidPhase[run.list] /\ run.list \in ListNames /\ disp.fault = "none"
      BY <1>6 DEF PhaseInv, MovingInv, InSequence, TypeInv, TypeOK, RunnerOK, Run
    <2>4. phase \in Moving
      BY <2>3, MidPhases
    <2>5. disp \in Disp
      BY DEF TypeInv, TypeOK, CoreOK
    <2>6. CASE f # "none" /\ Abort(f)
      BY <1>6, <2>1, <2>2, <2>4, <2>5, <2>6 DEF Abort, SetPhase, DiskInv, Ahead, phase, Disp
    <2>7. CASE f = "none" /\ SetPhase(EndPhase[run.list], f)
      BY <1>6, <2>1, <2>2, <2>3, <2>5, <2>7 DEF SetPhase, DiskInv, Ahead, phase, Disp
    <2>8. CASE pc' # "persist"
      BY <2>2, <2>8 DEF DiskInv
    <2>9. CASE pc' = "persist" /\ disp'.phase = phase /\ disp'.fault = "none"
                 /\ disp'.reason = disp.reason
      BY <2>1, <2>2, <2>3, <2>9 DEF DiskInv, Ahead, phase
    <2> QED
      BY <1>6, <2>2, <2>6, <2>7, <2>8, <2>9
  <1>7. CASE NextStep
    <2>1. CASE Abort("interrupted")
      BY <1>6, <1>7, <2>1 DEF NextStep, AllSteps, Faults, Abort, SetPhase, Up
    <2>2. CASE SetPhase(EndPhase[run.list], "none")
      BY <1>6, <1>7, <2>2 DEF NextStep, AllSteps, Faults, SetPhase, Up
    <2>3. CASE disp' = [disp EXCEPT !.step = run.at, !.fault = "none"] /\ pc' = "persist"
      <3>1. disp'.phase = phase /\ disp'.fault = "none" /\ disp'.reason = disp.reason
        BY <2>3 DEF phase, TypeInv, TypeOK, CoreOK, Disp
      <3> QED
        BY <1>6, <1>7, <2>3, <3>1 DEF NextStep, AllSteps, Faults, Up
    <2> QED
      BY <1>7, <2>1, <2>2, <2>3 DEF NextStep, AllSteps
  <1>8. CASE ExecCmd \/ ExecWol \/ Delay \/ Poll
    <2>1. CASE \E f \in {"broker", "publish", "wol", "interrupted", "timeout"} : Abort(f)
      BY <1>6, <1>8, <2>1 DEF ExecCmd, ExecWol, Delay, Poll, GiveUp, Faults, Abort, SetPhase,
              Up
    <2>2. CASE pc' \in {"step", "wait"}
      BY <1>6, <1>8, <2>2 DEF ExecCmd, ExecWol, Delay, Poll, TimedOut, GiveUp, Faults, Up
    <2> QED
      BY <1>8, <2>1, <2>2 DEF ExecCmd, ExecWol, Delay, Poll, TimedOut, GiveUp, Done
  <1> QED
    BY <1>1, <1>2, <1>3, <1>4, <1>5, <1>7, <1>8 DEF Runner

LEMMA CycleStep ==
    ASSUME StateFile, ~WriteFaults, ~LosesFile
    PROVE  TypeInv /\ PhaseInv /\ DiskInv /\ [Next]_vars
             => DiskInv' /\ [Cycle!Next]_<<Durable.phase, Durable.fault, Durable.reason>>
  <1>1. ASSUME DiskInv, UNCHANGED <<disp, pc, saved, file>>
        PROVE  DiskInv' /\ Durable' = Durable
    BY <1>1 DEF DiskInv, Up, Durable
  <1>2. ASSUME NEW s \in Heard, Receive(s) PROVE UNCHANGED <<disp, pc, saved, file>>
    BY <1>2 DEF Receive, SetState, runner, disk
  <1>3. ASSUME UNCHANGED vars PROVE UNCHANGED <<disp, pc, saved, file>>
    BY <1>3 DEF vars, core, runner, disk
  <1> QED
    BY <1>1, <1>2, <1>3, CycleOthers, CycleRunner DEF Next

\* Whatever crashes, restarts, lost connections and failed publishes do, the phase on
\* disk goes around the cycle one move at a time, and an interrupted move shows as an
\* idle with a fault: for every step list, timeout and queue length.
THEOREM CycleImplemented ==
    ASSUME StateFile, ~WriteFaults, ~LosesFile
    PROVE  Spec => DurableCycle
  BY InitCycle, CycleStep, Invariants, InitType, InitPhase, PTL
  DEF Spec, DurableCycle, Cycle!Spec
-----------------------------------------------------------------------------
(* What a resting phase says of the commands that were sent *)

OffAs(reason) ==
    \A s \in Slots :
        CASE reason = "none"          -> sent[s] = None
          [] reason = "operator"      -> Applied("shutdown", s)
          [] reason = "idle_shutdown" -> Applied("idle_shutdown", s)

RunsAs ==
    \/ \A s \in Slots : Applied("startup", s)
    \/ StandbyEnabled /\ \A s \in Slots : Applied("wake", s)

\* Display d is true to what was sent.
Truth(d) == /\ d.phase = "idle" /\ d.fault = "none" => OffAs(d.reason)
            /\ d.phase = "running" => RunsAs

\* Within a sequence the steps before run.at have been sent, and the stop reason is
\* that of the list.
Progress ==
    /\ run.at <= Len(Lists[run.list]) + 1
    /\ \A s \in Slots : AppliedTo(run.list, run.at - 1, s)
    /\ run.list = "shutdown" => disp.reason = "operator"
    /\ run.list = "idle_shutdown" => disp.reason = "idle_shutdown"
    /\ pc \in {"wait", "delay"} => Current.kind # "cmd"

\* Without step lists for it there is no standby.
StandbyInv ==
    ~StandbyEnabled => cmd = "none" /\ phase \notin {"standby", "entering_standby", "waking"}

\* The phase on disk is always true, the one in memory out of a sequence.
SentInv == /\ Truth(Durable)
           /\ Up /\ ~InSequence => Truth(disp)
           /\ InSequence => Progress
           /\ StandbyInv

\* The phase on disk of a sequence that has begun.
LEMMA Begun ==
    ASSUME StateFile, TypeInv, PhaseInv, DiskInv, pc \in {"step", "exec", "wait", "delay"}
    PROVE  /\ Durable = disp /\ file # None /\ Up /\ InSequence
           /\ phase \in Moving /\ phase = MidPhase[run.list] /\ run.list \in ListNames
           /\ Durable.phase \notin {"idle", "running"}
  <1>1. Up /\ InSequence
    BY DEF Up, InSequence
  <1>2. run.list \in ListNames
    BY DEF TypeInv, TypeOK, RunnerOK, Run
  <1>3. phase = MidPhase[run.list]
    BY <1>1 DEF PhaseInv, MovingInv
  <1>4. phase \in Moving
    BY <1>2, <1>3, MidPhases
  <1>5. Durable = disp /\ file # None
    BY <1>1, Written
  <1> QED
    BY <1>1, <1>2, <1>3, <1>4, <1>5 DEF Moving, phase

LEMMA InitSent == Init => SentInv
  <1> SUFFICES ASSUME Init PROVE SentInv
    OBVIOUS
  <1>1. Truth(Durable)
    <2>1. Durable.phase \in {"idle", "standby"} /\ Durable.reason = "none"
      BY DEF Init, Durable, OldStandby, IdleDisp
    <2>2. \A s \in Slots : sent[s] = None
      BY DEF Init
    <2> QED
      BY <2>1, <2>2 DEF Truth, OffAs
  <1>2. StandbyInv
    BY DEF Init, IdleDisp, StandbyInv, phase
  <1> QED
    BY <1>1, <1>2 DEF Init, SentInv, Up, InSequence

\* A step that moves the runner, but neither begins, advances nor ends a sequence.
LEMMA SentFrame ==
    ASSUME SentInv, UNCHANGED sent, UNCHANGED file \/ Truth(Durable)',
           UNCHANGED cmd \/ StandbyEnabled, InSequence' <=> InSequence, Up' <=> Up,
           disp'.phase = phase, disp'.fault = disp.fault, disp'.reason = disp.reason,
           run'.list = run.list, run'.at = run.at,
           UNCHANGED pc \/ pc' \notin {"wait", "delay"} \/ Current.kind # "cmd"
    PROVE  SentInv'
  <1>1. Truth(Durable)'
    <2>1. CASE UNCHANGED file
      BY <2>1 DEF SentInv, Truth, OffAs, RunsAs, Applied, AppliedTo, Durable
    <2> QED
      BY <2>1
  <1>2. (Up /\ ~InSequence => Truth(disp))'
    <2>1. Up /\ ~InSequence => Truth(disp)
      BY DEF SentInv
    <2>2. OffAs(disp.reason) => OffAs(disp.reason)'
      BY DEF OffAs, Applied, AppliedTo
    <2>3. RunsAs => RunsAs'
      BY DEF RunsAs, Applied, AppliedTo
    <2> QED
      BY <2>1, <2>2, <2>3 DEF Truth, phase
  <1>3. (InSequence => Progress)'
    BY DEF SentInv, Progress, AppliedTo, Current
  <1>4. StandbyInv'
    BY DEF SentInv, StandbyInv, phase
  <1> QED
    BY <1>1, <1>2, <1>3, <1>4 DEF SentInv

\* What is written is true.
LEMMA WrittenTrue ==
    ASSUME TypeInv, PhaseInv, SentInv, Up, UNCHANGED sent, Durable' \in {Durable, disp}
    PROVE  Truth(Durable)'
  <1>1. CASE Durable' = Durable
    BY <1>1 DEF SentInv, Truth, OffAs, RunsAs, Applied, AppliedTo
  <1>2. CASE Durable' = disp /\ InSequence
    <2>1. run.list \in ListNames
      BY DEF TypeInv, TypeOK, RunnerOK, Run
    <2>2. phase \in Moving
      BY <1>2, <2>1, MidPhases DEF PhaseInv, MovingInv
    <2> QED
      BY <1>2, <2>2 DEF Truth, Moving, phase
  <1>3. CASE Durable' = disp /\ ~InSequence
    BY <1>3 DEF SentInv, Truth, OffAs, RunsAs, Applied, AppliedTo
  <1> QED
    BY <1>1, <1>2, <1>3

\* begin(): nothing of the list is sent yet.
LEMMA SentBegin ==
    ASSUME TypeInv, PhaseInv, SentInv, Up, NEW c, Begin(c), c \in {"start", "stop", cmd},
           UNCHANGED <<sent, file>>, cmd' \in {cmd, "none"}
    PROVE  SentInv'
  <1>1. PICK m \in Moves : /\ m.cmd = c /\ m.from = phase
                           /\ disp' = [phase |-> m.mid, step |-> 0, fault |-> "none",
                                       reason |-> IF m.reason = "keep" THEN disp.reason ELSE m.reason]
                           /\ run' = [NoRun EXCEPT !.list = m.list]
                           /\ pc' = "persist" /\ ret' = "step"
    BY DEF Begin
  <1>2. /\ m.list = "shutdown" => m.reason = "operator"
        /\ m.list = "idle_shutdown" => m.reason = "idle_shutdown"
        /\ m.list \in ListNames
        /\ m.mid = "waking" => m.from = "standby"
        /\ m.mid = "entering_standby" => m.cmd = "standby"
        /\ m.mid # "standby"
    BY DEF Moves, StopFrom, Resting, Move, ListNames
  <1>3. run'.list = m.list /\ run'.at = 1
    BY <1>1 DEF NoRun
  <1>4. Progress'
    <2>1. Len(Lists[m.list]) \in Nat
      BY <1>2, ListTypes
    <2>2. run'.at <= Len(Lists[run'.list]) + 1
      BY <1>3, <2>1
    <2>3. \A s \in Slots : AppliedTo(run.list, run.at - 1, s)'
      BY <1>3 DEF AppliedTo
    <2>4. (run.list = "shutdown" => disp.reason = "operator")'
      BY <1>1, <1>2, <1>3
    <2>5. (run.list = "idle_shutdown" => disp.reason = "idle_shutdown")'
      BY <1>1, <1>2, <1>3
    <2> QED
      BY <1>1, <2>2, <2>3, <2>4, <2>5 DEF Progress
  <1>5. StandbyInv'
    BY <1>1, <1>2 DEF SentInv, StandbyInv, phase
  <1>6. Truth(Durable)'
    BY WrittenTrue DEF Durable
  <1>7. InSequence'
    BY <1>1 DEF InSequence
  <1> QED
    BY <1>4, <1>5, <1>6, <1>7 DEF SentInv

\* execStep succeeded: the step at run.at is sent, if it is a command.
LEMMA SentDone ==
    ASSUME StateFile, TypeInv, PhaseInv, DiskInv, SentInv, Done, UNCHANGED <<file, cmd>>,
           pc \in {"exec", "wait", "delay"},
           \/ Current.kind = "cmd" /\ sent' = Emitted
           \/ Current.kind # "cmd" /\ sent' = sent
    PROVE  SentInv'
  <1>0. /\ run.list \in ListNames /\ run.at \in Nat \ {0}
        /\ run.at <= Len(Lists[run.list]) /\ Len(Lists[run.list]) \in Nat
    BY ListTypes DEF TypeInv, TypeOK, RunnerOK, Run, StepExists, AtStep
  <1>1. run'.list = run.list /\ run'.at = run.at + 1 /\ pc' = "step" /\ disp' = disp
    BY DEF Done, NoRun, core
  <1>2. Durable' = Durable /\ Durable.phase \notin {"idle", "running"} /\ InSequence
    BY Begun DEF Durable
  <1>3. Truth(Durable)'
    BY <1>2 DEF Truth
  <1>4. \A s \in Slots : Sends(run.list, run.at, s) <=> Current.kind = "cmd" /\ s \in Current.slots
    BY DEF Sends, Current
  <1>5. \A s \in Slots : sent'[s] = IF Sends(run.list, run.at, s) THEN Lists[run.list][run.at].want
                                    ELSE sent[s]
    BY <1>4 DEF Emitted, Current
  <1>6. ASSUME NEW s \in Slots PROVE AppliedTo(run.list, run.at - 1, s)'
    <2>1. AppliedTo(run.list, run.at - 1, s)
      BY <1>2 DEF SentInv, Progress
    <2>2. SUFFICES ASSUME NEW i \in 1..run.at, Sends(run.list, i, s),
                          \A j \in i+1..run.at : ~Sends(run.list, j, s)
                   PROVE  sent'[s] = Lists[run.list][i].want
      BY <1>0, <1>1 DEF AppliedTo, Sends
    <2>3. CASE i = run.at
      BY <1>5, <2>2, <2>3
    <2>4. CASE i < run.at
      <3>1. i \in 1..run.at - 1 /\ ~Sends(run.list, run.at, s)
        BY <1>0, <2>2, <2>4
      <3>2. \A j \in i+1..run.at - 1 : ~Sends(run.list, j, s)
        BY <1>0, <2>2
      <3>3. sent[s] = Lists[run.list][i].want
        BY <2>1, <2>2, <3>1, <3>2 DEF AppliedTo
      <3> QED
        BY <1>5, <3>1, <3>3
    <2> QED
      BY <1>0, <2>3, <2>4
  <1>7. Progress'
    BY <1>0, <1>1, <1>2, <1>6 DEF SentInv, Progress
  <1>8. StandbyInv'
    BY <1>1 DEF SentInv, StandbyInv, phase
  <1>9. InSequence'
    BY <1>1 DEF InSequence
  <1> QED
    BY <1>3, <1>7, <1>8, <1>9 DEF SentInv

\* setPhase() at the end of a sequence: all of the list has been sent, or there is a fault.
LEMMA SentEnd ==
    ASSUME StateFile, TypeInv, PhaseInv, DiskInv, SentInv, UNCHANGED <<file, cmd>>,
           pc \in {"step", "exec", "wait", "delay"},
           \/ \E f \in Faults \ {"none"} : Abort(f)
           \/ /\ pc = "step" /\ AllSteps /\ SetPhase(EndPhase[run.list], "none")
              /\ sent' = sent
    PROVE  SentInv'
  <1>1. /\ Durable' = Durable /\ Durable.phase \notin {"idle", "running"} /\ InSequence
        /\ phase = MidPhase[run.list] /\ run.list \in ListNames
    BY Begun DEF Durable
  <1>2. Truth(Durable)'
    BY <1>1 DEF Truth
  <1>3. pc' = "persist" /\ ret' = "select" /\ ~InSequence'
    BY DEF Abort, SetPhase, InSequence
  <1>4. CASE \E f \in Faults \ {"none"} : Abort(f)
    <2>1. phase' = "idle" /\ disp'.fault # "none"
      BY <1>4 DEF Abort, SetPhase, phase, TypeInv, TypeOK, CoreOK, Disp
    <2> QED
      BY <1>2, <1>3, <2>1 DEF SentInv, Truth, StandbyInv, phase
  <1>5. CASE /\ AllSteps /\ SetPhase(EndPhase[run.list], "none") /\ sent' = sent
    <2>1. phase' = EndPhase[run.list] /\ disp'.reason = disp.reason
      BY <1>5 DEF SetPhase, phase, TypeInv, TypeOK, CoreOK, Disp
    <2>2. run.at - 1 = Len(Lists[run.list])
      BY <1>1, <1>5, ListTypes DEF SentInv, Progress, AllSteps, TypeInv, TypeOK, RunnerOK, Run
    <2>3. ASSUME NEW l \in ListNames, l = run.list PROVE \A s \in Slots : Applied(l, s)'
      <3>1. \A s \in Slots : AppliedTo(l, Len(Lists[l]), s)
        BY <1>1, <2>2, <2>3 DEF SentInv, Progress
      <3> QED
        BY <1>5, <3>1 DEF Applied, AppliedTo
    <2>4. run.list \in {"standby", "wake"} => StandbyEnabled
      BY <1>1 DEF SentInv, StandbyInv, MidPhase
    <2>5. StandbyInv'
      BY <1>1, <2>1, <2>4 DEF SentInv, StandbyInv, EndPhase, ListNames
    <2>6. Truth(disp)'
      <3>1. CASE run.list \in {"shutdown", "idle_shutdown"}
        <4>1. phase' = "idle" /\ disp'.reason = IF run.list = "shutdown" THEN "operator"
                                                ELSE "idle_shutdown"
          BY <1>1, <2>1, <3>1 DEF SentInv, Progress, EndPhase
        <4> QED
          BY <1>1, <2>3, <3>1, <4>1 DEF Truth, OffAs, phase
      <3>2. CASE run.list \in {"startup", "wake"}
        BY <1>1, <2>1, <2>3, <2>4, <3>2 DEF Truth, RunsAs, EndPhase, phase
      <3>3. CASE run.list = "standby"
        BY <2>1, <3>3 DEF Truth, EndPhase, phase
      <3> QED
        BY <1>1, <3>1, <3>2, <3>3 DEF ListNames
    <2> QED
      BY <1>2, <1>3, <2>5, <2>6 DEF SentInv
  <1> QED
    BY <1>4, <1>5

LEMMA SentOthers ==
    ASSUME StateFile, ~WriteFaults, ~LosesFile, TypeInv, PhaseInv, SentInv, Others
    PROVE  SentInv'
  <1>1. CASE \/ \E s \in Heard, on \in BOOLEAN : SetStatus(s, on)
             \/ \E s \in Heard : BadState(s)
             \/ \E hold \in BOOLEAN : SetAntMode(hold)
             \/ \E c \in {"start", "stop"} : Request(c)
             \/ Connect \/ Disconnect \/ Cancel \/ LoseFile \/ Wipe
    <2>1. UNCHANGED <<disp, pc, ret, run, cmd, sent, file>>
      BY <1>1 DEF SetStatus, BadState, SetAntMode, Request, Connect, Disconnect, Cancel,
                  LoseFile, Wipe, core, runner, disk, bus
    <2> QED
      BY <2>1, SentFrame DEF InSequence, Up, phase
  <1>2. CASE Restart
    <2>1. file # None => file.disp \in Disp
      BY DEF TypeInv, TypeOK, DiskOK, Saved
    <2>2. /\ disp' = Restored /\ UNCHANGED <<sent, file, cmd>> /\ ~InSequence'
      BY <1>2 DEF Restart, bus, InSequence
    <2>3. \/ disp'.fault # "none" /\ phase' = "idle"
          \/ /\ phase' = Durable.phase /\ disp'.fault = Durable.fault
             /\ disp'.reason = Durable.reason /\ (phase' = "standby" => StandbyEnabled)
             /\ phase' \notin Moving
      BY <2>1, <2>2 DEF Restored, Durable, IdleDisp, Disp, phase, Moving
    <2>4. Truth(Durable)' /\ Truth(disp)'
      BY <2>2, <2>3 DEF SentInv, Truth, OffAs, RunsAs, Applied, AppliedTo, Durable, phase
    <2>5. StandbyInv'
      BY <2>2, <2>3 DEF SentInv, StandbyInv, Moving
    <2> QED
      BY <2>2, <2>4, <2>5 DEF SentInv
  <1>3. CASE Crash
    BY <1>3, WrittenTrue DEF Crash, Ended, SentInv, Durable, InSequence, Up, StandbyInv, phase,
                             IdleDisp, bus
  <1>4. CASE Tick
    <2>1. run'.list = run.list /\ run'.at = run.at /\ UNCHANGED <<disp, pc, ret, cmd, sent, file>>
      BY <1>4 DEF Tick, disk, bus, TypeInv, TypeOK, RunnerOK, Run
    <2> QED
      BY <2>1, SentFrame DEF InSequence, Up, phase
  <1> QED
    BY <1>1, <1>2, <1>3, <1>4 DEF Others

LEMMA SentRunner ==
    ASSUME StateFile, ~WriteFaults, ~LosesFile, TypeInv, PhaseInv, DiskInv, SentInv, Runner
    PROVE  SentInv'
  <1>0. Snap # None /\ Snap.disp = disp /\ disp \in Disp
    BY NoneAssumption DEF TypeInv, TypeOK, CoreOK, Snap, Saved
  <1>1. CASE PersistStep
    <2>1. Up /\ UNCHANGED <<disp, ret, run, cmd, sent>> /\ pc' = "publish" /\ pc = "persist"
      BY <1>1 DEF PersistStep, Up, core, bus
    <2>2. Durable' \in {Durable, disp}
      BY <1>0, <1>1 DEF PersistStep, Persist, Write, disk, Durable
    <2>3. Truth(Durable)'
      BY <2>1, <2>2, WrittenTrue
    <2> QED
      BY <2>1, <2>3, SentFrame DEF InSequence, Up, phase
  <1>2. CASE PublishState \/ Republish \/ ExecTimed
    <2>1. /\ UNCHANGED <<disp, run, cmd, sent, file>>
          /\ (InSequence' <=> InSequence) /\ (Up' <=> Up)
          /\ pc' \in {"wait", "delay"} => Current.kind # "cmd"
      BY <1>2 DEF PublishState, Republish, ExecTimed, core, disk, bus, InSequence, Up,
                  TypeInv, TypeOK, RunnerOK
    <2> QED
      BY <2>1, SentFrame DEF phase
  <1>3. CASE TakeCmd
    <2>1. Head(cmdCh) \in {"start", "stop"} /\ Up /\ UNCHANGED <<cmd, sent, file>>
      BY <1>3 DEF TakeCmd, TypeInv, TypeOK, ChansOK, Up, bus, disk
    <2>2. CASE Begin(Head(cmdCh))
      BY <2>1, <2>2, SentBegin
    <2>3. CASE UNCHANGED <<disp, run, pc, ret>>
      BY <2>1, <2>3, SentFrame DEF InSequence, Up, phase
    <2> QED
      BY <1>3, <2>2, <2>3 DEF TakeCmd
  <1>4. CASE BeginIdle
    <2>1. Up /\ UNCHANGED <<sent, file>> /\ cmd' = "none"
      BY <1>4 DEF BeginIdle, Up, bus, disk
    <2>2. CASE Begin(cmd)
      BY <2>1, <2>2, SentBegin
    <2>3. CASE pc' = "select" /\ UNCHANGED <<disp, run, ret>>
      BY <1>4, <2>1, <2>3 DEF BeginIdle, SentInv, Truth, OffAs, RunsAs, Applied, AppliedTo,
                              Durable, InSequence, Up, StandbyInv, phase
    <2> QED
      BY <1>4, <2>2, <2>3 DEF BeginIdle
  <1>5. CASE IdleTick
    <2>1. /\ Up /\ UNCHANGED <<disp, run, ret, sent>> /\ StandbyEnabled
          /\ ~InSequence /\ ~InSequence' /\ Up' /\ pc' \notin {"wait", "delay"}
      BY <1>5 DEF IdleTick, Up, core, bus, InSequence
    <2>2. Durable' \in {Durable, disp}
      BY <1>0, <1>5 DEF IdleTick, Persist, Write, disk, Durable
    <2>3. Truth(Durable)'
      BY <2>1, <2>2, WrittenTrue
    <2> QED
      BY <2>1, <2>3, SentFrame DEF phase
  <1>6. CASE Exit
    <2>1. /\ Up /\ ~Up' /\ ~InSequence' /\ UNCHANGED sent
      BY <1>6 DEF Exit, Ended, Up, bus, InSequence
    <2>2. Durable' \in {Durable, disp}
      BY <1>0, <1>6 DEF Exit, Ended, Write, Durable
    <2>3. Truth(Durable)'
      BY <2>1, <2>2, WrittenTrue
    <2> QED
      BY <1>6, <2>1, <2>3 DEF Exit, Ended, SentInv, StandbyInv, IdleDisp, phase
  <1>7. CASE NextStep
    <2>1. UNCHANGED <<sent, file, cmd>> /\ pc = "step"
      BY <1>7 DEF NextStep, bus, disk
    <2>2. CASE Abort("interrupted")
      BY <2>1, <2>2, SentEnd DEF Faults
    <2>3. CASE AllSteps /\ SetPhase(EndPhase[run.list], "none")
      BY <2>1, <2>3, SentEnd
    <2>4. CASE /\ disp' = [disp EXCEPT !.step = run.at, !.fault = "none"]
               /\ pc' = "persist" /\ ret' = "exec" /\ UNCHANGED run
      <3>1. disp.fault = "none"
        BY <2>1 DEF PhaseInv, MovingInv, InSequence
      <3>2. disp'.phase = phase /\ disp'.fault = disp.fault /\ disp'.reason = disp.reason
        BY <1>0, <2>4, <3>1 DEF phase, Disp
      <3> QED
        BY <2>1, <2>4, <3>2, SentFrame DEF InSequence, Up
    <2> QED
      BY <1>7, <2>2, <2>3, <2>4 DEF NextStep
  <1>8. CASE ExecCmd
    <2>1. UNCHANGED <<file, cmd>> /\ pc = "exec" /\ Current.kind = "cmd"
      BY <1>8 DEF ExecCmd, disk
    <2>2. CASE Done /\ sent' = Emitted
      BY <2>1, <2>2, SentDone
    <2>3. CASE Abort("broker") \/ Abort("publish")
      BY <2>1, <2>3, SentEnd DEF Faults
    <2> QED
      BY <1>8, <2>2, <2>3 DEF ExecCmd
  <1>9. CASE ExecWol \/ Delay \/ Poll
    <2>1. UNCHANGED <<file, cmd, sent>> /\ pc \in {"exec", "wait", "delay"}
      BY <1>9 DEF ExecWol, Delay, Poll, disk, bus
    <2>2. CASE Done /\ Current.kind # "cmd"
      BY <2>1, <2>2, SentDone
    <2>3. CASE \E f \in {"wol", "interrupted", "broker", "timeout"} : Abort(f)
      BY <2>1, <2>3, SentEnd DEF Faults
    <2>4. CASE /\ run' = [run EXCEPT !.held = IF CondHolds THEN HeldFor ELSE -1]
               /\ UNCHANGED <<core, pc, ret>>
      <3>1. run'.list = run.list /\ run'.at = run.at
        BY <2>4 DEF TypeInv, TypeOK, RunnerOK, Run
      <3> QED
        BY <2>1, <2>4, <3>1, SentFrame DEF core, InSequence, Up, phase
    <2>5. pc \in {"wait", "delay"} => Current.kind # "cmd"
      BY DEF SentInv, Progress, InSequence
    <2> QED
      BY <1>9, <2>2, <2>3, <2>4, <2>5 DEF ExecWol, Delay, Poll, TimedOut, GiveUp
  <1> QED
    BY <1>1, <1>2, <1>3, <1>4, <1>5, <1>6, <1>7, <1>8, <1>9 DEF Runner

LEMMA SentStep ==
    ASSUME StateFile, ~WriteFaults, ~LosesFile
    PROVE  TypeInv /\ PhaseInv /\ DiskInv /\ SentInv /\ [Next]_vars => SentInv'
  <1>1. ASSUME SentInv, UNCHANGED <<disp, pc, ret, run, cmd, sent, file>>
        PROVE  SentInv'
    BY <1>1, SentFrame DEF InSequence, Up, phase
  <1>2. ASSUME NEW s \in Heard, Receive(s)
        PROVE  UNCHANGED <<disp, pc, ret, run, cmd, sent, file>>
    BY <1>2 DEF Receive, SetState, runner, disk, bus
  <1>3. ASSUME UNCHANGED vars
        PROVE  UNCHANGED <<disp, pc, ret, run, cmd, sent, file>>
    BY <1>3 DEF vars, core, runner, disk, bus
  <1> QED
    BY <1>1, <1>2, <1>3, SentOthers, SentRunner DEF Next

LEMMA SentAlways ==
    ASSUME StateFile, ~WriteFaults, ~LosesFile
    PROVE  HSpec => [](TypeInv /\ PhaseInv /\ SentInv)
  <1>1. HInit => Init
    BY DEF HInit
  <1>2. [HNext]_<<vars, met>> => [Next]_vars
    BY DEF HNext
  <1> QED
    BY <1>1, <1>2, InitType, TypeStep, InitPhase, PhaseStep, InitCycle, CycleStep, InitSent,
       SentStep, PTL DEF HSpec

\* A clean idle is what it says: whatever crashes, restarts, lost connections and
\* publishes of unknown outcome there were, nothing was ever switched, or all of the list
\* of the stop it names was sent and nothing after it.
THEOREM CleanIdleIsOff ==
    ASSUME StateFile, ~WriteFaults, ~LosesFile
    PROVE  HSpec => []FaultlessIdleIsOff
  <1>1. TypeInv /\ PhaseInv /\ SentInv => FaultlessIdleIsOff
    <2> SUFFICES ASSUME TypeInv, PhaseInv, SentInv, Up, phase = "idle"
                 PROVE  Truth(disp)
      BY DEF FaultlessIdleIsOff, Truth, OffAs, phase
    <2>1. run.list \in ListNames
      BY DEF TypeInv, TypeOK, RunnerOK, Run
    <2>2. ~InSequence
      BY <2>1, MidPhases DEF PhaseInv, MovingInv, Moving
    <2> QED
      BY <2>2 DEF SentInv
  <1> QED
    BY <1>1, SentAlways, PTL

\* A running phase means that all of the startup list, or of the wake list, was sent.
THEOREM RunningMeansOn ==
    ASSUME StateFile, ~WriteFaults, ~LosesFile
    PROVE  HSpec => []RunningIsOn
  <1>1. TypeInv /\ PhaseInv /\ SentInv => RunningIsOn
    <2> SUFFICES ASSUME TypeInv, PhaseInv, SentInv, Up, phase = "running"
                 PROVE  RunsAs
      BY DEF RunningIsOn, RunsAs
    <2>1. run.list \in ListNames
      BY DEF TypeInv, TypeOK, RunnerOK, Run
    <2>2. ~InSequence
      BY <2>1, MidPhases DEF PhaseInv, MovingInv, Moving
    <2> QED
      BY <2>2 DEF SentInv, Truth, phase
  <1> QED
    BY <1>1, SentAlways, PTL
-----------------------------------------------------------------------------
(* The waits before a command *)

IsWait(l, i) == Lists[l][i].kind \in {"wait_online", "wait_offline", "wait_state"}

\* Every wait before run.at has been seen to hold; a delay is no wait.
MetInv == /\ InSequence => \A i \in 1..run.at - 1 : IsWait(run.list, i) => i \in met
          /\ pc = "delay" => Current.kind = "delay"

\* The runner stays where it is.
Stays == /\ run'.list = run.list /\ run'.at = run.at /\ UNCHANGED sent
         /\ InSequence' => InSequence
         /\ pc' = "delay" => pc = "delay" \/ Current.kind = "delay"

\* It is at the head of a list, or at work on none.
AtHead == (InSequence' => run'.at = 1) /\ pc' # "delay"

\* It goes on to the next step.
Advances ==
    /\ run'.list = run.list /\ run'.at = run.at + 1 /\ InSequence /\ pc' = "step"
    /\ pc = "wait" => CondHolds /\ online
    /\ pc # "wait" => pc = "delay" \/ Current.kind \in {"cmd", "wol"}

\* Only a command at run.at is sent.
Emits == sent' # sent => pc = "exec" /\ Current.kind = "cmd"

LEMMA EndSteps ==
    ASSUME NEW ph, NEW f, SetPhase(ph, f)
    PROVE  AtHead
  BY DEF SetPhase, AtHead, InSequence

LEMMA RunnerSteps ==
    ASSUME TypeInv, Runner
    PROVE  (Stays \/ AtHead \/ Advances) /\ Emits
  <1>1. CASE PersistStep \/ PublishState \/ IdleTick \/ Republish \/ ExecTimed
    <2>1. UNCHANGED <<run, sent>>
      BY <1>1 DEF PersistStep, PublishState, IdleTick, Republish, ExecTimed, bus
    <2>2. (InSequence' => InSequence) /\ (pc' = "delay" => Current.kind = "delay")
      BY <1>1 DEF PersistStep, PublishState, IdleTick, Republish, ExecTimed, InSequence,
                  TypeInv, TypeOK, RunnerOK
    <2> QED
      BY <2>1, <2>2 DEF Stays, Emits
  <1>2. CASE TakeCmd \/ BeginIdle
    <2>1. UNCHANGED sent
      BY <1>2 DEF TakeCmd, BeginIdle, bus
    <2>2. CASE \E c \in {cmd, Head(cmdCh)} : Begin(c)
      <3>1. pc' = "persist" /\ \E l \in ListNames : run' = [NoRun EXCEPT !.list = l]
        BY <2>2 DEF Begin, Moves, StopFrom, Resting, Move, ListNames
      <3> QED
        BY <2>1, <3>1 DEF AtHead, Emits, NoRun
    <2>3. CASE pc' = "select" /\ UNCHANGED run
      BY <2>1, <2>3 DEF AtHead, InSequence, Emits
    <2> QED
      BY <1>2, <2>2, <2>3 DEF TakeCmd, BeginIdle
  <1>3. CASE Exit
    BY <1>3 DEF Exit, Ended, bus, AtHead, InSequence, Emits
  <1>4. CASE NextStep
    <2>1. UNCHANGED sent /\ pc = "step"
      BY <1>4 DEF NextStep, bus
    <2>2. CASE pc' = "persist" /\ ret' = "exec" /\ UNCHANGED run
      BY <2>1, <2>2 DEF Stays, InSequence, Emits
    <2> QED
      BY <1>4, <2>1, <2>2, EndSteps DEF NextStep, Abort, Emits
  <1>5. CASE ExecCmd
    <2>1. pc = "exec" /\ Current.kind = "cmd"
      BY <1>5 DEF ExecCmd
    <2>2. CASE Done
      BY <2>1, <2>2 DEF Done, NoRun, Advances, InSequence, Emits
    <2> QED
      BY <1>5, <2>1, <2>2, EndSteps DEF ExecCmd, Abort, Emits
  <1>6. CASE ExecWol \/ Delay
    <2>1. UNCHANGED sent /\ (pc = "delay" \/ (pc = "exec" /\ Current.kind = "wol"))
      BY <1>6 DEF ExecWol, Delay, bus
    <2>2. CASE Done
      BY <2>1, <2>2 DEF Done, NoRun, Advances, InSequence, Emits
    <2> QED
      BY <1>6, <2>1, <2>2, EndSteps DEF ExecWol, Delay, Abort, Emits
  <1>7. CASE Poll
    <2>1. UNCHANGED sent /\ pc = "wait"
      BY <1>7 DEF Poll, bus
    <2>2. CASE Done /\ CondHolds /\ online
      BY <2>1, <2>2 DEF Done, NoRun, Advances, InSequence, Emits
    <2>3. CASE /\ run' = [run EXCEPT !.held = IF CondHolds THEN HeldFor ELSE -1]
               /\ UNCHANGED <<core, pc, ret>>
      <3>1. run'.list = run.list /\ run'.at = run.at
        BY <2>3 DEF TypeInv, TypeOK, RunnerOK, Run
      <3> QED
        BY <2>1, <2>3, <3>1 DEF Stays, InSequence, Emits
    <2> QED
      BY <1>7, <2>1, <2>2, <2>3, EndSteps DEF Poll, GiveUp, Abort, Emits
  <1> QED
    BY <1>1, <1>2, <1>3, <1>4, <1>5, <1>6, <1>7 DEF Runner

LEMMA StepKinds ==
    ASSUME TypeInv, [Next]_vars
    PROVE  (Stays \/ AtHead \/ Advances) /\ Emits
  <1>1. ASSUME UNCHANGED <<pc, ret, run, sent>> PROVE Stays /\ Emits
    BY <1>1 DEF Stays, InSequence, Emits
  <1>2. ASSUME NEW s \in Heard, Receive(s) PROVE UNCHANGED <<pc, ret, run, sent>>
    BY <1>2 DEF Receive, SetState, runner, bus
  <1>3. CASE UNCHANGED vars
    BY <1>1, <1>3 DEF vars, runner, bus
  <1>4. CASE Others
    <2>1. CASE \/ \E s \in Heard, on \in BOOLEAN : SetStatus(s, on)
               \/ \E s \in Heard : BadState(s)
               \/ \E hold \in BOOLEAN : SetAntMode(hold)
               \/ \E c \in {"start", "stop"} : Request(c)
               \/ Connect \/ Disconnect \/ Cancel \/ LoseFile \/ Wipe
      BY <1>1, <2>1 DEF SetStatus, BadState, SetAntMode, Request, Connect, Disconnect, Cancel,
                        LoseFile, Wipe, runner, bus
    <2>2. CASE Restart \/ Crash
      BY <2>2 DEF Restart, Crash, Ended, bus, AtHead, InSequence, Emits
    <2>3. CASE Tick
      <3>1. run'.list = run.list /\ run'.at = run.at /\ UNCHANGED <<pc, ret, sent>>
        BY <2>3 DEF Tick, bus, TypeInv, TypeOK, RunnerOK, Run
      <3> QED
        BY <3>1 DEF Stays, InSequence, Emits
    <2> QED
      BY <1>4, <2>1, <2>2, <2>3 DEF Others
  <1> QED
    BY <1>1, <1>2, <1>3, <1>4, RunnerSteps DEF Next

LEMMA MetStep == TypeInv /\ MetInv /\ [HNext]_<<vars, met>> => MetInv'
  <1> SUFFICES ASSUME TypeInv, MetInv, [HNext]_<<vars, met>> PROVE MetInv'
    OBVIOUS
  <1>1. Stays \/ AtHead \/ Advances
    BY StepKinds DEF HNext
  <1>2. /\ run'.at = 1 \/ met \subseteq met'
        /\ pc = "wait" /\ CondHolds /\ online /\ run'.at # run.at => run.at \in met'
    BY DEF HNext, Remember, NoRun, vars, runner
  <1>3. CASE AtHead
    BY <1>3 DEF AtHead, MetInv
  <1>4. CASE Stays
    BY <1>2, <1>4 DEF Stays, MetInv, IsWait, Current
  <1>5. CASE Advances
    <2>1. run.at \in Nat \ {0}
      BY DEF TypeInv, TypeOK, RunnerOK, Run
    <2>2. IsWait(run.list, run.at) => run.at \in met'
      BY <1>2, <1>5, <2>1 DEF Advances, MetInv, IsWait, Current
    <2>3. met \subseteq met'
      BY <1>2, <1>5, <2>1 DEF Advances
    <2>4. \A i \in 1..run.at : IsWait(run.list, i) => i \in met'
      BY <1>5, <2>1, <2>2, <2>3 DEF Advances, MetInv
    <2> QED
      BY <1>5, <2>1, <2>4 DEF Advances, MetInv, IsWait
  <1> QED
    BY <1>1, <1>3, <1>4, <1>5

\* No command is sent before the runner has seen each wait ahead of it in the list hold
\* during this very sequence: in every configuration, with any connection.
THEOREM WaitsComeFirst == HSpec => EmittedAfterWaits
  <1>1. HInit => Init /\ MetInv
    BY DEF HInit, Init, NoRun, MetInv, InSequence
  <1>2. [HNext]_<<vars, met>> => [Next]_vars
    BY DEF HNext
  <1>3. TypeInv /\ MetInv /\ [HNext]_<<vars, met>>
          => [sent' # sent =>
                \A i \in 1..run.at : Lists[run.list][i].kind \in {"wait_online", "wait_offline", "wait_state"}
                                     => i \in met]_<<vars, met>>
    <2> SUFFICES ASSUME TypeInv, MetInv, [Next]_vars, sent' # sent,
                        NEW i \in 1..run.at, IsWait(run.list, i)
                 PROVE  i \in met
      BY <1>2 DEF IsWait
    <2>1. pc = "exec" /\ Current.kind = "cmd" /\ InSequence
      BY StepKinds DEF Emits, InSequence
    <2>2. i \in 1..run.at - 1
      BY <2>1 DEF IsWait, Current, TypeInv, TypeOK, RunnerOK, Run
    <2> QED
      BY <2>1, <2>2 DEF MetInv
  <1> QED
    BY <1>1, <1>2, <1>3, MetStep, InitType, TypeStep, PTL DEF HSpec, EmittedAfterWaits
=============================================================================
