--------------------------- MODULE PowerSeqProofs ---------------------------
(***************************************************************************)
(* Proofs about PowerSeq: type correctness, for every configuration.       *)
(***************************************************************************)
EXTENDS PowerSeq, TLAPS

\* The runner is at a step that the list has.
AtStep == \/ pc \in {"exec", "wait", "delay"}
          \/ pc \in {"persist", "publish"} /\ ret = "exec"

StepExists == AtStep => run.at <= Len(Lists[run.list])

TypeInv == TypeOK /\ StepExists

LEMMA ConstantTypes ==
    /\ Never \in Int /\ Never <= 0
    /\ MaxTime \in Nat /\ WatchSettle \in Nat /\ AntModeHold \in Nat /\ QueueCap \in Nat
    /\ QueueCap > 0
    /\ None \notin Values
    /\ WatchSlots \subseteq Slots
    /\ \A s \in Slots : Payloads[s] \subseteq Snapshot
  BY ParameterAssumption, ConfigAssumption DEF Never

LEMMA EmptyQueue == <<>> \in Seq({"start", "stop"}) /\ Len(<<>>) <= QueueCap
  <1>1. \A q : q = <<>> => q \in Seq({"start", "stop"}) /\ Len(q) = 0
    OBVIOUS
  <1> QED
    BY <1>1, ConstantTypes

LEMMA ListTypes ==
    ASSUME NEW l \in ListNames
    PROVE  Len(Lists[l]) \in Nat /\ \A i \in 1..Len(Lists[l]) : Lists[l][i] \in Step
  <1>1. Lists[l] \in Seq(Step)
    BY ConfigAssumption
  <1> QED
    BY <1>1

LEMMA StepTypes ==
    ASSUME TypeInv, AtStep
    PROVE  Current \in Step
  <1>1. run.list \in ListNames /\ run.at \in 1..Len(Lists[run.list])
    BY ListTypes DEF TypeInv, TypeOK, RunnerOK, StepExists, Run
  <1> QED
    BY <1>1, ListTypes DEF Current

LEMMA RecordTypes ==
    IdleDisp \in Disp /\ NoClocks \in Clocks /\ NoRun \in Run /\ OldStandby \in Saved
  <1>1. IdleDisp \in Disp /\ OldStandby.disp \in Disp
    BY DEF IdleDisp, OldStandby, Disp, Phases, Resting, Moving, Faults, Reasons
  <1>2. NoClocks \in Clocks
    BY ConstantTypes DEF NoClocks, Clocks, Time
  <1>3. NoRun \in Run
    BY DEF NoRun, Run, ListNames
  <1> QED
    BY <1>1, <1>2, <1>3 DEF OldStandby, Saved

\* A group of variables that a step leaves alone stays typed.
LEMMA Frame ==
    /\ CoreOK /\ UNCHANGED core => CoreOK'
    /\ InputsOK /\ UNCHANGED inputs => InputsOK'
    /\ ChansOK /\ UNCHANGED chans => ChansOK'
    /\ RunnerOK /\ UNCHANGED runner => RunnerOK'
    /\ DiskOK /\ UNCHANGED disk => DiskOK'
    /\ BusOK /\ UNCHANGED bus => BusOK'
  <1>1. CoreOK /\ UNCHANGED core => CoreOK'
    BY DEF CoreOK, core
  <1>2. InputsOK /\ UNCHANGED inputs => InputsOK'
    BY DEF InputsOK, inputs
  <1>3. ChansOK /\ UNCHANGED chans => ChansOK'
    BY DEF ChansOK, chans
  <1>4. RunnerOK /\ UNCHANGED runner => RunnerOK'
    BY DEF RunnerOK, runner
  <1>5. DiskOK /\ UNCHANGED disk => DiskOK'
    BY DEF DiskOK, disk
  <1>6. BusOK /\ UNCHANGED bus => BusOK'
    BY DEF BusOK, bus
  <1> QED
    BY <1>1, <1>2, <1>3, <1>4, <1>5, <1>6

\* setPhase to a phase and a fault that exist.
LEMMA SetPhaseTypes ==
    ASSUME TypeOK, NEW ph \in Phases, NEW f \in Faults, SetPhase(ph, f)
    PROVE  CoreOK' /\ run' \in Run /\ pc' = "persist" /\ ret' = "select"
  <1>1. disp' \in Disp
    BY DEF SetPhase, TypeOK, CoreOK, Disp
  <1>2. clk' \in Clocks
    <2>1. now \in Time
      BY ConstantTypes DEF TypeOK, Time
    <2> QED
      BY <2>1 DEF SetPhase, TypeOK, CoreOK, Clocks
  <1>3. settle' \in Nat
    BY ConstantTypes DEF SetPhase, TypeOK, CoreOK
  <1> QED
    BY <1>1, <1>2, <1>3, RecordTypes DEF SetPhase, CoreOK

LEMMA BeginTypes ==
    ASSUME TypeOK, NEW c, Begin(c)
    PROVE  disp' \in Disp /\ run' \in Run /\ pc' = "persist" /\ ret' = "step"
  <1>1. PICK m \in Moves : /\ disp' = [phase |-> m.mid, step |-> 0, fault |-> "none",
                                      reason |-> IF m.reason = "keep" THEN disp.reason ELSE m.reason]
                           /\ run' = [NoRun EXCEPT !.list = m.list]
                           /\ pc' = "persist" /\ ret' = "step"
    BY DEF Begin
  <1>2. m.mid \in Phases /\ m.list \in ListNames /\ m.reason \in Reasons \cup {"keep"}
    BY DEF Moves, StopFrom, Resting, Move, Phases, Moving, ListNames, Reasons
  <1>3. disp' \in Disp
    BY <1>1, <1>2 DEF TypeOK, CoreOK, Disp, Faults
  <1>4. run' \in Run
    BY <1>1, <1>2, RecordTypes DEF Run
  <1> QED
    BY <1>1, <1>3, <1>4

LEMMA DoneTypes ==
    ASSUME TypeOK, Done
    PROVE  run' \in Run /\ pc' = "step" /\ UNCHANGED <<core, ret>>
  <1>1. run.list \in ListNames /\ run.at + 1 \in Nat \ {0}
    BY DEF TypeOK, RunnerOK, Run
  <1>2. run' \in Run
    BY <1>1, RecordTypes DEF Done, Run
  <1> QED
    BY <1>2 DEF Done

\* A process that is gone.
LEMMA EndedTypes ==
    ASSUME TypeOK, Ended
    PROVE  CoreOK' /\ InputsOK' /\ ChansOK' /\ RunnerOK' /\ ~AtStep'
  <1> USE RecordTypes, ConstantTypes DEF Ended
  <1>1. CoreOK'
    BY DEF CoreOK
  <1>2. InputsOK'
    BY DEF InputsOK
  <1>3. ChansOK'
    <2>1. cmdCh' = <<>> /\ republish' = FALSE
      OBVIOUS
    <2> QED
      BY <2>1, EmptyQueue DEF ChansOK
  <1>4. RunnerOK' /\ ~AtStep'
    BY DEF RunnerOK, AtStep
  <1> QED
    BY <1>1, <1>2, <1>3, <1>4

LEMMA InitType == Init => TypeInv
  <1> SUFFICES ASSUME Init PROVE TypeInv
    OBVIOUS
  <1> USE RecordTypes, ConstantTypes DEF Init
  <1>1. CoreOK
    BY DEF CoreOK
  <1>2. InputsOK
    BY DEF InputsOK
  <1>3. ChansOK
    <2>1. cmdCh = <<>> /\ republish = FALSE
      OBVIOUS
    <2> QED
      BY <2>1, EmptyQueue DEF ChansOK
  <1>4. RunnerOK /\ ~AtStep
    BY DEF RunnerOK, AtStep
  <1>5. DiskOK
    BY DEF DiskOK
  <1>6. BusOK
    BY DEF BusOK
  <1> QED
    BY <1>1, <1>2, <1>3, <1>4, <1>5, <1>6 DEF TypeInv, TypeOK, StepExists

\* Observations and commands: they change inputs and channels, and of the core the clocks.
LEMMA TypeOthers ==
    ASSUME TypeInv, Others
    PROVE  TypeInv'
  <1> USE DEF TypeInv, TypeOK, StepExists
  <1>1. CASE \E s \in Heard, on \in BOOLEAN : SetStatus(s, on)
    <2>1. InputsOK'
      BY <1>1 DEF SetStatus, InputsOK, Heard
    <2> QED
      BY <1>1, <2>1, Frame DEF SetStatus, AtStep, runner
  <1>2. CASE \E s \in Heard : BadState(s)
    <2>1. InputsOK'
      BY <1>2 DEF BadState, InputsOK, Heard
    <2> QED
      BY <1>2, <2>1, Frame DEF BadState, AtStep, runner
  <1>3. CASE \E hold \in BOOLEAN : SetAntMode(hold)
    <2>1. InputsOK'
      BY <1>3 DEF SetAntMode, InputsOK
    <2>2. CoreOK'
      BY <1>3, ConstantTypes DEF SetAntMode, CoreOK, Clocks, Time
    <2> QED
      BY <1>3, <2>1, <2>2, Frame DEF SetAntMode, AtStep, runner
  <1>4. CASE Connect
    <2>1. InputsOK' /\ ChansOK'
      BY <1>4, ConstantTypes DEF Connect, RequestRepublish, InputsOK, ChansOK
    <2> QED
      BY <1>4, <2>1, Frame DEF Connect, RequestRepublish, AtStep, runner
  <1>5. CASE Disconnect
    <2>1. InputsOK'
      BY <1>5 DEF Disconnect, InputsOK
    <2> QED
      BY <1>5, <2>1, Frame DEF Disconnect, AtStep, runner
  <1>6. CASE \E c \in {"start", "stop"} : Request(c)
    <2>1. ChansOK'
      BY <1>6, ConstantTypes DEF Request, Room, ChansOK
    <2> QED
      BY <1>6, <2>1, Frame DEF Request, Room, AtStep, runner
  <1>7. CASE Restart
    <2>1. InputsOK' /\ ChansOK'
      BY <1>7, ConstantTypes DEF Restart, RestoredClocks, InputsOK, ChansOK
    <2>2. file # None => file.disp \in Disp /\ file.clk \in Clocks
      BY DEF DiskOK, Saved
    <2>3. disp' \in Disp
      BY <1>7, <2>2, RecordTypes DEF Restart, RestoredClocks, Restored, Disp, Faults
    <2>4. CoreOK'
      BY <1>7, <2>2, <2>3, RecordTypes, ConstantTypes DEF Restart, RestoredClocks, CoreOK
    <2>5. RunnerOK' /\ ~AtStep'
      BY <1>7 DEF Restart, RestoredClocks, RunnerOK, AtStep
    <2>6. DiskOK'
      BY <1>7 DEF Restart, RestoredClocks, DiskOK
    <2> QED
      BY <1>7, <2>1, <2>4, <2>5, <2>6, Frame DEF Restart, RestoredClocks
  <1>8. CASE Cancel
    <2>1. RunnerOK'
      BY <1>8 DEF Cancel, RunnerOK
    <2> QED
      BY <1>8, <2>1, Frame DEF Cancel, AtStep
  <1>9. CASE Crash
    <2>1. CoreOK' /\ InputsOK' /\ ChansOK' /\ RunnerOK' /\ ~AtStep'
      BY <1>9, EndedTypes DEF Crash
    <2>2. DiskOK'
      BY <1>9 DEF Crash, Ended, DiskOK
    <2> QED
      BY <1>9, <2>1, <2>2, Frame DEF Crash
  <1>10. CASE LoseFile
    <2>1. DiskOK'
      BY <1>10 DEF LoseFile, DiskOK
    <2> QED
      BY <1>10, <2>1, Frame DEF LoseFile, AtStep, runner
  <1>11. CASE Wipe
    <2>1. BusOK'
      BY <1>11 DEF Wipe, BusOK
    <2> QED
      BY <1>11, <2>1, Frame DEF Wipe, AtStep, runner
  <1>12. CASE Tick
    <2>1. settle' \in Nat /\ antModeWait' \in Nat /\ now' \in 0..MaxTime
      BY <1>12, ConstantTypes DEF Tick, Less, CoreOK, InputsOK
    <2>2. CoreOK' /\ InputsOK'
      BY <1>12, <2>1 DEF Tick, CoreOK, InputsOK
    <2>3. run' \in Run /\ run'.at = run.at /\ run'.list = run.list
      <3> DEFINE w == IF pc \in {"wait", "delay"} /\ run.waited <= Current.span
                      THEN run.waited + 1 ELSE run.waited
                 h == IF pc = "wait" /\ run.held # -1 /\ run.held < Current.hold
                      THEN run.held + 1 ELSE run.held
      <3>1. run \in Run /\ run.waited \in Nat /\ run.held \in Nat \cup {-1}
        BY DEF RunnerOK, Run
      <3>2. w \in Nat /\ h \in Nat \cup {-1}
        BY <3>1
      <3>3. run' = [run EXCEPT !.waited = w, !.held = h]
        BY <1>12 DEF Tick
      <3> HIDE DEF w, h
      <3> QED
        BY <3>1, <3>2, <3>3 DEF Run
    <2>4. RunnerOK' /\ (AtStep' <=> AtStep)
      BY <1>12, <2>3 DEF Tick, RunnerOK, AtStep
    <2> QED
      BY <1>12, <2>1, <2>2, <2>3, <2>4, Frame DEF Tick
  <1> QED
    BY <1>1, <1>2, <1>3, <1>4, <1>5, <1>6, <1>7, <1>8, <1>9, <1>10, <1>11, <1>12 DEF Others

\* The publications and writes that follow every change of the phase.
LEMMA TypeRunner ==
    ASSUME TypeInv, Runner
    PROVE  TypeInv'
  <1> USE DEF TypeInv, TypeOK, StepExists
  <1>0. Snap \in Saved
    BY DEF CoreOK, Snap, Saved
  <1>1. CASE PersistStep
    <2>1. DiskOK'
      BY <1>0, <1>1 DEF PersistStep, Persist, Write, DiskOK, disk
    <2>2. RunnerOK' /\ (AtStep' <=> AtStep) /\ UNCHANGED run
      BY <1>1 DEF PersistStep, RunnerOK, AtStep
    <2> QED
      BY <1>1, <2>1, <2>2, Frame DEF PersistStep
  <1>2. CASE PublishState
    <2>1. BusOK'
      BY <1>2 DEF PublishState, BusOK, CoreOK
    <2>2. RunnerOK' /\ (AtStep' => AtStep) /\ UNCHANGED run
      BY <1>2 DEF PublishState, RunnerOK, AtStep
    <2> QED
      BY <1>2, <2>1, <2>2, Frame DEF PublishState
  <1>3. CASE TakeCmd
    <2>1. disp' \in Disp /\ RunnerOK' /\ ~AtStep'
      BY <1>3, BeginTypes DEF TakeCmd, CoreOK, RunnerOK, AtStep
    <2>2. CoreOK'
      BY <1>3, <2>1 DEF TakeCmd, CoreOK
    <2>3. ChansOK'
      BY <1>3, ConstantTypes DEF TakeCmd, ChansOK
    <2> QED
      BY <1>3, <2>1, <2>2, <2>3, Frame DEF TakeCmd
  <1>4. CASE IdleTick
    <2>1. DiskOK'
      BY <1>0, <1>4 DEF IdleTick, Persist, Write, DiskOK, disk
    <2>2. IdleDecision \in {"none", "standby", "wake", "idle_shutdown"}
      BY DEF IdleDecision
    <2>3. RunnerOK' /\ ~AtStep'
      BY <1>4, <2>2 DEF IdleTick, RunnerOK, AtStep
    <2> QED
      BY <1>4, <2>1, <2>3, Frame DEF IdleTick
  <1>5. CASE BeginIdle
    <2>1. disp' \in Disp /\ RunnerOK' /\ ~AtStep'
      BY <1>5, BeginTypes DEF BeginIdle, CoreOK, RunnerOK, AtStep
    <2>2. CoreOK'
      BY <1>5, <2>1 DEF BeginIdle, CoreOK
    <2> QED
      BY <1>5, <2>1, <2>2, Frame DEF BeginIdle
  <1>6. CASE Republish
    <2>1. RunnerOK' /\ ~AtStep' /\ ChansOK'
      BY <1>6 DEF Republish, RunnerOK, AtStep, ChansOK
    <2> QED
      BY <1>6, <2>1, Frame DEF Republish
  <1>7. CASE Exit
    <2>1. CoreOK' /\ InputsOK' /\ ChansOK' /\ RunnerOK' /\ ~AtStep'
      BY <1>7, EndedTypes DEF Exit
    <2>2. DiskOK'
      BY <1>0, <1>7 DEF Exit, Write, Ended, DiskOK
    <2> QED
      BY <1>7, <2>1, <2>2, Frame DEF Exit
  <1>8. CASE NextStep
    <2>1. run.list \in ListNames /\ run.at \in Nat \ {0} /\ Len(Lists[run.list]) \in Nat
      BY ListTypes DEF RunnerOK, Run
    <2>2. /\ EndPhase[run.list] \in Phases /\ "idle" \in Phases
          /\ {"none", "interrupted"} \subseteq Faults
      BY <2>1 DEF EndPhase, ListNames, Phases, Resting, Faults
    <2>3. CASE SetPhase(EndPhase[run.list], "none") \/ Abort("interrupted")
      <3>1. CoreOK' /\ run' \in Run /\ pc' = "persist" /\ ret' = "select"
        BY <2>2, <2>3, SetPhaseTypes DEF Abort
      <3>2. RunnerOK' /\ ~AtStep'
        BY <1>8, <3>1 DEF NextStep, AllSteps, RunnerOK, AtStep
      <3> QED
        BY <1>8, <3>1, <3>2, Frame DEF NextStep, AllSteps
    <2>4. CASE /\ run.at <= Len(Lists[run.list])
               /\ disp' = [disp EXCEPT !.step = run.at, !.fault = "none"]
               /\ pc' = "persist" /\ ret' = "exec"
               /\ UNCHANGED <<clk, settle, run>>
      <3>1. disp' \in Disp
        BY <2>1, <2>2, <2>4 DEF CoreOK, Disp
      <3>2. CoreOK' /\ RunnerOK' /\ StepExists'
        BY <1>8, <2>4, <3>1 DEF NextStep, AllSteps, CoreOK, RunnerOK
      <3> QED
        BY <1>8, <3>2, Frame DEF NextStep, AllSteps
    <2> QED
      BY <1>8, <2>1, <2>3, <2>4 DEF NextStep, AllSteps
  <1>9. ASSUME NEW f \in Faults, Abort(f) \/ Done,
               UNCHANGED <<inputs, chans, cmd, cancelled, disk, now>>, BusOK'
        PROVE  TypeInv'
    <2>1. CASE Abort(f)
      <3>1. CoreOK' /\ run' \in Run /\ pc' = "persist" /\ ret' = "select"
        BY <2>1, SetPhaseTypes DEF Abort, Phases, Resting
      <3>2. RunnerOK' /\ ~AtStep'
        BY <1>9, <3>1 DEF RunnerOK, AtStep
      <3> QED
        BY <1>9, <3>1, <3>2, Frame
    <2>2. CASE Done
      <3>1. run' \in Run /\ pc' = "step" /\ UNCHANGED <<core, ret>>
        BY <2>2, DoneTypes
      <3>2. RunnerOK' /\ ~AtStep'
        BY <1>9, <3>1 DEF RunnerOK, AtStep
      <3> QED
        BY <1>9, <3>1, <3>2, Frame
    <2> QED
      BY <1>9, <2>1, <2>2
  <1>10. {"broker", "publish", "wol", "interrupted", "timeout"} \subseteq Faults
    BY DEF Faults
  <1>11. CASE ExecCmd
    <2>1. Current \in Step
      BY <1>11, StepTypes DEF ExecCmd, AtStep
    <2>2. Emitted \in [Slots -> Values \cup {None}]
      BY <2>1 DEF Emitted, Step, BusOK
    <2>3. BusOK'
      BY <1>11, <2>2 DEF ExecCmd, BusOK
    <2> QED
      BY <1>9, <1>10, <1>11, <2>3 DEF ExecCmd
  <1>12. CASE ExecWol
    <2>1. BusOK'
      BY <1>12, Frame DEF ExecWol
    <2> QED
      BY <1>9, <1>10, <1>12, <2>1 DEF ExecWol
  <1>13. CASE ExecTimed
    <2>1. RunnerOK' /\ UNCHANGED run /\ AtStep
      BY <1>13 DEF ExecTimed, RunnerOK, AtStep
    <2> QED
      BY <1>13, <2>1, Frame DEF ExecTimed
  <1>14. CASE Delay
    <2>1. BusOK'
      BY <1>14, Frame DEF Delay
    <2> QED
      BY <1>9, <1>10, <1>14, <2>1 DEF Delay
  <1>15. CASE Poll
    <2>1. BusOK'
      BY <1>15, Frame DEF Poll, TimedOut, GiveUp
    <2>2. CASE /\ run' = [run EXCEPT !.held = IF CondHolds THEN HeldFor ELSE -1]
               /\ UNCHANGED <<core, pc, ret>>
      <3>1. HeldFor \in Nat
        BY DEF HeldFor, RunnerOK, Run
      <3>2. run' \in Run /\ run'.at = run.at /\ run'.list = run.list
        BY <2>2, <3>1 DEF RunnerOK, Run
      <3>3. RunnerOK' /\ (AtStep' <=> AtStep)
        BY <1>15, <2>2, <3>2 DEF Poll, TimedOut, GiveUp, RunnerOK, AtStep
      <3> QED
        BY <1>15, <2>2, <3>2, <3>3, Frame DEF Poll, TimedOut, GiveUp
    <2> QED
      BY <1>9, <1>10, <1>15, <2>1, <2>2 DEF Poll, TimedOut, GiveUp
  <1> QED
    BY <1>1, <1>2, <1>3, <1>4, <1>5, <1>6, <1>7, <1>8, <1>11, <1>12, <1>13, <1>14, <1>15
    DEF Runner

LEMMA TypeReceive ==
    ASSUME TypeInv, NEW s \in Heard, Receive(s)
    PROVE  TypeInv'
  <1> USE DEF TypeInv, TypeOK, StepExists
  <1>1. PICK p \in Payloads[s] : SetState(s, p)
    BY DEF Receive
  <1>2. s \in Slots /\ p \in Snapshot /\ now \in Time
    BY ConstantTypes DEF Heard, Time
  <1>3. anchor' \in [WatchSlots -> Values \cup {None}]
    BY <1>1, <1>2 DEF SetState, NoteWatches, InputsOK, Snapshot
  <1>4. InputsOK'
    BY <1>1, <1>2, <1>3 DEF SetState, InputsOK
  <1>5. clk' \in Clocks
    BY <1>1, <1>2 DEF SetState, NoteWatches, CoreOK, Clocks
  <1>6. CoreOK'
    BY <1>1, <1>5 DEF SetState, CoreOK
  <1> QED
    BY <1>1, <1>4, <1>6, Frame DEF SetState, AtStep, runner

LEMMA TypeStep == TypeInv /\ [Next]_vars => TypeInv'
  <1>1. TypeInv /\ UNCHANGED vars => TypeInv'
    BY Frame DEF vars, TypeInv, TypeOK, StepExists, AtStep, runner
  <1> QED
    BY <1>1, TypeOthers, TypeRunner, TypeReceive DEF Next

\* The variables keep their types: in every configuration, whatever the step lists,
\* the observations and the faults.
THEOREM TypeCorrect == Spec => []TypeOK
  <1>1. TypeInv => TypeOK
    BY DEF TypeInv
  <1> QED
    BY InitType, TypeStep, <1>1, PTL DEF Spec
-----------------------------------------------------------------------------
(* The phase, the runner and the state file *)

\* The runner is inside a sequence, its writes and publications included.
InSequence == \/ pc \in {"step", "exec", "wait", "delay"}
              \/ pc \in {"persist", "publish"} /\ ret \in {"step", "exec"}

MidPhase == [startup |-> "starting", shutdown |-> "stopping", standby |-> "entering_standby",
             wake |-> "waking", idle_shutdown |-> "stopping"]

\* In a sequence the phase is that of its list, and no fault is latched.
MovingInv  == InSequence => phase = MidPhase[run.list] /\ disp.fault = "none"
RestingInv == ~InSequence => phase \in Resting

\* What was last written, or tried, is current but for the clocks, except between a
\* change of the phase and the write that follows it.
SavedInv == StateFile /\ Up /\ pc # "persist" => saved # None /\ saved.disp = disp

PhaseInv == MovingInv /\ RestingInv /\ SavedInv

LEMMA InitPhase == Init => PhaseInv
  BY DEF Init, PhaseInv, MovingInv, RestingInv, SavedInv, InSequence, Up, phase, IdleDisp, Resting

LEMMA MidPhases == \A l \in ListNames : MidPhase[l] \in Moving
  BY DEF MidPhase, ListNames, Moving

\* begin() puts the runner at the head of a list whose phase it has announced.
LEMMA BeginPhase ==
    ASSUME NEW c, Begin(c)
    PROVE  /\ pc' = "persist" /\ ret' = "step"
           /\ phase' = MidPhase[run'.list] /\ disp'.fault = "none"
  <1>1. PICK m \in Moves : /\ disp' = [phase |-> m.mid, step |-> 0, fault |-> "none",
                                      reason |-> IF m.reason = "keep" THEN disp.reason ELSE m.reason]
                           /\ run' = [NoRun EXCEPT !.list = m.list]
                           /\ pc' = "persist" /\ ret' = "step"
    BY DEF Begin
  <1>2. m.mid = MidPhase[m.list]
    BY DEF Moves, StopFrom, Resting, Move, MidPhase
  <1>3. run'.list = m.list
    BY <1>1 DEF NoRun
  <1> QED
    BY <1>1, <1>2, <1>3 DEF phase

LEMMA SetPhaseRests ==
    ASSUME TypeOK, NEW ph \in Resting, NEW f, SetPhase(ph, f)
    PROVE  phase' = ph /\ pc' = "persist" /\ ret' = "select"
  BY DEF SetPhase, TypeOK, CoreOK, Disp, phase

\* A step that changes nothing the invariant speaks of.
LEMMA PhaseFrame ==
    ASSUME PhaseInv, UNCHANGED <<disp, pc, ret, run, saved>>
    PROVE  PhaseInv'
  BY DEF PhaseInv, MovingInv, RestingInv, SavedInv, InSequence, Up, phase

LEMMA PhaseOthers ==
    ASSUME TypeInv, PhaseInv, Others
    PROVE  PhaseInv'
  <1>1. CASE \/ \E s \in Heard, on \in BOOLEAN : SetStatus(s, on)
             \/ \E s \in Heard : BadState(s)
             \/ \E hold \in BOOLEAN : SetAntMode(hold)
             \/ \E c \in {"start", "stop"} : Request(c)
             \/ Connect \/ Disconnect \/ Cancel \/ LoseFile \/ Wipe
    <2>1. UNCHANGED <<disp, pc, ret, run, saved>>
      BY <1>1 DEF SetStatus, BadState, SetAntMode, Request, Connect, Disconnect, Cancel,
                  LoseFile, Wipe, core, runner, disk
    <2> QED
      BY <2>1, PhaseFrame
  <1>2. CASE Restart
    <2>1. file # None => file.disp.phase \in Phases
      BY DEF TypeInv, TypeOK, DiskOK, Saved, Disp
    <2>2. phase' \in Resting
      BY <1>2, <2>1 DEF Restart, RestoredClocks, Restored, phase, IdleDisp, Phases, Resting
    <2> QED
      BY <1>2, <2>2 DEF Restart, PhaseInv, MovingInv, RestingInv, SavedInv, InSequence
  <1>3. CASE Crash
    BY <1>3 DEF Crash, Ended, PhaseInv, MovingInv, RestingInv, SavedInv, InSequence, Up, phase,
                IdleDisp, Resting
  <1>4. CASE Tick
    <2>1. run'.list = run.list /\ UNCHANGED <<disp, pc, ret, saved>>
      BY <1>4 DEF Tick, disk, TypeInv, TypeOK, RunnerOK, Run
    <2> QED
      BY <2>1 DEF PhaseInv, MovingInv, RestingInv, SavedInv, InSequence, Up, phase
  <1> QED
    BY <1>1, <1>2, <1>3, <1>4 DEF Others

LEMMA PhaseRunner ==
    ASSUME TypeInv, PhaseInv, Runner
    PROVE  PhaseInv'
  <1> USE DEF PhaseInv, MovingInv, RestingInv, SavedInv, InSequence, Up
  <1>0. Snap # None /\ Snap.disp = disp
    BY NoneAssumption DEF TypeInv, TypeOK, CoreOK, Snap, Saved
  <1>1. CASE PersistStep
    <2>1. StateFile => saved' # None /\ saved'.disp = disp
      BY <1>0, <1>1 DEF PersistStep, Persist, disk
    <2> QED
      BY <1>1, <2>1 DEF PersistStep, core, phase
  <1>2. CASE PublishState
    BY <1>2 DEF PublishState, core, disk, phase, TypeInv, TypeOK, RunnerOK
  <1>3. CASE TakeCmd
    BY <1>3, BeginPhase DEF TakeCmd, disk, phase
  <1>4. CASE IdleTick
    <2>1. StateFile => saved' # None /\ saved'.disp = disp
      BY <1>0, <1>4 DEF IdleTick, Persist, disk
    <2> QED
      BY <1>4, <2>1 DEF IdleTick, core, phase
  <1>5. CASE BeginIdle
    BY <1>5, BeginPhase DEF BeginIdle, disk, phase
  <1>6. CASE Republish
    BY <1>6 DEF Republish, core, disk, phase
  <1>7. CASE Exit
    BY <1>7 DEF Exit, Ended, phase, IdleDisp, Resting
  <1>8. CASE NextStep
    <2>1. run.list \in ListNames
      BY DEF TypeInv, TypeOK, RunnerOK, Run
    <2>2. EndPhase[run.list] \in Resting /\ "idle" \in Resting
      BY <2>1 DEF EndPhase, ListNames, Resting
    <2>3. CASE SetPhase(EndPhase[run.list], "none") \/ Abort("interrupted")
      BY <2>2, <2>3, SetPhaseRests DEF Abort, TypeInv
    <2>4. CASE /\ disp' = [disp EXCEPT !.step = run.at, !.fault = "none"]
               /\ pc' = "persist" /\ ret' = "exec"
               /\ UNCHANGED <<clk, settle, run>>
      <3>1. phase' = phase /\ disp'.fault = "none"
        BY <2>4 DEF phase, TypeInv, TypeOK, CoreOK, Disp
      <3> QED
        BY <1>8, <2>4, <3>1 DEF NextStep, AllSteps
    <2> QED
      BY <1>8, <2>3, <2>4 DEF NextStep, AllSteps
  <1>9. ASSUME NEW f \in Faults, Abort(f)
        PROVE  PhaseInv'
    BY <1>9, SetPhaseRests DEF Abort, TypeInv, Resting
  <1>10. ASSUME Done, pc \in {"exec", "wait", "delay"}, UNCHANGED disk
         PROVE  PhaseInv'
    <2>1. run'.list = run.list
      BY <1>10 DEF Done, NoRun
    <2> QED
      BY <1>10, <2>1 DEF Done, core, disk, phase
  <1>11. {"broker", "publish", "wol", "interrupted", "timeout"} \subseteq Faults
    BY DEF Faults
  <1>12. CASE ExecCmd
    BY <1>9, <1>10, <1>11, <1>12 DEF ExecCmd
  <1>13. CASE ExecWol
    BY <1>9, <1>10, <1>11, <1>13 DEF ExecWol
  <1>14. CASE ExecTimed
    BY <1>14 DEF ExecTimed, core, disk, phase
  <1>15. CASE Delay
    BY <1>9, <1>10, <1>11, <1>15 DEF Delay
  <1>16. CASE Poll
    <2>1. CASE /\ run' = [run EXCEPT !.held = IF CondHolds THEN HeldFor ELSE -1]
               /\ UNCHANGED <<core, pc, ret>>
      <3>1. run'.list = run.list
        BY <2>1 DEF TypeInv, TypeOK, RunnerOK, Run
      <3> QED
        BY <1>16, <2>1, <3>1 DEF Poll, TimedOut, GiveUp, core, disk, phase
    <2> QED
      BY <1>9, <1>10, <1>11, <1>16, <2>1 DEF Poll, TimedOut, GiveUp
  <1> QED
    BY <1>1, <1>2, <1>3, <1>4, <1>5, <1>6, <1>7, <1>8, <1>12, <1>13, <1>14, <1>15, <1>16
    DEF Runner

LEMMA PhaseStep == TypeInv /\ PhaseInv /\ [Next]_vars => PhaseInv'
  <1>1. ASSUME TypeInv, PhaseInv, NEW s \in Heard, Receive(s) PROVE PhaseInv'
    <2>1. UNCHANGED <<disp, pc, ret, run, saved>>
      BY <1>1 DEF Receive, SetState, runner, disk
    <2> QED
      BY <1>1, <2>1, PhaseFrame
  <1>2. ASSUME TypeInv, PhaseInv, UNCHANGED vars PROVE PhaseInv'
    <2>1. UNCHANGED <<disp, pc, ret, run, saved>>
      BY <1>2 DEF vars, core, runner, disk
    <2> QED
      BY <1>2, <2>1, PhaseFrame
  <1> QED
    BY <1>1, <1>2, PhaseOthers, PhaseRunner DEF Next

LEMMA Invariants == Spec => [](TypeInv /\ PhaseInv)
  BY InitType, TypeStep, InitPhase, PhaseStep, PTL DEF Spec

\* The sequencer is never stuck between two phases, in any configuration.
THEOREM NotWedged == Spec => []NeverWedged
  <1>1. PhaseInv => NeverWedged
    BY DEF PhaseInv, RestingInv, InSequence, NeverWedged
  <1> QED
    BY Invariants, <1>1, PTL

\* No step of a sequence runs before the sequence is on disk as begun.
THEOREM BegunOnDisk == Spec => []InFlightOnDisk
  <1>1. TypeInv /\ PhaseInv => InFlightOnDisk
    <2> SUFFICES ASSUME TypeInv, PhaseInv, StateFile, file = saved,
                        pc \in {"step", "exec", "wait", "delay"}
                 PROVE  file # None /\ file.disp.phase = phase /\ phase \in Moving
      BY DEF InFlightOnDisk
    <2>1. run.list \in ListNames
      BY DEF TypeInv, TypeOK, RunnerOK, Run
    <2> QED
      BY <2>1, MidPhases DEF PhaseInv, MovingInv, SavedInv, InSequence, Up, phase
  <1> QED
    BY Invariants, <1>1, PTL

\* An accepted stop is carried out, in whatever resting phase it meets the runner.
THEOREM StopsRun == Spec => AcceptedStopRuns
  <1>1. TypeInv /\ PhaseInv /\ [Next]_vars
          => [pc = "select" /\ cmdCh # <<>> /\ Head(cmdCh) = "stop" /\ Len(cmdCh') < Len(cmdCh)
                /\ pc' # "down" => phase' = "stopping"]_vars
    <2> SUFFICES ASSUME TypeInv, PhaseInv, Next, pc = "select", cmdCh # <<>>,
                        Head(cmdCh) = "stop", Len(cmdCh') < Len(cmdCh), pc' # "down"
                 PROVE  phase' = "stopping"
      OBVIOUS
    <2>1. TakeCmd
      <3>1. cmdCh' # cmdCh
        OBVIOUS
      <3>2. ~(\E s \in Heard : Receive(s))
        BY <3>1 DEF Receive, SetState, chans
      <3>3. CASE Others
        <4>1. ~ \E c \in {"start", "stop"} : Request(c)
          BY DEF Request, Room, TypeInv, TypeOK, ChansOK
        <4> QED
          BY <3>1, <3>3, <4>1 DEF Others, SetStatus, BadState, SetAntMode, Connect, Disconnect,
                           Restart, Cancel, Crash, Ended, LoseFile, Wipe, Tick, chans
      <3>4. CASE Runner
        BY <3>1, <3>4 DEF Runner, PersistStep, PublishState, IdleTick, BeginIdle, Republish,
                          Exit, Ended, NextStep, ExecCmd, ExecWol, ExecTimed, Delay, Poll, chans
      <3> QED
        BY <3>2, <3>3, <3>4 DEF Next
    <2>2. phase \in Resting
      BY DEF PhaseInv, RestingInv, InSequence
    <2>3. ~Refused("stop")
      <3>1. Move("stop", phase, "stopping", "shutdown", "operator") \in Moves
        BY <2>2 DEF Moves, StopFrom
      <3> QED
        BY <3>1 DEF Refused, Move
    <2>4. Begin("stop")
      BY <2>1, <2>3 DEF TakeCmd
    <2> QED
      BY <2>4 DEF Begin, Moves, StopFrom, Resting, Move, phase
  <1> QED
    BY Invariants, <1>1, PTL DEF Spec, AcceptedStopRuns
=============================================================================
