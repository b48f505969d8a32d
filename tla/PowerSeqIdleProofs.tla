------------------------- MODULE PowerSeqIdleProofs --------------------------
(***************************************************************************)
(* Proofs about the idle logic of PowerSeq: neither the standby nor the    *)
(* idle shutdown comes early, and the station does not wake itself, in any *)
(* configuration.                                                          *)
(***************************************************************************)
EXTENDS PowerSeqIdle, PowerSeqStation, PowerSeqProofs

\* The phases in which the time of the last entry into running matters.
Since == {"running", "entering_standby", "standby"}

\* Clocks c, under phase p, know of the last entry into running.
Knows(p, c) == p \in Since => c.running >= enteredAt

\* So do the clocks in memory and, where a restart would restore such a phase, on disk.
EnteredInv ==
    /\ enteredAt \in Int
    /\ Up => Knows(phase, clk)
    /\ Up /\ StateFile => file = saved
    /\ StateFile /\ file # None => Knows(file.disp.phase, file.clk)

\* The end of the last power hold is on the clock; a process that is down knows of none.
HeldInv ==
    /\ heldAt \in Int
    /\ ~powerHold => heldAt <= clk.holdEnd
    /\ ~Up => ~powerHold /\ heldAt = Never

LEMMA LatestOf ==
    ASSUME NEW a \in Int, NEW b \in Int, NEW c \in Int, NEW d \in Int
    PROVE  /\ Max({a, b, c, d}) \in Int
           /\ Max({a, b, c, d}) >= a /\ Max({a, b, c, d}) >= c
  <1>1. \E x \in {a, b, c, d} : \A y \in {a, b, c, d} : x >= y
    <2>1. CASE a >= b /\ a >= c /\ a >= d
      BY <2>1
    <2>2. CASE b >= a /\ b >= c /\ b >= d
      BY <2>2
    <2>3. CASE c >= a /\ c >= b /\ c >= d
      BY <2>3
    <2>4. CASE d >= a /\ d >= b /\ d >= c
      BY <2>4
    <2> QED
      BY <2>1, <2>2, <2>3, <2>4
  <1>2. Max({a, b, c, d}) \in {a, b, c, d} /\ \A y \in {a, b, c, d} : Max({a, b, c, d}) >= y
    BY <1>1 DEF Max
  <1> QED
    BY <1>2

LEMMA ClockTypes ==
    ASSUME TypeInv
    PROVE  /\ now \in Int /\ Never \in Int
           /\ clk.running \in Int /\ clk.holdEnd \in Int /\ clk.watch \in Int
           /\ clk.holdEnd >= Never
           /\ clk \in Clocks
  BY ConstantTypes DEF TypeInv, TypeOK, CoreOK, Clocks, Time

\* The runner begins no phase that matters but from another one, and resets no clock.
Keeps == /\ clk'.running = clk.running
         /\ phase' \in Since => phase \in Since
         /\ phase' = "running" => phase = "running"
         /\ Up /\ Up'

Enters == /\ phase \notin Since /\ phase' = "running" /\ clk'.running = now
          /\ UNCHANGED disk /\ pc = "step" /\ Up'

\* What is on disk, and what was last written, after a step.
Wrote == (file' = file /\ saved' = saved) \/ (file' = Snap /\ saved' = Snap)

LEMMA EndKinds ==
    ASSUME TypeInv, PhaseInv, pc \in {"step", "exec", "wait", "delay"}, UNCHANGED disk,
           \/ \E f \in Faults : Abort(f)
           \/ pc = "step" /\ SetPhase(EndPhase[run.list], "none")
    PROVE  Keeps \/ Enters
  <1>1. run.list \in ListNames /\ disp \in Disp /\ clk \in Clocks
    BY ClockTypes DEF TypeInv, TypeOK, RunnerOK, Run, CoreOK
  <1>2. phase = MidPhase[run.list] /\ Up
    BY DEF PhaseInv, MovingInv, InSequence, Up
  <1>3. CASE \E f \in Faults : Abort(f)
    BY <1>1, <1>2, <1>3 DEF Abort, SetPhase, Keeps, Since, phase, Disp, Clocks, Up
  <1>4. CASE pc = "step" /\ SetPhase(EndPhase[run.list], "none")
    <2>1. phase' = EndPhase[run.list] /\ Up'
      BY <1>1, <1>4 DEF SetPhase, phase, Disp, Up
    <2>2. CASE run.list \in {"startup", "wake"}
      <3>1. phase' = "running" /\ phase \notin Since
        BY <1>2, <2>1, <2>2 DEF EndPhase, MidPhase, Since
      <3>2. clk' = [clk EXCEPT !.running = now]
        BY <1>4, <2>2, <3>1 DEF SetPhase, EndPhase, Since
      <3> QED
        BY <1>1, <1>4, <2>1, <3>1, <3>2 DEF Enters, Clocks
    <2>3. CASE run.list = "standby"
      <3>1. phase' = "standby" /\ phase = "entering_standby"
        BY <1>2, <2>1, <2>3 DEF EndPhase, MidPhase
      <3>2. clk' = [clk EXCEPT !.standby = now]
        BY <1>4, <2>3, <3>1 DEF SetPhase, EndPhase
      <3> QED
        BY <1>1, <1>2, <2>1, <3>1, <3>2 DEF Keeps, Since, Clocks
    <2>4. CASE run.list \in {"shutdown", "idle_shutdown"}
      <3>1. phase' = "idle" /\ clk' = clk
        BY <1>4, <2>1, <2>4 DEF SetPhase, EndPhase
      <3> QED
        BY <1>2, <2>1, <3>1 DEF Keeps, Since
    <2> QED
      BY <1>1, <2>2, <2>3, <2>4 DEF ListNames
  <1> QED
    BY <1>3, <1>4

LEMMA BeginKeeps ==
    ASSUME NEW c, Begin(c), UNCHANGED clk, Up
    PROVE  Keeps
  BY DEF Begin, Moves, StopFrom, Resting, Move, Keeps, Since, phase, Up

LEMMA RunnerKinds ==
    ASSUME ~WriteFaults, TypeInv, PhaseInv, Runner
    PROVE  \/ (Keeps \/ Enters) /\ Wrote
           \/ pc' = "down" /\ file' \in {file, Snap} /\ Up
  <1> USE DEF Up
  <1>0. disp \in Disp
    BY DEF TypeInv, TypeOK, CoreOK
  <1>1. CASE PersistStep \/ IdleTick
    <2>1. Keeps
      BY <1>1 DEF PersistStep, IdleTick, core, phase, Keeps
    <2>2. Wrote
      BY <1>1 DEF PersistStep, IdleTick, Persist, Write, Wrote, disk
    <2> QED
      BY <2>1, <2>2
  <1>2. CASE PublishState \/ Republish \/ ExecTimed
    BY <1>2 DEF PublishState, Republish, ExecTimed, core, disk, phase, Keeps, Wrote, TypeInv,
                TypeOK, RunnerOK
  <1>3. CASE TakeCmd \/ BeginIdle
    <2>1. UNCHANGED <<clk, file, saved>>
      BY <1>3 DEF TakeCmd, BeginIdle, disk
    <2>2. CASE \E c \in {cmd, Head(cmdCh)} : Begin(c)
      BY <1>3, <2>1, <2>2, BeginKeeps DEF TakeCmd, BeginIdle, Wrote
    <2>3. CASE pc' = "select" /\ UNCHANGED disp
      BY <1>3, <2>1, <2>3 DEF TakeCmd, BeginIdle, Keeps, Wrote, phase
    <2> QED
      BY <1>3, <2>2, <2>3 DEF TakeCmd, BeginIdle
  <1>4. CASE Exit
    BY <1>4 DEF Exit, Ended, Write
  <1>5. ASSUME pc \in {"step", "exec", "wait", "delay"}, UNCHANGED disk,
               \/ \E f \in {"broker", "publish", "wol", "interrupted", "timeout"} : Abort(f)
               \/ pc = "step" /\ SetPhase(EndPhase[run.list], "none")
               \/ UNCHANGED <<clk, phase>> /\ pc' # "down"
        PROVE  (Keeps \/ Enters) /\ Wrote
    <2>1. CASE UNCHANGED <<clk, phase>> /\ pc' # "down"
      BY <1>5, <2>1 DEF Keeps, Wrote, disk
    <2> QED
      BY <1>5, <2>1, EndKinds DEF Wrote, disk, Faults
  <1>6. CASE NextStep
    <2>1. CASE disp' = [disp EXCEPT !.step = run.at, !.fault = "none"] /\ pc' = "persist"
                 /\ UNCHANGED clk
      BY <1>0, <1>5, <1>6, <2>1 DEF NextStep, phase, Disp
    <2> QED
      BY <1>5, <1>6, <2>1 DEF NextStep, Abort
  <1>7. CASE ExecCmd \/ ExecWol \/ Delay \/ Poll
    <2>1. CASE Done \/ (UNCHANGED core /\ UNCHANGED pc)
      BY <1>5, <1>7, <2>1 DEF ExecCmd, ExecWol, Delay, Poll, Done, core, phase
    <2> QED
      BY <1>5, <1>7, <2>1 DEF ExecCmd, ExecWol, Delay, Poll, GiveUp
  <1> QED
    BY <1>1, <1>2, <1>3, <1>4, <1>6, <1>7 DEF Runner

LEMMA OtherKinds ==
    ASSUME TypeInv, Others
    PROVE  \/ Keeps /\ Wrote
           \/ Restart
           \/ pc' = "down" /\ file' = file /\ Up
           \/ pc = "down" /\ pc' = "down" /\ file' \in {file, None}
  <1>0. clk \in Clocks
    BY ClockTypes
  <1>1. CASE \/ \E s \in Heard, on \in BOOLEAN : SetStatus(s, on)
             \/ \E s \in Heard : BadState(s)
             \/ \E c \in {"start", "stop"} : Request(c)
             \/ Connect \/ Disconnect \/ Cancel \/ Wipe
    BY <1>1 DEF SetStatus, BadState, Request, Connect, Disconnect, Cancel, Wipe, core, runner,
                disk, phase, Keeps, Wrote, Up
  <1>2. CASE \E hold \in BOOLEAN : SetAntMode(hold)
    BY <1>0, <1>2 DEF SetAntMode, runner, disk, phase, Keeps, Wrote, Clocks, Up
  <1>3. CASE Crash
    BY <1>3 DEF Crash, Ended
  <1>4. CASE LoseFile
    BY <1>4 DEF LoseFile, runner
  <1>5. CASE Tick
    <2>1. UNCHANGED <<disp, clk, pc, file, saved>>
      BY <1>5 DEF Tick, disk
    <2> QED
      BY <2>1 DEF phase, Keeps, Wrote, Up
  <1> QED
    BY <1>1, <1>2, <1>3, <1>4, <1>5 DEF Others

LEMMA NextKinds ==
    ASSUME ~WriteFaults, TypeInv, PhaseInv, [Next]_vars
    PROVE  \/ (Keeps \/ Enters) /\ Up /\ Wrote
           \/ Restart
           \/ pc' = "down" /\ file' \in {file, Snap} /\ Up
           \/ pc = "down" /\ pc' = "down" /\ file' \in {file, None}
  <1>1. CASE \E s \in Heard : Receive(s)
    <2>1. clk'.running = clk.running
      BY <1>1, ClockTypes DEF Receive, SetState, NoteWatches, Clocks
    <2> QED
      BY <1>1, <2>1 DEF Receive, SetState, runner, disk, phase, Keeps, Wrote, Up
  <1>2. CASE UNCHANGED vars
    BY <1>2 DEF vars, core, runner, disk, phase, Keeps, Wrote, Up
  <1>3. CASE Runner
    BY <1>3, RunnerKinds DEF Runner, Keeps, Enters, Up
  <1>4. CASE Others
    BY <1>4, OtherKinds DEF Keeps
  <1> QED
    BY <1>1, <1>2, <1>3, <1>4 DEF Next

LEMMA ProcessEnds ==
    ASSUME TypeInv, [Next]_vars, Up, pc' = "down"
    PROVE  Exit \/ Crash
  BY DEF Next, Receive, SetState, vars, Runner, PersistStep, PublishState, TakeCmd, IdleTick,
         BeginIdle, Republish, NextStep, ExecCmd, ExecWol, ExecTimed, Delay, Poll, Begin, Done,
         Abort, GiveUp, SetPhase, Others, SetStatus, BadState, SetAntMode, Request, Connect,
         Disconnect, Cancel, Wipe, Restart, LoseFile, Tick, runner, Up, TypeInv, TypeOK, RunnerOK

LEMMA SnapKnows ==
    ASSUME TypeInv
    PROVE  Snap # None /\ Snap.disp.phase = phase /\ Snap.clk = clk
  BY NoneAssumption, ClockTypes DEF TypeInv, TypeOK, CoreOK, Snap, Saved, phase

LEMMA EnteredStep ==
    ASSUME ~WriteFaults, TypeInv, TypeInv', PhaseInv, EnteredInv,
           [HNext]_<<vars, enteredAt, heldAt>>
    PROVE  EnteredInv'
  <1>0. now \in Int
    BY ClockTypes
  <1>1. [Next]_vars
    BY DEF HNext
  <1>2. enteredAt' = IF Up /\ phase # "running" /\ phase' = "running" THEN now ELSE enteredAt
    <2>1. CASE UNCHANGED <<vars, enteredAt, heldAt>>
      BY <2>1 DEF vars, core, phase
    <2> QED
      BY <2>1 DEF HNext, Remember
  <1>3. enteredAt' \in Int
    BY <1>0, <1>2 DEF EnteredInv
  <1>4. CASE Keeps /\ Up /\ Wrote
    <2>1. enteredAt' = enteredAt
      BY <1>2, <1>4 DEF Keeps
    <2>2. Knows(phase, clk)'
      BY <1>4, <2>1 DEF Keeps, EnteredInv, Knows
    <2>3. (Up /\ StateFile => file = saved)'
      BY <1>4 DEF Wrote, EnteredInv
    <2>4. (StateFile /\ file # None => Knows(file.disp.phase, file.clk))'
      BY <1>4, <2>1, SnapKnows DEF Wrote, EnteredInv, Knows
    <2> QED
      BY <1>3, <2>2, <2>3, <2>4 DEF EnteredInv
  <1>5. CASE Enters /\ Up
    <2>1. enteredAt' = now
      BY <1>2, <1>5 DEF Enters, Since
    <2>2. Knows(phase, clk)'
      BY <1>0, <1>5, <2>1 DEF Enters, Knows
    <2>3. StateFile => file # None /\ file.disp = disp
      BY <1>5 DEF Enters, EnteredInv, PhaseInv, SavedInv
    <2>4. UNCHANGED <<saved, file>>
      BY <1>5 DEF Enters, disk
    <2>5. (StateFile /\ file # None => Knows(file.disp.phase, file.clk))'
      BY <1>5, <2>3, <2>4 DEF Enters, Knows, phase
    <2> QED
      BY <1>3, <1>5, <2>2, <2>4, <2>5 DEF EnteredInv
  <1>6. CASE Restart
    <2>1. UNCHANGED <<enteredAt, file>> /\ disp' = Restored /\ clk' = RestoredClocks
          /\ (StateFile => saved' = file)
      BY <1>2, <1>6 DEF Restart, Up
    <2>2. (StateFile /\ file # None => Knows(file.disp.phase, file.clk))'
      BY <2>1 DEF EnteredInv, Knows
    <2>3. file # None => file.disp \in Disp
      BY DEF TypeInv, TypeOK, DiskOK, Saved
    <2>4. phase' \in Since => StateFile /\ file # None /\ phase' = file.disp.phase
      BY <2>1, <2>3 DEF Restored, IdleDisp, Since, Disp, phase
    <2>5. Knows(phase, clk)'
      BY <2>1, <2>4 DEF EnteredInv, Knows, RestoredClocks
    <2> QED
      BY <1>3, <2>1, <2>2, <2>5 DEF EnteredInv
  <1>7. CASE pc' = "down" /\ file' \in {file, Snap} /\ Up
    <2>1. ~Up' /\ enteredAt' = enteredAt
      <3>1. Exit \/ Crash
        BY <1>1, <1>7, ProcessEnds
      <3>2. phase' = "idle"
        BY <3>1 DEF Exit, Crash, Ended, IdleDisp, phase
      <3> QED
        BY <1>2, <1>7, <3>2 DEF Up
    <2>2. (StateFile /\ file # None => Knows(file.disp.phase, file.clk))'
      BY <1>7, <2>1, SnapKnows DEF EnteredInv, Knows
    <2> QED
      BY <1>3, <2>1, <2>2 DEF EnteredInv
  <1>8. CASE pc = "down" /\ pc' = "down" /\ file' \in {file, None}
    BY <1>2, <1>3, <1>8 DEF EnteredInv, Knows, Up
  <1> QED
    BY <1>1, <1>4, <1>5, <1>6, <1>7, <1>8, NextKinds

\* The end of the hold is put on the clock by the step that ends it.
LEMMA HeldKinds ==
    ASSUME TypeInv, [Next]_vars
    PROVE  \/ pc' = "down" /\ powerHold' = FALSE /\ clk' = NoClocks
           \/ pc = "down" /\ UNCHANGED <<pc, powerHold, clk>>
           \/ Restart /\ UNCHANGED powerHold
           \/ Up /\ Up' /\ UNCHANGED powerHold /\ clk'.holdEnd = clk.holdEnd
           \/ Up /\ Up' /\ (powerHold /\ ~powerHold' => clk'.holdEnd = now)
                 /\ (~powerHold => clk'.holdEnd = clk.holdEnd)
  <1> USE DEF Up
  <1>0. clk \in Clocks
    BY ClockTypes
  <1>1. CASE \E s \in Heard : Receive(s)
    <2>1. clk'.holdEnd = clk.holdEnd
      BY <1>0, <1>1 DEF Receive, SetState, NoteWatches, Clocks
    <2> QED
      BY <1>1, <2>1 DEF Receive, SetState, runner
  <1>2. CASE UNCHANGED vars
    BY <1>2 DEF vars, core, runner, inputs
  <1>3. CASE \E hold \in BOOLEAN : SetAntMode(hold)
    BY <1>0, <1>3 DEF SetAntMode, runner, Clocks
  <1>4. CASE Others /\ ~ \E hold \in BOOLEAN : SetAntMode(hold)
    BY <1>4 DEF Others, SetStatus, BadState, Request, Connect, Disconnect, Cancel, Wipe, Restart,
                Crash, Ended, LoseFile, Tick, core, runner, inputs
  <1>5. ASSUME NEW ph, NEW f, SetPhase(ph, f) PROVE clk'.holdEnd = clk.holdEnd /\ Up'
    BY <1>0, <1>5 DEF SetPhase, Clocks
  <1>6. CASE Exit
    BY <1>6 DEF Exit, Ended
  <1>7. CASE Runner /\ ~Exit
    <2>1. Up /\ UNCHANGED powerHold
      BY <1>7 DEF Runner, PersistStep, PublishState, TakeCmd, IdleTick, BeginIdle, Republish,
                  NextStep, ExecCmd, ExecWol, ExecTimed, Delay, Poll, inputs
    <2>2. \/ \E ph, f : SetPhase(ph, f)
          \/ UNCHANGED clk /\ Up'
      BY <1>7 DEF Runner, PersistStep, PublishState, TakeCmd, IdleTick, BeginIdle, Republish,
                  NextStep, ExecCmd, ExecWol, ExecTimed, Delay, Poll, Begin, Done, Abort, GiveUp,
                  core, TypeInv, TypeOK, RunnerOK
    <2> QED
      BY <1>5, <2>1, <2>2
  <1> QED
    BY <1>1, <1>2, <1>3, <1>4, <1>6, <1>7 DEF Next

LEMMA HeldStep ==
    ASSUME TypeInv, TypeInv', HeldInv, [HNext]_<<vars, enteredAt, heldAt>>
    PROVE  HeldInv'
  <1>0. now \in Int /\ Never \in Int /\ clk'.holdEnd \in Int /\ clk.holdEnd \in Int
        /\ clk'.holdEnd >= Never /\ powerHold \in BOOLEAN /\ powerHold' \in BOOLEAN
    BY ClockTypes DEF TypeInv, TypeOK, CoreOK, Clocks, Time, InputsOK
  <1>1. [Next]_vars
    BY DEF HNext
  <1>2. CASE UNCHANGED <<vars, enteredAt, heldAt>>
    BY <1>2 DEF vars, core, inputs, runner, HeldInv, Up
  <1>3. CASE HNext
    <2>1. heldAt' = IF pc' = "down" THEN Never
                    ELSE IF powerHold \/ powerHold' THEN now ELSE heldAt
      BY <1>3 DEF HNext, Remember
    <2>2. heldAt' \in Int
      BY <1>0, <2>1 DEF HeldInv
    <2>3. CASE pc' = "down" /\ powerHold' = FALSE /\ clk' = NoClocks
      BY <1>0, <2>1, <2>3 DEF HeldInv, Up
    <2>4. CASE pc = "down" /\ UNCHANGED <<pc, powerHold, clk>>
      BY <1>0, <2>1, <2>4 DEF HeldInv, Up
    <2>5. CASE Restart /\ UNCHANGED powerHold
      <3>1. ~Up /\ Up' /\ heldAt' = Never /\ ~powerHold'
        BY <2>1, <2>5 DEF Restart, HeldInv, Up
      <3> QED
        BY <1>0, <3>1 DEF HeldInv
    <2>6. CASE Up /\ Up' /\ UNCHANGED powerHold /\ clk'.holdEnd = clk.holdEnd
      BY <1>0, <2>1, <2>2, <2>6 DEF HeldInv, Up
    <2>7. CASE Up /\ Up' /\ (powerHold /\ ~powerHold' => clk'.holdEnd = now)
                 /\ (~powerHold => clk'.holdEnd = clk.holdEnd)
      BY <1>0, <2>1, <2>2, <2>7 DEF HeldInv, Up
    <2> QED
      BY <1>1, <2>3, <2>4, <2>5, <2>6, <2>7, HeldKinds
  <1> QED
    BY <1>2, <1>3

LEMMA TimedTypes == HSpec => [](TypeInv /\ PhaseInv /\ HeldInv)
  <1>1. HInit => Init /\ HeldInv
    BY ConstantTypes DEF HInit, Init, NoClocks, HeldInv, Up
  <1>2. [HNext]_<<vars, enteredAt, heldAt>> => [Next]_vars
    BY DEF HNext
  <1> QED
    BY <1>1, <1>2, InitType, TypeStep, InitPhase, PhaseStep, HeldStep, PTL DEF HSpec

LEMMA TimedEntries ==
    ASSUME ~WriteFaults
    PROVE  HSpec => []EnteredInv
  <1>1. HInit => EnteredInv
    BY ConstantTypes DEF HInit, Init, OldStandby, NoClocks, EnteredInv, Knows, Up
  <1> QED
    BY <1>1, EnteredStep, TimedTypes, PTL DEF HSpec

\* The runner keeps a decision only until it has begun it, and only the idle tick decides.
CmdInv == cmd # "none" => pc = "decided"

LEMMA CmdStep == CmdInv /\ [Next]_vars => CmdInv'
  <1> SUFFICES ASSUME CmdInv, [Next]_vars PROVE CmdInv'
    OBVIOUS
  <1> USE DEF CmdInv
  <1>1. CASE (\E s \in Heard : Receive(s)) \/ UNCHANGED vars
    BY <1>1 DEF Receive, SetState, vars, runner
  <1>2. CASE Others
    BY <1>2 DEF Others, SetStatus, BadState, SetAntMode, Request, Connect, Disconnect, Cancel,
                Wipe, Restart, Crash, Ended, LoseFile, Tick, runner
  <1>3. CASE Runner
    BY <1>3 DEF Runner, PersistStep, PublishState, TakeCmd, IdleTick, BeginIdle, Republish,
                Exit, Ended, NextStep, ExecCmd, ExecWol, ExecTimed, Delay, Poll
  <1> QED
    BY <1>1, <1>2, <1>3 DEF Next

LEMMA Decided ==
    ASSUME CmdInv, [Next]_vars, NEW c \in {"standby", "idle_shutdown"}, Decides(c)
    PROVE  IdleDecision = c
  <1> USE DEF CmdInv, Decides
  <1>1. ~ ((\E s \in Heard : Receive(s)) \/ UNCHANGED vars)
    BY DEF Receive, SetState, vars, runner
  <1>2. ~ Others
    BY DEF Others, SetStatus, BadState, SetAntMode, Request, Connect, Disconnect, Cancel,
           Wipe, Restart, Crash, Ended, LoseFile, Tick, runner
  <1>3. CASE Runner
    BY <1>3 DEF Runner, PersistStep, PublishState, TakeCmd, IdleTick, BeginIdle, Republish,
                Exit, Ended, NextStep, ExecCmd, ExecWol, ExecTimed, Delay, Poll
  <1> QED
    BY <1>1, <1>2, <1>3 DEF Next

LEMMA Timed ==
    ASSUME ~WriteFaults
    PROVE  HSpec => [](TypeInv /\ PhaseInv /\ HeldInv /\ EnteredInv /\ CmdInv)
  <1>1. HInit => CmdInv
    BY DEF HInit, Init, CmdInv
  <1>2. [HNext]_<<vars, enteredAt, heldAt>> => [Next]_vars
    BY DEF HNext
  <1> QED
    BY <1>1, <1>2, CmdStep, TimedTypes, TimedEntries, PTL DEF HSpec

\* However often the sequencer is restarted, and whatever it is told when, it does not
\* decide on the standby before the station has been running for the idle timeout, nor
\* under a power hold.
THEOREM StandbyNotEarly ==
    ASSUME ~WriteFaults
    PROVE  HSpec => NoEarlyStandby
  <1>1. TypeInv /\ EnteredInv /\ CmdInv /\ [Next]_vars
          => [Decides("standby") => now - enteredAt >= IdleTimeout /\ ~powerHold]_<<vars, enteredAt, heldAt>>
    <2> SUFFICES ASSUME TypeInv, EnteredInv, CmdInv, [Next]_vars, Decides("standby")
                 PROVE  now - enteredAt >= IdleTimeout /\ ~powerHold
      OBVIOUS
    <2>1. IdleDecision = "standby"
      BY Decided
    <2>2. phase = "running" /\ StandbyDue /\ ~powerHold
      BY <2>1 DEF IdleDecision
    <2>3. Up
      BY DEF Decides, Up
    <2>4. clk.running >= enteredAt /\ now - clk.running >= IdleTimeout
      BY <2>2, <2>3 DEF EnteredInv, Knows, Since, StandbyDue
    <2> QED
      BY <2>2, <2>4, ClockTypes, ParameterAssumption DEF EnteredInv
  <1>2. [HNext]_<<vars, enteredAt, heldAt>> => [Next]_vars
    BY DEF HNext
  <1> QED
    BY <1>1, <1>2, Timed, PTL DEF HSpec, NoEarlyStandby

\* Nor on the idle shutdown before the station was last brought up that long ago, and
\* before the last moment of a power hold this process knew of was.
THEOREM ShutdownNotEarly ==
    ASSUME ~WriteFaults
    PROVE  HSpec => NoEarlyShutdown
  <1>1. TypeInv /\ EnteredInv /\ HeldInv /\ CmdInv /\ [Next]_vars
          => [Decides("idle_shutdown") => /\ now - enteredAt >= ShutdownTimeout
                                          /\ now - heldAt >= ShutdownTimeout]_<<vars, enteredAt, heldAt>>
    <2> SUFFICES ASSUME TypeInv, EnteredInv, HeldInv, CmdInv, [Next]_vars, Decides("idle_shutdown")
                 PROVE  now - enteredAt >= ShutdownTimeout /\ now - heldAt >= ShutdownTimeout
      OBVIOUS
    <2>1. IdleDecision = "idle_shutdown"
      BY Decided
    <2>2. phase = "standby" /\ ShutdownDue /\ ~powerHold
      BY <2>1 DEF IdleDecision
    <2>3. Up
      BY DEF Decides, Up
    <2>4. clk.running >= enteredAt /\ clk.holdEnd >= heldAt
      BY <2>2, <2>3 DEF EnteredInv, HeldInv, Knows, Since
    <2>5. state[ActivitySlot] \in Snapshot
      BY <2>2, ConfigAssumption DEF ShutdownDue, TypeInv, TypeOK, InputsOK
    <2>6. state[ActivitySlot].last \in Int
      BY <2>5, ConstantTypes DEF Snapshot, Time
    <2> DEFINE last == LastActivity(state[ActivitySlot])
    <2>7. last \in Int /\ last >= clk.running /\ last >= clk.holdEnd
      BY <2>6, ClockTypes, LatestOf DEF LastActivity
    <2>8. now - last >= ShutdownTimeout
      BY <2>2 DEF ShutdownDue
    <2> HIDE DEF last
    <2> QED
      BY <2>4, <2>7, <2>8, ClockTypes, ParameterAssumption DEF EnteredInv, HeldInv
  <1>2. [HNext]_<<vars, enteredAt, heldAt>> => [Next]_vars
    BY DEF HNext
  <1> QED
    BY <1>1, <1>2, Timed, PTL DEF HSpec, NoEarlyShutdown
-----------------------------------------------------------------------------
(* The station alone *)

\* Nobody is at the station: no activity is reported.  Its one watched device stays fit,
\* and it is heard at once, in a settle window that is configured.
Unattended ==
    /\ ~Drops /\ WatchSettle > 0
    /\ WatchSlots = {WatchedSlot} /\ ActivitySlot # WatchedSlot
    /\ \A p \in Payloads[WatchedSlot] : p.dev
    /\ \A p \in Payloads[ActivitySlot] : p.last = Never

\* The phases in which a watch may count.
Watching == {"running", "standby"}

\* Whenever the readback may step, a power hold or the settle window covers it.
CoveredInv ==
    /\ readback \in Values /\ held \in BOOLEAN /\ knock \in 0..KnockTime
    /\ held => ReadsAntMode
    /\ powerHold => held
    /\ Up => online
    /\ ~Up => ~powerHold
    /\ Up /\ phase \in Watching => /\ knock <= settle
                                   /\ held /\ ~powerHold => settle >= WatchSettle

\* So what was last counted is what the device last said.
AnchorInv ==
    /\ anchor[WatchedSlot] \in {None, readback}
    /\ anchor[WatchedSlot] # None => Up /\ status[WatchedSlot] = "online"

\* And no clock says that somebody was there.
UnwokenInv ==
    /\ clk.watch = Never
    /\ file # None => file.clk.watch = Never
    /\ state[ActivitySlot] # None => state[ActivitySlot].last = Never
    /\ cmd # "wake"

AloneInv == CoveredInv /\ AnchorInv /\ UnwokenInv

LEMMA PlantTypes ==
    /\ KnockTime \in Nat /\ KnockTime <= WatchSettle
    /\ WatchedSlot \in WatchSlots /\ WatchedSlot \in Slots /\ ActivitySlot \in Slots
  BY PlantAssumption, ConfigAssumption

\* The station runs the sequencer.
LEMMA PlantStep ==
    ASSUME held \in BOOLEAN, [SNext]_<<vars, plant>>
    PROVE  [Next]_vars
  <1>1. ASSUME NEW s \in Slots, Receive(s) PROVE Next
    BY <1>1 DEF Receive, Heard, Next
  <1>2. CASE Knock
    <2>1. Receive(WatchedSlot) \/ UNCHANGED vars
      BY <1>2 DEF Knock, Receive
    <2> QED
      BY <1>1, <2>1, PlantTypes
  <1>3. CASE Hold
    BY <1>3 DEF Hold, Next, Others
  <1>4. CASE Redeliver
    <2>1. SetAntMode(held) \/ Receive(WatchedSlot) \/ Receive(ActivitySlot)
      BY <1>4 DEF Redeliver, Receive
    <2> QED
      BY <1>1, <2>1, PlantTypes DEF Next, Others
  <1>5. CASE Passes \/ Sequences
    BY <1>5 DEF Passes, Sequences, Next, Others
  <1>6. CASE Surroundings
    BY <1>6 DEF Surroundings, Next, Others
  <1>7. CASE UNCHANGED <<vars, plant>>
    BY <1>7
  <1> QED
    BY <1>2, <1>3, <1>4, <1>5, <1>6, <1>7 DEF SNext

\* A readback that steps is not counted.
LEMMA Covered ==
    ASSUME Unattended, TypeInv, CoveredInv, Up, held \/ knock > 0
    PROVE  ~Settled
  BY PlantTypes, ConstantTypes DEF Unattended, CoveredInv, Settled, Watching, TypeInv, TypeOK, CoreOK

\* The device is heard: what it says is counted as nothing, and is the new anchor.
LEMMA HeardQuietly ==
    ASSUME Unattended, TypeInv, AnchorInv, NEW p \in Payloads[WatchedSlot], p.val \in Values,
           SetState(WatchedSlot, p), readback' = p.val, p.val # readback => ~Settled
    PROVE  /\ AnchorInv' /\ UNCHANGED <<core, cmd, file, online, powerHold, antModeSeen, pc>>
           /\ state'[ActivitySlot] = state[ActivitySlot]
  <1>1. UNCHANGED <<disp, settle, status, cmd, file, online, powerHold, antModeSeen, pc>> /\ Up
        /\ state' = [state EXCEPT ![WatchedSlot] = p] /\ NoteWatches(WatchedSlot, p)
    BY DEF SetState, runner, disk
  <1>2. p.dev /\ p.val # None /\ anchor \in [WatchSlots -> Values \cup {None}]
    BY ConstantTypes DEF Unattended, TypeInv, TypeOK, InputsOK
  <1>3. CASE status[WatchedSlot] # "online"
    <2>1. UNCHANGED <<anchor, clk>> /\ anchor[WatchedSlot] = None
      BY <1>1, <1>3 DEF NoteWatches, AnchorInv
    <2> QED
      BY <1>1, <2>1 DEF AnchorInv, core, Unattended
  <1>4. CASE status[WatchedSlot] = "online" /\ (anchor[WatchedSlot] = None \/ ~Settled)
    <2>1. anchor' = [anchor EXCEPT ![WatchedSlot] = p.val] /\ UNCHANGED clk
      BY <1>1, <1>2, <1>4, PlantTypes DEF NoteWatches
    <2>2. anchor'[WatchedSlot] = p.val
      BY <1>2, <2>1, PlantTypes
    <2> QED
      BY <1>1, <1>4, <2>1, <2>2 DEF AnchorInv, core, Up, Unattended
  <1>5. CASE status[WatchedSlot] = "online" /\ anchor[WatchedSlot] # None /\ Settled
    <2>1. p.val = readback /\ anchor[WatchedSlot] = readback
      BY <1>5 DEF AnchorInv
    <2>2. ~WatchMoved(anchor[WatchedSlot], p.val)
      BY <2>1 DEF WatchMoved
    <2>3. UNCHANGED <<anchor, clk>>
      BY <1>1, <1>2, <1>5, <2>2, PlantTypes DEF NoteWatches
    <2> QED
      BY <1>1, <2>1, <2>3 DEF AnchorInv, core, Up, Unattended
  <1> QED
    BY <1>3, <1>4, <1>5

LEMMA InitAlone == ASSUME Unattended PROVE SInit => AloneInv
  <1> SUFFICES ASSUME SInit PROVE AloneInv
    OBVIOUS
  <1>1. CoveredInv
    <2>1. readback \in Values /\ held = FALSE /\ knock = 0 /\ powerHold = FALSE /\ pc = "down"
      BY DEF SInit, Init
    <2>2. knock \in 0..KnockTime
      BY <2>1, PlantTypes
    <2>3. held \in BOOLEAN /\ ~held /\ ~powerHold /\ ~Up
      BY <2>1 DEF Up
    <2> QED
      BY <2>1, <2>2, <2>3 DEF CoveredInv
  <1>2. AnchorInv
    BY PlantTypes DEF SInit, Init, AnchorInv
  <1>3. UnwokenInv
    BY PlantTypes DEF SInit, Init, UnwokenInv, NoClocks, OldStandby
  <1> QED
    BY <1>1, <1>2, <1>3 DEF AloneInv

\* What the station does, heard or not.
LEMMA KnockAlone ==
    ASSUME Unattended, TypeInv, AloneInv, Knock
    PROVE  AloneInv'
  <1>1. PICK v \in Values \ {readback} :
            /\ readback' = v
            /\ IF Hearing THEN \E p \in Payloads[WatchedSlot] : p.val = v /\ SetState(WatchedSlot, p)
                          ELSE UNCHANGED vars
    BY DEF Knock
  <1>2. UNCHANGED <<knock, held>> /\ (held \/ knock > 0)
    BY DEF Knock
  <1>3. CASE Up
    <2>1. PICK p \in Payloads[WatchedSlot] : p.val = v /\ SetState(WatchedSlot, p)
      BY <1>1, <1>3 DEF Hearing, AloneInv, CoveredInv
    <2>2. ~Settled
      BY <1>2, <1>3, Covered DEF AloneInv
    <2>3. /\ AnchorInv' /\ UNCHANGED <<core, cmd, file, online, powerHold, antModeSeen, pc>>
          /\ state'[ActivitySlot] = state[ActivitySlot]
      BY <1>1, <2>1, <2>2, HeardQuietly DEF AloneInv
    <2>4. CoveredInv'
      BY <1>1, <1>2, <2>3 DEF AloneInv, CoveredInv, core, phase, Up
    <2>5. UnwokenInv'
      BY <2>3 DEF AloneInv, UnwokenInv, core
    <2> QED
      BY <2>3, <2>4, <2>5 DEF AloneInv
  <1>4. CASE ~Up
    <2>1. UNCHANGED vars
      BY <1>1, <1>4 DEF Hearing
    <2>2. UNCHANGED <<pc, disp, settle, powerHold, online, anchor, status, clk, file, state, cmd>>
      BY <2>1 DEF vars, core, inputs, runner, disk
    <2>3. CoveredInv'
      BY <1>1, <1>2, <2>2 DEF AloneInv, CoveredInv, phase, Up
    <2>4. AnchorInv' /\ UnwokenInv'
      BY <1>4, <2>2 DEF AloneInv, AnchorInv, UnwokenInv, Up
    <2> QED
      BY <2>3, <2>4 DEF AloneInv
  <1> QED
    BY <1>3, <1>4

\* A hold that is heard of is known, and its end opens the settle window.
LEMMA HeldQuietly ==
    ASSUME TypeInv, SetAntMode(held'), held' \in BOOLEAN, UNCHANGED readback, AloneInv,
           \/ UNCHANGED <<held, knock>>
           \/ held' = ~held /\ knock' = IF held THEN KnockTime ELSE knock
    PROVE  AloneInv'
  <1>1. /\ UNCHANGED <<disp, online, status, state, anchor, cmd, file, pc>>
        /\ powerHold' = held' /\ Up /\ ReadsAntMode
    BY DEF SetAntMode, runner, disk
  <1>2. clk' \in {clk, [clk EXCEPT !.holdEnd = now]} /\ clk \in Clocks
    BY ClockTypes DEF SetAntMode
  <1>3. clk'.watch = clk.watch
    BY <1>2 DEF Clocks
  <1>4. settle \in Nat /\ settle' \in {settle, WatchSettle} /\ settle' >= settle
        /\ (powerHold /\ ~held' => settle' >= WatchSettle)
    BY ConstantTypes DEF SetAntMode, TypeInv, TypeOK, CoreOK
  <1>5. phase \in Watching => knock' <= settle'
    <2> SUFFICES ASSUME phase \in Watching PROVE knock' <= settle'
      OBVIOUS
    <2>1. CASE knock' = knock
      BY <1>1, <1>4, <2>1, PlantTypes, ConstantTypes DEF AloneInv, CoveredInv
    <2>2. CASE held /\ ~held' /\ knock' = KnockTime
      BY <1>1, <1>4, <2>2, PlantTypes, ConstantTypes DEF AloneInv, CoveredInv
    <2> QED
      BY <2>1, <2>2
  <1>6. CoveredInv'
    BY <1>1, <1>5, PlantTypes DEF AloneInv, CoveredInv, phase, Up, ReadsAntMode
  <1>7. AnchorInv' /\ UnwokenInv'
    BY <1>1, <1>3 DEF AloneInv, AnchorInv, UnwokenInv, Up
  <1> QED
    BY <1>6, <1>7 DEF AloneInv

LEMMA HoldAlone ==
    ASSUME TypeInv, AloneInv, Hold
    PROVE  AloneInv'
  <1>1. held' = ~held /\ held' \in BOOLEAN /\ knock' = (IF held THEN KnockTime ELSE knock)
        /\ readback' = readback /\ ReadsAntMode
    BY DEF Hold
  <1>2. CASE Up
    <2>1. SetAntMode(held')
      BY <1>2 DEF Hold, Hearing, AloneInv, CoveredInv
    <2> QED
      BY <1>1, <2>1, HeldQuietly
  <1>3. CASE ~Up
    <2>1. UNCHANGED vars
      BY <1>3 DEF Hold, Hearing
    <2>2. UNCHANGED <<pc, disp, settle, powerHold, online, anchor, status, clk, file, state, cmd>>
      BY <2>1 DEF vars, core, inputs, runner, disk
    <2>3. CoveredInv'
      BY <1>1, <1>3, <2>2, PlantTypes DEF AloneInv, CoveredInv, Up, ReadsAntMode
    <2>4. AnchorInv' /\ UnwokenInv'
      BY <1>1, <1>3, <2>2 DEF AloneInv, AnchorInv, UnwokenInv, Up
    <2> QED
      BY <2>3, <2>4 DEF AloneInv
  <1> QED
    BY <1>2, <1>3

LEMMA RedeliverAlone ==
    ASSUME Unattended, TypeInv, AloneInv, Redeliver
    PROVE  AloneInv'
  <1>1. UNCHANGED <<readback, knock, held>>
    BY DEF Redeliver, plant
  <1>2. CASE SetAntMode(held)
    <2>1. SetAntMode(held') /\ held' \in BOOLEAN
      BY <1>1, <1>2 DEF AloneInv, CoveredInv
    <2> QED
      BY <1>1, <2>1, HeldQuietly
  <1>3. CASE \E p \in Payloads[WatchedSlot] : p.val = readback /\ SetState(WatchedSlot, p)
    <2>1. PICK p \in Payloads[WatchedSlot] : p.val = readback /\ SetState(WatchedSlot, p)
      BY <1>3
    <2>2. readback \in Values
      BY DEF AloneInv, CoveredInv
    <2>3. /\ AnchorInv' /\ UNCHANGED <<core, cmd, file, online, powerHold, antModeSeen, pc>>
          /\ state'[ActivitySlot] = state[ActivitySlot]
      BY <1>1, <2>1, <2>2, HeardQuietly DEF AloneInv
    <2>4. CoveredInv'
      BY <1>1, <2>3 DEF AloneInv, CoveredInv, core, phase, Up
    <2>5. UnwokenInv'
      BY <2>3 DEF AloneInv, UnwokenInv, core
    <2> QED
      BY <2>3, <2>4, <2>5 DEF AloneInv
  <1>4. CASE Receive(ActivitySlot)
    <2>1. PICK p \in Payloads[ActivitySlot] : SetState(ActivitySlot, p)
      BY <1>4 DEF Receive
    <2>2. UNCHANGED <<disp, settle, status, cmd, file, online, powerHold, pc>>
          /\ state' = [state EXCEPT ![ActivitySlot] = p] /\ NoteWatches(ActivitySlot, p)
      BY <2>1 DEF SetState, runner, disk
    <2>3. UNCHANGED <<anchor, clk>>
      BY <2>2 DEF NoteWatches, Unattended
    <2>4. state'[ActivitySlot] = p /\ p.last = Never
      BY <2>2, PlantTypes DEF Unattended, TypeInv, TypeOK, InputsOK
    <2>5. CoveredInv'
      BY <1>1, <2>2 DEF AloneInv, CoveredInv, phase, Up
    <2>6. AnchorInv' /\ UnwokenInv'
      BY <1>1, <2>2, <2>3, <2>4 DEF AloneInv, AnchorInv, UnwokenInv, Up
    <2> QED
      BY <2>5, <2>6 DEF AloneInv
  <1> QED
    BY <1>2, <1>3, <1>4 DEF Redeliver

\* The window runs out together with the steps, and under a hold only once that is known.
LEMMA PassesAlone ==
    ASSUME TypeInv, AloneInv, Passes
    PROVE  AloneInv'
  <1>1. UNCHANGED <<disp, clk, pc, powerHold, online, status, state, anchor, cmd, file,
                    readback, held>>
        /\ settle' = Less(settle) /\ knock' = Less(knock)
    BY DEF Passes, Tick, disk
  <1>2. settle \in Nat /\ knock \in 0..KnockTime
    BY DEF TypeInv, TypeOK, CoreOK, AloneInv, CoveredInv
  <1>3. knock' \in 0..KnockTime /\ (knock <= settle => knock' <= settle')
    BY <1>1, <1>2, PlantTypes DEF Less
  <1>4. Up /\ held => powerHold
    BY DEF Passes, Delivered, Hearing, AloneInv, CoveredInv
  <1>5. CoveredInv'
    BY <1>1, <1>3, <1>4 DEF AloneInv, CoveredInv, phase, Up
  <1>6. AnchorInv' /\ UnwokenInv'
    BY <1>1 DEF AloneInv, AnchorInv, UnwokenInv, Up
  <1> QED
    BY <1>5, <1>6 DEF AloneInv

LEMMA EndedAlone ==
    ASSUME Ended, AloneInv, knock' \in {knock, KnockTime}, UNCHANGED <<readback, held>>,
           file' = file \/ file' = Snap
    PROVE  AloneInv'
  <1>1. pc' = "down" /\ powerHold' = FALSE /\ anchor'[WatchedSlot] = None /\ cmd' = "none"
        /\ state'[ActivitySlot] = None /\ clk'.watch = Never
    BY PlantTypes DEF Ended, NoClocks
  <1>2. CoveredInv'
    BY <1>1, PlantTypes DEF AloneInv, CoveredInv, Up
  <1>3. AnchorInv'
    BY <1>1 DEF AnchorInv
  <1>4. file' # None => file'.clk.watch = Never
    BY DEF AloneInv, UnwokenInv, Snap
  <1>5. UnwokenInv'
    BY <1>1, <1>4 DEF UnwokenInv
  <1> QED
    BY <1>2, <1>3, <1>5 DEF AloneInv

LEMMA SurroundingsAlone ==
    ASSUME Unattended, TypeInv, AloneInv, Surroundings
    PROVE  AloneInv'
  <1>1. UNCHANGED <<readback, knock, held>>
    BY DEF Surroundings, plant
  <1>2. CASE \E s \in Heard : SetStatus(s, TRUE)
    <2>1. PICK s \in Heard : SetStatus(s, TRUE)
      BY <1>2
    <2>2. UNCHANGED <<disp, clk, settle, pc, powerHold, online, state, anchor, cmd, file>>
          /\ status' = [status EXCEPT ![s] = "online"]
      BY <2>1 DEF SetStatus, core, runner, disk
    <2>3. status'[WatchedSlot] \in {status[WatchedSlot], "online"}
      BY <2>2, PlantTypes DEF TypeInv, TypeOK, InputsOK
    <2>4. CoveredInv'
      BY <1>1, <2>2 DEF AloneInv, CoveredInv, phase, Up
    <2>5. AnchorInv' /\ UnwokenInv'
      BY <1>1, <2>2, <2>3 DEF AloneInv, AnchorInv, UnwokenInv, Up
    <2> QED
      BY <2>4, <2>5 DEF AloneInv
  <1>3. ~Connect /\ ~Disconnect
    BY DEF Connect, Disconnect, Unattended, AloneInv, CoveredInv
  <1>4. CASE Request("start")
    <2>1. UNCHANGED <<disp, clk, settle, pc, powerHold, online, status, state, anchor, cmd, file>>
      BY <1>4 DEF Request, core, inputs, runner, disk
    <2>2. CoveredInv'
      BY <1>1, <2>1 DEF AloneInv, CoveredInv, phase, Up
    <2>3. AnchorInv' /\ UnwokenInv'
      BY <1>1, <2>1 DEF AloneInv, AnchorInv, UnwokenInv, Up
    <2> QED
      BY <2>2, <2>3 DEF AloneInv
  <1>5. CASE Restart
    <2>1. UNCHANGED <<powerHold, status, state, anchor, cmd, file>> /\ online' = TRUE /\ Up' /\ ~Up
          /\ disp' = Restored /\ clk' = RestoredClocks
          /\ settle' = IF StateFile /\ file # None THEN WatchSettle ELSE 0
      BY <1>5 DEF Restart, Up
    <2>2. phase' \in Watching => settle' = WatchSettle
      BY <2>1 DEF Restored, IdleDisp, Watching, phase
    <2>3. CoveredInv'
      BY <1>1, <2>1, <2>2, PlantTypes, ConstantTypes DEF AloneInv, CoveredInv
    <2>4. AnchorInv'
      BY <1>1, <2>1 DEF AloneInv, AnchorInv
    <2>5. UnwokenInv'
      BY <2>1 DEF AloneInv, UnwokenInv, RestoredClocks, NoClocks
    <2> QED
      BY <2>3, <2>4, <2>5 DEF AloneInv
  <1>6. CASE Crash
    BY <1>1, <1>6, EndedAlone DEF Crash
  <1> QED
    BY <1>2, <1>3, <1>4, <1>5, <1>6 DEF Surroundings

\* The phase the runner goes to opens a window, unless it goes on in the one it was in;
\* it switches the power in no phase in which a watch counts.
LEMMA SetPhaseOpens ==
    ASSUME TypeInv, NEW ph, NEW f, SetPhase(ph, f)
    PROVE  /\ phase' = ph /\ clk'.watch = clk.watch /\ Up'
           /\ settle' = WatchSettle \/ (phase' = phase /\ settle' = settle)
  BY ClockTypes DEF SetPhase, TypeInv, TypeOK, CoreOK, Disp, Clocks, phase, Up

Opens ==
    /\ Up /\ Up' /\ clk'.watch = clk.watch
    /\ phase' \in Watching => /\ settle' = WatchSettle \/ (phase' = phase /\ settle' = settle)
                              /\ sent' = sent

LEMMA RunnerOpens ==
    ASSUME TypeInv, PhaseInv, Runner, ~Exit
    PROVE  Opens
  <1>0. disp \in Disp /\ clk \in Clocks
    BY ClockTypes DEF TypeInv, TypeOK, CoreOK
  <1>1. CASE PersistStep \/ IdleTick \/ PublishState \/ Republish \/ ExecTimed
    <2>1. UNCHANGED <<disp, clk, settle, sent>> /\ Up /\ Up'
      BY <1>1 DEF PersistStep, IdleTick, PublishState, Republish, ExecTimed, core, bus, TypeInv,
                  TypeOK, RunnerOK, Up
    <2> QED
      BY <2>1 DEF Opens, phase
  <1>2. CASE TakeCmd \/ BeginIdle
    <2>1. UNCHANGED <<clk, settle, sent>> /\ Up
      BY <1>2 DEF TakeCmd, BeginIdle, bus, Up
    <2>2. CASE \E c \in {cmd, Head(cmdCh)} : Begin(c)
      <3>1. PICK c \in {cmd, Head(cmdCh)} : Begin(c)
        BY <2>2
      <3>2. phase' \notin Watching /\ Up'
        BY <3>1 DEF Begin, Moves, StopFrom, Resting, Move, Watching, phase, Up
      <3> QED
        BY <2>1, <3>2 DEF Opens
    <2>3. CASE UNCHANGED disp /\ Up'
      BY <2>1, <2>3 DEF Opens, phase
    <2> QED
      BY <1>2, <2>2, <2>3 DEF TakeCmd, BeginIdle, Up
  <1>3. CASE NextStep
    <2>1. Up /\ sent' = sent
      BY <1>3 DEF NextStep, bus, Up
    <2>2. CASE \E ph, f : SetPhase(ph, f)
      BY <2>1, <2>2, SetPhaseOpens DEF Opens
    <2>3. CASE disp' = [disp EXCEPT !.step = run.at, !.fault = "none"] /\ UNCHANGED <<clk, settle>> /\ Up'
      BY <1>0, <2>1, <2>3 DEF Opens, phase, Disp
    <2> QED
      BY <1>3, <2>2, <2>3 DEF NextStep, Abort, Up
  <1>4. CASE ExecCmd \/ ExecWol \/ Delay \/ Poll
    <2>1. Up
      BY <1>4 DEF ExecCmd, ExecWol, Delay, Poll, Up
    <2>2. phase \notin Watching
      <3>1. InSequence /\ run.list \in ListNames
        BY <1>4 DEF ExecCmd, ExecWol, Delay, Poll, InSequence, TypeInv, TypeOK, RunnerOK, Run
      <3>2. phase \in Moving
        BY <3>1, MidPhases DEF PhaseInv, MovingInv
      <3> QED
        BY <3>2 DEF Moving, Watching
    <2>3. CASE \E f : Abort(f)
      <3>1. PICK f : SetPhase("idle", f)
        BY <2>3 DEF Abort
      <3>2. phase' = "idle" /\ clk'.watch = clk.watch /\ Up'
        BY <3>1, SetPhaseOpens
      <3> QED
        BY <2>1, <3>2 DEF Opens, Watching
    <2>4. CASE UNCHANGED <<disp, clk>> /\ Up'
      BY <2>1, <2>2, <2>4 DEF Opens, phase
    <2> QED
      BY <1>4, <2>1, <2>3, <2>4 DEF ExecCmd, ExecWol, Delay, Poll, GiveUp, Done, core, Up
  <1> QED
    BY <1>1, <1>2, <1>3, <1>4 DEF Runner

\* No clock of the idle logic says that there was activity.
LEMMA NoWakeDue ==
    ASSUME TypeInv, UnwokenInv
    PROVE  ~WakeDue
  <1>1. clk.standby \in Int /\ clk.standby >= Never
    BY ClockTypes, ConstantTypes DEF Clocks, Time
  <1> QED
    BY <1>1, ConstantTypes DEF WakeDue, UnwokenInv

LEMMA RunnerStays ==
    ASSUME Runner, ~Exit, cmd # "wake", ~WakeDue
    PROVE  UNCHANGED inputs /\ cmd' # "wake" /\ (file' = file \/ file' = Snap)
  <1>1. IdleDecision # "wake"
    BY DEF IdleDecision
  <1>2. CASE IdleTick
    BY <1>1, <1>2 DEF IdleTick, Persist, Write, disk
  <1>3. CASE PersistStep
    BY <1>3 DEF PersistStep, Persist, Write, disk
  <1>4. CASE Runner /\ ~IdleTick /\ ~PersistStep
    BY <1>4 DEF Runner, PublishState, TakeCmd, BeginIdle, Republish, NextStep, ExecCmd, ExecWol,
                ExecTimed, Delay, Poll, disk
  <1> QED
    BY <1>2, <1>3, <1>4

LEMMA SequencesAlone ==
    ASSUME TypeInv, PhaseInv, AloneInv, Sequences
    PROVE  AloneInv'
  <1>1. Runner /\ UNCHANGED <<readback, held>> /\ knock' = IF sent' # sent THEN KnockTime ELSE knock
    BY DEF Sequences
  <1>2. CASE Exit
    <2>1. Ended /\ (file' = file \/ file' = Snap)
      BY <1>2 DEF Exit, Write
    <2> QED
      BY <1>1, <2>1, EndedAlone
  <1>3. CASE ~Exit
    <2>1. UNCHANGED inputs /\ cmd' # "wake" /\ (file' = file \/ file' = Snap)
      BY <1>1, <1>3, NoWakeDue, RunnerStays DEF AloneInv, UnwokenInv
    <2>2. Opens
      BY <1>1, <1>3, RunnerOpens
    <2>3. knock' \in 0..KnockTime
      BY <1>1, PlantTypes DEF AloneInv, CoveredInv
    <2>4. UNCHANGED <<powerHold, online, status, state, anchor>>
      BY <2>1 DEF inputs
    <2>5. phase' \in Watching => /\ knock' <= settle'
                                 /\ held /\ ~powerHold => settle' >= WatchSettle
      BY <1>1, <2>2, <2>3, PlantTypes, ConstantTypes DEF Opens, AloneInv, CoveredInv
    <2>6. CoveredInv'
      BY <1>1, <2>2, <2>3, <2>4, <2>5 DEF Opens, AloneInv, CoveredInv
    <2>7. AnchorInv'
      BY <1>1, <2>2, <2>4 DEF Opens, AloneInv, AnchorInv
    <2>8. file' # None => file'.clk.watch = Never
      BY <2>1 DEF AloneInv, UnwokenInv, Snap
    <2>9. UnwokenInv'
      BY <2>1, <2>2, <2>4, <2>8 DEF Opens, AloneInv, UnwokenInv
    <2> QED
      BY <2>6, <2>7, <2>9 DEF AloneInv
  <1> QED
    BY <1>2, <1>3

LEMMA AloneStep ==
    ASSUME Unattended
    PROVE  TypeInv /\ PhaseInv /\ AloneInv /\ [SNext]_<<vars, plant>> => AloneInv'
  <1> SUFFICES ASSUME TypeInv, PhaseInv, AloneInv, [SNext]_<<vars, plant>> PROVE AloneInv'
    OBVIOUS
  <1>1. CASE UNCHANGED <<vars, plant>>
    <2>1. UNCHANGED <<pc, disp, settle, powerHold, online, anchor, status, clk, file, state, cmd,
                      readback, knock, held>>
      BY <1>1 DEF vars, core, inputs, runner, disk, plant
    <2>2. CoveredInv'
      BY <2>1 DEF AloneInv, CoveredInv, phase, Up
    <2>3. AnchorInv' /\ UnwokenInv'
      BY <2>1 DEF AloneInv, AnchorInv, UnwokenInv, Up
    <2> QED
      BY <2>2, <2>3 DEF AloneInv
  <1>2. CASE SNext
    BY <1>2, KnockAlone, HoldAlone, RedeliverAlone, PassesAlone, SequencesAlone, SurroundingsAlone
       DEF SNext
  <1> QED
    BY <1>1, <1>2

\* The station does not wake itself: what its own switching and the borrows of the antenna
\* mode put on the watched device is covered by a hold or a settle window (noteWatchesLocked,
\* SetAntModeState, setPhase), across crashes and restarts.
THEOREM AsleepStays ==
    ASSUME Unattended
    PROVE  SSpec => NoSelfWake
  <1>1. SInit => Init /\ AloneInv
    BY InitAlone DEF SInit
  <1>2. AloneInv /\ [SNext]_<<vars, plant>> => [Next]_vars
    BY PlantStep DEF AloneInv, CoveredInv
  <1>3. AloneInv' => [cmd' # "wake"]_<<vars, plant>>
    BY DEF AloneInv, UnwokenInv
  <1> QED
    BY <1>1, <1>2, <1>3, InitType, TypeStep, InitPhase, PhaseStep, AloneStep, PTL DEF SSpec, NoSelfWake
=============================================================================
