------------------------------ MODULE PowerSeq ------------------------------
(***************************************************************************)
(* The station startup/shutdown sequencer: package seq of powerseq.  One   *)
(* runner goroutine executes one configured step list at a time; the mqtt  *)
(* layer feeds it observations, the antenna-mode hold and the operator's   *)
(* start/stop from other goroutines; the phase survives a restart in a     *)
(* state file.                                                             *)
(*                                                                         *)
(* Grain: one action per stretch of the code that another goroutine or a   *)
(* crash can separate from the next one.  begin() therefore ends where it  *)
(* releases the mutex, and the write of the state file (persist) and the   *)
(* publication of the retained /state (publishState) that follow a phase   *)
(* or step change are steps of their own.                                  *)
(***************************************************************************)
EXTENDS Integers, Sequences, FiniteSetsExt

CONSTANTS
    Slots,            \* slots the step lists and the idle logic refer to
    Values,           \* values of a /state field or of a /cmd, coded as integers
    Inactive,         \* the code of antenna-select's activity="inactive"
    Lists,            \* the configured step lists, by name
    ActivitySlot,     \* the antenna-select slot
    WatchSlots,       \* slots of the [[idle.watch]] entries (one field each)
    MinDelta,         \* deadband of the watches
    Payloads,         \* Payloads[s]: the /state snapshots slot s may publish
    AntModeSlot,      \* TRUE when an antenna-mode slot is configured
    StateFile,        \* TRUE when a state file is configured
    IdleTimeout, ShutdownTimeout, WatchSettle, AntModeHold,   \* ticks
    QueueCap,         \* capacity of cmdCh
    MaxTime,          \* bound: the wall clock stops here, timers keep running
    WriteFaults,      \* TRUE when a write of the state file may fail
    LosesFile,        \* TRUE when the state file may be lost while the process is down
    PublishFaults,    \* TRUE when a publish or a magic packet may fail
    Drops,            \* TRUE when the broker connection may be lost
    Crashes,          \* TRUE when the process may be killed
    Signals,          \* TRUE when the process may be asked to terminate
    None              \* no snapshot, no value, no file

ListNames == {"startup", "shutdown", "standby", "wake", "idle_shutdown"}
Resting   == {"idle", "running", "standby"}
Moving    == {"starting", "stopping", "entering_standby", "waking"}
Phases    == Resting \cup Moving
Faults    == {"none", "broker", "publish", "wol", "timeout", "interrupted",
              "restart", "unconfigured"}
Reasons   == {"none", "operator", "idle_shutdown"}

\* wait_online and wait_offline are the two forms of wait_status.
Kinds == {"cmd", "wait_online", "wait_offline", "wait_state", "delay", "wol"}
Step  == [kind  : Kinds,
          slots : SUBSET Slots,            \* one slot, but for wait_online/wait_offline
          want  : Values \cup {None},      \* value of a cmd or of a wait_state
          hold  : Nat,                     \* debounce of a wait
          span  : Nat]                     \* timeout of a wait, length of a delay

\* A clock that was never set is older than every timeout.
Never    == 0 - (IdleTimeout + ShutdownTimeout)
Time     == Never..MaxTime
Snapshot == [dev : BOOLEAN, val : Values \cup {None}, last : Time]

StandbyEnabled == Lists["standby"] # <<>>

ASSUME ConfigAssumption ==
    /\ Lists \in [ListNames -> Seq(Step)]
    /\ (Lists["standby"] = <<>>) <=> (Lists["wake"] = <<>>)
    /\ (Lists["idle_shutdown"] # <<>>) => StandbyEnabled /\ ShutdownTimeout > IdleTimeout
    /\ StandbyEnabled => IdleTimeout > 0
    /\ ActivitySlot \in Slots
    /\ WatchSlots \subseteq Slots
    /\ Payloads \in [Slots -> SUBSET Snapshot]

ASSUME ParameterAssumption ==
    /\ IdleTimeout \in Nat /\ ShutdownTimeout \in Nat
    /\ WatchSettle \in Nat /\ AntModeHold \in Nat /\ MaxTime \in Nat
    /\ QueueCap \in Nat \ {0}
    /\ MinDelta \in Int
    /\ AntModeSlot \in BOOLEAN /\ StateFile \in BOOLEAN
    /\ WriteFaults \in BOOLEAN /\ LosesFile \in BOOLEAN /\ PublishFaults \in BOOLEAN /\ Drops \in BOOLEAN
    /\ Crashes \in BOOLEAN /\ Signals \in BOOLEAN
    /\ Values \subseteq Int
    /\ None \notin Values

VARIABLES
    (* the sequencer's own state, under its mutex *)
    disp,         \* phase, step, fault and stop reason: what is published and persisted
    clk,          \* runningSince, standbySince, lastWatch, holdEndedAt
    settle,       \* ticks left until settleUntil
    powerHold, antModeSeen,
    antModeWait,  \* ticks left until antModeWaitUntil
    online,       \* broker connection state as set by the mqtt layer
    status,       \* last /status of every slot
    state,        \* last /state of every slot
    anchor,       \* last counted value of every watch
    cmdCh,        \* operator commands accepted by request()
    republish,    \* the coalescing republishCh
    (* the runner goroutine *)
    pc,           \* where it is
    ret,          \* where it goes after persist and publishState
    cmd,          \* the idle command it has decided on
    run,          \* the list it executes, the next step of it, and the ticks of the
                  \* current wait or delay and for which its condition has held
    cancelled,    \* the context is cancelled (SIGTERM)
    saved,        \* the last snapshot it wrote, or tried to
    (* outside the process *)
    file,         \* the state file
    published,    \* the retained /state of the sequencer on the broker
    sent,         \* the last /cmd emitted to every slot
    now

core   == <<disp, clk, settle>>
inputs == <<powerHold, antModeSeen, antModeWait, online, status, state, anchor>>
chans  == <<cmdCh, republish>>
runner == <<pc, ret, cmd, run, cancelled>>
disk   == <<saved, file>>
bus    == <<published, sent>>
vars   == <<core, inputs, chans, runner, disk, bus, now>>

phase == disp.phase
Up    == pc # "down"

Disp   == [phase : Phases, step : Nat, fault : Faults, reason : Reasons]
Clocks == [running : Time, standby : Time, watch : Time, holdEnd : Time]
Saved  == [disp : Disp, clk : Clocks]
Run    == [list : ListNames, at : Nat \ {0}, waited : Nat, held : Nat \cup {-1}]

ASSUME NoneAssumption ==
    None \notin Snapshot /\ None \notin Disp /\ None \notin Saved

IdleDisp == [phase |-> "idle", step |-> 0, fault |-> "none", reason |-> "none"]
NoClocks == [running |-> Never, standby |-> Never, watch |-> Never, holdEnd |-> Never]
NoRun    == [list |-> "startup", at |-> 1, waited |-> 0, held |-> -1]

CoreOK == disp \in Disp /\ clk \in Clocks /\ settle \in Nat

InputsOK ==
    /\ powerHold \in BOOLEAN /\ antModeSeen \in BOOLEAN /\ antModeWait \in Nat
    /\ online \in BOOLEAN
    /\ status \in [Slots -> {"none", "online", "offline"}]
    /\ state \in [Slots -> Snapshot \cup {None}]
    /\ anchor \in [WatchSlots -> Values \cup {None}]

ChansOK == cmdCh \in Seq({"start", "stop"}) /\ Len(cmdCh) <= QueueCap /\ republish \in BOOLEAN

RunnerOK ==
    /\ pc \in {"down", "select", "decided", "persist", "publish", "step", "exec",
               "wait", "delay"}
    /\ ret \in {"select", "step", "exec"}
    /\ cmd \in {"none", "standby", "wake", "idle_shutdown"}
    /\ run \in Run
    /\ cancelled \in BOOLEAN

DiskOK == saved \in Saved \cup {None} /\ file \in Saved \cup {None}

BusOK == published \in Disp \cup {None} /\ sent \in [Slots -> Values \cup {None}]

TypeOK == CoreOK /\ InputsOK /\ ChansOK /\ RunnerOK /\ DiskOK /\ BusOK /\ now \in 0..MaxTime
-----------------------------------------------------------------------------
(* Observations: handlers of the mqtt layer, each under the mutex *)

\* Two-layer liveness: bridge LWT, and device_online not "false" in the last snapshot.
DeviceOnline(s) == state[s] # None => state[s].dev
IsOnline(s)     == status[s] = "online" /\ DeviceOnline(s)
StateField(s)   == IF state[s] = None THEN None ELSE state[s].val

SetStatus(s, on) ==
    /\ Up /\ online
    /\ status' = [status EXCEPT ![s] = IF on THEN "online" ELSE "offline"]
    /\ UNCHANGED <<core, powerHold, antModeSeen, antModeWait, online, state, anchor,
                   chans, runner, disk, bus, now>>

WatchMoved(old, new) ==
    /\ old # new
    /\ MinDelta <= 0 \/ new - old >= MinDelta \/ old - new >= MinDelta

\* Mutant: a phase change opens no settle window.
SettledAtOnce == phase \in {"running", "standby"} /\ ~powerHold

Settled == phase \in {"running", "standby"} /\ settle = 0 /\ ~powerHold

\* A fit, real value of a watch: the first one and one that is not settled only
\* set the anchor, a later one counts when it moved by the deadband.
NoteWatches(s, p) ==
    IF s \in WatchSlots /\ status[s] = "online" /\ p.dev /\ p.val # None
    THEN IF anchor[s] = None \/ ~Settled
         THEN anchor' = [anchor EXCEPT ![s] = p.val] /\ UNCHANGED clk
         ELSE IF WatchMoved(anchor[s], p.val)
         THEN /\ anchor' = [anchor EXCEPT ![s] = p.val]
              /\ clk' = [clk EXCEPT !.watch = now]
         ELSE UNCHANGED <<anchor, clk>>
    ELSE UNCHANGED <<anchor, clk>>

SetState(s, p) ==
    /\ Up /\ online
    /\ p.last <= now
    /\ state' = [state EXCEPT ![s] = p]
    /\ NoteWatches(s, p)
    /\ UNCHANGED <<disp, settle, powerHold, antModeSeen, antModeWait, online, status,
                   chans, runner, disk, bus, now>>

\* A malformed payload drops the slot's snapshot.
BadState(s) ==
    /\ Up /\ online
    /\ state' = [state EXCEPT ![s] = None]
    /\ UNCHANGED <<core, powerHold, antModeSeen, antModeWait, online, status, anchor,
                   chans, runner, disk, bus, now>>

ReadsAntMode == AntModeSlot /\ StandbyEnabled

\* A snapshot of the antenna-mode slot.  (An empty payload is a snapshot without
\* hold; a malformed one changes nothing and is no action.)
SetAntMode(hold) ==
    /\ Up /\ online /\ ReadsAntMode
    /\ antModeSeen' = TRUE
    /\ powerHold' = hold
    /\ IF powerHold /\ ~hold
       THEN /\ settle' = IF WatchSettle > settle THEN WatchSettle ELSE settle
            /\ clk' = [clk EXCEPT !.holdEnd = now]
       ELSE UNCHANGED <<settle, clk>>
    /\ UNCHANGED <<disp, antModeWait, online, status, state, anchor,
                   chans, runner, disk, bus, now>>

\* Mutant: a reconnect does not ask for the retained /state again.
RepublishForgotten == UNCHANGED republish

RequestRepublish == republish' = TRUE

\* OnConnect: SetBrokerOnline(true), which reopens the ant-mode window, and
\* RequestRepublish.
Connect ==
    /\ Up /\ ~online
    /\ online' = TRUE
    /\ IF ReadsAntMode
       THEN antModeSeen' = FALSE /\ antModeWait' = AntModeHold
       ELSE UNCHANGED <<antModeSeen, antModeWait>>
    /\ RequestRepublish
    /\ UNCHANGED <<core, powerHold, status, state, anchor, cmdCh, runner, disk, bus, now>>

Disconnect ==
    /\ Up /\ online /\ Drops
    /\ online' = FALSE
    /\ UNCHANGED <<core, powerHold, antModeSeen, antModeWait, status, state, anchor,
                   chans, runner, disk, bus, now>>

-----------------------------------------------------------------------------
(* The transitions, and the commands of the operator *)

Move(c, from, mid, l, reason) ==
    [cmd |-> c, from |-> from, mid |-> mid, list |-> l, reason |-> reason]

\* Mutant: a station in standby takes no stop, neither request() nor begin().
StopFromAwake == {"running", "idle"}

\* The phases in which request() and begin() take a stop.
StopFrom == Resting

\* The transitions begin() allows; reason "keep" leaves the stop reason alone.
Moves ==
    {Move("start", "idle",    "starting", "startup", "none"),
     Move("start",   "standby", "waking", "wake", "keep"),
     Move("wake",    "standby", "waking", "wake", "keep"),
     Move("standby", "running", "entering_standby", "standby", "keep"),
     Move("idle_shutdown", "standby", "stopping", "idle_shutdown", "idle_shutdown")}
    \cup {Move("stop", p, "stopping", "shutdown", "operator") : p \in StopFrom}

\* begin() finds no transition for the command: ok=false.
Refused(c) == \A m \in Moves : ~(m.cmd = c /\ m.from = phase)

\* request(): the fast-path phase check, which names the phases begin() names, and
\* the non-blocking send to cmdCh.
Accepts(c) == ~Refused(c)

\* Mutant: the send does not look at the room left.
RoomAssumed == Len(cmdCh) <= QueueCap

Room == Len(cmdCh) < QueueCap

Request(c) ==
    /\ Up /\ online
    /\ Accepts(c) /\ Room
    /\ cmdCh' = Append(cmdCh, c)
    /\ UNCHANGED <<core, inputs, republish, runner, disk, bus, now>>
-----------------------------------------------------------------------------
(* The state file and the retained /state *)

Snap == [disp |-> disp, clk |-> clk]

\* writeStateFile is atomic: the old or the new file.  A failed write is not
\* repeated before the snapshot changes again.
Write == file' = Snap \/ (WriteFaults /\ file' = file)

\* Mutant: the throttle holds back phase and step changes, too.
PersistLate(tick) ==
    \/ StateFile /\ saved # Snap /\ saved' = Snap /\ Write
    \/ UNCHANGED disk

\* persist(): on the idle tick a change of the clocks alone may be held back
\* (the PersistEvery throttle, here a choice).
Persist(tick) ==
    \/ StateFile /\ saved # Snap /\ saved' = Snap /\ Write
    \/ /\ ~StateFile \/ saved = Snap \/ (tick /\ saved # None /\ saved.disp = disp)
       /\ UNCHANGED disk

\* The runner after a phase or step change: persist, publishState, go on at ret.
PersistStep ==
    /\ pc = "persist"
    /\ Persist(FALSE)
    /\ pc' = "publish"
    /\ UNCHANGED <<core, inputs, chans, ret, cmd, run, cancelled, bus, now>>

\* A publish blocks until it is acknowledged or publishTimeout passes, so one
\* begun offline may also succeed on the reconnect.
PublishState ==
    /\ pc = "publish"
    /\ \/ online /\ published' = disp
       \/ (PublishFaults \/ ~online) /\ UNCHANGED published
    /\ pc' = ret
    /\ UNCHANGED <<core, inputs, chans, ret, cmd, run, cancelled, disk, sent, now>>

\* setPhase() up to its unlock; persist and publishState follow, then the select.
\* The sequence is over and its locals are gone.
SetPhase(ph, f) ==
    /\ disp' = [disp EXCEPT !.phase = ph, !.step = 0, !.fault = f]
    /\ clk' = CASE ph = "running" /\ phase # "running" -> [clk EXCEPT !.running = now]
                [] ph = "standby" /\ phase # "standby" -> [clk EXCEPT !.standby = now]
                [] OTHER -> clk
    /\ settle' = IF ph # phase THEN WatchSettle ELSE settle
    /\ run' = NoRun
    /\ pc' = "persist" /\ ret' = "select"

Abort(reason) == SetPhase("idle", reason)
-----------------------------------------------------------------------------
(* Starting a sequence *)

EndPhase == [startup |-> "running", shutdown |-> "idle", standby |-> "standby",
             wake |-> "running", idle_shutdown |-> "idle"]

\* begin() up to its unlock.
Begin(c) ==
    \E m \in Moves :
        /\ m.cmd = c /\ m.from = phase
        /\ disp' = [phase |-> m.mid, step |-> 0, fault |-> "none",
                    reason |-> IF m.reason = "keep" THEN disp.reason ELSE m.reason]
        /\ run' = [NoRun EXCEPT !.list = m.list]
        /\ pc' = "persist" /\ ret' = "step"

\* The runner takes an operator command from cmdCh.
TakeCmd ==
    /\ pc = "select" /\ cmdCh # <<>>
    /\ \/ Begin(Head(cmdCh))
       \/ Refused(Head(cmdCh)) /\ UNCHANGED <<disp, run, pc, ret>>
    /\ cmdCh' = Tail(cmdCh)
    /\ UNCHANGED <<clk, settle, inputs, republish, cmd, cancelled, disk, bus, now>>

\* Mutant: the end of a power hold does not count.
LastActivityUnheld(m) == Max({clk.running, clk.watch, m.last})

\* The latest of the inputs of the idle-shutdown clock.
LastActivity(m) == Max({clk.running, clk.watch, clk.holdEnd, m.last})

WakeDue == \/ clk.watch > clk.standby
           \/ state[ActivitySlot] # None /\ state[ActivitySlot].last > clk.standby

\* Right after a connection the hold counts as unknown, until the antenna mode reports
\* or the window ends.
HoldKnown == ~AntModeSlot \/ antModeSeen \/ antModeWait = 0

StandbyDue ==
    /\ IsOnline(ActivitySlot) /\ StateField(ActivitySlot) = Inactive
    /\ now - clk.running >= IdleTimeout
    /\ now - clk.watch >= IdleTimeout

ShutdownDue ==
    /\ Lists["idle_shutdown"] # <<>> /\ state[ActivitySlot] # None
    /\ now - LastActivity(state[ActivitySlot]) >= ShutdownTimeout

\* idleDecision(): what the idle logic would do now.
IdleDecision ==
    IF ~online \/ powerHold \/ ~HoldKnown THEN "none"
    ELSE CASE phase = "running" /\ StandbyDue              -> "standby"
           [] phase = "standby" /\ WakeDue                 -> "wake"
           [] phase = "standby" /\ ~WakeDue /\ ShutdownDue -> "idle_shutdown"
           [] OTHER                                        -> "none"

\* The idle tick: write overdue clocks, decide.  The mutex is free between the
\* decision and begin().
IdleTick ==
    /\ pc = "select" /\ StandbyEnabled
    /\ Persist(TRUE)
    /\ cmd' = IdleDecision
    /\ pc' = IF IdleDecision = "none" THEN "select" ELSE "decided"
    /\ UNCHANGED <<core, inputs, chans, ret, run, cancelled, bus, now>>

BeginIdle ==
    /\ pc = "decided"
    /\ \/ Begin(cmd)
       \/ Refused(cmd) /\ pc' = "select" /\ UNCHANGED <<disp, run, ret>>
    /\ cmd' = "none"
    /\ UNCHANGED <<clk, settle, inputs, chans, cancelled, disk, bus, now>>

Republish ==
    /\ pc = "select" /\ republish
    /\ republish' = FALSE
    /\ pc' = "publish" /\ ret' = "select"
    /\ UNCHANGED <<core, inputs, cmdCh, cmd, run, cancelled, disk, bus, now>>
-----------------------------------------------------------------------------
(* Executing a sequence *)

Current == Lists[run.list][run.at]

\* Mutant: the last step is skipped.
AllButLast == run.at >= Len(Lists[run.list])

AllSteps == run.at > Len(Lists[run.list])

\* The head of runSequence's loop.
NextStep ==
    /\ pc = "step"
    /\ \/ AllSteps /\ SetPhase(EndPhase[run.list], "none")
       \/ ~AllSteps /\ cancelled /\ Abort("interrupted")
       \/ /\ ~AllSteps /\ ~cancelled
          /\ disp' = [disp EXCEPT !.step = run.at, !.fault = "none"]
          /\ pc' = "persist" /\ ret' = "exec"
          /\ UNCHANGED <<clk, settle, run>>
    /\ UNCHANGED <<inputs, chans, cmd, cancelled, disk, bus, now>>

\* execStep succeeded: on to the next step.
Done == /\ run' = [NoRun EXCEPT !.list = run.list, !.at = run.at + 1]
        /\ pc' = "step"
        /\ UNCHANGED <<core, ret>>

Emitted == [s \in Slots |-> IF s \in Current.slots THEN Current.want ELSE sent[s]]

\* A failed publish may still have reached the broker (a lost acknowledgement).
ExecCmd ==
    /\ pc = "exec" /\ Current.kind = "cmd"
    /\ \/ ~online /\ Abort("broker") /\ UNCHANGED sent
       \/ online /\ Done /\ sent' = Emitted
       \/ online /\ PublishFaults /\ Abort("publish") /\ sent' \in {sent, Emitted}
    /\ UNCHANGED <<inputs, chans, cmd, cancelled, disk, published, now>>

ExecWol ==
    /\ pc = "exec" /\ Current.kind = "wol"
    /\ Done \/ (PublishFaults /\ Abort("wol"))
    /\ UNCHANGED <<inputs, chans, cmd, cancelled, disk, bus, now>>

\* A delay or a wait starts its timers.
ExecTimed ==
    /\ pc = "exec" /\ Current.kind \notin {"cmd", "wol"}
    /\ pc' = IF Current.kind = "delay" THEN "delay" ELSE "wait"
    /\ UNCHANGED <<core, inputs, chans, ret, cmd, run, cancelled, disk, bus, now>>

Delay ==
    /\ pc = "delay"
    /\ \/ cancelled /\ Abort("interrupted")
       \/ run.waited >= Current.span /\ Done
    /\ UNCHANGED <<inputs, chans, cmd, cancelled, disk, bus, now>>

\* The condition of a wait step, over all its slots.
CondHolds ==
    \A s \in Current.slots :
        \/ Current.kind = "wait_online" /\ IsOnline(s)
        \/ Current.kind = "wait_offline" /\ status[s] = "offline"
        \/ Current.kind = "wait_state" /\ IsOnline(s) /\ StateField(s) = Current.want

HeldFor == IF run.held = -1 THEN 0 ELSE run.held

\* Mutant: a wait has no deadline.
NoDeadline == FALSE

TimedOut == run.waited > Current.span

\* Mutant: the sequence goes on after a wait that timed out.
GoOn == Done

GiveUp == Abort("timeout")

\* One round of wait()'s polling loop: context, broker and deadline are checked
\* before the condition, which must hold for the debounce window.
Poll ==
    /\ pc = "wait"
    /\ \/ cancelled /\ Abort("interrupted")
       \/ ~cancelled /\ ~online /\ Abort("broker")
       \/ ~cancelled /\ online /\ TimedOut /\ GiveUp
       \/ /\ ~cancelled /\ online /\ ~TimedOut
          /\ \/ CondHolds /\ HeldFor >= Current.hold /\ Done
             \/ /\ ~CondHolds \/ HeldFor < Current.hold
                /\ run' = [run EXCEPT !.held = IF CondHolds THEN HeldFor ELSE -1]
                /\ UNCHANGED <<core, pc, ret>>
    /\ UNCHANGED <<inputs, chans, cmd, cancelled, disk, bus, now>>
-----------------------------------------------------------------------------
(* The process and its environment *)

\* Mutant: the phase is taken from the file as it is.
RestoredAsIs == IF ~StateFile \/ file = None THEN IdleDisp ELSE [file.disp EXCEPT !.step = 0]

\* Mutant: an interrupted sequence restores without a fault.
RestoredQuietly ==
    CASE ~StateFile \/ file = None -> IdleDisp
      [] StateFile /\ file # None /\ file.disp.phase \in Moving ->
            [IdleDisp EXCEPT !.reason = file.disp.reason]
      [] OTHER -> [file.disp EXCEPT !.step = 0]

\* New(): the phase restored from the state file.
Restored ==
    CASE ~StateFile \/ file = None -> IdleDisp
      [] StateFile /\ file # None /\ file.disp.phase \in Moving ->
            [IdleDisp EXCEPT !.fault = "restart", !.reason = file.disp.reason]
      [] StateFile /\ file # None /\ file.disp.phase = "standby" /\ ~StandbyEnabled ->
            [IdleDisp EXCEPT !.fault = "unconfigured", !.reason = file.disp.reason]
      [] OTHER -> [file.disp EXCEPT !.step = 0]

\* Mutant: the clocks are not restored.
ClocksLost == NoClocks

\* Mutant: the standby begins anew with every start.
ClocksRestamped ==
    IF StateFile /\ file # None THEN [file.clk EXCEPT !.standby = now] ELSE NoClocks

RestoredClocks == IF StateFile /\ file # None THEN file.clk ELSE NoClocks

\* The process starts: restore, connect, Run.
Restart ==
    /\ pc = "down"
    /\ disp' = Restored
    /\ clk' = RestoredClocks
    /\ settle' = IF StateFile /\ file # None THEN WatchSettle ELSE 0
    /\ saved' = IF StateFile THEN file ELSE None
    /\ online' = TRUE /\ republish' = TRUE
    /\ antModeWait' = IF ReadsAntMode THEN AntModeHold ELSE 0
    /\ pc' = "persist" /\ ret' = "select"
    /\ UNCHANGED <<powerHold, antModeSeen, status, state, anchor, cmdCh, cmd, run, cancelled,
                   file, bus, now>>

\* The process ends and its memory is gone.
Ended ==
    /\ pc' = "down" /\ ret' = "select" /\ cmd' = "none" /\ run' = NoRun /\ cancelled' = FALSE
    /\ disp' = IdleDisp /\ clk' = NoClocks /\ settle' = 0 /\ saved' = None
    /\ powerHold' = FALSE /\ antModeSeen' = FALSE /\ antModeWait' = 0 /\ online' = FALSE
    /\ status' = [s \in Slots |-> "none"]
    /\ state' = [s \in Slots |-> None]
    /\ anchor' = [s \in WatchSlots |-> None]
    /\ cmdCh' = <<>> /\ republish' = FALSE

\* Run returns on a cancelled context and flushes pending clock changes.
Exit ==
    /\ pc = "select" /\ cancelled
    /\ IF StateFile /\ saved # Snap THEN Write ELSE UNCHANGED file
    /\ Ended
    /\ UNCHANGED <<bus, now>>

\* SIGTERM.  main waits for the runner a bounded time: a Crash may come first.
Cancel ==
    /\ Up /\ ~cancelled /\ Signals
    /\ cancelled' = TRUE
    /\ UNCHANGED <<core, inputs, chans, pc, ret, cmd, run, disk, bus, now>>

\* SIGKILL, a power cut of the Pi.
Crash ==
    /\ Up /\ Crashes
    /\ Ended
    /\ UNCHANGED <<file, bus, now>>

\* The file is lost or corrupt while the process is down.
LoseFile ==
    /\ pc = "down" /\ LosesFile /\ file # None
    /\ file' = None
    /\ UNCHANGED <<core, inputs, chans, runner, saved, bus, now>>

\* The broker loses its retained messages, and the connection with them.
Wipe ==
    /\ Up /\ ~online /\ published # None
    /\ published' = None
    /\ UNCHANGED <<core, inputs, chans, runner, disk, sent, now>>

Less(n) == IF n > 0 THEN n - 1 ELSE 0

\* Time passes; a timer that has run out is not advanced further.
Tick ==
    /\ now' = IF now < MaxTime THEN now + 1 ELSE now
    /\ settle' = Less(settle)
    /\ antModeWait' = Less(antModeWait)
    /\ run' = [run EXCEPT
                 !.waited = IF pc \in {"wait", "delay"} /\ @ <= Current.span
                            THEN @ + 1 ELSE @,
                 !.held = IF pc = "wait" /\ @ # -1 /\ @ < Current.hold THEN @ + 1 ELSE @]
    /\ UNCHANGED <<disp, clk, powerHold, antModeSeen, online, status, state, anchor, chans,
                   pc, ret, cmd, cancelled, disk, bus>>

\* A file left by a configuration with standby, for one without.
OldStandby == [disp |-> [IdleDisp EXCEPT !.phase = "standby"], clk |-> NoClocks]

Init ==
    /\ disp = IdleDisp
    /\ clk = NoClocks /\ settle = 0
    /\ powerHold = FALSE /\ antModeSeen = FALSE /\ antModeWait = 0
    /\ online = FALSE
    /\ status = [s \in Slots |-> "none"]
    /\ state = [s \in Slots |-> None]
    /\ anchor = [s \in WatchSlots |-> None]
    /\ cmdCh = <<>> /\ republish = FALSE
    /\ pc = "down" /\ ret = "select" /\ cmd = "none" /\ run = NoRun /\ cancelled = FALSE
    /\ saved = None
    /\ file \in {None} \cup {f \in {OldStandby} : ~StandbyEnabled}
    /\ published = None
    /\ sent = [s \in Slots |-> None]
    /\ now = 0

\* The slots whose observations matter; the others only receive commands.
Heard == {s \in Slots : Payloads[s] # {}}

Receive(s) == \E p \in Payloads[s] : SetState(s, p)

Runner ==
    \/ PersistStep \/ PublishState \/ TakeCmd \/ IdleTick \/ BeginIdle \/ Republish \/ Exit
    \/ NextStep \/ ExecCmd \/ ExecWol \/ ExecTimed \/ Delay \/ Poll

Others ==
    \/ \E s \in Heard, on \in BOOLEAN : SetStatus(s, on)
    \/ \E s \in Heard : BadState(s)
    \/ \E hold \in BOOLEAN : SetAntMode(hold)
    \/ Connect \/ Disconnect
    \/ \E c \in {"start", "stop"} : Request(c)
    \/ Restart \/ Cancel \/ Crash \/ LoseFile \/ Wipe
    \/ Tick

Next == (\E s \in Heard : Receive(s)) \/ Runner \/ Others

Spec == Init /\ [][Next]_vars
-----------------------------------------------------------------------------
\* The runner only waits for work in a resting phase: in any other phase every
\* start and stop would be ignored for good, as there is no cancel.
NeverWedged == pc \in {"select", "decided"} => phase \in Resting

\* A sequence whose first step may have run is on disk as a sequence in flight: a
\* crash then restores as interrupted, not as the resting phase before it (begin()
\* persists before the first step).  After a failed write the file may lag.
InFlightOnDisk ==
    StateFile /\ pc \in {"step", "exec", "wait", "delay"} /\ file = saved
        => file # None /\ file.disp.phase = phase /\ phase \in Moving

\* A stop that request() accepted is never lost to the busy guard of begin(), whatever
\* sequences the runner went through before it took the command: another command of the
\* queue, a standby, a wake or an idle shutdown decided meanwhile.
AcceptedStopRuns ==
    [][pc = "select" /\ cmdCh # <<>> /\ Head(cmdCh) = "stop" /\ Len(cmdCh') < Len(cmdCh)
         /\ pc' # "down" => phase' = "stopping"]_vars
=============================================================================
