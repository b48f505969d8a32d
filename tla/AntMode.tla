------------------------------- MODULE AntMode ------------------------------
(***************************************************************************)
(* antmode: the engine's handlers on its one worker, the state file, its   *)
(* own retained topics and the broker link (internal/engine,               *)
(* internal/mqtt, internal/store, cmd/antmode).                            *)
(*                                                                         *)
(* A handler is one step up to its next effect.  A file write and a        *)
(* publish are steps of their own, they may fail, and between any two      *)
(* steps the process may crash.  Time is a set of deadlines; a tick makes  *)
(* some of them pass.                                                      *)
(***************************************************************************)
EXTENDS AntEngine, Sequences

CONSTANTS
    Commands,       \* commands an operator may send
    Phases,         \* phases powerseq may report
    Rotators,       \* rotator readbacks
    AntCtrls,       \* readbacks of the elements
    Switches,       \* whether the ant-switch may report off
    Radios,         \* states of the radio
    Powers,         \* states of the antenna power
    Winds,          \* wind directions
    Deadlines,      \* deadlines that may pass
    QueueCap,       \* commands queued during the startup hold
    Drops,          \* the broker link may drop
    Timeouts,       \* topics of which a publish may time out
    Crashes,        \* the process may crash
    LosesFile,      \* a crash may lose the state file
    WriteFails,     \* a write of the state file may fail
    Beats,          \* the history keeps the beat of the ticks
    SteadyStart     \* the first connection outlives the startup hold

ASSUME AntModeAssumption ==
    /\ Timeouts \subseteq {"state", "cmd", "power"}
    /\ Winds \subseteq Nat /\ QueueCap \in Nat
    /\ {Drops, Crashes, LosesFile, WriteFails, Beats, SteadyStart} \subseteq BOOLEAN

VARIABLES
    eng,        \* the engine's memory
    at,         \* where the worker is, and what an aborted borrow puts back
    file,       \* the state file
    state,      \* own retained /state
    sent,       \* the /state last known published (lastState)
    cmd,        \* own retained /cmd, and whether it is on its way to the engine
    power,      \* antmode's last retained set_power
    net,        \* the broker link and the jobs it causes
    used,       \* highest seq ever used, which the clock is past
    past        \* history for the properties

world == <<file, state, sent, cmd, power, net, used>>
vars  == <<eng, at, world, past>>

NoCmd == [what |-> "none", due |-> FALSE]

\* up: the link; republish: Republish() is queued; replay:
\* own /state is still to come.
Unlinked == [up |-> FALSE, republish |-> FALSE, replay |-> FALSE]

At(pc, ret, force) == [pc |-> pc, ret |-> ret, force |-> force, phase |-> "idle", borrowSeq |-> 0]
Idle == At("idle", "", FALSE)

\* Highest seq a normal of either source has left, powerseq keeps borrowed power, seqs
\* whose borrowed power went off again, warnings the operator overruled; the quiet intervals
\* since a poll saw a warning, and whether the last poll was clean and nothing came in
\* between since; a beat that changes with every tick all deadlines pass in.
NoPast == [freed |-> [manual |-> 0, auto |-> 0], yielded |-> FALSE, back |-> {},
           overruled |-> {}, calm |-> 0, near |-> FALSE, beat |-> FALSE]

Init ==
    /\ eng = New(None, 0) /\ at = Idle
    /\ file = None /\ state = None /\ sent = None
    /\ cmd = NoCmd /\ power = "none" /\ net = Unlinked
    /\ used = 0 /\ past = NoPast
-----------------------------------------------------------------------------
(* How far a handler gets from a point of it: the memory and the effect it waits for. *)

Waits(e, pc, f) == [eng |-> e, at |-> At(pc, "", f)]

\* publishState()
Publishes(e, f) == e.run.ready /\ e.run.connected /\ (f \/ sent # View(e))

AtPublish(e, f) == IF Publishes(e, f) THEN Waits(e, "publish", f) ELSE [eng |-> e, at |-> Idle]

\* persist()
AtPersist(e, f) ==
    IF e.run.saved /\ file = Snapshot(e) THEN AtPublish(e, f) ELSE Waits(e, "persist", f)

\* stepBorrow()
AtReturn(e, f) ==
    LET w == Watch(e)
    IN IF Restores(w) THEN Waits(w, "restore", f)
       ELSE AtPersist(IF Yields(w) THEN Return(w) ELSE w, f)

AtLock(e, f) ==
    IF ~Locked(e) THEN AtReturn(e, f)
    ELSE IF e.phase = "awaiting_power" /\ e.borrow.open /\ ~e.borrow.sent
    THEN Waits(e, "resend", f)
    ELSE AtReturn(StepLock(e), f)

\* Mutant: the power goes on before the borrow is in the file.
AtBorrowUnsaved(e, ret, f) ==
    [eng |-> Borrow(e),
     at |-> [At("on", ret, f) EXCEPT !.phase = e.phase, !.borrowSeq = e.borrowSeq]]

\* startBorrowIfNeeded(), to go on at ret.
AtBorrow(e, ret, f) ==
    [eng |-> Borrow(e),
     at |-> [At("save", ret, f) EXCEPT !.phase = e.phase, !.borrowSeq = e.borrowSeq]]

AtLate(e, f) == IF Locked(e) /\ LateBorrow(e) THEN AtBorrow(e, "lock", f) ELSE AtLock(e, f)

Relocked(e, n) == Locked(n) /\ n.lock.seq # e.lock.seq

\* step()
AtStep(e, f) ==
    LET t == Track(NoteTX(e))
        n == Decide(t, Evaluate(t.pol, t.see.active, Manned(t)))
    IN IF Relocked(t, n) /\ CanBorrow(n) THEN AtBorrow(n, "late", f) ELSE AtLate(n, f)

\* The queued commands come before the step.
AtApply(e, f) == IF e.run.queue = <<>> THEN AtStep(e, f) ELSE Waits(e, "apply", f)

AtCommand(e, c, f) ==
    LET n == Applied(e, c)
    IN IF Relocked(e, n) /\ CanBorrow(n) THEN AtBorrow(n, "apply", f) ELSE AtApply(n, f)

Resume(e, ret, f) ==
    CASE ret = "apply" -> AtApply(e, f)
      [] ret = "late"  -> AtLate(e, f)
      [] ret = "lock"  -> AtLock(e, f)
-----------------------------------------------------------------------------
Higher(a, b) == IF a > b THEN a ELSE b

\* What the history makes of a step of the worker.
Recall(e) ==
    [past EXCEPT
       !.freed = IF Locked(eng) /\ ~Locked(e)
                 THEN [past.freed EXCEPT ![e.pol.source] = Higher(@, eng.lock.seq)] ELSE @,
       !.yielded = @ \/ /\ eng.borrow.open /\ at.pc \notin {"restore", "save"}
                        /\ ~e.borrow.open \/ (eng.borrow.taken /\ ~e.borrow.taken)]

Becomes(r) == eng' = r.eng /\ at' = r.at /\ used' = Higher(used, r.eng.pol.seq)

Runs(r) == Becomes(r) /\ past' = Recall(r.eng)

\* A publish: done, timed out but delivered, timed out, or failed as the link is down.
Outcomes(topic) ==
    IF ~net.up THEN {"failed"}
    ELSE IF topic \in Timeouts THEN {"ok", "late", "lost"} ELSE {"ok"}
Delivered(o) == o \in {"ok", "late"}

\* Mutant: what was sent counts as published, whether it got through or not.
PublishStateBlindly(o) ==
    /\ state' = IF Delivered(o) THEN View(eng) ELSE state
    /\ sent' = View(eng)

\* The dedup remembers what is known to be published.
PublishState(o) ==
    /\ state' = IF Delivered(o) THEN View(eng) ELSE state
    /\ sent' = IF o = "ok" THEN View(eng) ELSE sent

Writes == IF WriteFails THEN BOOLEAN ELSE {TRUE}

\* The worker applies the next command of the startup hold.
Apply ==
    /\ at.pc = "apply"
    /\ Runs(AtCommand([eng EXCEPT !.run.queue = Tail(@)], Head(eng.run.queue), at.force))
    /\ UNCHANGED <<file, state, sent, cmd, power, net>>

\* startBorrowIfNeeded(): the write of restore_to, undone when it fails.
Save(ok) ==
    /\ at.pc = "save"
    /\ file' = IF ok THEN Snapshot(eng) ELSE file
    /\ LET e == [eng EXCEPT !.run.saved = FALSE, !.over.borrow = FALSE]
           u == To([eng EXCEPT !.borrow = NoBorrow, !.borrowSeq = at.borrowSeq], at.phase)
       IN Runs(IF ok THEN [eng |-> e, at |-> [at EXCEPT !.pc =
                                IF Publishes(e, FALSE) THEN "hold" ELSE "on"]]
               ELSE Resume(u, at.ret, at.force))
    /\ UNCHANGED <<state, sent, cmd, power, net>>

\* The /state that carries power_hold.
Hold(o) ==
    /\ at.pc = "hold" /\ o \in Outcomes("state")
    /\ PublishState(o)
    /\ at' = [at EXCEPT !.pc = "on"]
    /\ UNCHANGED <<eng, file, cmd, power, net, used, past>>

\* sendPowerOn(), in a new borrow and in stepLock().
PowerOn(o) ==
    /\ at.pc \in {"on", "resend"} /\ o \in Outcomes("power")
    /\ power' = IF Delivered(o) THEN "on" ELSE power
    /\ LET e == [eng EXCEPT !.borrow.sent = @ \/ o = "ok"]
           r == IF at.pc = "on" THEN Resume(e, at.ret, at.force)
                ELSE AtReturn(StepLock(e), at.force)
       IN Becomes(r) /\ past' = [Recall(r.eng) EXCEPT !.yielded = @ /\ ~Delivered(o)]
    /\ UNCHANGED <<file, state, sent, cmd, net>>

\* The restore of stepBorrow().
Restore(o) ==
    /\ at.pc = "restore" /\ o \in Outcomes("power")
    /\ power' = IF Delivered(o) THEN "off" ELSE power
    /\ LET r == AtPersist(IF o = "ok" THEN Return(eng) ELSE eng, at.force)
       IN /\ Becomes(r)
          /\ past' = [Recall(r.eng) EXCEPT !.back =
                        IF Locked(eng) /\ Delivered(o) THEN @ \cup {eng.lock.seq} ELSE @]
    /\ UNCHANGED <<file, state, sent, cmd, net>>

Persist(ok) ==
    /\ at.pc = "persist"
    /\ file' = IF ok THEN Snapshot(eng) ELSE file
    /\ Runs(AtPublish([eng EXCEPT !.run.saved = @ \/ ok], at.force))
    /\ UNCHANGED <<state, sent, cmd, power, net>>

Publish(o) ==
    /\ at.pc = "publish" /\ o \in Outcomes("state")
    /\ PublishState(o)
    /\ at' = Idle
    /\ UNCHANGED <<eng, file, cmd, power, net, used, past>>
-----------------------------------------------------------------------------
(* Messages of the siblings, polls and ticks: inputChanged() and Tick(). *)

Changed(e) == IF e.run.ready THEN AtStep(e, FALSE) ELSE [eng |-> e, at |-> Idle]

Handle(e) ==
    /\ at.pc = "idle"
    /\ Runs(Changed(e))
    /\ UNCHANGED <<file, state, sent, cmd, power, net>>

Receive(e) == net.up /\ eng.run.connected /\ Handle(e)

PowerSeqStatus ==
    Phases # {} /\ \E on \in BOOLEAN : Receive([eng EXCEPT !.see.seqOn = on])

\* An idle right after a manned phase is a lost phase.
PowerSeqState ==
    \E p \in Phases :
        Receive([eng EXCEPT !.see.seqPhase = p, !.crew.lost =
            IF p = "idle" /\ PresenceOf(TRUE, eng.see.seqPhase) THEN "lately"
            ELSE IF p \in {"idle", ""} THEN @ ELSE "no"])

RotatorStatus ==
    /\ Rotators # {}
    /\ \E on \in BOOLEAN : Receive(NotePark([eng EXCEPT !.see.rot.live = on], FALSE))

RotatorState ==
    \E r \in Rotators :
        Receive(NotePark([eng EXCEPT !.see.rot =
            [r EXCEPT !.az = IF @ = NoAz THEN eng.see.rot.az ELSE @]], TRUE))

\* ultrabridge is gone, or confirms the retract of a lock it was given, or not.
AntCtrlState ==
    \E a \in AntCtrls :
        Receive([eng EXCEPT !.see.ant = [live |-> a # "gone",
            seq |-> IF a = "in" /\ state # None THEN state.lock.seq ELSE 0]])

AntSwitchState == \E off \in Switches : Receive([eng EXCEPT !.see.off = off])

RadioState == \E r \in Radios : Receive(NoteTX([eng EXCEPT !.see.radio = r]))

PowerState == \E p \in Powers : Receive([eng EXCEPT !.see.power = p])

WindResult == \E w \in Winds : Handle([eng EXCEPT !.see.wind = w])

\* NinaResult(): a poll before the startup hold is over does not count.
NinaResult ==
    Warnings # {} /\ \E ws \in SUBSET Warnings : \E a \in SUBSET ws :
        LET e == [eng EXCEPT !.see.listed = ws, !.see.active = a]
            n == IF e.run.ready THEN Decide(e, Poll(e.pol, a)) ELSE e
            r == IF e.run.ready THEN AtStep(n, FALSE) ELSE [eng |-> n, at |-> Idle]
        IN /\ at.pc = "idle" /\ Becomes(r)
           /\ past' = [Recall(r.eng) EXCEPT
                         !.overruled = IF e.run.ready THEN @ \cap a ELSE @,
                         !.calm = IF ~e.run.ready THEN @ ELSE IF a # {} THEN 0
                                  ELSE IF past.near /\ @ < ExitAfter THEN @ + 1 ELSE @,
                         !.near = e.run.ready /\ a = {}]
           /\ UNCHANGED <<file, state, sent, cmd, power, net>>

NinaFails ==
    LET r == Changed(IF eng.run.ready THEN [eng EXCEPT !.pol = PollFailed(@)] ELSE eng)
    IN /\ Warnings # {} /\ at.pc = "idle" /\ Becomes(r)
       /\ past' = [Recall(r.eng) EXCEPT !.near = FALSE]
       /\ UNCHANGED <<file, state, sent, cmd, power, net>>

\* The deadlines something waits for.
Running ==
    {d \in Deadlines :
        CASE d = "phase"  -> eng.phase \in {"grounding", "retracting", "rotating", "failed"}
          [] d = "borrow" -> eng.phase \in {"awaiting_power", "awaiting_devices"}
          [] OTHER        -> TRUE}

Pass(e, w, active) ==
    [e EXCEPT !.over = [phase |-> @.phase \/ "phase" \in w,
                        borrow |-> @.borrow \/ "borrow" \in w,
                        quiet |-> @.quiet \/ "quiet" \in w],
              !.crew.dwell = @ /\ "dwell" \notin w,
              !.crew.lost = IF "lost" \in w /\ @ = "lately" THEN "longAgo" ELSE @,
              !.see.wind = IF "wind" \in w THEN NoAz ELSE @,
              !.see.active = active]

\* Tick(): deadlines pass; warnings of the last poll set in and expire.
Tick ==
    /\ at.pc = "idle" /\ eng.run.ready
    /\ \E w \in SUBSET Running, a \in SUBSET eng.see.listed :
         LET r == Changed(Pass(eng, w, a))
         IN /\ Becomes(r)
            /\ past' = [Recall(r.eng) EXCEPT !.beat = IF Beats /\ w = Running THEN ~@ ELSE @]
    /\ UNCHANGED <<file, state, sent, cmd, power, net>>

\* Tick() at the end of the startup hold: becomeReady(); fileSeq has served.
BecomeReady ==
    /\ at.pc = "idle" /\ ~eng.run.ready /\ eng.run.connected
    /\ SteadyStart => ~net.replay
    /\ Runs(AtApply([eng EXCEPT !.run.ready = TRUE, !.run.adopt = FALSE, !.run.fileSeq = 0,
                                !.over.phase = FALSE,
                                !.over.borrow = @ /\ ~eng.borrow.open], TRUE))
    /\ net' = [net EXCEPT !.replay = FALSE]
    /\ UNCHANGED <<file, state, sent, cmd, power>>
-----------------------------------------------------------------------------
(* Own topics, the link and the process. *)

\* A retained command; it reaches a subscribed engine, or the next subscription.  One that
\* comes while the worker is busy waits for it.
OperatorSends ==
    /\ at.pc = "idle" /\ ~cmd.due
    /\ \E c \in Commands : cmd' = [what |-> c, due |-> net.up /\ eng.run.connected]
    /\ UNCHANGED <<eng, at, file, state, sent, power, net, used, past>>

\* Cmd(): the topic is cleared first.
Cmd(o) ==
    /\ at.pc = "idle" /\ cmd.due /\ o \in Outcomes("cmd")
    /\ cmd' = IF Delivered(o) THEN NoCmd ELSE [cmd EXCEPT !.due = FALSE]
    /\ LET q == eng.run.queue
           r == IF eng.run.ready THEN AtCommand(eng, cmd.what, FALSE)
                ELSE [at |-> Idle, eng |-> [eng EXCEPT !.run.queue =
                         IF Len(q) < QueueCap THEN Append(q, cmd.what) ELSE q]]
           over == eng.run.ready /\ cmd.what = "normal" /\ Locked(eng)
       IN /\ Becomes(r)
          /\ past' = [Recall(r.eng) EXCEPT !.overruled = IF over THEN eng.see.active ELSE @]
    /\ UNCHANGED <<file, state, sent, power, net>>

\* The retained own /state is replayed.
OwnState ==
    /\ at.pc = "idle" /\ net.replay
    /\ net' = [net EXCEPT !.replay = FALSE]
    /\ eng' = IF state = None THEN eng ELSE Adopt(eng, state)
    /\ UNCHANGED <<at, file, state, sent, cmd, power, used, past>>

\* The link drops: while a handler is about to publish, or between two, when the next job is
\* SetConnected(false).
LinkDown ==
    /\ Drops /\ net.up /\ (SteadyStart => eng.run.ready)
    /\ at.pc \notin {"apply", "save", "persist"}
    /\ net' = Unlinked
    /\ eng' = [eng EXCEPT !.run.connected = at.pc # "idle"]
    /\ UNCHANGED <<at, file, state, sent, cmd, power, used, past>>

\* SetConnected(false) after a handler that met the drop.
Lost ==
    /\ at.pc = "idle" /\ ~net.up /\ eng.run.connected
    /\ eng' = [eng EXCEPT !.run.connected = FALSE]
    /\ UNCHANGED <<at, file, state, sent, cmd, power, net, used, past>>

\* SetConnected(true), ahead of the retained topics that the subscriptions bring.
Opened ==
    /\ at.pc = "idle" /\ ~eng.run.connected
    /\ eng' = [eng EXCEPT !.run.connected = TRUE]
    /\ net' = [up |-> TRUE, republish |-> TRUE, replay |-> ~eng.run.ready]
    /\ cmd' = [cmd EXCEPT !.due = cmd.what # "none"]
    /\ UNCHANGED <<at, file, state, sent, power, used, past>>

Republish ==
    /\ at.pc = "idle" /\ net.republish
    /\ net' = [net EXCEPT !.republish = FALSE]
    /\ Runs(AtPublish(eng, TRUE))
    /\ UNCHANGED <<file, state, sent, cmd, power>>

\* A crash and the restart.  A handler cut short leaves nothing the history may count on,
\* and what was acknowledged goes with the file.
Crash ==
    /\ Crashes
    /\ file' \in {file} \cup (IF LosesFile THEN {None} ELSE {})
    /\ eng' = New(file', used)
    /\ at' = Idle /\ sent' = None /\ net' = Unlinked
    /\ cmd' = [cmd EXCEPT !.due = FALSE]
    /\ past' = [past EXCEPT !.overruled = IF at.pc # "idle" \/ file' # file THEN {} ELSE @,
                            !.calm = IF at.pc # "idle" THEN ExitAfter ELSE @,
                            !.near = FALSE]
    /\ UNCHANGED <<state, power, used>>

Next ==
    \/ Apply \/ \E ok \in Writes : Save(ok) \/ Persist(ok)
    \/ \E o \in {"ok", "late", "lost", "failed"} :
          Hold(o) \/ PowerOn(o) \/ Restore(o) \/ Publish(o) \/ Cmd(o)
    \/ PowerSeqStatus \/ PowerSeqState \/ RotatorStatus \/ RotatorState \/ AntCtrlState
    \/ AntSwitchState \/ RadioState \/ PowerState \/ WindResult \/ NinaResult \/ NinaFails
    \/ Tick \/ BecomeReady
    \/ OperatorSends \/ OwnState \/ LinkDown \/ Lost \/ Opened \/ Republish \/ Crash

Spec == Init /\ [][Next]_vars
-----------------------------------------------------------------------------
\* The policy, the phase of the lock and the worker's place are of their types; no seq is
\* ever past the bound, and the lock's is one that was drawn.
TypeOK ==
    /\ eng.pol \in Policies
    /\ eng.phase \in LockPhases
    /\ at.pc \in {"idle", "apply", "save", "hold", "on", "resend", "restore", "persist", "publish"}
    /\ used \in 0..MaxSeq
    /\ eng.lock.seq \in 0..MaxSeq

Open(f) == f # None /\ f.borrow.open

\* Power antmode switched on is never forgotten: until it is switched off again, or
\* powerseq has taken it over, the file says so (startBorrowIfNeeded, stepBorrow, New).
BorrowRemembered == power = "on" => Open(file) \/ past.yielded

\* Between two handlers the retained /state is what the engine says, unless the link is down
\* or the republish of a new one is still to come; and what has not got through is never
\* taken for published, so that the next handler sends it (publishState, OnConnect).
ChangesGoOut ==
    at.pc = "idle" /\ eng.run.ready /\ state # View(eng) =>
        /\ ~net.up \/ ~eng.run.connected \/ net.republish
        /\ sent # View(eng)

\* A restore is the end of a seq's borrow: storm never powers up again for the same park,
\* so that a park that fails with power on does not cycle the gear (borrowSeq).
NoBorrowLoop ==
    [][power # "on" /\ power' = "on" => eng.lock.seq \notin past.back]_vars

\* The bridges are unlocked only when a policy decision says so, and a lock the operator
\* set only by the operator: no restart, lost file or adoption does it.
UnlockedOnPurpose ==
    [][state # None /\ state # state' /\ state.mode # "normal" /\ state'.mode = "normal"
        => \/ state.lock.seq <= past.freed.manual
           \/ state.source = "auto" /\ state.lock.seq <= past.freed.auto]_vars

\* The worker itself changes the mode, not a restart or an adoption.
Decides(from, to) ==
    /\ eng.pol.mode = from /\ eng'.pol.mode = to /\ eng'.pol.source = "auto"
    /\ eng.run.ready /\ eng'.run.ready

\* Automation never takes the station back to storm for warnings the operator overruled
\* by a normal, restarts included, as long as the polls still report them (SetMode).
OverruledStays ==
    [][Decides("normal", "storm") => ~(eng'.see.active \subseteq past.overruled)]_vars

\* An auto storm ends only after a whole holdoff of quiet time since a poll last saw a
\* warning.  Only the time between two clean polls with neither an outage nor a restart in
\* between is quiet, what was counted before them stays counted.  A poll within the startup
\* hold counts neither way, and a crash may cut short the handler that was to write down
\* that a warning had ended the quiet time (Poll, NinaResult, persist).
NoEarlyExit == [][Decides("storm", "normal") => past'.calm >= ExitAfter]_vars
=============================================================================
