------------------------------ MODULE AntEngine -----------------------------
(***************************************************************************)
(* The memory of antmode's engine (internal/engine/engine.go) and what its *)
(* handlers make of it between two effects, as operators on a record:      *)
(*   pol     the policy             lock    the lock, NoLock when normal   *)
(*   phase   of the lock            borrow  of the antenna power           *)
(*   borrowSeq  seq a borrow was last taken for                            *)
(*   aim     nudgeBase, parkSeen    over    deadlines that have passed     *)
(*   crew    presence refinements   see     the bus as last read           *)
(*   run     startup and persistence                                       *)
(* The lock's ground is always set and its nudge is the maintenance mode,  *)
(* so neither is a field; faults, drift and log lines are left out.        *)
(***************************************************************************)
EXTENDS AntPolicy, Heading, Sequences

CONSTANTS
    BorrowPower,    \* power.borrow
    MaintenanceAz,  \* maintenance.park_az
    Tolerance       \* park.tolerance_deg

ASSUME EngineAssumption ==
    BorrowPower \in BOOLEAN /\ MaintenanceAz \in 0..MaxAz /\ Tolerance \in Nat

None == [none |-> TRUE]     \* no file, nothing retained

LockPhases == {"idle", "grounding", "retracting", "awaiting_power", "awaiting_devices",
               "rotating", "parked", "failed"}

NoLock   == [seq |-> 0, retract |-> FALSE, park |-> NoAz]
NoBorrow == [open |-> FALSE, from |-> "", sent |-> FALSE, restore |-> FALSE, taken |-> FALSE]

\* What the engine sees of the bus after a start.
Blind == [seqOn |-> FALSE, seqPhase |-> "",
          rot |-> [live |-> FALSE, az |-> NoAz, target |-> NoAz, moving |-> FALSE],
          ant |-> [live |-> FALSE, seq |-> 0],      \* seq whose retract is confirmed
          off |-> FALSE,                            \* ant-switch live and off
          radio |-> "gone", power |-> "gone", wind |-> NoAz,
          listed |-> {}, active |-> {}]

Locked(e) == e.pol.mode # "normal"
-----------------------------------------------------------------------------
(* Presence. *)

PresenceOf(on, phase) == on /\ phase \in {"starting", "running", "waking"}

Transmitting(e) == e.see.radio = "tx"

\* basePresence(): a phase lost in a restart of powerseq keeps the station manned
\* while the radio is live and was used lately.
BaseManned(e) ==
    \/ PresenceOf(e.see.seqOn, e.see.seqPhase)
    \/ /\ e.see.seqOn /\ e.see.seqPhase = "idle"
       /\ e.crew.lost = "lately" /\ e.see.radio # "gone"

\* presence()
Manned(e) == BaseManned(e) \/ e.crew.dwell

\* Mutant: the quiet time starts anew with every step.
NoteTXAlways(e) == [e EXCEPT !.over.quiet = FALSE]

\* The transmission noted by step() and RadioState().
NoteTX(e) ==
    IF ~Transmitting(e) THEN e
    ELSE [e EXCEPT !.over.quiet = FALSE,
                   !.crew.lost = IF @ = "longAgo" THEN "lately" ELSE @]

\* trackPresence()
Track(e) ==
    IF BaseManned(e) THEN [e EXCEPT !.crew.manned = TRUE, !.crew.dwell = FALSE]
    ELSE IF e.crew.manned THEN [e EXCEPT !.crew.manned = FALSE, !.crew.dwell = TRUE]
    ELSE e
-----------------------------------------------------------------------------
(* The lock. *)

\* setPhase()
To(e, phase) ==
    IF phase = e.phase THEN e ELSE [e EXCEPT !.phase = phase, !.over.phase = FALSE]

\* noteParkTarget(): the WRC bridge omits target_az 0.
NotePark(e, fresh) ==
    LET rot == e.see.rot
    IN IF ~rot.live THEN [e EXCEPT !.aim.seen = FALSE]
       ELSE IF e.lock.park = NoAz \/ e.aim.seen THEN e
       ELSE [e EXCEPT !.aim.seen =
               IF rot.target # NoAz THEN Away(rot.target, e.lock.park) <= Tolerance
               ELSE e.lock.park = 0 /\ fresh /\ rot.moving]

\* captureNudgeBase()
Capture(e) == [e EXCEPT !.aim = [base |-> e.see.rot.target, seen |-> FALSE]]

\* The pure part of attachBorrow(): an open borrow goes over to the new lock.
Attach(e) ==
    IF e.borrow.taken THEN [e EXCEPT !.borrow = NoBorrow]
    ELSE IF ~e.borrow.open THEN e
    ELSE LET f == [e EXCEPT !.borrow.restore = FALSE, !.borrowSeq = e.lock.seq]
         IN IF f.see.power = "on" THEN f
            ELSE [To([f EXCEPT !.borrow.sent = FALSE], "awaiting_power")
                    EXCEPT !.over.borrow = FALSE]

\* restartPark()
RestartPark(e) ==
    LET f == [e EXCEPT !.lock.seq = e.pol.seq, !.lock.park = NoAz]
    IN Attach(Capture([To(f, IF f.lock.retract THEN "retracting" ELSE "grounding")
                         EXCEPT !.over.phase = FALSE]))

\* modeChanged()
ModeChanged(e, from) ==
    IF e.pol.mode = "normal" THEN
        To([e EXCEPT !.lock = NoLock, !.aim.base = NoAz, !.borrow.restore = e.borrow.open], "idle")
    ELSE IF from = "normal" THEN
        Attach(Capture(To([e EXCEPT !.lock = [NoLock EXCEPT !.seq = e.pol.seq]], "grounding")))
    ELSE RestartPark(e)

\* The engine with a new policy.
Decide(e, p) ==
    LET f == [e EXCEPT !.pol = p]
    IN IF p.mode # e.pol.mode THEN ModeChanged(f, e.pol.mode)
       ELSE IF p.seq # e.pol.seq THEN RestartPark(f) ELSE f

\* applyCmd()
Applied(e, c) ==
    CASE c \in Modes    -> Decide(e, SetMode(e.pol, c, e.see.active))
      [] c = "repark"   -> Decide(e, Repark(e.pol))
      [] c = "dismiss"  -> Decide(e, Dismiss(e.pol, e.see.active))
      [] OTHER          -> e        \* malformed, stale or unknown

AtPark(e) ==
    LET rot == e.see.rot
    IN /\ e.lock.park # NoAz /\ rot.live /\ rot.az # NoAz /\ ~rot.moving
       /\ Away(rot.az, e.lock.park) <= Tolerance

\* nudged()
Nudged(e) ==
    LET rot == e.see.rot
    IN /\ e.pol.mode = "maintenance" /\ e.lock.park # NoAz /\ e.aim.seen
       /\ rot.live /\ rot.az # NoAz /\ ~rot.moving /\ rot.target # NoAz
       /\ Away(rot.target, e.lock.park) > Tolerance
       /\ e.aim.base = NoAz \/ Away(rot.target, e.aim.base) > Tolerance
       /\ Away(rot.az, rot.target) <= Tolerance

\* computePark(): at most once per seq.
ComputePark(e) ==
    LET az == IF e.pol.mode # "storm" THEN MaintenanceAz
              ELSE Storm(e.see.wind, IF e.see.rot.live THEN e.see.rot.az ELSE NoAz)
    IN IF e.lock.park # NoAz THEN To([e EXCEPT !.lock.retract = TRUE], "rotating")
       ELSE NotePark(To([e EXCEPT !.lock.retract = TRUE, !.lock.park = az], "rotating"), FALSE)

\* stepLock(), after the power on was sent again.
StepLock(e) ==
    CASE e.phase = "awaiting_power" ->
            IF ~e.borrow.open THEN To(e, "grounding")
            ELSE IF e.see.power = "on" THEN To(e, "awaiting_devices")
            ELSE IF e.over.borrow THEN To(e, "grounding") ELSE e
      [] e.phase = "awaiting_devices" ->
            IF (e.see.rot.live /\ e.see.ant.live) \/ e.over.borrow THEN To(e, "grounding") ELSE e
      [] e.phase = "grounding" ->
            IF e.see.off \/ (e.over.phase /\ ~Transmitting(e) /\ e.over.quiet)
            THEN To([e EXCEPT !.lock.retract = TRUE], "retracting") ELSE e
      [] e.phase = "retracting" ->
            IF (e.see.ant.live /\ e.see.ant.seq = e.lock.seq) \/ e.over.phase
            THEN ComputePark(e) ELSE e
      [] e.phase = "rotating" ->
            LET f == NotePark(e, FALSE)
            IN IF AtPark(f) \/ Nudged(f) THEN To(f, "parked")
               ELSE IF e.over.phase THEN To(f, "failed") ELSE f
      [] e.phase = "failed" /\ (AtPark(e) \/ Nudged(e)) -> To(e, "parked")
      [] OTHER -> e
-----------------------------------------------------------------------------
(* The power borrow. *)

\* startBorrowIfNeeded(): powerseq has to be in a stable phase.
CanBorrow(e) ==
    /\ BorrowPower /\ ~e.borrow.open /\ e.see.power = "off"
    /\ e.see.seqOn /\ e.see.seqPhase \in {"idle", "standby", "running"}

Borrow(e) ==
    To([e EXCEPT !.borrow = [NoBorrow EXCEPT !.open = TRUE, !.from = e.see.seqPhase],
                 !.borrowSeq = e.lock.seq], "awaiting_power")

\* Mutant: a park that failed despite its borrow is borrowed for again.
LateAgain(e) ==
    /\ e.pol.mode = "storm" /\ ~e.borrow.open /\ e.phase # "parked" /\ CanBorrow(e)

\* The late borrow of step(): storm only, once per seq.
LateBorrow(e) ==
    /\ e.pol.mode = "storm" /\ ~e.borrow.open /\ e.phase # "parked"
    /\ e.borrowSeq # e.lock.seq /\ CanBorrow(e)

\* stepBorrow(): powerseq in a phase an operator drives has taken the power over.
TakenOver(e) ==
    /\ e.borrow.open /\ e.see.seqOn
    /\ e.see.seqPhase \notin {"", "idle", "standby", e.borrow.from}

Watch(e) == [e EXCEPT !.borrow.taken = @ \/ TakenOver(e)]

\* A failed park keeps its power while the rotator still slews.
StillSlewing(e) ==
    /\ ~e.borrow.restore /\ e.phase = "failed"
    /\ e.see.rot.live /\ e.see.rot.moving /\ ~e.over.phase

\* Mutant: only a park that arrives gives the power back.
DueParked(e) ==
    /\ e.borrow.open
    /\ e.borrow.restore \/ (e.pol.mode = "storm" /\ e.phase = "parked")

Due(e) ==
    /\ e.borrow.open
    /\ e.borrow.restore \/ (e.pol.mode = "storm" /\ e.phase \in {"parked", "failed"})
    /\ ~StillSlewing(e)

Yields(e)   == Due(e) /\ e.borrow.taken
Restores(e) == Due(e) /\ ~e.borrow.taken /\ e.see.seqOn /\ e.see.seqPhase # ""

Return(e) == [e EXCEPT !.borrow = NoBorrow]

\* powerHold()
PowerHold(e) ==
    \/ e.borrow.open \/ e.pol.mode = "maintenance"
    \/ e.pol.mode = "storm" /\ e.phase \notin {"parked", "failed"}
-----------------------------------------------------------------------------
(* What is kept and published. *)

\* snapshot()
Snapshot(e) == [pol |-> [e.pol EXCEPT !.clean = FALSE], lock |-> e.lock, phase |-> e.phase,
                borrow |-> e.borrow, borrowSeq |-> e.borrowSeq, base |-> e.aim.base]

\* CurrentState()
View(e) == [mode |-> e.pol.mode, source |-> e.pol.source, seq |-> e.pol.seq,
            lock |-> e.lock, phase |-> e.phase, hold |-> PowerHold(e),
            borrow |-> [open |-> e.borrow.open, from |-> e.borrow.from, taken |-> e.borrow.taken],
            suggested |-> Suggested(e.pol, e.see.active, Manned(e))]

\* normalizeLoaded()
Normalize(e) ==
    IF ~Locked(e) THEN [e EXCEPT !.lock = NoLock, !.phase = "idle",
                                 !.borrow.restore = e.borrow.open]
    ELSE [e EXCEPT !.phase = IF @ = "idle" THEN "grounding" ELSE @,
                   !.over.borrow = @ /\ ~e.borrow.open]

\* New(), for a file or without one; n is what the clock seeds.
New(f, n) ==
    LET e == [pol |-> IF f = None THEN NewPolicy(n) ELSE f.pol,
              lock |-> IF f = None THEN NoLock ELSE f.lock,
              phase |-> IF f = None THEN "idle" ELSE f.phase,
              borrow |-> IF f = None THEN NoBorrow ELSE f.borrow,
              borrowSeq |-> IF f = None THEN 0 ELSE f.borrowSeq,
              aim |-> [base |-> IF f = None THEN NoAz ELSE f.base, seen |-> FALSE],
              over |-> [phase |-> TRUE, borrow |-> TRUE, quiet |-> TRUE],
              crew |-> [manned |-> FALSE, dwell |-> FALSE, lost |-> "no"],
              see |-> Blind,
              run |-> [ready |-> FALSE, connected |-> FALSE, saved |-> FALSE,
                       adopt |-> f = None,
                       fileSeq |-> IF f = None THEN 0 ELSE f.pol.seq, queue |-> <<>>]]
    IN IF f = None THEN e ELSE Normalize(e)

\* Mutant: a lock the file has lost is not adopted.
AdoptSeqOnly(e, s) == [e EXCEPT !.pol.seq = IF s.seq > @ THEN s.seq ELSE @]

\* OwnState() of the retained state s.
Adopt(e, s) ==
    LET p == [e.pol EXCEPT !.seq = IF s.seq > @ THEN s.seq ELSE @]
        b == [NoBorrow EXCEPT !.open = TRUE, !.from = s.borrow.from,
                  !.sent = s.phase # "awaiting_power", !.taken = s.borrow.taken]
    IN IF s.mode = "normal" \/ (~e.run.adopt /\ s.lock.seq <= e.run.fileSeq)
       THEN [e EXCEPT !.pol = p]
       ELSE Normalize([e EXCEPT
              !.pol = [p EXCEPT !.mode = s.mode, !.source = s.source, !.quiet = 0],
              !.lock = s.lock, !.phase = s.phase,
              !.borrow = IF s.borrow.open THEN b ELSE NoBorrow,
              !.borrowSeq = IF s.borrow.open THEN s.lock.seq ELSE @])
=============================================================================
