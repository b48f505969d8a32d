--------------------------- MODULE AntModeMemoryProofs ----------------------
(***************************************************************************)
(* What antmode remembers: the warnings the operator overruled and the     *)
(* quiet time, for every set of warnings and every holdoff, and the power  *)
(* it borrowed, over every step and every restart, so that it is neither   *)
(* forgotten nor borrowed a second time for the same lock.                 *)
(***************************************************************************)
EXTENDS AntModeProofs

-----------------------------------------------------------------------------
(* What a step may do to the policy.                                        *)

\* Nothing acknowledged is forgotten; an auto storm goes on counting, or is entered for a
\* warning that was not acknowledged, with nothing counted; none ends by itself.
Mild(p, q, active) ==
    /\ p.acked \subseteq q.acked
    /\ q.clean => p.clean
    /\ AutoStorm(q) => \/ AutoStorm(p) /\ q.quiet = p.quiet
                       \/ ~(active \subseteq p.acked) /\ q.quiet = 0 /\ ~q.clean
    /\ AutoStorm(q) => AutoStorm(p) \/ ~(active \subseteq p.acked)
    /\ q.mode = "normal" => q.source = "manual" \/ (p.mode = "normal" /\ p.source = q.source)

LEMMA MildTwice ==
    ASSUME NEW p, NEW q, NEW r, NEW active, Mild(p, q, active), Mild(q, r, active)
    PROVE  Mild(p, r, active)
  BY DEF Mild

LEMMA MildSelf == ASSUME NEW p, NEW active PROVE Mild(p, p, active)
  BY DEF Mild

LEMMA MildSets ==
    ASSUME NEW p \in Policies, NEW a \in SUBSET Warnings, NEW active
    PROVE  Mild(p, Dismiss(p, a), active) /\ Mild(p, PollFailed(p), active)
  BY DEF Dismiss, PollFailed, Policies, Mild, AutoStorm

LEMMA MildRepark ==
    ASSUME NEW p \in Policies, NEW active
    PROVE  Mild(p, Repark(p), active)
  BY DEF Repark, Policies, Mild, AutoStorm

LEMMA EnterCounts ==
    ASSUME NEW p \in Policies, NEW m, NEW src
    PROVE  LET q == Enter(p, m, src)
           IN q.mode = m /\ q.source = src /\ q.acked = p.acked /\ q.quiet = 0 /\ ~q.clean
  BY DEF Enter, Policies

LEMMA MildSetMode ==
    ASSUME NEW p \in Policies, NEW m \in Modes, NEW a \in SUBSET Warnings, NEW active
    PROVE  Mild(p, SetMode(p, m, a), active)
  <1> DEFINE b == IF m = "normal" THEN [p EXCEPT !.acked = @ \cup a] ELSE p
  <1>1. CASE SetMode(p, m, a) = p
    BY <1>1, MildSelf
  <1>2. CASE SetMode(p, m, a) = Enter(b, m, "manual")
    <2>1. b \in Policies /\ p.acked \subseteq b.acked
      BY DEF Policies
    <2> HIDE DEF b
    <2> QED
      BY <1>2, <2>1, EnterCounts DEF Mild, AutoStorm
  <1> QED
    BY <1>1, <1>2 DEF SetMode

LEMMA MildEvaluate ==
    ASSUME NEW p \in Policies, NEW active, NEW manned
    PROVE  Mild(p, Evaluate(p, active, manned), active)
  <1>1. CASE Evaluate(p, active, manned) = p
    BY <1>1, MildSelf
  <1>2. CASE /\ Evaluate(p, active, manned) = Enter(p, "storm", "auto")
             /\ ~(active \subseteq p.acked)
    BY <1>2, EnterCounts DEF Mild
  <1> QED
    BY <1>1, <1>2 DEF Evaluate

\* A step of a handler that comes from e.
Drifts(e, r) == Mild(e.pol, r.eng.pol, e.see.active) /\ r.eng.see = e.see

LEMMA ReachesDrifts == ASSUME NEW e, NEW r, Reaches(e, r) PROVE Drifts(e, r)
  BY MildSelf DEF Reaches, Near, Drifts

LEMMA SelfDrifts == ASSUME NEW e, NEW r, r.eng = e PROVE Drifts(e, r)
  BY MildSelf DEF Drifts

LEMMA DriftsOn ==
    ASSUME NEW e, NEW n, Mild(e.pol, n.pol, e.see.active), n.see = e.see, NEW r, Drifts(n, r)
    PROVE  Drifts(e, r)
  BY MildTwice DEF Drifts

LEMMA StepDrifts ==
    ASSUME NEW e, Sound(e), NEW f
    PROVE  Drifts(e, AtStep(e, f))
  <1> DEFINE t == Track(NoteTX(e))
             p == Evaluate(t.pol, t.see.active, Manned(t))
             n == Decide(t, p)
             r == AtStep(e, f)
  <1>1. Near(e, t)
    <2> DEFINE x == NoteTX(e)
    <2>1. Near(e, x)
      BY NearTX
    <2> HIDE DEF x
    <2>2. Near(x, Track(x))
      BY <2>1, NearTrack DEF Near
    <2>3. Near(e, Track(x))
      BY <2>1, <2>2, NearTwice
    <2> QED
      BY <2>3 DEF x
  <1>2. r = IF Relocked(t, n) /\ CanBorrow(n) THEN AtBorrow(n, "late", f) ELSE AtLate(n, f)
    BY DEF AtStep
  <1> HIDE DEF t, r
  <1>3. /\ p \in Policies /\ (p = t.pol \/ Locks(t.pol, p))
        /\ Mild(t.pol, p, t.see.active)
    BY <1>1, EvaluateOK, MildEvaluate DEF Near, Sound
  <1> HIDE DEF p
  <1>4. Same(t, n) /\ n.pol = p
    BY <1>1, <1>3, DecideOK DEF Near, Stays
  <1> HIDE DEF n
  <1>5. Near(n, n)
    BY <1>4, NearSelf DEF Same
  <1>6. Reaches(n, r)
    BY <1>2, <1>5, AtBorrowOK, AtLateOK DEF Returns
  <1>7. r.eng.pol = p /\ r.eng.see = e.see /\ t.pol = e.pol /\ t.see = e.see
    BY <1>1, <1>4, <1>6 DEF Reaches, Near, Same
  <1>8. Drifts(e, r)
    BY <1>3, <1>7 DEF Drifts
  <1> QED
    BY <1>8 DEF r

LEMMA ApplyDrifts ==
    ASSUME NEW e, Sound(e), NEW f
    PROVE  Drifts(e, AtApply(e, f))
  <1>1. Waits(e, "apply", f).eng = e
    BY DEF Waits
  <1>2. Drifts(e, Waits(e, "apply", f))
    BY <1>1, SelfDrifts
  <1> QED
    BY <1>2, StepDrifts DEF AtApply

LEMMA ResumeDrifts ==
    ASSUME NEW e, Sound(e), NEW ret \in Returns, NEW f
    PROVE  Drifts(e, Resume(e, ret, f))
  <1>1. Near(e, e)
    BY NearSelf
  <1>2. Reaches(e, AtLate(e, f)) /\ Reaches(e, AtLock(e, f))
    BY <1>1, AtLateOK, AtLockOK
  <1> QED
    BY <1>2, ReachesDrifts, ApplyDrifts DEF Resume, Returns

LEMMA AppliedDrifts ==
    ASSUME NEW e, Sound(e), NEW c
    PROVE  Mild(e.pol, Applied(e, c).pol, e.see.active)
  <1>p. e.pol \in Policies /\ e.see.active \in SUBSET Warnings
    BY DEF Sound
  <1>1. CASE c \in Modes
    <2> DEFINE p == SetMode(e.pol, c, e.see.active)
    <2>1. /\ p \in Policies /\ (Stays(e.pol, p) \/ Locks(e.pol, p) \/ Frees(e.pol, p))
          /\ Mild(e.pol, p, e.see.active)
      BY <1>p, <1>1, SetModeOK, MildSetMode
    <2>2. Applied(e, c) = Decide(e, p)
      BY <1>1 DEF Applied, Modes
    <2> HIDE DEF p
    <2> QED
      BY <2>1, <2>2, DecideOK
  <1>2. CASE c = "repark"
    <2> DEFINE p == Repark(e.pol)
    <2>1. /\ p \in Policies /\ (Stays(e.pol, p) \/ Locks(e.pol, p))
          /\ Mild(e.pol, p, e.see.active)
      BY <1>p, ReparkOK, MildRepark
    <2>2. Applied(e, c) = Decide(e, p)
      BY <1>2 DEF Applied, Modes
    <2> HIDE DEF p
    <2> QED
      BY <2>1, <2>2, DecideOK
  <1>3. CASE c = "dismiss"
    <2> DEFINE p == Dismiss(e.pol, e.see.active)
    <2>1. p \in Policies /\ Stays(e.pol, p) /\ Mild(e.pol, p, e.see.active)
      BY <1>p, SetsOK, MildSets
    <2>2. Applied(e, c) = Decide(e, p)
      BY <1>3 DEF Applied, Modes
    <2> HIDE DEF p
    <2> QED
      BY <2>1, <2>2, DecideOK
  <1>4. CASE c \notin Modes /\ c # "repark" /\ c # "dismiss"
    <2>1. Applied(e, c) = e
      BY <1>4 DEF Applied
    <2> QED
      BY <2>1, MildSelf
  <1> QED
    BY <1>1, <1>2, <1>3, <1>4

\* A command, from what it decides.
LEMMA CommandTail ==
    ASSUME NEW e, Sound(e), NEW c, NEW f
    PROVE  Drifts(Applied(e, c), AtCommand(e, c, f))
  <1> DEFINE n == Applied(e, c)
             r == AtCommand(e, c, f)
  <1>1. Sound(n)
    BY AppliedOK DEF Same
  <1>2. r = IF Relocked(e, n) /\ CanBorrow(n) THEN AtBorrow(n, "apply", f) ELSE AtApply(n, f)
    BY DEF AtCommand
  <1> HIDE DEF n, r
  <1>3. Reaches(n, AtBorrow(n, "apply", f))
    BY <1>1, NearSelf, AtBorrowOK DEF Returns
  <1>4. Drifts(n, r)
    BY <1>1, <1>2, <1>3, ReachesDrifts, ApplyDrifts
  <1> QED
    BY <1>4 DEF n, r

LEMMA CommandDrifts ==
    ASSUME NEW e, Sound(e), NEW c, NEW f
    PROVE  Drifts(e, AtCommand(e, c, f))
  <1>1. Applied(e, c).see = e.see
    BY AppliedOK DEF Same
  <1> QED
    BY <1>1, AppliedDrifts, CommandTail, DriftsOn

\* What a normal overrules is acknowledged.
LEMMA NormalAcknowledges ==
    ASSUME NEW e, Sound(e), Locked(e), NEW f
    PROVE  e.see.active \subseteq AtCommand(e, "normal", f).eng.pol.acked
  <1> DEFINE p == SetMode(e.pol, "normal", e.see.active)
             n == Applied(e, "normal")
  <1>1. e.pol \in Policies /\ e.see.active \in SUBSET Warnings
    BY DEF Sound
  <1>2. /\ p \in Policies
        /\ \/ Stays(e.pol, p) \/ Locks(e.pol, p)
           \/ Frees(e.pol, p) /\ e.see.active \subseteq p.acked
    BY <1>1, SetModeOK DEF Modes
  <1>3. p.mode = "normal"
    <2> DEFINE b == [e.pol EXCEPT !.acked = @ \cup e.see.active]
    <2>1. b \in Policies
      BY <1>1 DEF Policies
    <2>2. p = Enter(b, "normal", "manual")
      BY DEF SetMode, Locked
    <2> HIDE DEF b, p
    <2> QED
      BY <2>1, <2>2, EnterCounts
  <1>4. Frees(e.pol, p) /\ e.see.active \subseteq p.acked
    BY <1>2, <1>3 DEF Stays, Locks, Locked
  <1>5. n = Decide(e, p)
    BY DEF Applied, Modes
  <1> HIDE DEF p, n
  <1>6. n.pol = p
    BY <1>2, <1>4, <1>5, DecideOK
  <1>7. Drifts(n, AtCommand(e, "normal", f))
    BY CommandTail DEF n
  <1> QED
    BY <1>4, <1>6, <1>7 DEF Drifts, Mild

LEMMA ChangedDrifts ==
    ASSUME NEW e, Sound(e)
    PROVE  Drifts(e, Changed(e))
  <1>1. Drifts(e, [eng |-> e, at |-> Idle])
    BY SelfDrifts
  <1> QED
    BY <1>1, StepDrifts DEF Changed
-----------------------------------------------------------------------------
(* What is counted on.  The engine has acknowledged whatever the operator       *)
(* overruled, and has counted no more quiet time than there was; so has what a  *)
(* restart goes back to, which is the file.                                     *)

\* The quiet time of a policy is backed by quiet intervals, and the one it is in by a poll.
Counted(p) == AutoStorm(p) => past.calm >= p.quiet /\ (p.clean => past.near)

StormPast == {"overruled", "calm", "near"} \subseteq DOMAIN past /\ past.calm \in Nat

\* Until it is ready the engine decides nothing, and the file stays as it was found.
Found ==
    ~eng.run.ready =>
      /\ ~eng.pol.clean
      /\ file = None => past.overruled = {}
      /\ file # None => past.overruled \subseteq file.pol.acked /\ Counted(file.pol)

StormInv ==
    /\ StormPast /\ Found
    /\ past.overruled \subseteq eng.pol.acked /\ Counted(eng.pol)
    /\ file # None => ~file.pol.clean

\* A step that counts no poll.
Plain ==
    /\ Mild(eng.pol, eng'.pol, eng'.see.active)
    /\ StormPast' /\ past'.calm = past.calm
    /\ past'.near = past.near \/ ~eng'.pol.clean
    /\ \/ past'.overruled = past.overruled
       \/ eng.run.ready /\ past'.overruled \subseteq eng'.pol.acked

LEMMA Quiets ==
    ASSUME Types
    PROVE  /\ eng.pol \in Policies /\ eng.pol.quiet \in Nat /\ eng.pol.quiet <= ExitAfter
           /\ file # None => /\ file.pol \in Policies /\ file.pol.quiet \in Nat
                             /\ file.pol.quiet <= ExitAfter
           /\ ExitAfter \in Nat
  BY Bounds DEF Types, Sound, FileOK, Policies

LEMMA FileUnclean ==
    ASSUME Types, Types', file' = file \/ file' = Snapshot(eng), file # None => ~file.pol.clean
    PROVE  file' # None => ~file'.pol.clean
  <1>1. CASE file' = Snapshot(eng)
    <2>1. file'.pol = [eng.pol EXCEPT !.clean = FALSE]
      BY <1>1, ShownFile DEF Types
    <2> QED
      BY <2>1, Quiets DEF Policies
  <1> QED
    BY <1>1

LEMMA PlainKeeps ==
    ASSUME Types, Types', Advance, StormInv, Plain
    PROVE  StormInv'
  <1>1. past'.overruled \subseteq eng'.pol.acked
    BY DEF StormInv, Plain, Mild
  <1>2. Counted(eng.pol)'
    <2>1. eng'.pol.quiet \in Nat /\ eng.pol.quiet \in Nat /\ ExitAfter \in Nat
      BY Bounds DEF Types, Sound, Policies
    <2> QED
      BY <2>1 DEF StormInv, StormPast, Plain, Mild, Counted
  <1>3. file' # None => ~file'.pol.clean
    BY FileUnclean DEF Advance, StormInv
  <1>4. Found'
    <2> SUFFICES ASSUME ~eng'.run.ready PROVE Found'
      BY DEF Found
    <2>1. ~eng.run.ready /\ file' = file
      BY DEF Advance
    <2>2. past'.overruled = past.overruled /\ past'.calm = past.calm
      BY <2>1 DEF Plain
    <2> QED
      BY <2>1, <2>2 DEF StormInv, Found, Plain, Mild, Counted
  <1> QED
    BY <1>1, <1>2, <1>3, <1>4 DEF StormInv, Plain

LEMMA RecallCounts ==
    ASSUME StormPast, NEW e
    PROVE  LET h == Recall(e)
           IN /\ {"overruled", "calm", "near"} \subseteq DOMAIN h
              /\ h.overruled = past.overruled /\ h.calm = past.calm /\ h.near = past.near
  BY DEF Recall, StormPast

\* The worker goes from x to r.
LEMMA WorkPlain ==
    ASSUME StormPast, NEW x, Mild(eng.pol, x.pol, x.see.active), NEW r, Drifts(x, r), Becomes(r),
           {"overruled", "calm", "near"} \subseteq DOMAIN past', past'.calm = past.calm,
           past'.near = past.near \/ ~x.pol.clean,
           \/ past'.overruled = past.overruled
           \/ eng.run.ready /\ past'.overruled \subseteq r.eng.pol.acked
    PROVE  Plain
  <1>1. eng' = r.eng
    BY DEF Becomes
  <1>2. Mild(eng.pol, eng'.pol, eng'.see.active)
    BY <1>1, MildTwice DEF Drifts
  <1>3. ~x.pol.clean => ~eng'.pol.clean
    BY <1>1 DEF Drifts, Mild
  <1> QED
    BY <1>1, <1>2, <1>3 DEF Plain, StormPast

LEMMA RunsPlain ==
    ASSUME StormPast, NEW x, x.pol = eng.pol, NEW r, Drifts(x, r), Runs(r)
    PROVE  Plain
  <1>1. Becomes(r) /\ past' = Recall(r.eng)
    BY DEF Runs
  <1>2. Mild(eng.pol, x.pol, x.see.active)
    BY MildSelf
  <1> QED
    BY <1>1, <1>2, RecallCounts, WorkPlain

\* The memory is as it was, but for the link.
LEMMA StillPlain ==
    ASSUME StormPast, eng'.pol = eng.pol, past' = past
    PROVE  Plain
  BY MildSelf DEF Plain, StormPast

LEMMA MessagesPlain ==
    ASSUME Types, StormPast, Found,
           \/ PowerSeqStatus \/ PowerSeqState \/ RotatorStatus \/ RotatorState \/ AntCtrlState
           \/ AntSwitchState \/ RadioState \/ PowerState \/ WindResult \/ NinaFails
    PROVE  Plain
  <1>1. PICK x : Takes(x) /\ Alike(x) /\ x.pol \in {eng.pol, PollFailed(eng.pol)}
    BY MessagesAlike
  <1>2. Mild(eng.pol, x.pol, x.see.active)
    BY <1>1, MildSelf, MildSets, Quiets
  <1>3. Drifts(x, Changed(x)) /\ Becomes(Changed(x))
    BY <1>1, ChangedDrifts DEF Alike, Takes
  <1>4. ~PollFailed(eng.pol).clean
    BY Quiets DEF PollFailed, Policies
  <1>5. /\ {"overruled", "calm", "near"} \subseteq DOMAIN past'
        /\ past'.overruled = past.overruled /\ past'.calm = past.calm
        /\ past'.near = past.near \/ ~eng.run.ready \/ x.pol = PollFailed(eng.pol)
    <2> DEFINE h == Recall(Changed(x).eng)
    <2>1. /\ {"overruled", "calm", "near"} \subseteq DOMAIN h
          /\ h.overruled = past.overruled /\ h.calm = past.calm /\ h.near = past.near
      BY RecallCounts
    <2>2. \/ past' = h
          \/ past' = [h EXCEPT !.near = FALSE] /\ (~eng.run.ready \/ x.pol = PollFailed(eng.pol))
      BY <1>1 DEF Takes
    <2> HIDE DEF h
    <2> QED
      BY <2>1, <2>2
  <1>6. past'.near = past.near \/ ~x.pol.clean
    BY <1>1, <1>4, <1>5 DEF Found
  <1> QED
    BY <1>2, <1>3, <1>5, <1>6, WorkPlain

LEMMA TickPlain == ASSUME Types, StormPast, Tick PROVE Plain
  <1>1. PICK w \in SUBSET Running, a \in SUBSET eng.see.listed :
           LET r == Changed(Pass(eng, w, a))
           IN /\ Becomes(r)
              /\ past' = [Recall(r.eng) EXCEPT !.beat = IF Beats /\ w = Running THEN ~@ ELSE @]
    BY DEF Tick
  <1> DEFINE x == Pass(eng, w, a)
             r == Changed(x)
  <1>2. Sound(x) /\ x.pol = eng.pol
    BY DEF Pass, Types, Sound, LockOK, Locked
  <1> HIDE DEF x
  <1>3. Drifts(x, r) /\ Mild(eng.pol, x.pol, x.see.active)
    BY <1>2, ChangedDrifts, MildSelf
  <1>4. /\ Becomes(r) /\ {"overruled", "calm", "near"} \subseteq DOMAIN past'
        /\ past'.overruled = past.overruled /\ past'.calm = past.calm /\ past'.near = past.near
    BY <1>1, RecallCounts DEF x
  <1> QED
    BY <1>3, <1>4, WorkPlain

LEMMA ReadyPlain == ASSUME Types, StormPast, BecomeReady PROVE Plain
  <1> DEFINE x == [eng EXCEPT !.run.ready = TRUE, !.run.adopt = FALSE, !.run.fileSeq = 0,
                              !.over.phase = FALSE, !.over.borrow = @ /\ ~eng.borrow.open]
  <1>1. Runs(AtApply(x, TRUE))
    BY DEF BecomeReady
  <1>2. Sound(x) /\ x.pol = eng.pol
    BY ReadyOK
  <1> HIDE DEF x
  <1> QED
    BY <1>1, <1>2, ApplyDrifts, RunsPlain

LEMMA CmdPlain == ASSUME Types, StormPast, NEW o, Cmd(o) PROVE Plain
  <1> DEFINE q == eng.run.queue
             x == [eng EXCEPT !.run.queue =
                      IF Len(q) < QueueCap THEN Append(q, cmd.what) ELSE q]
             r == IF eng.run.ready THEN AtCommand(eng, cmd.what, FALSE)
                  ELSE [at |-> Idle, eng |-> x]
             over == eng.run.ready /\ cmd.what = "normal" /\ Locked(eng)
  <1>1. /\ Becomes(r)
        /\ past' = [Recall(r.eng) EXCEPT !.overruled = IF over THEN eng.see.active ELSE @]
    BY DEF Cmd
  <1>2. /\ {"overruled", "calm", "near"} \subseteq DOMAIN past'
        /\ past'.calm = past.calm /\ past'.near = past.near
        /\ past'.overruled = IF over THEN eng.see.active ELSE past.overruled
    BY <1>1, RecallCounts
  <1>3. Mild(eng.pol, eng.pol, eng.see.active)
    BY MildSelf
  <1>4. CASE eng.run.ready
    <2>1. Drifts(eng, r)
      BY <1>4, CommandDrifts DEF Types
    <2>2. over => eng.see.active \subseteq r.eng.pol.acked
      BY <1>4, NormalAcknowledges DEF Types
    <2> HIDE DEF r
    <2> QED
      BY <1>1, <1>2, <1>3, <1>4, <2>1, <2>2, WorkPlain
  <1>5. CASE ~eng.run.ready
    <2>1. r.eng = x /\ x.pol = eng.pol
      BY <1>5 DEF Types, Sound
    <2> HIDE DEF x, r
    <2>2. Drifts(x, r) /\ Mild(eng.pol, x.pol, x.see.active)
      BY <2>1, SelfDrifts, MildSelf
    <2> QED
      BY <1>1, <1>2, <1>5, <2>2, WorkPlain
  <1> QED
    BY <1>4, <1>5

LEMMA LinkPlain ==
    ASSUME Types, StormPast, OperatorSends \/ LinkDown \/ Lost \/ Opened \/ Republish
    PROVE  Plain
  <1>1. CASE Republish
    <2>1. Runs(AtPublish(eng, TRUE))
      BY <1>1 DEF Republish
    <2>2. Near(eng, eng)
      BY NearSelf DEF Types
    <2>3. Drifts(eng, AtPublish(eng, TRUE))
      BY <2>2, AtPublishOK, ReachesDrifts
    <2> QED
      BY <2>1, <2>3, RunsPlain
  <1>2. CASE OperatorSends \/ LinkDown \/ Lost \/ Opened
    <2>1. past' = past /\ (eng' = eng \/ \E up : eng' = [eng EXCEPT !.run.connected = up])
      BY <1>2 DEF OperatorSends, LinkDown, Lost, Opened
    <2>2. eng'.pol = eng.pol
      BY <2>1 DEF Types, Sound
    <2> QED
      BY <2>1, <2>2, StillPlain
  <1> QED
    BY <1>1, <1>2

LEMMA ApplyPlain == ASSUME Types, StormPast, Apply PROVE Plain
  <1> DEFINE x == [eng EXCEPT !.run.queue = Tail(@)]
  <1>1. Runs(AtCommand(x, Head(eng.run.queue), at.force))
    BY DEF Apply
  <1>2. Sound(x) /\ x.pol = eng.pol
    BY DEF Types, Sound, LockOK, Locked
  <1> HIDE DEF x
  <1> QED
    BY <1>1, <1>2, CommandDrifts, RunsPlain

LEMMA SavePlain == ASSUME Types, StormPast, NEW ok, Save(ok) PROVE Plain
  <1> DEFINE x == [eng EXCEPT !.run.saved = FALSE, !.over.borrow = FALSE]
             v == [eng EXCEPT !.borrow = NoBorrow, !.borrowSeq = at.borrowSeq]
             u == To(v, at.phase)
  <1>1. /\ at.pc = "save"
        /\ Runs(IF ok THEN [eng |-> x, at |-> [at EXCEPT !.pc =
                                IF Publishes(x, FALSE) THEN "hold" ELSE "on"]]
                ELSE Resume(u, at.ret, at.force))
    BY DEF Save
  <1>2. at.ret \in Returns /\ at.phase \in LockPhases
    BY <1>1 DEF Types, AtOK
  <1>3. CASE ok
    <2>1. PICK a : Runs([eng |-> x, at |-> a])
      BY <1>1, <1>3
    <2>2. x.pol = eng.pol
      BY DEF Types, Sound
    <2> HIDE DEF x
    <2>3. Drifts(x, [eng |-> x, at |-> a])
      BY SelfDrifts
    <2> QED
      BY <2>1, <2>2, <2>3, RunsPlain
  <1>4. CASE ~ok
    <2>1. Runs(Resume(u, at.ret, at.force))
      BY <1>1, <1>4
    <2>2. Near(eng, v)
      BY DEF Types, Sound, LockOK, Builds, Locked, Near
    <2> HIDE DEF v
    <2>3. Near(v, u)
      BY <1>2, <2>2, NearPhase DEF Near
    <2> HIDE DEF u
    <2>4. Sound(u) /\ u.pol = eng.pol
      BY <2>2, <2>3 DEF Near
    <2> QED
      BY <1>2, <2>1, <2>4, ResumeDrifts, RunsPlain
  <1> QED
    BY <1>3, <1>4

LEMMA PowerPlain ==
    ASSUME Types, StormPast, NEW o, PowerOn(o) \/ Restore(o) \/ Hold(o) \/ Publish(o)
    PROVE  Plain
  <1>1. CASE PowerOn(o)
    <2> DEFINE x == [eng EXCEPT !.borrow.sent = @ \/ o = "ok"]
               r == IF at.pc = "on" THEN Resume(x, at.ret, at.force)
                    ELSE AtReturn(StepLock(x), at.force)
    <2>1. /\ at.pc \in {"on", "resend"} /\ Becomes(r)
          /\ past' = [Recall(r.eng) EXCEPT !.yielded = @ /\ ~Delivered(o)]
      BY <1>1 DEF PowerOn
    <2>2. /\ at.pc = "on" => at.ret \in Returns
          /\ at.pc # "on" => Locked(eng)
      BY <2>1 DEF Types, AtOK
    <2>3. Sound(x) /\ x.pol = eng.pol
      BY DEF Types, Sound, LockOK, Locked
    <2> HIDE DEF x
    <2>4. Drifts(x, r)
      <3>1. CASE at.pc = "on"
        BY <2>2, <2>3, <3>1, ResumeDrifts
      <3>2. CASE at.pc # "on"
        <4>1. Near(x, StepLock(x))
          BY <2>2, <2>3, <3>2, NearStepLock DEF Locked
        <4>2. Drifts(x, AtReturn(StepLock(x), at.force))
          BY <4>1, AtReturnOK, ReachesDrifts
        <4> QED
          BY <3>2, <4>2
      <3> QED
        BY <3>1, <3>2
    <2>5. /\ {"overruled", "calm", "near"} \subseteq DOMAIN past' /\ past'.near = past.near
          /\ past'.calm = past.calm /\ past'.overruled = past.overruled
      BY <2>1, RecallCounts
    <2> HIDE DEF r
    <2> QED
      BY <2>1, <2>3, <2>4, <2>5, MildSelf, WorkPlain
  <1>2. CASE Restore(o)
    <2> DEFINE x == IF o = "ok" THEN Return(eng) ELSE eng
               r == AtPersist(x, at.force)
    <2>1. /\ Becomes(r)
          /\ past' = [Recall(r.eng) EXCEPT !.back =
                         IF Locked(eng) /\ Delivered(o) THEN @ \cup {eng.lock.seq} ELSE @]
      BY <1>2 DEF Restore
    <2>2. Near(eng, x)
      BY NearBorrow, NearSelf DEF Types
    <2> HIDE DEF x
    <2>3. Drifts(eng, r)
      BY <2>2, AtPersistOK, ReachesDrifts
    <2>4. /\ {"overruled", "calm", "near"} \subseteq DOMAIN past' /\ past'.near = past.near
          /\ past'.calm = past.calm /\ past'.overruled = past.overruled
      BY <2>1, RecallCounts
    <2> HIDE DEF r
    <2> QED
      BY <2>1, <2>3, <2>4, MildSelf, WorkPlain
  <1>3. CASE Hold(o) \/ Publish(o)
    BY <1>3, StillPlain DEF Hold, Publish
  <1> QED
    BY <1>1, <1>2, <1>3

LEMMA PersistPlain == ASSUME Types, StormPast, NEW ok, Persist(ok) PROVE Plain
  <1> DEFINE x == [eng EXCEPT !.run.saved = @ \/ ok]
  <1>1. Runs(AtPublish(x, at.force))
    BY DEF Persist
  <1>2. Sound(x) /\ x.pol = eng.pol
    BY DEF Types, Sound, LockOK, Locked
  <1> HIDE DEF x
  <1>3. Near(x, x)
    BY <1>2, NearSelf
  <1>4. Drifts(x, AtPublish(x, at.force))
    BY <1>3, AtPublishOK, ReachesDrifts
  <1> QED
    BY <1>1, <1>2, <1>4, RunsPlain

\* What a successful poll makes of the policy.
LEMMA PollCounts ==
    ASSUME NEW p \in Policies, NEW a \in SUBSET Warnings
    PROVE  LET q == Poll(p, a)
               k == IF p.quiet < ExitAfter /\ p.clean THEN p.quiet + 1 ELSE p.quiet
           IN /\ q.acked = p.acked \cap a
              /\ \/ ~AutoStorm(p) /\ q.mode = p.mode /\ q.source = p.source
                 \/ /\ AutoStorm(p) /\ a # {} /\ AutoStorm(q) /\ q.quiet = 0 /\ ~q.clean
                 \/ AutoStorm(p) /\ a = {} /\ k = ExitAfter /\ q.mode = "normal"
                 \/ /\ AutoStorm(p) /\ a = {} /\ k # ExitAfter
                    /\ AutoStorm(q) /\ q.quiet = k /\ q.clean
  <1> DEFINE q == [p EXCEPT !.acked = @ \cap a, !.dismissed = @ \cap a]
             k == IF p.quiet < ExitAfter /\ p.clean THEN p.quiet + 1 ELSE p.quiet
  <1>1. /\ q \in Policies /\ q.acked = p.acked \cap a /\ q.mode = p.mode
        /\ q.source = p.source /\ q.quiet = p.quiet /\ q.clean = p.clean
    BY DEF Policies
  <1>2. Poll(p, a) = IF ~AutoStorm(p) THEN q
                     ELSE IF a # {} THEN [q EXCEPT !.quiet = 0, !.clean = FALSE]
                     ELSE IF k = ExitAfter THEN Enter(q, "normal", "auto")
                     ELSE [q EXCEPT !.quiet = k, !.clean = TRUE]
    BY <1>1 DEF Poll
  <1> HIDE DEF q, k
  <1>3. CASE ~AutoStorm(p)
    BY <1>1, <1>2, <1>3
  <1>4. CASE AutoStorm(p) /\ a # {}
    BY <1>1, <1>2, <1>4 DEF Policies, AutoStorm
  <1>5. CASE AutoStorm(p) /\ a = {} /\ k = ExitAfter
    <2>1. Poll(p, a) = Enter(q, "normal", "auto")
      BY <1>2, <1>5
    <2> QED
      BY <1>1, <1>5, <2>1, EnterCounts DEF k
  <1>6. CASE AutoStorm(p) /\ a = {} /\ k # ExitAfter
    <2>1. Poll(p, a) = [q EXCEPT !.quiet = k, !.clean = TRUE]
      BY <1>2, <1>6
    <2>2. /\ Poll(p, a).acked = q.acked /\ AutoStorm(Poll(p, a))
          /\ Poll(p, a).quiet = k /\ Poll(p, a).clean
      BY <1>1, <1>6, <2>1 DEF Policies, AutoStorm
    <2> QED
      BY <1>1, <1>6, <2>2 DEF k
  <1> QED
    BY <1>3, <1>4, <1>5, <1>6

\* A step that counts a poll.
Polled ==
    /\ eng.run.ready /\ eng'.see.active \in SUBSET Warnings
    /\ Mild(Poll(eng.pol, eng'.see.active), eng'.pol, eng'.see.active)
    /\ {"overruled", "calm", "near"} \subseteq DOMAIN past'
    /\ past'.overruled = past.overruled \cap eng'.see.active
    /\ past'.calm = IF eng'.see.active # {} THEN 0
                    ELSE IF past.near /\ past.calm < ExitAfter THEN past.calm + 1 ELSE past.calm
    /\ past'.near = (eng'.see.active = {})

LEMMA PolledKeeps ==
    ASSUME Types, Types', Advance, StormInv, Polled
    PROVE  StormInv'
  <1> DEFINE a == eng'.see.active
             q == Poll(eng.pol, a)
  <1>1. /\ eng.pol \in Policies /\ a \in SUBSET Warnings
        /\ eng.pol.quiet \in Nat /\ eng.pol.quiet <= ExitAfter /\ ExitAfter \in Nat
        /\ past.calm \in Nat
    BY Quiets DEF Polled, StormInv, StormPast
  <1>2. q.acked = eng.pol.acked \cap a
    BY <1>1, PollCounts
  <1>3. past'.overruled \subseteq eng'.pol.acked
    BY <1>2 DEF StormInv, Polled, Mild
  <1>4. StormPast'
    BY <1>1 DEF Polled, StormPast
  <1>5. Counted(eng.pol)'
    <2>1. eng'.pol.quiet \in Nat
      BY Bounds DEF Types, Sound, Policies
    <2>2. AutoStorm(q) => past'.calm >= q.quiet /\ (q.clean => past'.near)
      <3> DEFINE k == IF eng.pol.quiet < ExitAfter /\ eng.pol.clean
                      THEN eng.pol.quiet + 1 ELSE eng.pol.quiet
      <3>1. AutoStorm(q) => /\ AutoStorm(eng.pol)
                            /\ \/ a # {} /\ q.quiet = 0 /\ ~q.clean
                               \/ a = {} /\ k # ExitAfter /\ q.quiet = k /\ q.clean
        BY <1>1, PollCounts DEF AutoStorm
      <3>2. AutoStorm(eng.pol) => past.calm >= eng.pol.quiet /\ (eng.pol.clean => past.near)
        BY DEF StormInv, Counted
      <3>3. /\ past'.near = (a = {})
            /\ past'.calm = IF a # {} THEN 0
                            ELSE IF past.near /\ past.calm < ExitAfter THEN past.calm + 1
                                 ELSE past.calm
        BY DEF Polled
      <3> HIDE DEF q, a
      <3>4. CASE a # {}
        BY <1>1, <3>1, <3>3, <3>4
      <3>5. CASE a = {}
        <4>1. SUFFICES ASSUME AutoStorm(q)
                       PROVE  past'.calm >= q.quiet /\ (q.clean => past'.near)
          OBVIOUS
        <4>2. /\ q.quiet = k /\ past'.near /\ past.calm >= eng.pol.quiet
              /\ eng.pol.clean => past.near
          BY <3>1, <3>2, <3>3, <3>5, <4>1
        <4>3. past'.calm = IF past.near /\ past.calm < ExitAfter THEN past.calm + 1 ELSE past.calm
          BY <3>3, <3>5
        <4>4. CASE eng.pol.clean
          BY <1>1, <4>2, <4>3, <4>4
        <4>5. CASE ~eng.pol.clean
          BY <1>1, <4>2, <4>3, <4>5
        <4> QED
          BY <4>4, <4>5
      <3> QED
        BY <3>4, <3>5
    <2>3. Mild(q, eng'.pol, a)
      BY DEF Polled
    <2>4. AutoStorm(q) => q.quiet \in Nat
      BY <1>1, PollOK, Bounds DEF Policies
    <2> HIDE DEF q, a
    <2> QED
      BY <1>4, <2>1, <2>2, <2>3, <2>4 DEF StormPast, Mild, Counted
  <1>6. file' # None => ~file'.pol.clean
    BY FileUnclean DEF Advance, StormInv
  <1>7. Found'
    BY DEF Found, Polled, Advance
  <1> QED
    BY <1>3, <1>4, <1>5, <1>6, <1>7 DEF StormInv

LEMMA NinaCounts ==
    ASSUME Types, StormPast, Found, NinaResult
    PROVE  Plain \/ Polled
  <1>0. PICK ws \in SUBSET Warnings : \E a \in SUBSET ws :
           LET e == [eng EXCEPT !.see.listed = ws, !.see.active = a]
               n == IF e.run.ready THEN Decide(e, Poll(e.pol, a)) ELSE e
               r == IF e.run.ready THEN AtStep(n, FALSE) ELSE [eng |-> n, at |-> Idle]
           IN /\ at.pc = "idle" /\ Becomes(r)
              /\ past' = [Recall(r.eng) EXCEPT
                            !.overruled = IF e.run.ready THEN @ \cap a ELSE @,
                            !.calm = IF ~e.run.ready THEN @ ELSE IF a # {} THEN 0
                                     ELSE IF past.near /\ @ < ExitAfter THEN @ + 1 ELSE @,
                            !.near = e.run.ready /\ a = {}]
              /\ UNCHANGED <<file, state, sent, cmd, power, net>>
    BY DEF NinaResult
  <1>1. PICK a \in SUBSET ws :
           LET e == [eng EXCEPT !.see.listed = ws, !.see.active = a]
               n == IF e.run.ready THEN Decide(e, Poll(e.pol, a)) ELSE e
               r == IF e.run.ready THEN AtStep(n, FALSE) ELSE [eng |-> n, at |-> Idle]
           IN /\ at.pc = "idle" /\ Becomes(r)
              /\ past' = [Recall(r.eng) EXCEPT
                            !.overruled = IF e.run.ready THEN @ \cap a ELSE @,
                            !.calm = IF ~e.run.ready THEN @ ELSE IF a # {} THEN 0
                                     ELSE IF past.near /\ @ < ExitAfter THEN @ + 1 ELSE @,
                            !.near = e.run.ready /\ a = {}]
              /\ UNCHANGED <<file, state, sent, cmd, power, net>>
    BY <1>0
  <1> DEFINE e == [eng EXCEPT !.see.listed = ws, !.see.active = a]
             n == IF e.run.ready THEN Decide(e, Poll(e.pol, a)) ELSE e
             r == IF e.run.ready THEN AtStep(n, FALSE) ELSE [eng |-> n, at |-> Idle]
  <1>2. Sound(e) /\ e.pol = eng.pol /\ e.see.active = a /\ e.run = eng.run
    <2> DEFINE d == [eng EXCEPT !.see.listed = ws]
    <2>1. Sound(d) /\ d.pol = eng.pol /\ d.run = eng.run
      BY DEF Types, Sound, LockOK, Locked
    <2>2. e = [d EXCEPT !.see.active = a]
      BY DEF Types, Sound
    <2> HIDE DEF d, e
    <2> QED
      BY <2>1, <2>2 DEF Sound, LockOK, Locked
  <1>3. /\ Becomes(r)
        /\ {"overruled", "calm", "near"} \subseteq DOMAIN past'
        /\ past'.overruled = IF e.run.ready THEN past.overruled \cap a ELSE past.overruled
        /\ past'.calm = IF ~e.run.ready THEN past.calm ELSE IF a # {} THEN 0
                        ELSE IF past.near /\ past.calm < ExitAfter THEN past.calm + 1 ELSE past.calm
        /\ past'.near = (e.run.ready /\ a = {})
    <2>1. /\ Becomes(r)
          /\ past' = [Recall(r.eng) EXCEPT
                        !.overruled = IF e.run.ready THEN @ \cap a ELSE @,
                        !.calm = IF ~e.run.ready THEN @ ELSE IF a # {} THEN 0
                                 ELSE IF past.near /\ @ < ExitAfter THEN @ + 1 ELSE @,
                        !.near = e.run.ready /\ a = {}]
      BY <1>1
    <2> HIDE DEF r, e
    <2> QED
      BY <2>1, RecallCounts
  <1> HIDE DEF e
  <1>4. CASE e.run.ready
    <2> DEFINE p == Poll(e.pol, a)
               m == Decide(e, p)
    <2>1. p \in Policies /\ (Stays(e.pol, p) \/ Frees(e.pol, p))
      BY <1>2, PollOK DEF Sound
    <2>2. r = AtStep(m, FALSE)
      BY <1>4
    <2> HIDE DEF p, r
    <2>3. Sound(m) /\ m.pol = p /\ m.see = e.see
      BY <1>2, <2>1, DecideOK DEF Same
    <2> HIDE DEF m
    <2>4. Drifts(m, r)
      BY <2>2, <2>3, StepDrifts
    <2>5. eng' = r.eng
      BY <1>3 DEF Becomes
    <2>6. eng'.see.active = a /\ Mild(p, eng'.pol, a)
      BY <1>2, <2>3, <2>4, <2>5 DEF Drifts
    <2>7. p = Poll(eng.pol, a)
      BY <1>2 DEF p
    <2>8. Polled
      BY <1>2, <1>3, <1>4, <2>6, <2>7 DEF Polled
    <2> QED
      BY <2>8
  <1>5. CASE ~e.run.ready
    <2>1. r.eng = e
      BY <1>5
    <2> HIDE DEF r
    <2>2. Drifts(e, r) /\ Mild(eng.pol, e.pol, e.see.active) /\ ~e.pol.clean
      BY <1>2, <1>5, <2>1, SelfDrifts, MildSelf DEF Found
    <2>3. Plain
      BY <1>2, <1>3, <1>5, <2>2, WorkPlain
    <2> QED
      BY <2>3
  <1> QED
    BY <1>4, <1>5

\* An adopted lock has no quiet time, and nothing acknowledged is lost for it.
LEMMA AdoptCounts ==
    ASSUME NEW e, Sound(e), ~e.pol.clean, NEW s, s # None, StateOK(s)
    PROVE  LET q == Adopt(e, s).pol
           IN /\ q.acked = e.pol.acked /\ ~q.clean
              /\ q.quiet = 0 \/ (q.mode = e.pol.mode /\ q.source = e.pol.source /\ q.quiet = e.pol.quiet)
  <1> DEFINE seq == IF s.seq > e.pol.seq THEN s.seq ELSE e.pol.seq
             p == [e.pol EXCEPT !.seq = seq]
             q == [p EXCEPT !.mode = s.mode, !.source = s.source, !.quiet = 0]
  <1>1. /\ seq \in 0..MaxSeq /\ seq >= e.pol.seq /\ seq >= s.seq
    BY Bounds DEF Sound, StateOK, Policies
  <1>2. /\ {"mode", "source", "seq", "acked", "quiet", "clean"} \subseteq DOMAIN e.pol
        /\ "pol" \in DOMAIN e
    BY DEF Sound, Policies
  <1>3. CASE s.mode = "normal" \/ (~e.run.adopt /\ s.lock.seq <= e.run.fileSeq)
    <2>1. Adopt(e, s) = [e EXCEPT !.pol = p]
      BY <1>3, <1>2 DEF Adopt
    <2> HIDE DEF seq
    <2> QED
      BY <1>2, <2>1
  <1>4. CASE ~(s.mode = "normal" \/ (~e.run.adopt /\ s.lock.seq <= e.run.fileSeq))
    <2> DEFINE b == [NoBorrow EXCEPT !.open = TRUE, !.from = s.borrow.from,
                       !.sent = s.phase # "awaiting_power", !.taken = s.borrow.taken]
               f == [e EXCEPT !.pol = q, !.lock = s.lock, !.phase = s.phase,
                              !.borrow = IF s.borrow.open THEN b ELSE NoBorrow,
                              !.borrowSeq = IF s.borrow.open THEN s.lock.seq ELSE @]
    <2>1. Adopt(e, s) = Normalize(f)
      BY <1>2, <1>4 DEF Adopt
    <2>2. Sound(f)
      <3>1. p \in Policies
        BY <1>1 DEF Sound, Policies
      <3>2. q \in Policies
        <4>1. s.mode \in Modes /\ s.source \in {"manual", "auto"} /\ 0 \in 0..ExitAfter
          BY Bounds DEF StateOK
        <4> HIDE DEF p
        <4> QED
          BY <3>1, <4>1, ZenonT(60) DEF Policies
      <3>3. q.seq = seq /\ q.mode = s.mode
        BY <1>2
      <3>4. LockOK(s.lock, seq)
        BY <1>1, Bounds DEF StateOK, LockOK
      <3> HIDE DEF b, q, seq
      <3>5. f.pol = q /\ f.lock = s.lock /\ f.phase = s.phase /\ f.see = e.see /\ f.run = e.run
        BY DEF Sound
      <3> QED
        BY <1>4, <3>2, <3>3, <3>4, <3>5 DEF Sound, StateOK, Locked
    <2>3. f.pol = q
      BY <1>2
    <2> HIDE DEF f
    <2>4. Adopt(e, s).pol = q
      BY <2>1, <2>2, <2>3, NormalizeOK
    <2>5. q.acked = e.pol.acked /\ q.clean = e.pol.clean /\ q.quiet = 0
      BY <1>2
    <2> HIDE DEF q
    <2> QED
      BY <2>4, <2>5
  <1> QED
    BY <1>3, <1>4

LEMMA OwnStateKeeps ==
    ASSUME Types, Types', StormInv, OwnState
    PROVE  StormInv'
  <1>1. /\ UNCHANGED <<file, past>> /\ ~eng.run.ready /\ ~eng.pol.clean
        /\ eng' = IF state = None THEN eng ELSE Adopt(eng, state)
    BY DEF OwnState, Types, StormInv, Found
  <1>2. /\ eng'.pol.acked = eng.pol.acked /\ ~eng'.pol.clean
        /\ \/ eng'.pol.quiet = 0
           \/ /\ eng'.pol.mode = eng.pol.mode /\ eng'.pol.source = eng.pol.source
              /\ eng'.pol.quiet = eng.pol.quiet
    BY <1>1, AdoptCounts DEF Types
  <1>3. Counted(eng.pol)'
    BY <1>1, <1>2 DEF StormInv, StormPast, Counted, AutoStorm
  <1>4. Found'
    BY <1>1, <1>2 DEF StormInv, Found, Counted
  <1> QED
    BY <1>1, <1>2, <1>3, <1>4 DEF StormInv, StormPast

LEMMA NewCounts ==
    ASSUME NEW n \in 0..MaxSeq
    PROVE  LET q == New(None, n).pol
           IN q.mode = "normal" /\ ~q.clean /\ q.quiet = 0
  BY DEF New, NewPolicy

LEMMA CrashKeeps ==
    ASSUME Types, Types', Filed, StormInv, Crash
    PROVE  StormInv'
  <1>1. /\ file' = file \/ file' = None
        /\ eng' = New(file', used) /\ used \in 0..MaxSeq
        /\ FileOK(file')
    BY DEF Crash, Types, Drawn
  <1>2. /\ {"overruled", "calm", "near"} \subseteq DOMAIN past' /\ past'.calm \in Nat
        /\ at.pc # "idle" => past'.overruled = {} /\ past'.calm = ExitAfter
        /\ at.pc = "idle" => /\ past'.calm = past.calm
                             /\ past'.overruled = IF file' # file THEN {} ELSE past.overruled
    BY Bounds DEF Crash, StormInv, StormPast
  <1>3. CASE file' = None
    <2>1. eng'.pol.mode = "normal" /\ ~eng'.pol.clean
      BY <1>1, <1>3, NewCounts
    <2>2. past'.overruled = {}
      BY <1>2, <1>3 DEF StormInv, Found, Filed
    <2>3. past'.overruled \subseteq eng'.pol.acked
      BY <2>2
    <2>4. Counted(eng.pol)'
      BY <2>1 DEF Counted, AutoStorm
    <2> QED
      BY <1>2, <1>3, <2>1, <2>2, <2>3, <2>4 DEF StormInv, StormPast, Found
  <1>4. CASE file' # None
    <2>1. file' = file /\ eng'.pol = file.pol /\ ~file.pol.clean
      BY <1>1, <1>4, NewOK DEF StormInv
    <2>2. past'.overruled \subseteq file.pol.acked /\ Counted(file.pol)'
      <3>1. CASE at.pc # "idle"
        BY <1>2, <1>4, <2>1, <3>1, Quiets DEF Counted
      <3>2. CASE at.pc = "idle" /\ ~eng.run.ready
        BY <1>2, <1>4, <2>1, <3>2 DEF StormInv, Found, Counted
      <3>3. CASE at.pc = "idle" /\ eng.run.ready
        <4>1. file.pol = [eng.pol EXCEPT !.clean = FALSE]
          BY <3>3 DEF Filed
        <4>2. /\ file.pol.acked = eng.pol.acked /\ file.pol.quiet = eng.pol.quiet
              /\ AutoStorm(file.pol) = AutoStorm(eng.pol)
          BY <4>1, Quiets DEF Policies, AutoStorm
        <4>3. eng.pol.quiet \in Nat /\ ExitAfter \in Nat
          BY Quiets
        <4> QED
          BY <1>2, <2>1, <3>3, <4>2, <4>3 DEF StormInv, StormPast, Counted
      <3> QED
        BY <3>1, <3>2, <3>3
    <2>3. Counted(eng.pol)'
      BY <2>1, <2>2 DEF Counted
    <2> QED
      BY <1>2, <1>4, <2>1, <2>2, <2>3 DEF StormInv, StormPast, Found
  <1> QED
    BY <1>3, <1>4

LEMMA StormInit == Init => StormInv
  <1> SUFFICES ASSUME Init PROVE StormInv
    OBVIOUS
  <1>1. file = None /\ eng = New(None, 0) /\ 0 \in 0..MaxSeq
    BY Bounds DEF Init
  <1>2. eng.pol.mode = "normal" /\ ~eng.pol.clean
    BY <1>1, NewCounts
  <1>3. StormPast /\ past.overruled = {}
    BY DEF Init, NoPast, StormPast
  <1> QED
    BY <1>1, <1>2, <1>3 DEF StormInv, Found, Counted, AutoStorm

LEMMA CrashUnready == ASSUME Types, Crash PROVE ~eng'.run.ready
  <1>1. eng' = New(file', used) /\ (file' = file \/ file' = None)
    BY DEF Crash
  <1>2. FileOK(file') /\ used \in 0..MaxSeq
    BY <1>1 DEF FileOK, Types, Drawn
  <1> QED
    BY <1>1, <1>2, NewOK

\* A step of the worker counts a poll or does not.
LEMMA NextCounts ==
    ASSUME Types, StormPast, Found, Next
    PROVE  Plain \/ (NinaResult /\ Polled) \/ OwnState \/ Crash
  <1>1. CASE Apply \/ \E ok \in Writes : Save(ok) \/ Persist(ok)
    BY <1>1, ApplyPlain, SavePlain, PersistPlain
  <1>2. CASE \E o \in {"ok", "late", "lost", "failed"} :
                Hold(o) \/ PowerOn(o) \/ Restore(o) \/ Publish(o) \/ Cmd(o)
    BY <1>2, PowerPlain, CmdPlain
  <1>3. CASE \/ PowerSeqStatus \/ PowerSeqState \/ RotatorStatus \/ RotatorState \/ AntCtrlState
             \/ AntSwitchState \/ RadioState \/ PowerState \/ WindResult \/ NinaFails
    BY <1>3, MessagesPlain
  <1>4. CASE NinaResult \/ Tick \/ BecomeReady
    BY <1>4, NinaCounts, TickPlain, ReadyPlain
  <1>5. CASE OperatorSends \/ LinkDown \/ Lost \/ Opened \/ Republish
    BY <1>5, LinkPlain
  <1> QED
    BY <1>1, <1>2, <1>3, <1>4, <1>5 DEF Next

LEMMA StormStep == Types /\ Types' /\ Filed /\ StormInv /\ [Next]_vars => StormInv'
  <1> SUFFICES ASSUME Types, Types', Filed, StormInv, [Next]_vars PROVE StormInv'
    OBVIOUS
  <1>1. CASE OwnState \/ Crash
    BY <1>1, OwnStateKeeps, CrashKeeps
  <1>2. CASE Next /\ ~OwnState /\ ~Crash
    <2>1. Advance /\ (Plain \/ Polled)
      BY <1>2, NextAdvances, NextCounts DEF StormInv
    <2> QED
      BY <2>1, PlainKeeps, PolledKeeps
  <1>3. CASE UNCHANGED vars
    BY <1>3 DEF vars, world, StormInv, StormPast, Found, Counted
  <1> QED
    BY <1>1, <1>2, <1>3
-----------------------------------------------------------------------------

\* Once an operator has overruled warnings by a normal, automation does not lock the station
\* for them again while the polls still report them, restarts included, as long as no write
\* of the file fails: every such warning stays acknowledged in the engine and in the file
\* (SetMode, Poll, Evaluate, New).
THEOREM OverruledHeeded ==
    ASSUME ~WriteFails
    PROVE  Spec => OverruledStays
  <1>1. Types /\ StormInv /\ [Next]_vars
        => [Decides("normal", "storm") => ~(eng'.see.active \subseteq past.overruled)]_vars
    <2> SUFFICES ASSUME Types, StormInv, Next, Decides("normal", "storm"),
                        eng'.see.active \subseteq past.overruled
                 PROVE  FALSE
      OBVIOUS
    <2>1. /\ eng.pol.mode = "normal" /\ AutoStorm(eng'.pol)
          /\ eng.run.ready /\ eng'.run.ready
      BY DEF Decides, AutoStorm
    <2>2. past.overruled \subseteq eng.pol.acked /\ eng.pol \in Policies
      BY Quiets DEF StormInv
    <2>3. CASE Plain
      BY <2>1, <2>2, <2>3 DEF Plain, Mild, AutoStorm
    <2>4. CASE Polled
      <3> DEFINE a == eng'.see.active
                 q == Poll(eng.pol, a)
      <3>1. q.acked = eng.pol.acked \cap a /\ q.mode = "normal"
        BY <2>1, <2>2, <2>4, PollCounts DEF Polled, AutoStorm
      <3>2. Mild(q, eng'.pol, a)
        BY <2>4 DEF Polled
      <3> HIDE DEF q
      <3> QED
        BY <2>1, <2>2, <3>1, <3>2 DEF Mild, AutoStorm
    <2>5. CASE OwnState
      BY <2>1, <2>5 DEF OwnState, Types
    <2>6. CASE Crash
      BY <2>1, <2>6, CrashUnready
    <2> QED
      BY <2>3, <2>4, <2>5, <2>6, NextCounts DEF StormInv
  <1>2. ~WriteFails
    OBVIOUS
  <1>3. GrowInv => Filed
    BY DEF GrowInv
  <1> QED
    BY <1>1, <1>2, <1>3, TypesInit, TypesStep, GrowInit, GrowStep, StormInit, StormStep, PTL
    DEF Spec, OverruledStays

\* An auto storm is over only after a whole holdoff of quiet time: the intervals the policy
\* counts never exceed those between two clean polls that no outage, no restart and no
\* startup hold has come in between of, also when the count comes from a file or an adopted
\* lock, as long as no write of the file fails (Poll, PollFailed, enter, New, OwnState).
THEOREM HoldoffServed ==
    ASSUME ~WriteFails
    PROVE  Spec => NoEarlyExit
  <1>1. Types /\ StormInv /\ [Next]_vars
        => [Decides("storm", "normal") => past'.calm >= ExitAfter]_vars
    <2> SUFFICES ASSUME Types, StormInv, Next, Decides("storm", "normal")
                 PROVE  past'.calm >= ExitAfter
      OBVIOUS
    <2>1. /\ eng.pol.mode = "storm" /\ eng'.pol.mode = "normal" /\ eng'.pol.source = "auto"
          /\ eng.run.ready /\ eng'.run.ready
      BY DEF Decides
    <2>2. /\ eng.pol \in Policies /\ eng.pol.quiet \in Nat /\ eng.pol.quiet <= ExitAfter
          /\ ExitAfter \in Nat /\ past.calm \in Nat
      BY Quiets DEF StormInv, StormPast
    <2>3. CASE Plain
      BY <2>1, <2>3 DEF Plain, Mild
    <2>4. CASE Polled
      <3> DEFINE a == eng'.see.active
                 q == Poll(eng.pol, a)
                 k == IF eng.pol.quiet < ExitAfter /\ eng.pol.clean
                      THEN eng.pol.quiet + 1 ELSE eng.pol.quiet
      <3>1. Mild(q, eng'.pol, a)
        BY <2>4 DEF Polled
      <3>2. q.mode = "normal"
        BY <2>1, <3>1 DEF Mild
      <3>3. AutoStorm(eng.pol) /\ a = {} /\ k = ExitAfter
        BY <2>1, <2>2, <2>4, <3>2, PollCounts DEF Polled, AutoStorm
      <3>4. past.calm >= eng.pol.quiet /\ (eng.pol.clean => past.near)
        BY <3>3 DEF StormInv, Counted
      <3>5. past'.calm = IF past.near /\ past.calm < ExitAfter THEN past.calm + 1 ELSE past.calm
        BY <2>4, <3>3 DEF Polled
      <3> HIDE DEF q, a
      <3> QED
        BY <2>2, <3>3, <3>4, <3>5
    <2>5. CASE OwnState
      BY <2>1, <2>5 DEF OwnState, Types
    <2>6. CASE Crash
      BY <2>1, <2>6, CrashUnready
    <2> QED
      BY <2>3, <2>4, <2>5, <2>6, NextCounts DEF StormInv
  <1>2. ~WriteFails
    OBVIOUS
  <1>3. GrowInv => Filed
    BY DEF GrowInv
  <1> QED
    BY <1>1, <1>2, <1>3, TypesInit, TypesStep, GrowInit, GrowStep, StormInit, StormStep, PTL
    DEF Spec, NoEarlyExit
-----------------------------------------------------------------------------
(* What a handler may do to the borrow.                                       *)

\* The borrow as a handler finds it: of a lock's no restore has been asked for.
BorrowOK(e) ==
    /\ {"open", "from", "sent", "restore", "taken"} \subseteq DOMAIN e.borrow
    /\ Locked(e) /\ e.borrow.open => ~e.borrow.restore

\* A borrow whose power is on its way.
Firm(e) ==
    e.borrow.open /\ ~e.borrow.taken /\ Locked(e) /\ e.phase = "awaiting_power"

Poised(a, e) ==
    /\ a.pc \in {"save", "hold", "on"} => Firm(e)
    /\ a.pc = "resend" => e.borrow.open /\ Locked(e) /\ e.phase = "awaiting_power"

\* The borrow is handed on, or dropped as powerseq has taken the power over.
Hands(e, n) ==
    /\ Sound(n) /\ BorrowOK(n)
    /\ n.borrow.open => e.borrow.open /\ (n.borrow.taken <=> e.borrow.taken)
    /\ e.borrow.open /\ ~n.borrow.open => e.borrow.taken

\* A step of the worker from e: it opens a borrow only to save it, in place of one that
\* powerseq has taken over.
Lends(e, r) ==
    /\ BorrowOK(r.eng) /\ Poised(r.at, r.eng)
    /\ r.at.pc \notin {"hold", "on"}
    /\ r.eng.borrow.open => e.borrow.open \/ r.at.pc = "save"
    /\ r.at.pc = "save" /\ e.borrow.open => e.borrow.taken

LEMMA HandsLends ==
    ASSUME NEW e, NEW n, Hands(e, n), NEW r, Lends(n, r)
    PROVE  Lends(e, r)
  BY DEF Hands, Lends

LEMMA HandsTwice ==
    ASSUME NEW e, NEW n, NEW m, Hands(e, n), Hands(n, m)
    PROVE  Hands(e, m)
  BY DEF Hands

\* Nothing but the borrow, its restart and its end touches the borrow.
LEMMA BorrowBeside ==
    ASSUME NEW e, Sound(e), NEW phase
    PROVE  To(e, phase).borrow = e.borrow
  BY DEF Sound, To

LEMMA StepLockBorrow ==
    ASSUME NEW e, Sound(e), Locked(e)
    PROVE  /\ StepLock(e).borrow = e.borrow
           /\ e.phase = "awaiting_power" =>
                 StepLock(e).phase \in {"awaiting_power", "awaiting_devices", "grounding"}
  <1> DEFINE az == IF e.pol.mode # "storm" THEN MaintenanceAz
                   ELSE Storm(e.see.wind, IF e.see.rot.live THEN e.see.rot.az ELSE NoAz)
             f == [e EXCEPT !.lock.retract = TRUE]
             g == [e EXCEPT !.lock.retract = TRUE, !.lock.park = az]
             h == To(g, "rotating")
             k == NotePark(e, FALSE)
  <1>1. /\ Sound(f) /\ (e.lock.park = NoAz => Sound(g)) /\ Sound(k)
        /\ f.borrow = e.borrow /\ g.borrow = e.borrow /\ k.borrow = e.borrow
    <2>1. Sound(f) /\ (e.lock.park = NoAz => Sound(g)) /\ Sound(k)
      BY NearLock, NearPark DEF Near
    <2>2. f.borrow = e.borrow /\ g.borrow = e.borrow
      BY DEF Sound
    <2> QED
      BY <2>1, <2>2, BorrowAside DEF Lent
  <1>2. ComputePark(e) = IF e.lock.park # NoAz THEN To(f, "rotating") ELSE NotePark(h, FALSE)
    BY DEF ComputePark
  <1> HIDE DEF f, g
  <1>3. e.lock.park = NoAz => Sound(h) /\ h.borrow = e.borrow
    BY <1>1, NearPhase, BorrowBeside DEF Near, LockPhases
  <1> HIDE DEF h
  <1>4. ComputePark(e).borrow = e.borrow
    <2>1. CASE e.lock.park # NoAz
      BY <1>1, <1>2, <2>1, BorrowBeside
    <2>2. CASE e.lock.park = NoAz
      <3>1. NotePark(h, FALSE).borrow = h.borrow
        BY <1>3, <2>2, BorrowAside DEF Lent
      <3> QED
        BY <1>2, <1>3, <2>2, <3>1
    <2> QED
      BY <2>1, <2>2
  <1>5. \A phase : /\ To(e, phase).borrow = e.borrow /\ To(f, phase).borrow = e.borrow
                   /\ To(k, phase).borrow = e.borrow
    BY <1>1, BorrowBeside
  <1> HIDE DEF k
  <1>6. CASE e.phase = "awaiting_power"
    <2>1. StepLock(e) \in {To(e, "grounding"), To(e, "awaiting_devices"), e}
      BY <1>6 DEF StepLock
    <2>2. \A phase \in LockPhases : To(e, phase).phase = phase
      BY DEF To, Sound
    <2> QED
      BY <1>5, <1>6, <2>1, <2>2 DEF LockPhases
  <1>7. CASE e.phase = "awaiting_devices"
    BY <1>5, <1>7 DEF StepLock
  <1>8. CASE e.phase = "grounding"
    BY <1>5, <1>8 DEF StepLock, f
  <1>9. CASE e.phase = "retracting"
    BY <1>4, <1>9 DEF StepLock
  <1>10. CASE e.phase = "rotating"
    BY <1>1, <1>5, <1>10 DEF StepLock, k
  <1>11. CASE e.phase \in {"failed", "idle", "parked"}
    BY <1>5, <1>11 DEF StepLock
  <1> QED
    BY <1>6, <1>7, <1>8, <1>9, <1>10, <1>11 DEF Sound, LockPhases

LEMMA NoBorrowOK ==
    /\ {"open", "from", "sent", "restore", "taken"} \subseteq DOMAIN NoBorrow
    /\ ~NoBorrow.open /\ ~NoBorrow.restore /\ ~NoBorrow.taken
  BY DEF NoBorrow

LEMMA AttachHands ==
    ASSUME NEW e, Sound(e), {"open", "from", "sent", "restore", "taken"} \subseteq DOMAIN e.borrow
    PROVE  Hands(e, Attach(e))
  <1> DEFINE f == [e EXCEPT !.borrow.restore = FALSE, !.borrowSeq = e.lock.seq]
             g == [f EXCEPT !.borrow.sent = FALSE]
             h == To(g, "awaiting_power")
             i == [h EXCEPT !.over.borrow = FALSE]
  <1>1. \/ e.borrow.taken /\ Attach(e) = [e EXCEPT !.borrow = NoBorrow]
        \/ ~e.borrow.open /\ Attach(e) = e
        \/ Attach(e) = f \/ Attach(e) = i
    BY DEF Attach
  <1>2. Sound(Attach(e))
    BY NearAttach DEF Near
  <1>3. f.borrow = [e.borrow EXCEPT !.restore = FALSE]
    BY DEF Sound
  <1>4. "borrow" \in DOMAIN f /\ "phase" \in DOMAIN f
    BY DEF Sound
  <1> HIDE DEF f
  <1>5. g.borrow = [f.borrow EXCEPT !.sent = FALSE] /\ "borrow" \in DOMAIN g
    BY <1>4
  <1> HIDE DEF g
  <1>6. h.borrow = g.borrow /\ "borrow" \in DOMAIN h
    BY <1>5 DEF To
  <1> HIDE DEF h
  <1>7. i.borrow = g.borrow
    BY <1>6
  <1> HIDE DEF i
  <1>8. CASE e.borrow.taken /\ Attach(e) = [e EXCEPT !.borrow = NoBorrow]
    <2>1. Attach(e).borrow = NoBorrow
      BY <1>8 DEF Sound
    <2> QED
      BY <1>2, <1>8, <2>1, NoBorrowOK DEF Hands, BorrowOK
  <1>9. CASE ~e.borrow.open /\ Attach(e) = e
    BY <1>9 DEF Hands, BorrowOK
  <1>10. CASE Attach(e) = f \/ Attach(e) = i
    <2>1. \/ Attach(e).borrow = [e.borrow EXCEPT !.restore = FALSE]
          \/ Attach(e).borrow = [[e.borrow EXCEPT !.restore = FALSE] EXCEPT !.sent = FALSE]
      BY <1>3, <1>5, <1>7, <1>10
    <2>2. LET b == Attach(e).borrow
          IN /\ {"open", "from", "sent", "restore", "taken"} \subseteq DOMAIN b
             /\ b.open = e.borrow.open /\ b.taken = e.borrow.taken /\ ~b.restore
      BY <2>1
    <2> QED
      BY <1>2, <2>2 DEF Hands, BorrowOK
  <1> QED
    BY <1>1, <1>8, <1>9, <1>10

LEMMA RestartHands ==
    ASSUME NEW e, Sound(e), Locked(e),
           {"open", "from", "sent", "restore", "taken"} \subseteq DOMAIN e.borrow
    PROVE  Hands(e, RestartPark(e))
  <1> DEFINE f == [e EXCEPT !.lock.seq = e.pol.seq, !.lock.park = NoAz]
             g == To(f, IF f.lock.retract THEN "retracting" ELSE "grounding")
             h == [g EXCEPT !.over.phase = FALSE]
             i == Capture(h)
  <1>1. Sound(f) /\ f.borrow = e.borrow
    <2> DEFINE d == [e EXCEPT !.lock.seq = e.pol.seq]
    <2>1. Sound(d) /\ d.borrow = e.borrow
      BY DEF Sound, LockOK, Bare, Locked, Policies
    <2>2. f = [d EXCEPT !.lock.park = NoAz]
      BY DEF Sound, LockOK
    <2> HIDE DEF d, f
    <2> QED
      BY <2>1, <2>2 DEF Sound, LockOK, Bare, Locked
  <1> HIDE DEF f
  <1>2. Sound(g) /\ g.borrow = f.borrow
    BY <1>1, NearPhase, BorrowBeside DEF LockPhases, Near
  <1> HIDE DEF g
  <1>3. Sound(h) /\ h.borrow = g.borrow
    BY <1>2 DEF Sound, LockOK, Locked
  <1> HIDE DEF h
  <1>4. Sound(i)
    BY <1>3, NearCapture DEF Near
  <1>5. i.borrow = h.borrow
    BY <1>3 DEF Sound, Capture
  <1> HIDE DEF i
  <1>6. Hands(i, Attach(i))
    BY <1>1, <1>2, <1>3, <1>4, <1>5, AttachHands
  <1>7. RestartPark(e) = Attach(i)
    BY DEF RestartPark, i, h, g, f
  <1> QED
    BY <1>1, <1>2, <1>3, <1>5, <1>6, <1>7 DEF Hands

\* A lock that is entered, run again or given up.
LEMMA DecideHands ==
    ASSUME NEW e, Sound(e), BorrowOK(e), NEW p \in Policies,
           Stays(e.pol, p) \/ Locks(e.pol, p) \/ Frees(e.pol, p)
    PROVE  Hands(e, Decide(e, p))
  <1> DEFINE f == [e EXCEPT !.pol = p]
             n == Decide(e, p)
  <1>1. Sound(n) /\ n.pol = p
    BY DecideOK DEF Same
  <1>2. n = IF p.mode # e.pol.mode THEN ModeChanged(f, e.pol.mode)
            ELSE IF p.seq # e.pol.seq THEN RestartPark(f) ELSE f
    BY DEF Decide
  <1>3. f.borrow = e.borrow /\ f.pol = p /\ f.lock = e.lock
    BY DEF Sound
  <1>n. e.pol.seq \in Nat /\ p.seq \in Nat
    BY Bounds DEF Sound, Policies
  <1>4. Locked(e) /\ p.mode # "normal" => Sound(f)
    BY <1>n DEF Sound, LockOK, Locked, Policies, Stays, Locks, Frees
  <1>d. {"open", "from", "sent", "restore", "taken"} \subseteq DOMAIN e.borrow
    BY DEF BorrowOK
  <1> HIDE DEF n
  <1>5. CASE p.mode = e.pol.mode /\ p.seq = e.pol.seq
    <2>1. n = f
      BY <1>2, <1>5
    <2> QED
      BY <1>1, <1>3, <1>5, <2>1 DEF Hands, BorrowOK, Locked, n
  <1>6. CASE p.mode = e.pol.mode /\ p.seq # e.pol.seq
    <2>1. n = RestartPark(f)
      BY <1>2, <1>6
    <2>2. Locked(e) /\ Locked(f)
      BY <1>3, <1>6 DEF Stays, Locks, Frees, Locked
    <2>3. Sound(f)
      BY <1>4, <1>6, <2>2 DEF Locked
    <2> HIDE DEF f
    <2>4. Hands(f, n)
      BY <1>3, <1>d, <2>1, <2>2, <2>3, RestartHands
    <2> QED
      BY <1>3, <2>4 DEF Hands, n
  <1>7. CASE p.mode # e.pol.mode /\ p.mode = "normal"
    <2> DEFINE k == [f EXCEPT !.lock = NoLock, !.aim.base = NoAz, !.borrow.restore = f.borrow.open]
    <2>1. n = To(k, "idle")
      BY <1>2, <1>3, <1>7 DEF ModeChanged
    <2>2. k.borrow = [e.borrow EXCEPT !.restore = e.borrow.open] /\ "borrow" \in DOMAIN k
      BY <1>3 DEF Sound
    <2> HIDE DEF k
    <2>3. n.borrow = k.borrow
      BY <2>1, <2>2 DEF To
    <2>4. {"open", "from", "sent", "restore", "taken"} \subseteq DOMAIN n.borrow
          /\ n.borrow.open = e.borrow.open /\ n.borrow.taken = e.borrow.taken
      BY <1>d, <2>2, <2>3
    <2> QED
      BY <1>1, <1>7, <2>4 DEF Hands, BorrowOK, Locked, n
  <1>8. CASE p.mode # e.pol.mode /\ p.mode # "normal" /\ e.pol.mode = "normal"
    <2> DEFINE k == [f EXCEPT !.lock = [NoLock EXCEPT !.seq = f.pol.seq]]
               g == To(k, "grounding")
               h == Capture(g)
    <2>0. /\ [NoLock EXCEPT !.seq = p.seq].seq = p.seq
          /\ LockOK([NoLock EXCEPT !.seq = p.seq], p.seq)
      BY <1>n DEF LockOK, NoLock
    <2>1. Sound(k) /\ k.borrow = e.borrow
      BY <1>3, <1>8, <2>0 DEF Sound, Locked
    <2>2. n = Attach(h)
      BY <1>2, <1>3, <1>8 DEF ModeChanged
    <2> HIDE DEF k
    <2>3. Sound(g) /\ g.borrow = k.borrow
      BY <2>1, NearPhase, BorrowBeside DEF LockPhases, Near
    <2> HIDE DEF g
    <2>4. Sound(h)
      BY <2>3, NearCapture DEF Near
    <2>5. h.borrow = g.borrow
      BY <2>3 DEF Sound, Capture
    <2> HIDE DEF h
    <2>6. Hands(h, n)
      BY <1>d, <2>1, <2>2, <2>3, <2>4, <2>5, AttachHands
    <2> QED
      BY <2>1, <2>3, <2>5, <2>6 DEF Hands, n
  <1>9. CASE p.mode # e.pol.mode /\ p.mode # "normal" /\ e.pol.mode # "normal"
    <2>1. n = RestartPark(f) /\ Locked(e) /\ Locked(f)
      BY <1>2, <1>3, <1>9 DEF ModeChanged, Locked
    <2>2. Sound(f)
      BY <1>4, <1>9 DEF Locked
    <2> HIDE DEF f
    <2>3. Hands(f, n)
      BY <1>3, <1>d, <2>1, <2>2, RestartHands
    <2> QED
      BY <1>3, <2>3 DEF Hands, n
  <1> QED
    BY <1>5, <1>6, <1>7, <1>8, <1>9

LEMMA HandsSelf == ASSUME NEW e, Sound(e), BorrowOK(e) PROVE Hands(e, e)
  BY DEF Hands

LEMMA AppliedHands ==
    ASSUME NEW e, Sound(e), BorrowOK(e), NEW c
    PROVE  Hands(e, Applied(e, c))
  <1>p. e.pol \in Policies /\ e.see.active \in SUBSET Warnings
    BY DEF Sound
  <1>1. CASE c \in Modes
    <2> DEFINE p == SetMode(e.pol, c, e.see.active)
    <2>1. p \in Policies /\ (Stays(e.pol, p) \/ Locks(e.pol, p) \/ Frees(e.pol, p))
      BY <1>p, <1>1, SetModeOK
    <2>2. Applied(e, c) = Decide(e, p)
      BY <1>1 DEF Applied, Modes
    <2> HIDE DEF p
    <2> QED
      BY <2>1, <2>2, DecideHands
  <1>2. CASE c = "repark"
    <2> DEFINE p == Repark(e.pol)
    <2>1. p \in Policies /\ (Stays(e.pol, p) \/ Locks(e.pol, p))
      BY <1>p, ReparkOK
    <2>2. Applied(e, c) = Decide(e, p)
      BY <1>2 DEF Applied, Modes
    <2> HIDE DEF p
    <2> QED
      BY <2>1, <2>2, DecideHands
  <1>3. CASE c = "dismiss"
    <2> DEFINE p == Dismiss(e.pol, e.see.active)
    <2>1. p \in Policies /\ Stays(e.pol, p)
      BY <1>p, SetsOK
    <2>2. Applied(e, c) = Decide(e, p)
      BY <1>3 DEF Applied, Modes
    <2> HIDE DEF p
    <2> QED
      BY <2>1, <2>2, DecideHands
  <1>4. CASE c \notin Modes /\ c # "repark" /\ c # "dismiss"
    <2>1. Applied(e, c) = e
      BY <1>4 DEF Applied
    <2> QED
      BY <2>1, HandsSelf
  <1> QED
    BY <1>1, <1>2, <1>3, <1>4
-----------------------------------------------------------------------------
(* How far a handler gets.                                                    *)

LEMMA WaitsLends ==
    ASSUME NEW e, BorrowOK(e), NEW pc \in Places \ {"save", "hold", "on", "resend"}, NEW f
    PROVE  Lends(e, Waits(e, pc, f))
  BY DEF Waits, At, Lends, Poised

LEMMA IdleLends == ASSUME NEW e, BorrowOK(e), NEW r, r.eng = e, r.at = Idle PROVE Lends(e, r)
  <1>1. r.at.pc = "idle"
    BY IdleOK
  <1> QED
    BY <1>1 DEF Lends, Poised

LEMMA PublishLends ==
    ASSUME NEW e, BorrowOK(e), NEW f
    PROVE  LET r == AtPublish(e, f)
           IN Lends(e, r) /\ r.eng = e /\ r.at.pc \in {"idle", "publish"}
  <1>1. AtPublish(e, f) \in {Waits(e, "publish", f), [eng |-> e, at |-> Idle]}
    BY DEF AtPublish
  <1>2. Lends(e, Waits(e, "publish", f)) /\ Lends(e, [eng |-> e, at |-> Idle])
    BY WaitsLends, IdleLends DEF Places
  <1>3. /\ Waits(e, "publish", f).eng = e /\ Waits(e, "publish", f).at.pc = "publish"
        /\ Idle.pc = "idle"
    BY DEF Waits, Idle, At
  <1> QED
    BY <1>1, <1>2, <1>3

LEMMA PersistLends ==
    ASSUME NEW e, BorrowOK(e), NEW f
    PROVE  LET r == AtPersist(e, f)
           IN Lends(e, r) /\ r.eng = e /\ r.at.pc \in {"idle", "publish", "persist"}
  <1>1. AtPersist(e, f) \in {Waits(e, "persist", f), AtPublish(e, f)}
    BY DEF AtPersist
  <1>2. Lends(e, Waits(e, "persist", f))
    BY WaitsLends DEF Places
  <1>3. Waits(e, "persist", f).eng = e /\ Waits(e, "persist", f).at.pc = "persist"
    BY DEF Waits, At
  <1> QED
    BY <1>1, <1>2, <1>3, PublishLends

LEMMA WatchBorrow ==
    ASSUME NEW e, Sound(e), BorrowOK(e)
    PROVE  /\ BorrowOK(Watch(e)) /\ BorrowOK(Return(e)) /\ ~Return(e).borrow.open
           /\ Watch(e).borrow.open = e.borrow.open /\ Watch(e).borrow.restore = e.borrow.restore
           /\ Watch(e).phase = e.phase /\ Watch(e).pol = e.pol
  <1> DEFINE w == Watch(e)
             b == [e.borrow EXCEPT !.taken = @ \/ TakenOver(e)]
  <1>1. w.borrow = b /\ w.pol = e.pol /\ w.phase = e.phase
    BY DEF Watch, Sound
  <1>2. /\ {"open", "from", "sent", "restore", "taken"} \subseteq DOMAIN b
        /\ b.open = e.borrow.open /\ b.restore = e.borrow.restore
    BY DEF BorrowOK
  <1>3. Return(e).borrow = NoBorrow
    BY DEF Return, Sound
  <1> HIDE DEF w, b
  <1>4. BorrowOK(w)
    BY <1>1, <1>2 DEF BorrowOK, Locked
  <1>5. BorrowOK(Return(e)) /\ ~Return(e).borrow.open
    BY <1>3, NoBorrowOK DEF BorrowOK
  <1> QED
    BY <1>1, <1>2, <1>4, <1>5 DEF w

LEMMA ReturnLends ==
    ASSUME NEW e, Sound(e), BorrowOK(e), NEW f
    PROVE  LET r == AtReturn(e, f)
           IN /\ Lends(e, r) /\ r.at.pc # "save"
              /\ e.borrow.open /\ ~e.borrow.restore /\ e.phase \notin {"parked", "failed"}
                    => r.eng.borrow.open
  <1> DEFINE w == Watch(e)
             v == Return(w)
             r == AtReturn(e, f)
  <1>1. /\ BorrowOK(w) /\ w.borrow.open = e.borrow.open /\ w.borrow.restore = e.borrow.restore
        /\ w.phase = e.phase
    BY WatchBorrow
  <1>2. r = IF Restores(w) THEN Waits(w, "restore", f) ELSE AtPersist(IF Yields(w) THEN v ELSE w, f)
    BY DEF AtReturn
  <1>s. Sound(w)
    BY NearBorrow DEF Near
  <1>3. Yields(w) => Due(w)
    BY DEF Yields
  <1>4. Due(w) => w.borrow.restore \/ w.phase \in {"parked", "failed"}
    BY DEF Due
  <1> HIDE DEF w, r
  <1>5. BorrowOK(v) /\ ~v.borrow.open
    BY <1>1, <1>s, WatchBorrow
  <1> HIDE DEF v
  <1>6. Lends(e, r) /\ r.at.pc # "save" /\ (r.eng = w \/ (r.eng = v /\ Due(w)))
    <2>1. CASE Restores(w)
      <3>1. Lends(w, r)
        BY <1>1, <1>2, <2>1, WaitsLends DEF Places
      <3>2. r.eng = w /\ r.at.pc = "restore"
        BY <1>2, <2>1 DEF Waits, At
      <3> QED
        BY <1>1, <3>1, <3>2 DEF Lends
    <2>2. CASE ~Restores(w) /\ Yields(w)
      <3>1. r = AtPersist(v, f)
        BY <1>2, <2>2
      <3>2. Lends(v, r) /\ r.eng = v /\ r.at.pc \in {"idle", "publish", "persist"}
        BY <1>5, <3>1, PersistLends
      <3> QED
        BY <1>3, <1>5, <2>2, <3>2 DEF Lends
    <2>3. CASE ~Restores(w) /\ ~Yields(w)
      <3>1. r = AtPersist(w, f)
        BY <1>2, <2>3
      <3>2. Lends(w, r) /\ r.eng = w /\ r.at.pc \in {"idle", "publish", "persist"}
        BY <1>1, <3>1, PersistLends
      <3> QED
        BY <1>1, <3>2 DEF Lends
    <2> QED
      BY <2>1, <2>2, <2>3
  <1> QED
    BY <1>1, <1>4, <1>6 DEF r

\* A borrow that waits for its power.
Stands(e) ==
    /\ Sound(e) /\ BorrowOK(e)
    /\ Locked(e) /\ e.borrow.open /\ e.phase = "awaiting_power"

\* It is neither given back nor replaced.
Retains(r) == r.eng.borrow.open /\ r.at.pc # "save"

LEMMA SteppedLends ==
    ASSUME NEW e, Sound(e), BorrowOK(e), Locked(e), NEW f
    PROVE  LET r == AtReturn(StepLock(e), f)
           IN /\ Lends(e, r) /\ r.at.pc # "save"
              /\ Stands(e) => Retains(r)
  <1> DEFINE n == StepLock(e)
             r == AtReturn(n, f)
  <1>1. /\ n.borrow = e.borrow
        /\ e.phase = "awaiting_power" =>
              n.phase \in {"awaiting_power", "awaiting_devices", "grounding"}
    BY StepLockBorrow
  <1>2. Sound(n) /\ n.pol = e.pol
    BY NearStepLock DEF Near
  <1> HIDE DEF n
  <1>3. BorrowOK(n)
    BY <1>1, <1>2 DEF BorrowOK, Locked
  <1>4. /\ Lends(n, r) /\ r.at.pc # "save"
        /\ n.borrow.open /\ ~n.borrow.restore /\ n.phase \notin {"parked", "failed"}
              => r.eng.borrow.open
    BY <1>2, <1>3, ReturnLends
  <1> HIDE DEF r
  <1>5. Lends(e, r)
    BY <1>1, <1>4 DEF Lends
  <1>6. Stands(e) => ~n.borrow.restore /\ n.borrow.open /\ n.phase \notin {"parked", "failed"}
    BY <1>1 DEF Stands, BorrowOK
  <1> QED
    BY <1>4, <1>5, <1>6 DEF Retains, n, r

LEMMA LockLends ==
    ASSUME NEW e, Sound(e), BorrowOK(e), NEW f
    PROVE  LET r == AtLock(e, f)
           IN Lends(e, r) /\ (Stands(e) => Retains(r))
  <1>1. CASE ~Locked(e)
    BY <1>1, ReturnLends DEF AtLock, Stands
  <1>2. CASE Locked(e) /\ e.phase = "awaiting_power" /\ e.borrow.open /\ ~e.borrow.sent
    <2>1. AtLock(e, f) = Waits(e, "resend", f)
      BY <1>2 DEF AtLock
    <2>2. Waits(e, "resend", f).eng = e /\ Waits(e, "resend", f).at.pc = "resend"
      BY DEF Waits, At
    <2> QED
      BY <1>2, <2>1, <2>2 DEF Lends, Poised, Retains
  <1>3. CASE Locked(e) /\ ~(e.phase = "awaiting_power" /\ e.borrow.open /\ ~e.borrow.sent)
    <2>1. AtLock(e, f) = AtReturn(StepLock(e), f)
      BY <1>3 DEF AtLock
    <2> QED
      BY <1>3, <2>1, SteppedLends
  <1> QED
    BY <1>1, <1>2, <1>3

LEMMA BorrowLends ==
    ASSUME NEW e, Sound(e), BorrowOK(e), Locked(e), CanBorrow(e), NEW ret, NEW f
    PROVE  Lends(e, AtBorrow(e, ret, f))
  <1> DEFINE b == [NoBorrow EXCEPT !.open = TRUE, !.from = e.see.seqPhase]
             c == [e EXCEPT !.borrow = b, !.borrowSeq = e.lock.seq]
             n == Borrow(e)
             r == AtBorrow(e, ret, f)
  <1>1. n = To(c, "awaiting_power") /\ r.eng = n /\ r.at.pc = "save"
    BY DEF Borrow, AtBorrow, At
  <1>2. /\ {"open", "from", "sent", "restore", "taken"} \subseteq DOMAIN b
        /\ b.open /\ ~b.restore /\ ~b.taken
    BY DEF NoBorrow
  <1> HIDE DEF b, r
  <1>3. c.borrow = b /\ c.pol = e.pol /\ {"borrow", "phase", "pol"} \subseteq DOMAIN c
    BY DEF Sound
  <1> HIDE DEF c
  <1>4. n.borrow = b /\ n.pol = e.pol /\ n.phase = "awaiting_power"
    BY <1>1, <1>3 DEF To
  <1> HIDE DEF n
  <1>5. ~e.borrow.open
    BY DEF CanBorrow
  <1> QED
    BY <1>1, <1>2, <1>4, <1>5 DEF Lends, Poised, Firm, BorrowOK, Locked, r

LEMMA LateLends ==
    ASSUME NEW e, Sound(e), BorrowOK(e), NEW f
    PROVE  LET r == AtLate(e, f)
           IN Lends(e, r) /\ (Stands(e) => Retains(r))
  <1>1. CASE Locked(e) /\ LateBorrow(e)
    <2>1. CanBorrow(e) /\ ~e.borrow.open /\ AtLate(e, f) = AtBorrow(e, "lock", f)
      BY <1>1 DEF LateBorrow, AtLate
    <2> QED
      BY <1>1, <2>1, BorrowLends DEF Stands
  <1>2. CASE ~(Locked(e) /\ LateBorrow(e))
    <2>1. AtLate(e, f) = AtLock(e, f)
      BY <1>2 DEF AtLate
    <2> QED
      BY <2>1, LockLends
  <1> QED
    BY <1>1, <1>2

LEMMA StepLends ==
    ASSUME NEW e, Sound(e), BorrowOK(e), NEW f
    PROVE  LET r == AtStep(e, f)
           IN Lends(e, r) /\ (Stands(e) => Retains(r))
  <1> DEFINE x == NoteTX(e)
             t == Track(x)
             p == Evaluate(t.pol, t.see.active, Manned(t))
             n == Decide(t, p)
             r == AtStep(e, f)
  <1>1. Sound(t) /\ t.borrow = e.borrow /\ t.pol = e.pol /\ t.phase = e.phase
    <2>1. Sound(x) /\ x.borrow = e.borrow /\ x.pol = e.pol
      BY NearTX, BorrowAside DEF Near, Lent
    <2>2. x.phase = e.phase
      BY DEF NoteTX, Sound
    <2> HIDE DEF x
    <2>3. Sound(t) /\ t.borrow = x.borrow /\ t.pol = x.pol
      BY <2>1, NearTrack, BorrowAside DEF Near, Lent
    <2>4. t.phase = x.phase
      BY <2>1 DEF Track, Sound
    <2> QED
      BY <2>1, <2>2, <2>3, <2>4
  <1>2. r = IF Relocked(t, n) /\ CanBorrow(n) THEN AtBorrow(n, "late", f) ELSE AtLate(n, f)
    BY DEF AtStep
  <1> HIDE DEF t, r
  <1>3. BorrowOK(t)
    BY <1>1 DEF BorrowOK, Locked
  <1>4. p \in Policies /\ (p = t.pol \/ (p # t.pol /\ t.pol.mode = "normal" /\ Locks(t.pol, p)))
    BY <1>1, EvaluateOK DEF Sound
  <1> HIDE DEF p
  <1>5. Hands(t, n)
    BY <1>1, <1>3, <1>4, DecideHands DEF Stays
  <1>6. p = t.pol => n.borrow = t.borrow /\ n.pol = t.pol /\ n.phase = t.phase
    BY <1>1 DEF Decide, Sound
  <1> HIDE DEF n
  <1>7. Sound(n) /\ BorrowOK(n)
    BY <1>5 DEF Hands
  <1>8. Stands(e) => Stands(n)
    BY <1>1, <1>4, <1>6, <1>7 DEF Stands, Locked
  <1>9. CASE Relocked(t, n) /\ CanBorrow(n)
    <2>1. Locked(n) /\ ~n.borrow.open /\ r = AtBorrow(n, "late", f)
      BY <1>2, <1>9 DEF Relocked, CanBorrow
    <2>2. Lends(n, r)
      BY <1>7, <1>9, <2>1, BorrowLends
    <2> QED
      BY <1>1, <1>5, <1>8, <2>1, <2>2 DEF Hands, Lends, Stands, r
  <1>10. CASE ~(Relocked(t, n) /\ CanBorrow(n))
    <2>1. r = AtLate(n, f)
      BY <1>2, <1>10
    <2>2. Lends(n, r) /\ (Stands(n) => Retains(r))
      BY <1>7, <2>1, LateLends
    <2> QED
      BY <1>1, <1>5, <1>8, <2>2 DEF Hands, Lends, r
  <1> QED
    BY <1>9, <1>10

LEMMA ApplyLends ==
    ASSUME NEW e, Sound(e), BorrowOK(e), NEW f
    PROVE  LET r == AtApply(e, f)
           IN Lends(e, r) /\ (Stands(e) => Retains(r))
  <1>1. Lends(e, Waits(e, "apply", f))
    BY WaitsLends DEF Places
  <1>2. Waits(e, "apply", f).eng = e /\ Waits(e, "apply", f).at.pc = "apply"
    BY DEF Waits, At
  <1>3. Stands(e) => Retains(Waits(e, "apply", f))
    BY <1>2 DEF Stands, Retains
  <1> QED
    BY <1>1, <1>3, StepLends DEF AtApply

LEMMA CommandLends ==
    ASSUME NEW e, Sound(e), BorrowOK(e), NEW c, NEW f
    PROVE  Lends(e, AtCommand(e, c, f))
  <1> DEFINE n == Applied(e, c)
             r == AtCommand(e, c, f)
  <1>1. Hands(e, n)
    BY AppliedHands
  <1>2. r = IF Relocked(e, n) /\ CanBorrow(n) THEN AtBorrow(n, "apply", f) ELSE AtApply(n, f)
    BY DEF AtCommand
  <1> HIDE DEF n, r
  <1>3. Sound(n) /\ BorrowOK(n)
    BY <1>1 DEF Hands
  <1>4. Lends(n, AtApply(n, f))
    BY <1>3, ApplyLends
  <1>5. Relocked(e, n) /\ CanBorrow(n) => Lends(n, AtBorrow(n, "apply", f))
    BY <1>3, BorrowLends DEF Relocked
  <1>6. Lends(n, r)
    BY <1>2, <1>4, <1>5
  <1> QED
    BY <1>1, <1>6, HandsLends DEF r

LEMMA ResumeLends ==
    ASSUME NEW e, Sound(e), BorrowOK(e), NEW ret \in Returns, NEW f
    PROVE  LET r == Resume(e, ret, f)
           IN Lends(e, r) /\ (Stands(e) => Retains(r))
  BY ApplyLends, LateLends, LockLends DEF Resume, Returns

LEMMA ChangedLends ==
    ASSUME NEW e, Sound(e), BorrowOK(e)
    PROVE  Lends(e, Changed(e))
  <1>1. Lends(e, [eng |-> e, at |-> Idle])
    BY IdleLends
  <1> QED
    BY <1>1, StepLends DEF Changed
-----------------------------------------------------------------------------
(* Borrowed power is remembered: whatever a restart goes back to - the file, or *)
(* a /state that is newer than it - has the borrow, or the power is off again   *)
(* or powerseq's.                                                               *)

Off == power # "on" \/ past.yielded

\* A lock that a restart would take from /state and not from the file.
Newer == Locking(state) /\ (file = None \/ state.lock.seq > file.pol.seq)

BorrowInv ==
    /\ "yielded" \in DOMAIN past
    /\ BorrowOK(eng) /\ Poised(at, eng)
    /\ file # None => BorrowOK(file)
    /\ ~eng.run.ready => /\ eng.run.adopt <=> file = None
                         /\ file # None => eng.run.fileSeq = file.pol.seq
    /\ TakenIn /\ Locking(state) => state.lock.seq <= eng.pol.seq
    /\ Off \/ Open(file)
    /\ Off \/ (eng.borrow.open /\ at.pc # "save")
    /\ eng.borrow.open => Open(file) \/ at.pc = "save"
    /\ Newer => IF state.borrow.open THEN Open(file) ELSE Off
    /\ TakenIn /\ eng.borrow.open /\ at.pc # "save" /\ Newer => state.borrow.open

\* A step that switches nothing on.  A borrow that ends is given back, taken over or undone.
Borrowing ==
    /\ BorrowOK(eng') /\ Poised(at', eng') /\ "yielded" \in DOMAIN past'
    /\ power' = power \/ power' = "off"
    /\ past.yielded => past'.yielded
    /\ eng'.borrow.open => eng.borrow.open \/ at'.pc = "save"
    /\ eng.borrow.open /\ (~eng'.borrow.open \/ at'.pc = "save") =>
          \/ past'.yielded
          \/ at.pc = "save"
          \/ at.pc = "restore" /\ power' # "on"
    /\ at.pc = "save" /\ at'.pc # "save" /\ eng'.borrow.open => file' = Snapshot(eng)

LEMMA SnapshotBorrow ==
    ASSUME NEW e, Sound(e), BorrowOK(e)
    PROVE  LET f == Snapshot(e)
           IN f # None /\ BorrowOK(f) /\ f.borrow = e.borrow /\ f.pol.seq = e.pol.seq
  <1>1. Snapshot(e) # None /\ Snapshot(e).borrow = e.borrow
    <2>1. "pol" \in DOMAIN Snapshot(e) /\ "pol" \notin DOMAIN None
      BY DEF Snapshot, None
    <2> QED
      BY <2>1 DEF Snapshot
  <1>2. Snapshot(e).pol.mode = e.pol.mode /\ Snapshot(e).pol.seq = e.pol.seq
    BY SnapshotOK
  <1> QED
    BY <1>1, <1>2 DEF BorrowOK, Locked

LEMMA ViewBorrow ==
    ASSUME NEW e
    PROVE  View(e).borrow.open = e.borrow.open
  BY DEF View

LEMMA BorrowingKeeps ==
    ASSUME SteadyStart, Types, Types', BorrowInv, Advance, Borrowing
    PROVE  BorrowInv'
  <1>n. /\ eng.pol.seq \in Nat /\ eng.lock.seq \in Nat /\ eng.lock.seq <= eng.pol.seq
        /\ eng'.pol.seq \in Nat
        /\ state # None => state.lock.seq \in Nat
        /\ state' # None => state'.lock.seq \in Nat
    BY Bounds DEF Types, Sound, StateOK, LockOK, Policies
  <1>1. eng.pol.seq <= eng'.pol.seq
    BY <1>n DEF Advance, Kept, Relocks, Unlocks, Stays, Locks, Frees
  <1>2. Off => Off'
    BY DEF Off, Borrowing
  <1>3. file' = Snapshot(eng) =>
           /\ BorrowOK(file') /\ file'.pol.seq = eng.pol.seq /\ file' # None
           /\ Open(file') <=> eng.borrow.open
    BY SnapshotBorrow DEF Types, BorrowInv, Open
  <1>4. state' = View(eng) =>
           /\ state'.lock = eng.lock /\ state'.borrow.open = eng.borrow.open
    BY ViewOK, ViewBorrow DEF Types
  <1>5. \/ file' = file \/ (eng.run.ready /\ file' = Snapshot(eng))
    BY DEF Advance
  <1>6. \/ state' = state
        \/ state' = View(eng) /\ at.pc \in {"hold", "publish"} /\ file' = file
    BY DEF Advance
  <1>7. TakenIn' => TakenIn
    BY DEF Advance
  <1>8. TakenIn' /\ Locking(state)' => state'.lock.seq <= eng'.pol.seq
    BY <1>n, <1>1, <1>4, <1>6, <1>7 DEF BorrowInv, Locking
  <1>9. file' # None => BorrowOK(file')
    BY <1>3, <1>5 DEF BorrowInv
  <1>10. ~eng'.run.ready => /\ eng'.run.adopt <=> file' = None
                            /\ file' # None => eng'.run.fileSeq = file'.pol.seq
    BY <1>5 DEF Advance, BorrowInv
  <1>11. Off' \/ (eng'.borrow.open /\ at'.pc # "save")
    BY <1>2 DEF BorrowInv, Borrowing, Off
  <1>12. eng'.borrow.open => Open(file') \/ at'.pc = "save"
    BY <1>3, <1>5 DEF BorrowInv, Borrowing
  <1>13. Off' \/ Open(file')
    BY <1>2, <1>3, <1>5 DEF BorrowInv
  <1>14. Newer' => \/ state' = state /\ file' = file /\ Newer
                   \/ state' = View(eng) /\ at.pc \in {"hold", "publish"} /\ file' = file
    <2>1. CASE file' = file
      BY <1>6, <2>1 DEF Newer, Locking
    <2>2. CASE eng.run.ready /\ file' = Snapshot(eng)
      <3>1. Locking(state)' => state'.lock.seq <= eng.pol.seq
        BY <1>n, <1>4, <1>6, <2>2 DEF BorrowInv, TakenIn, Locking
      <3> QED
        BY <1>n, <1>3, <2>2, <3>1 DEF Newer, Locking
    <2> QED
      BY <1>5, <2>1, <2>2
  <1>15. Newer' => IF state'.borrow.open THEN Open(file') ELSE Off'
    <2>1. CASE state' = state /\ file' = file /\ Newer
      BY <1>2, <2>1 DEF BorrowInv
    <2>2. CASE state' = View(eng) /\ at.pc \in {"hold", "publish"} /\ file' = file
      BY <1>2, <1>4, <2>2 DEF BorrowInv
    <2> QED
      BY <1>14, <2>1, <2>2
  <1>16. TakenIn' /\ eng'.borrow.open /\ at'.pc # "save" /\ Newer' => state'.borrow.open
    <2> SUFFICES ASSUME TakenIn', eng'.borrow.open, at'.pc # "save", Newer'
                 PROVE  state'.borrow.open
      OBVIOUS
    <2>1. eng.borrow.open
      BY DEF Borrowing
    <2>2. CASE state' = state /\ file' = file /\ Newer
      <3>1. at.pc # "save"
        <4>1. at.pc = "save" => file = Snapshot(eng) /\ eng.run.ready
          BY <2>2 DEF Borrowing, Types
        <4>2. at.pc = "save" => state.lock.seq <= file.pol.seq /\ file # None
          BY <1>3, <2>2, <4>1 DEF BorrowInv, TakenIn, Newer
        <4> QED
          BY <1>n, <1>3, <2>2, <4>1, <4>2 DEF Newer, Locking
      <3> QED
        BY <1>7, <2>1, <2>2, <3>1 DEF BorrowInv
    <2>3. CASE state' = View(eng) /\ at.pc \in {"hold", "publish"} /\ file' = file
      BY <1>4, <2>1, <2>3
    <2> QED
      BY <1>14, <2>2, <2>3
  <1> QED
    BY <1>8, <1>9, <1>10, <1>11, <1>12, <1>13, <1>15, <1>16 DEF BorrowInv, Borrowing

\* The power goes on.
LEMMA SwitchingKeeps ==
    ASSUME SteadyStart, Types, Types', BorrowInv, Advance,
           at.pc \in {"on", "resend"}, UNCHANGED <<file, state>>,
           BorrowOK(eng'), Poised(at', eng'), "yielded" \in DOMAIN past',
           eng'.borrow.open, at'.pc # "save"
    PROVE  BorrowInv'
  <1>n. /\ eng.pol.seq \in Nat /\ eng'.pol.seq \in Nat
        /\ state # None => state.lock.seq \in Nat
    BY Bounds DEF Types, Sound, StateOK, LockOK, Policies
  <1>1. eng.pol.seq <= eng'.pol.seq
    BY <1>n DEF Advance, Kept, Relocks, Unlocks, Stays, Locks, Frees
  <1>2. eng.borrow.open /\ eng.run.ready
    BY DEF BorrowInv, Poised, Firm, Types
  <1>3. Open(file) /\ (Newer => state.borrow.open)
    BY <1>2 DEF BorrowInv, TakenIn
  <1>4. TakenIn /\ eng'.run.ready
    BY <1>2 DEF TakenIn, Advance
  <1>5. Locking(state)' => state'.lock.seq <= eng'.pol.seq
    BY <1>n, <1>1, <1>4 DEF BorrowInv, Locking
  <1>6. Open(file)' /\ (Newer' => state'.borrow.open)
    BY <1>3 DEF Newer, Locking, Open
  <1> QED
    BY <1>4, <1>5, <1>6 DEF BorrowInv

LEMMA RecallYields ==
    ASSUME "yielded" \in DOMAIN past, NEW e
    PROVE  LET h == Recall(e)
           IN /\ "yielded" \in DOMAIN h
              /\ past.yielded => h.yielded
              /\ /\ eng.borrow.open /\ at.pc \notin {"restore", "save"}
                 /\ ~e.borrow.open \/ (eng.borrow.taken /\ ~e.borrow.taken)
                 => h.yielded
  <1> DEFINE freed == IF Locked(eng) /\ ~Locked(e)
                      THEN [past.freed EXCEPT ![e.pol.source] = Higher(@, eng.lock.seq)]
                      ELSE past.freed
             yielded == past.yielded \/ /\ eng.borrow.open /\ at.pc \notin {"restore", "save"}
                                        /\ ~e.borrow.open \/ (eng.borrow.taken /\ ~e.borrow.taken)
  <1>1. Recall(e) = [past EXCEPT !.freed = freed, !.yielded = yielded]
    BY DEF Recall
  <1> HIDE DEF freed, yielded
  <1>2. "yielded" \in DOMAIN Recall(e) /\ Recall(e).yielded = yielded
    BY <1>1
  <1> QED
    BY <1>2 DEF yielded

\* The worker goes from x to r, neither from a save nor from a restore.
LEMMA WorkBorrows ==
    ASSUME BorrowInv, at.pc \notin {"save", "restore"}, power' = power,
           NEW x, x.borrow = eng.borrow, NEW r, Lends(x, r), Becomes(r),
           "yielded" \in DOMAIN past', Recall(r.eng).yielded => past'.yielded
    PROVE  Borrowing
  <1>1. eng' = r.eng /\ at' = r.at
    BY DEF Becomes
  <1>2. r.at.pc = "save" => ~r.eng.borrow.taken
    BY DEF Lends, Poised, Firm
  <1>3. eng.borrow.open /\ (~r.eng.borrow.open \/ r.at.pc = "save") => past'.yielded
    BY <1>2, RecallYields DEF BorrowInv, Lends
  <1>4. past.yielded => past'.yielded
    BY RecallYields DEF BorrowInv
  <1> QED
    BY <1>1, <1>3, <1>4 DEF Lends, Borrowing

LEMMA AlikeBorrow ==
    ASSUME BorrowOK(eng), NEW x, Alike(x), x.borrow = eng.borrow
    PROVE  Sound(x) /\ BorrowOK(x)
  BY DEF Alike, Kept, Stays, BorrowOK, Locked

LEMMA RunsBorrows ==
    ASSUME BorrowInv, at.pc \notin {"save", "restore"}, power' = power,
           NEW x, x.borrow = eng.borrow, NEW r, Lends(x, r), Runs(r)
    PROVE  Borrowing
  <1>1. Becomes(r) /\ past' = Recall(r.eng)
    BY DEF Runs
  <1>2. "yielded" \in DOMAIN Recall(r.eng)
    BY RecallYields DEF BorrowInv
  <1> QED
    BY <1>1, <1>2, WorkBorrows

LEMMA MessagesBorrow ==
    ASSUME Types, BorrowInv,
           \/ PowerSeqStatus \/ PowerSeqState \/ RotatorStatus \/ RotatorState \/ AntCtrlState
           \/ AntSwitchState \/ RadioState \/ PowerState \/ WindResult \/ NinaFails
    PROVE  Borrowing
  <1>1. PICK x : Takes(x) /\ Alike(x) /\ x.borrow = eng.borrow
    BY MessagesAlike DEF Lent
  <1>2. Sound(x) /\ BorrowOK(x)
    BY <1>1, AlikeBorrow DEF BorrowInv
  <1>3. Lends(x, Changed(x))
    BY <1>2, ChangedLends
  <1>4. Becomes(Changed(x)) /\ at.pc = "idle" /\ power' = power
    BY <1>1 DEF Takes
  <1>5. "yielded" \in DOMAIN past' /\ past'.yielded = Recall(Changed(x).eng).yielded
    BY <1>1, TakesRecalls, RecallYields DEF BorrowInv
  <1> QED
    BY <1>1, <1>3, <1>4, <1>5, WorkBorrows

LEMMA TickBorrow == ASSUME Types, BorrowInv, Tick PROVE Borrowing
  <1>1. PICK w \in SUBSET Running, a \in SUBSET eng.see.listed :
           LET r == Changed(Pass(eng, w, a))
           IN /\ Becomes(r)
              /\ past' = [Recall(r.eng) EXCEPT !.beat = IF Beats /\ w = Running THEN ~@ ELSE @]
    BY DEF Tick
  <1> DEFINE x == Pass(eng, w, a)
             r == Changed(x)
  <1>2. Sound(x) /\ x.pol = eng.pol /\ x.borrow = eng.borrow
    BY DEF Pass, Types, Sound, LockOK, Locked
  <1>3. at.pc = "idle" /\ power' = power
    BY DEF Tick
  <1> HIDE DEF x
  <1>4. BorrowOK(x)
    BY <1>2 DEF BorrowInv, BorrowOK, Locked
  <1>5. Lends(x, r)
    BY <1>2, <1>4, ChangedLends
  <1>6. Becomes(r) /\ past' = [Recall(r.eng) EXCEPT !.beat = IF Beats /\ w = Running THEN ~@ ELSE @]
    BY <1>1 DEF x
  <1> HIDE DEF r
  <1>7. "yielded" \in DOMAIN past' /\ past'.yielded = Recall(r.eng).yielded
    BY <1>6, RecallYields DEF BorrowInv
  <1> QED
    BY <1>2, <1>3, <1>5, <1>6, <1>7, WorkBorrows

LEMMA ReadyBorrow == ASSUME Types, BorrowInv, BecomeReady PROVE Borrowing
  <1> DEFINE x == [eng EXCEPT !.run.ready = TRUE, !.run.adopt = FALSE, !.run.fileSeq = 0,
                              !.over.phase = FALSE, !.over.borrow = @ /\ ~eng.borrow.open]
  <1>1. Runs(AtApply(x, TRUE)) /\ at.pc = "idle" /\ power' = power
    BY DEF BecomeReady
  <1>2. Sound(x) /\ x.pol = eng.pol
    BY ReadyOK
  <1>3. x.borrow = eng.borrow
    BY DEF Types, Sound
  <1> HIDE DEF x
  <1>4. BorrowOK(x)
    BY <1>2, <1>3 DEF BorrowInv, BorrowOK, Locked
  <1>5. Lends(x, AtApply(x, TRUE))
    BY <1>2, <1>4, ApplyLends
  <1> QED
    BY <1>1, <1>3, <1>5, RunsBorrows

LEMMA CmdBorrow == ASSUME Types, BorrowInv, NEW o, Cmd(o) PROVE Borrowing
  <1> DEFINE q == eng.run.queue
             x == [eng EXCEPT !.run.queue =
                      IF Len(q) < QueueCap THEN Append(q, cmd.what) ELSE q]
             r == IF eng.run.ready THEN AtCommand(eng, cmd.what, FALSE)
                  ELSE [at |-> Idle, eng |-> x]
             over == eng.run.ready /\ cmd.what = "normal" /\ Locked(eng)
  <1>1. /\ Becomes(r) /\ at.pc = "idle" /\ power' = power
        /\ past' = [Recall(r.eng) EXCEPT !.overruled = IF over THEN eng.see.active ELSE @]
    BY DEF Cmd
  <1>2. x.borrow = eng.borrow /\ x.pol = eng.pol
    BY DEF Types, Sound
  <1>3. \E y : y.borrow = eng.borrow /\ Lends(y, r)
    <2>1. CASE eng.run.ready
      <3>1. r = AtCommand(eng, cmd.what, FALSE)
        BY <2>1
      <3> HIDE DEF r
      <3>2. Lends(eng, r)
        BY <3>1, CommandLends DEF Types, BorrowInv
      <3> QED
        BY <3>2
    <2>2. CASE ~eng.run.ready
      <3>1. r.eng = x /\ r.at = Idle
        BY <2>2
      <3> HIDE DEF x, r
      <3>2. BorrowOK(x)
        BY <1>2 DEF BorrowInv, BorrowOK, Locked
      <3>3. Lends(x, r)
        BY <3>1, <3>2, IdleLends
      <3> QED
        BY <1>2, <3>3
    <2> QED
      BY <2>1, <2>2
  <1> HIDE DEF r, over
  <1>4. "yielded" \in DOMAIN past' /\ past'.yielded = Recall(r.eng).yielded
    BY <1>1, RecallYields DEF BorrowInv
  <1> QED
    BY <1>1, <1>3, <1>4, WorkBorrows

LEMMA NinaBorrow == ASSUME Types, BorrowInv, NinaResult PROVE Borrowing
  <1>0. PICK ws \in SUBSET Warnings : \E a \in SUBSET ws :
           LET e == [eng EXCEPT !.see.listed = ws, !.see.active = a]
               n == IF e.run.ready THEN Decide(e, Poll(e.pol, a)) ELSE e
               r == IF e.run.ready THEN AtStep(n, FALSE) ELSE [eng |-> n, at |-> Idle]
           IN /\ at.pc = "idle" /\ Becomes(r)
              /\ past' = [Recall(r.eng) EXCEPT
                            !.overruled = IF e.run.ready THEN @ \cap a ELSE @,
                            !.calm = IF ~e.run.ready THEN @ ELSE IF a # {} THEN 0
                                     ELSE IF past.near /\ @ < ExitAfter THEN @ + 1 ELSE @,
                            !.near = e.run.ready /\ a = {}]
              /\ UNCHANGED <<file, state, sent, cmd, power, net>>
    BY DEF NinaResult
  <1>1. PICK a \in SUBSET ws :
           LET e == [eng EXCEPT !.see.listed = ws, !.see.active = a]
               n == IF e.run.ready THEN Decide(e, Poll(e.pol, a)) ELSE e
               r == IF e.run.ready THEN AtStep(n, FALSE) ELSE [eng |-> n, at |-> Idle]
           IN /\ at.pc = "idle" /\ Becomes(r)
              /\ past' = [Recall(r.eng) EXCEPT
                            !.overruled = IF e.run.ready THEN @ \cap a ELSE @,
                            !.calm = IF ~e.run.ready THEN @ ELSE IF a # {} THEN 0
                                     ELSE IF past.near /\ @ < ExitAfter THEN @ + 1 ELSE @,
                            !.near = e.run.ready /\ a = {}]
              /\ UNCHANGED <<file, state, sent, cmd, power, net>>
    BY <1>0
  <1> DEFINE e == [eng EXCEPT !.see.listed = ws, !.see.active = a]
             n == IF e.run.ready THEN Decide(e, Poll(e.pol, a)) ELSE e
             r == IF e.run.ready THEN AtStep(n, FALSE) ELSE [eng |-> n, at |-> Idle]
  <1>2. Sound(e) /\ e.pol = eng.pol /\ e.borrow = eng.borrow
    <2> DEFINE d == [eng EXCEPT !.see.listed = ws]
    <2>1. Sound(d) /\ d.pol = eng.pol /\ d.borrow = eng.borrow
      BY DEF Types, Sound, LockOK, Locked
    <2>2. e = [d EXCEPT !.see.active = a]
      BY DEF Types, Sound
    <2> HIDE DEF d, e
    <2> QED
      BY <2>1, <2>2 DEF Sound, LockOK, Locked
  <1>3. /\ Becomes(r) /\ at.pc = "idle" /\ power' = power
        /\ "yielded" \in DOMAIN past' /\ past'.yielded = Recall(r.eng).yielded
    <2>1. /\ Becomes(r) /\ at.pc = "idle" /\ power' = power
          /\ past' = [Recall(r.eng) EXCEPT
                        !.overruled = IF e.run.ready THEN @ \cap a ELSE @,
                        !.calm = IF ~e.run.ready THEN @ ELSE IF a # {} THEN 0
                                 ELSE IF past.near /\ @ < ExitAfter THEN @ + 1 ELSE @,
                        !.near = e.run.ready /\ a = {}]
      BY <1>1
    <2> HIDE DEF r, e
    <2> QED
      BY <2>1, RecallYields DEF BorrowInv
  <1> HIDE DEF e
  <1>4. BorrowOK(e)
    BY <1>2 DEF BorrowInv, BorrowOK, Locked
  <1>5. Hands(e, n)
    <2>1. CASE e.run.ready
      <3> DEFINE p == Poll(e.pol, a)
      <3>1. p \in Policies /\ (Stays(e.pol, p) \/ Frees(e.pol, p))
        BY <1>2, PollOK DEF Sound
      <3>2. n = Decide(e, p)
        BY <2>1
      <3> HIDE DEF p, n
      <3> QED
        BY <1>2, <1>4, <3>1, <3>2, DecideHands
    <2>2. CASE ~e.run.ready
      BY <1>2, <1>4, <2>2, HandsSelf
    <2> QED
      BY <2>1, <2>2
  <1>6. r \in {AtStep(n, FALSE), [eng |-> n, at |-> Idle]}
    OBVIOUS
  <1> HIDE DEF n, r
  <1>7. Sound(n) /\ BorrowOK(n)
    BY <1>5 DEF Hands
  <1>8. Lends(n, AtStep(n, FALSE)) /\ Lends(n, [eng |-> n, at |-> Idle])
    <2>1. Lends(n, AtStep(n, FALSE))
      BY <1>7, StepLends
    <2>2. Lends(n, [eng |-> n, at |-> Idle])
      BY <1>7, IdleLends
    <2> QED
      BY <2>1, <2>2
  <1>9. Lends(e, r)
    BY <1>5, <1>6, <1>8, HandsLends
  <1> QED
    BY <1>2, <1>3, <1>9, WorkBorrows

LEMMA ApplyBorrow == ASSUME Types, BorrowInv, Apply PROVE Borrowing
  <1> DEFINE x == [eng EXCEPT !.run.queue = Tail(@)]
             r == AtCommand(x, Head(eng.run.queue), at.force)
  <1>1. at.pc = "apply" /\ Runs(r) /\ power' = power
    BY DEF Apply
  <1>2. Alike(x) /\ x.borrow = eng.borrow
    BY DEF Types, Sound, LockOK, Builds, Locked, Alike, Kept, Stays, SameRun
  <1> HIDE DEF x
  <1>3. Sound(x) /\ BorrowOK(x)
    BY <1>2, AlikeBorrow DEF BorrowInv
  <1>4. Lends(x, r)
    BY <1>3, CommandLends
  <1> HIDE DEF r
  <1> QED
    BY <1>1, <1>2, <1>4, RunsBorrows

LEMMA PersistBorrow == ASSUME Types, BorrowInv, NEW ok, Persist(ok) PROVE Borrowing
  <1> DEFINE x == [eng EXCEPT !.run.saved = @ \/ ok]
             r == AtPublish(x, at.force)
  <1>1. at.pc = "persist" /\ Runs(r) /\ power' = power
    BY DEF Persist
  <1>2. Alike(x) /\ x.borrow = eng.borrow
    BY DEF Types, Sound, LockOK, Builds, Locked, Alike, Kept, Stays, SameRun
  <1> HIDE DEF x
  <1>3. Sound(x) /\ BorrowOK(x)
    BY <1>2, AlikeBorrow DEF BorrowInv
  <1>4. Lends(x, r)
    BY <1>3, PublishLends
  <1> HIDE DEF r
  <1> QED
    BY <1>1, <1>2, <1>4, RunsBorrows

\* A borrow is in the file before its power is asked for, or it is undone.
LEMMA SaveBorrow == ASSUME Types, BorrowInv, NEW ok, Save(ok) PROVE Borrowing
  <1> DEFINE x == [eng EXCEPT !.run.saved = FALSE, !.over.borrow = FALSE]
             a == [at EXCEPT !.pc = IF Publishes(x, FALSE) THEN "hold" ELSE "on"]
             v == [eng EXCEPT !.borrow = NoBorrow, !.borrowSeq = at.borrowSeq]
             u == To(v, at.phase)
             r == IF ok THEN [eng |-> x, at |-> a] ELSE Resume(u, at.ret, at.force)
  <1>1. /\ at.pc = "save" /\ file' = (IF ok THEN Snapshot(eng) ELSE file)
        /\ Becomes(r) /\ past' = Recall(r.eng) /\ power' = power
    BY DEF Save, Runs
  <1>2. at.ret \in Returns /\ at.phase \in LockPhases
    BY <1>1 DEF Types, AtOK
  <1>3. "yielded" \in DOMAIN past' /\ (past.yielded => past'.yielded)
    BY <1>1, RecallYields DEF BorrowInv
  <1>4. eng' = r.eng /\ at' = r.at
    BY <1>1 DEF Becomes
  <1>5. CASE ok
    <2>1. x.borrow = eng.borrow /\ x.pol = eng.pol /\ x.phase = eng.phase
      BY DEF Types, Sound
    <2>2. r.eng = x /\ r.at = a
      BY <1>5
    <2>3. a.pc \in {"hold", "on"}
      BY DEF Types, AtOK
    <2> HIDE DEF x, a, r
    <2>4. Firm(eng)
      BY <1>1 DEF BorrowInv, Poised
    <2>5. BorrowOK(x) /\ Poised(a, x)
      BY <2>1, <2>3, <2>4 DEF BorrowInv, BorrowOK, Poised, Firm, Locked
    <2> QED
      BY <1>1, <1>3, <1>4, <1>5, <2>1, <2>2, <2>5 DEF Borrowing
  <1>6. CASE ~ok
    <2>1. r = Resume(u, at.ret, at.force)
      BY <1>6
    <2>2. Near(eng, v)
      BY DEF Types, Sound, LockOK, Builds, Locked, Near
    <2>3. v.borrow = NoBorrow
      BY DEF Types, Sound
    <2> HIDE DEF v, r
    <2>4. Sound(u) /\ u.borrow = NoBorrow
      BY <1>2, <2>2, <2>3, NearPhase, BorrowBeside DEF Near
    <2> HIDE DEF u
    <2>5. BorrowOK(u)
      BY <2>4, NoBorrowOK DEF BorrowOK
    <2>6. Lends(u, r)
      BY <1>2, <2>1, <2>4, <2>5, ResumeLends
    <2> QED
      BY <1>1, <1>3, <1>4, <2>4, <2>6, NoBorrowOK DEF Lends, Borrowing
  <1> QED
    BY <1>5, <1>6

LEMMA RestoreBorrow == ASSUME Types, BorrowInv, NEW o, Restore(o) PROVE Borrowing
  <1> DEFINE x == IF o = "ok" THEN Return(eng) ELSE eng
             r == AtPersist(x, at.force)
  <1>1. /\ at.pc = "restore" /\ Becomes(r)
        /\ power' = (IF Delivered(o) THEN "off" ELSE power)
        /\ past' = [Recall(r.eng) EXCEPT !.back =
                      IF Locked(eng) /\ Delivered(o) THEN @ \cup {eng.lock.seq} ELSE @]
    BY DEF Restore
  <1>2. BorrowOK(x) /\ (x.borrow.open => eng.borrow.open)
        /\ (x = eng \/ (o = "ok" /\ power' = "off"))
    BY <1>1, WatchBorrow DEF BorrowInv, Types, Delivered
  <1> HIDE DEF x
  <1>3. Lends(x, r) /\ r.eng = x /\ r.at.pc \in {"idle", "publish", "persist"}
    BY <1>2, PersistLends
  <1> HIDE DEF r
  <1>4. "yielded" \in DOMAIN past' /\ past'.yielded = Recall(r.eng).yielded
    BY <1>1, RecallYields DEF BorrowInv
  <1>5. past.yielded => past'.yielded
    BY <1>4, RecallYields DEF BorrowInv
  <1>6. eng' = x /\ at' = r.at
    BY <1>1, <1>3 DEF Becomes
  <1> QED
    BY <1>1, <1>2, <1>3, <1>4, <1>5, <1>6 DEF Lends, Borrowing

LEMMA LinkBorrow ==
    ASSUME Types, BorrowInv,
           \/ OperatorSends \/ LinkDown \/ Lost \/ Opened \/ Republish
           \/ \E o : Hold(o) \/ Publish(o)
    PROVE  Borrowing
  <1>1. CASE Republish
    <2>1. at.pc = "idle" /\ Runs(AtPublish(eng, TRUE)) /\ power' = power
      BY <1>1 DEF Republish
    <2>2. Lends(eng, AtPublish(eng, TRUE))
      BY PublishLends DEF BorrowInv
    <2> QED
      BY <2>1, <2>2, RunsBorrows
  <1>2. CASE ~Republish
    <2>1. power' = power /\ past' = past
      BY <1>2 DEF OperatorSends, LinkDown, Lost, Opened, Hold, Publish
    <2>2. eng' = eng \/ \E up : eng' = [eng EXCEPT !.run.connected = up]
      BY <1>2 DEF OperatorSends, LinkDown, Lost, Opened, Hold, Publish
    <2>3. eng'.borrow = eng.borrow /\ eng'.pol = eng.pol /\ eng'.phase = eng.phase
      BY <2>2 DEF Types, Sound
    <2>4. at' = at \/ (at.pc = "hold" /\ at' = [at EXCEPT !.pc = "on"]) \/ at' = Idle
      BY <1>2 DEF OperatorSends, LinkDown, Lost, Opened, Hold, Publish
    <2>5. /\ at'.pc = at.pc \/ (at.pc = "hold" /\ at'.pc = "on") \/ at'.pc = "idle"
          /\ at.pc = "save" => at'.pc = "save"
      <3>1. /\ at.pc = "hold" /\ at' = [at EXCEPT !.pc = "on"] => at'.pc = "on"
            /\ at' = Idle => at'.pc = "idle"
        BY IdleOK DEF Types, AtOK
      <3>2. at.pc = "save" => at' = at
        BY <1>2 DEF OperatorSends, LinkDown, Lost, Opened, Hold, Publish
      <3> QED
        BY <2>4, <3>1, <3>2
    <2>6. BorrowOK(eng') /\ Poised(at', eng')
      BY <2>3, <2>5 DEF BorrowInv, BorrowOK, Poised, Firm, Locked
    <2>7. at'.pc = "save" => at.pc = "save"
      BY <2>5
    <2> QED
      BY <2>1, <2>3, <2>5, <2>6, <2>7 DEF BorrowInv, Borrowing
  <1> QED
    BY <1>1, <1>2

LEMMA PowerOnBorrow ==
    ASSUME SteadyStart, Types, Types', BorrowInv, NEW o, PowerOn(o)
    PROVE  BorrowInv'
  <1> DEFINE x == [eng EXCEPT !.borrow.sent = @ \/ o = "ok"]
             r == IF at.pc = "on" THEN Resume(x, at.ret, at.force)
                  ELSE AtReturn(StepLock(x), at.force)
  <1>1. /\ at.pc \in {"on", "resend"} /\ Becomes(r)
        /\ past' = [Recall(r.eng) EXCEPT !.yielded = @ /\ ~Delivered(o)]
        /\ UNCHANGED <<file, state>>
    BY DEF PowerOn
  <1>2. at.pc = "on" => at.ret \in Returns
    BY DEF Types, AtOK
  <1>3. eng.borrow.open /\ Locked(eng) /\ eng.phase = "awaiting_power" /\ ~eng.borrow.restore
    BY <1>1 DEF BorrowInv, BorrowOK, Poised, Firm
  <1>4. Stands(x)
    <2>1. Sound(x) /\ x.pol = eng.pol /\ x.phase = eng.phase
      BY DEF Types, Sound, LockOK, Locked
    <2>2. x.borrow = [eng.borrow EXCEPT !.sent = @ \/ o = "ok"]
      BY DEF Types, Sound
    <2> HIDE DEF x
    <2>3. /\ {"open", "from", "sent", "restore", "taken"} \subseteq DOMAIN x.borrow
          /\ x.borrow.open = eng.borrow.open /\ x.borrow.restore = eng.borrow.restore
      BY <2>2 DEF BorrowInv, BorrowOK
    <2> QED
      BY <1>3, <2>1, <2>3 DEF Stands, BorrowOK, Locked
  <1> HIDE DEF x
  <1>5. Sound(x) /\ BorrowOK(x) /\ Locked(x)
    BY <1>4 DEF Stands
  <1>6. Lends(x, r) /\ Retains(r)
    <2>1. CASE at.pc = "on"
      <3>1. r = Resume(x, at.ret, at.force)
        BY <2>1
      <3> HIDE DEF r
      <3> QED
        BY <1>2, <1>4, <1>5, <2>1, <3>1, ResumeLends
    <2>2. CASE at.pc # "on"
      <3>1. r = AtReturn(StepLock(x), at.force)
        BY <2>2
      <3> HIDE DEF r
      <3> QED
        BY <1>4, <1>5, <3>1, SteppedLends
    <2> QED
      BY <2>1, <2>2
  <1> HIDE DEF r
  <1>7. eng' = r.eng /\ at' = r.at
    BY <1>1 DEF Becomes
  <1>8. "yielded" \in DOMAIN past'
    BY <1>1, RecallYields DEF BorrowInv
  <1>9. Advance
    BY PowerOnOK
  <1> QED
    BY <1>1, <1>6, <1>7, <1>8, <1>9, SwitchingKeeps DEF Lends, Retains

LEMMA AdoptBorrow ==
    ASSUME NEW e, Sound(e), BorrowOK(e), NEW s, s # None, StateOK(s)
    PROVE  LET n == Adopt(e, s)
           IN /\ BorrowOK(n)
              /\ IF s.mode = "normal" \/ (~e.run.adopt /\ s.lock.seq <= e.run.fileSeq)
                 THEN n.borrow = e.borrow
                 ELSE n.borrow.open <=> s.borrow.open
  <1> DEFINE seq == IF s.seq > e.pol.seq THEN s.seq ELSE e.pol.seq
             p == [e.pol EXCEPT !.seq = seq]
             q == [p EXCEPT !.mode = s.mode, !.source = s.source, !.quiet = 0]
             n == Adopt(e, s)
  <1>1. CASE s.mode = "normal" \/ (~e.run.adopt /\ s.lock.seq <= e.run.fileSeq)
    <2>1. n = [e EXCEPT !.pol = p]
      BY <1>1 DEF Adopt, Sound, Policies
    <2>2. p.mode = e.pol.mode
      BY DEF Sound, Policies
    <2> HIDE DEF p, n
    <2>3. n.pol.mode = e.pol.mode /\ n.borrow = e.borrow
      BY <2>1, <2>2 DEF Sound
    <2>4. BorrowOK(n)
      BY <2>3 DEF BorrowOK, Locked
    <2> QED
      BY <1>1, <2>3, <2>4 DEF n
  <1>2. CASE ~(s.mode = "normal" \/ (~e.run.adopt /\ s.lock.seq <= e.run.fileSeq))
    <2> DEFINE b == [NoBorrow EXCEPT !.open = TRUE, !.from = s.borrow.from,
                       !.sent = s.phase # "awaiting_power", !.taken = s.borrow.taken]
               c == IF s.borrow.open THEN b ELSE NoBorrow
               f == [e EXCEPT !.pol = q, !.lock = s.lock, !.phase = s.phase, !.borrow = c,
                              !.borrowSeq = IF s.borrow.open THEN s.lock.seq ELSE @]
    <2>1. n = Normalize(f)
      BY <1>2 DEF Adopt, Sound, Policies
    <2>2. q.mode = s.mode /\ s.mode # "normal"
      BY <1>2 DEF Sound, Policies
    <2>3. /\ {"open", "from", "sent", "restore", "taken"} \subseteq DOMAIN c
          /\ ~c.restore /\ (c.open <=> s.borrow.open)
      BY DEF NoBorrow
    <2> HIDE DEF q, c, n
    <2>4. f.pol.mode = s.mode /\ f.borrow = c /\ {"pol", "phase", "borrow"} \subseteq DOMAIN f
      BY <2>2 DEF Sound
    <2> HIDE DEF f
    <2>5. n = [f EXCEPT !.phase = IF @ = "idle" THEN "grounding" ELSE @,
                        !.over.borrow = @ /\ ~f.borrow.open]
      BY <2>1, <2>2, <2>4 DEF Normalize, Locked
    <2>6. n.borrow = c /\ n.pol.mode = s.mode
      BY <2>4, <2>5
    <2>7. BorrowOK(n)
      BY <2>3, <2>6 DEF BorrowOK
    <2> QED
      BY <1>2, <2>3, <2>6, <2>7 DEF n
  <1> QED
    BY <1>1, <1>2

LEMMA NewBorrow ==
    ASSUME NEW f, f # None => BorrowOK(f) /\ FileOK(f), NEW n
    PROVE  LET e == New(f, n)
           IN BorrowOK(e) /\ (e.borrow.open <=> Open(f))
  <1> DEFINE e == [pol |-> IF f = None THEN NewPolicy(n) ELSE f.pol,
              lock |-> IF f = None THEN NoLock ELSE f.lock,
              phase |-> IF f = None THEN "idle" ELSE f.phase,
              borrow |-> IF f = None THEN NoBorrow ELSE f.borrow,
              borrowSeq |-> IF f = None THEN 0 ELSE f.borrowSeq,
              aim |-> [base |-> IF f = None THEN NoAz ELSE f.base, seen |-> FALSE],
              over |-> [phase |-> TRUE, borrow |-> TRUE, quiet |-> TRUE],
              crew |-> [manned |-> FALSE, dwell |-> FALSE, lost |-> "no"],
              see |-> Blind,
              run |-> [ready |-> FALSE, connected |-> FALSE, saved |-> FALSE,
                       adopt |-> f = None,
                       fileSeq |-> IF f = None THEN 0 ELSE f.pol.seq, queue |-> <<>>]]
  <1>1. New(f, n) = IF f = None THEN e ELSE Normalize(e)
    BY DEF New
  <1>2. /\ {"pol", "phase", "borrow", "lock", "over"} \subseteq DOMAIN e
        /\ e.borrow = (IF f = None THEN NoBorrow ELSE f.borrow)
        /\ f # None => e.pol = f.pol
    OBVIOUS
  <1> HIDE DEF e
  <1>3. CASE f = None
    BY <1>1, <1>2, <1>3, NoBorrowOK DEF BorrowOK, Open
  <1>4. CASE f # None /\ ~Locked(e)
    <2> DEFINE m == [e EXCEPT !.lock = NoLock, !.phase = "idle", !.borrow.restore = e.borrow.open]
    <2>1. New(f, n) = m
      BY <1>1, <1>4 DEF Normalize
    <2>2. m.borrow = [e.borrow EXCEPT !.restore = e.borrow.open] /\ m.pol = e.pol
      BY <1>2
    <2> HIDE DEF m
    <2>3. /\ {"open", "from", "sent", "restore", "taken"} \subseteq DOMAIN m.borrow
          /\ m.borrow.open = e.borrow.open
      BY <1>2, <1>4, <2>2 DEF BorrowOK
    <2>4. ~Locked(m)
      BY <1>4, <2>2 DEF Locked
    <2> QED
      BY <1>2, <1>4, <2>1, <2>3, <2>4 DEF BorrowOK, Open
  <1>5. CASE f # None /\ Locked(e)
    <2> DEFINE m == [e EXCEPT !.phase = IF @ = "idle" THEN "grounding" ELSE @,
                              !.over.borrow = @ /\ ~e.borrow.open]
    <2>1. New(f, n) = m
      BY <1>1, <1>5 DEF Normalize
    <2>2. m.borrow = e.borrow /\ m.pol = e.pol
      BY <1>2
    <2> HIDE DEF m
    <2> QED
      BY <1>2, <1>5, <2>1, <2>2 DEF BorrowOK, Locked, Open
  <1> QED
    BY <1>3, <1>4, <1>5

LEMMA IdlePoised == \A e : Poised(Idle, e)
  BY IdleOK DEF Poised

LEMMA OwnStateBorrow ==
    ASSUME Types, Types', BorrowInv, OwnState
    PROVE  BorrowInv'
  <1>1. /\ at.pc = "idle" /\ UNCHANGED <<at, file, state, power, past>> /\ ~eng.run.ready
        /\ eng' = IF state = None THEN eng ELSE Adopt(eng, state)
    BY DEF OwnState, Types
  <1>2. Poised(at', eng')
    BY <1>1 DEF Poised
  <1>3. CASE ~Locking(state) \/ (~eng.run.adopt /\ state.lock.seq <= eng.run.fileSeq)
    <2>1. eng'.borrow = eng.borrow /\ BorrowOK(eng')
      BY <1>1, <1>3, AdoptBorrow DEF Types, BorrowInv, Locking
    <2>2. eng'.run = eng.run
      BY <1>1, AdoptOK DEF Types, Same
    <2>3. state # None => state.lock.seq \in Nat /\ state.seq \in Nat /\ state.lock.seq <= state.seq
      BY Bounds DEF Types, StateOK, LockOK
    <2>4. eng'.pol.seq \in Nat
      BY Bounds DEF Types, Sound, Policies
    <2>5. Locking(state)' => state'.lock.seq <= eng'.pol.seq
      BY <1>1, <2>3, <2>4, AdoptOK DEF Types, Locking
    <2>6. ~Newer
      <3>1. file # None => file.pol.seq \in Nat
        BY Bounds DEF Types, FileOK, Policies
      <3> QED
        BY <1>1, <1>3, <2>3, <3>1 DEF BorrowInv, Newer, Locking
    <2>7. ~Newer'
      BY <1>1, <2>6 DEF Newer, Locking
    <2> QED
      BY <1>1, <1>2, <2>1, <2>2, <2>5, <2>7 DEF BorrowInv, Off, Open, Locked, BorrowOK
  <1>4. CASE Locking(state) /\ ~(~eng.run.adopt /\ state.lock.seq <= eng.run.fileSeq)
    <2>1. BorrowOK(eng') /\ (eng'.borrow.open <=> state.borrow.open)
      BY <1>1, <1>4, AdoptBorrow DEF Types, BorrowInv, Locking
    <2>2. eng'.run = eng.run
      BY <1>1, AdoptOK DEF Types, Same
    <2>3. state.lock.seq \in Nat /\ state.seq \in Nat /\ state.lock.seq <= state.seq
      BY <1>4, Bounds DEF Types, StateOK, LockOK, Locking
    <2>4. eng'.pol.seq \in Nat
      BY Bounds DEF Types, Sound, Policies
    <2>5. Locking(state)' => state'.lock.seq <= eng'.pol.seq
      BY <1>1, <2>3, <2>4, AdoptOK DEF Types, Locking
    <2>6. Newer
      <3>1. file # None => file.pol.seq \in Nat
        BY Bounds DEF Types, FileOK, Policies
      <3> QED
        BY <1>1, <1>4, <2>3, <3>1 DEF BorrowInv, Newer
    <2>7. IF state.borrow.open THEN Open(file) ELSE Off
      BY <2>6 DEF BorrowInv
    <2> QED
      BY <1>1, <1>2, <2>1, <2>2, <2>5, <2>7 DEF BorrowInv, Off, Open, Newer, Locking, Locked, BorrowOK
  <1> QED
    BY <1>3, <1>4

LEMMA CrashBorrow ==
    ASSUME ~LosesFile, Types, Types', BorrowInv, Crash
    PROVE  BorrowInv'
  <1>1. /\ file' = file /\ eng' = New(file', used) /\ at' = Idle /\ UNCHANGED <<state, power, used>>
    BY DEF Crash
  <1>2. "yielded" \in DOMAIN past' /\ past'.yielded = past.yielded
    BY DEF Crash, BorrowInv
  <1>3. BorrowOK(eng') /\ (eng'.borrow.open <=> Open(file))
    BY <1>1, NewBorrow DEF BorrowInv, Types
  <1>4. /\ ~eng'.run.ready /\ ~eng'.run.connected
        /\ eng'.run.adopt <=> file' = None
        /\ file' # None => eng'.run.fileSeq = file'.pol.seq
    BY <1>1, NewOK DEF Types, Drawn
  <1>5. Poised(at', eng') /\ at'.pc = "idle"
    BY <1>1, IdlePoised, IdleOK
  <1> QED
    BY <1>1, <1>2, <1>3, <1>4, <1>5
    DEF BorrowInv, TakenIn, Off, Open, Newer, Locking, BorrowOK, Locked

LEMMA BorrowInit == Init => BorrowInv
  <1> SUFFICES ASSUME Init PROVE BorrowInv
    OBVIOUS
  <1>1. file = None /\ state = None /\ eng = New(None, 0) /\ at = Idle /\ power = "none"
    BY DEF Init
  <1>2. BorrowOK(eng) /\ ~eng.borrow.open
    BY <1>1, NewBorrow DEF Open
  <1>3. eng.run.adopt
    BY <1>1, NewOK, Bounds DEF FileOK
  <1>4. "yielded" \in DOMAIN past
    BY DEF Init, NoPast
  <1> QED
    BY <1>1, <1>2, <1>3, <1>4, IdlePoised DEF BorrowInv, Off, Newer, Locking

LEMMA BorrowStep ==
    SteadyStart /\ ~LosesFile /\ Types /\ Types' /\ BorrowInv /\ [Next]_vars => BorrowInv'
  <1> SUFFICES ASSUME SteadyStart, ~LosesFile, Types, Types', BorrowInv, [Next]_vars
               PROVE  BorrowInv'
    OBVIOUS
  <1>1. CASE UNCHANGED vars
    BY <1>1 DEF vars, world, BorrowInv, TakenIn, Off, Open, Newer, Locking, BorrowOK, Locked,
                Poised, Firm
  <1>2. CASE OwnState \/ Crash
    BY <1>2, OwnStateBorrow, CrashBorrow
  <1>3. CASE \E o : PowerOn(o)
    BY <1>3, PowerOnBorrow
  <1>4. CASE Next /\ ~OwnState /\ ~Crash /\ ~\E o : PowerOn(o)
    <2>1. Advance
      BY <1>4, NextAdvances
    <2>2. Borrowing
      BY <1>4, ApplyBorrow, SaveBorrow, PersistBorrow, RestoreBorrow, CmdBorrow, LinkBorrow,
         MessagesBorrow, NinaBorrow, TickBorrow, ReadyBorrow DEF Next
    <2> QED
      BY <2>1, <2>2, BorrowingKeeps
  <1> QED
    BY <1>1, <1>2, <1>3, <1>4

\* Power that antmode has switched on for a park is never forgotten, whatever crashes, lost
\* publishes and failed writes come in between, as long as the file itself survives and the
\* first connection outlives the startup hold: the file has the borrow before the power is
\* asked for, and until it is off again or powerseq's (startBorrowIfNeeded, stepBorrow,
\* attachBorrow, New, OwnState).
THEOREM BorrowKept ==
    ASSUME SteadyStart, ~LosesFile
    PROVE  Spec => []BorrowRemembered
  <1>1. BorrowInv => BorrowRemembered
    BY DEF BorrowInv, Off, BorrowRemembered
  <1>2. SteadyStart /\ ~LosesFile
    OBVIOUS
  <1> QED
    BY <1>1, <1>2, TypesInit, TypesStep, BorrowInit, BorrowStep, PTL DEF Spec
-----------------------------------------------------------------------------
(* A borrow is not taken again.  A lock whose power went back stays one that    *)
(* has borrowed and is past its retract: in memory, in the file that is written *)
(* before the boom moves, and so after a restart.                               *)

LatePhases == {"rotating", "parked", "failed"}

\* No lock that gave its power back is still to come, and the one that is held is late.
Barred(e) ==
    \A s \in past.back :
        s <= e.pol.seq /\ (Locked(e) /\ e.lock.seq = s => e.borrowSeq = s /\ e.phase \in LatePhases)

\* The borrow of a lock is its own.
Owns(e) == "borrowSeq" \in DOMAIN e /\ (Locked(e) /\ e.borrow.open => e.borrowSeq = e.lock.seq)

\* The file knows that a lock is late, and what it has borrowed.
InFile(e) ==
    Locked(e) /\ e.phase \in LatePhases =>
        /\ file # None /\ Locked(file) /\ file.lock.seq = e.lock.seq
        /\ file.phase \in LatePhases /\ file.borrowSeq = e.borrowSeq

\* Memory that a handler may go on from.
Fair(e)  == Sound(e) /\ BorrowOK(e) /\ Barred(e) /\ Owns(e)
Rests(e) == Fair(e) /\ InFile(e)

\* Where a handler may get to.
Comes(e, a) ==
    /\ Fair(e) /\ Poised(a, e)
    /\ a.pc # "persist" => InFile(e)
    /\ a.pc = "hold" => file # None
    /\ a.pc = "restore" /\ Locked(e) => e.phase \in {"parked", "failed"} /\ e.borrow.open

\* A step that leaves the lock and what it has borrowed as they are.
Beside(e, n) == Sound(n) /\ Stays(e.pol, n.pol) /\ n.lock.seq = e.lock.seq /\ Lent(e, n)

LEMMA BesideRests ==
    ASSUME NEW e, NEW n, Beside(e, n), "borrowSeq" \in DOMAIN e
    PROVE  /\ Fair(e) => Fair(n)
           /\ Rests(e) => Rests(n)
  <1>1. BorrowOK(e) => BorrowOK(n)
    BY DEF Beside, Lent, Stays, BorrowOK, Locked
  <1>2. Barred(e) => Barred(n)
    BY DEF Beside, Lent, Stays, Barred, Locked
  <1>3. Owns(e) => Owns(n)
    BY DEF Beside, Lent, Stays, Owns, Locked
  <1>4. InFile(e) => InFile(n)
    BY DEF Beside, Lent, Stays, InFile, Locked
  <1> QED
    BY <1>1, <1>2, <1>3, <1>4 DEF Fair, Rests, Beside

LEMMA BesideSeen ==
    ASSUME NEW e, Sound(e)
    PROVE  /\ Beside(e, NoteTX(e)) /\ Beside(e, Track(e)) /\ Beside(e, Capture(e))
           /\ \A fresh : Beside(e, NotePark(e, fresh))
  BY NearTX, NearTrack, NearCapture, NearPark, BorrowAside DEF Near, Beside, Stays

LEMMA PhaseKeeps ==
    ASSUME NEW e, Sound(e), NEW phase
    PROVE  LET n == To(e, phase)
           IN /\ n.phase = phase
              /\ "borrowSeq" \in DOMAIN e => "borrowSeq" \in DOMAIN n /\ n.borrowSeq = e.borrowSeq
  BY DEF To, Sound

\* A step of the lock: from late to late, and to it by the aiming of the boom only.
Onward(e, n) ==
    /\ "borrowSeq" \in DOMAIN n /\ n.borrowSeq = e.borrowSeq
    /\ e.phase \in LatePhases => n.phase \in LatePhases
    /\ n.phase \in LatePhases => e.phase \in LatePhases \/ n.phase = "rotating"

LEMMA ComputeParkOnward ==
    ASSUME NEW e, Sound(e), Locked(e), "borrowSeq" \in DOMAIN e
    PROVE  /\ ComputePark(e).phase = "rotating"
           /\ "borrowSeq" \in DOMAIN ComputePark(e) /\ ComputePark(e).borrowSeq = e.borrowSeq
  <1> DEFINE az == IF e.pol.mode # "storm" THEN MaintenanceAz
                   ELSE Storm(e.see.wind, IF e.see.rot.live THEN e.see.rot.az ELSE NoAz)
             f == [e EXCEPT !.lock.retract = TRUE]
             g == [e EXCEPT !.lock.retract = TRUE, !.lock.park = az]
             h == To(g, "rotating")
  <1>1. /\ Sound(f) /\ (e.lock.park = NoAz => Sound(g))
        /\ "borrowSeq" \in DOMAIN f /\ f.borrowSeq = e.borrowSeq
        /\ "borrowSeq" \in DOMAIN g /\ g.borrowSeq = e.borrowSeq
    BY NearLock DEF Near
  <1>2. ComputePark(e) = IF e.lock.park # NoAz THEN To(f, "rotating") ELSE NotePark(h, FALSE)
    BY DEF ComputePark
  <1> HIDE DEF f, g
  <1>3. CASE e.lock.park # NoAz
    BY <1>1, <1>2, <1>3, PhaseKeeps
  <1>4. CASE e.lock.park = NoAz
    <2>1. Sound(h)
      BY <1>1, <1>4, NearPhase DEF Near, LockPhases
    <2>2. h.phase = "rotating" /\ "borrowSeq" \in DOMAIN h /\ h.borrowSeq = e.borrowSeq
      BY <1>1, <1>4, PhaseKeeps
    <2> HIDE DEF h
    <2>3. Beside(h, NotePark(h, FALSE))
      BY <2>1, <2>2, BesideSeen
    <2> QED
      BY <1>2, <1>4, <2>2, <2>3 DEF Beside, Lent
  <1> QED
    BY <1>3, <1>4

LEMMA StepLockOnward ==
    ASSUME NEW e, Sound(e), Locked(e), "borrowSeq" \in DOMAIN e
    PROVE  Onward(e, StepLock(e))
  <1> DEFINE f == [e EXCEPT !.lock.retract = TRUE]
             k == NotePark(e, FALSE)
             n == StepLock(e)
  <1>1. /\ Sound(f) /\ "borrowSeq" \in DOMAIN f /\ f.borrowSeq = e.borrowSeq
        /\ Beside(e, k)
    BY NearLock, BesideSeen DEF Near
  <1> HIDE DEF f, k, n
  <1>2. \A x \in {e, f, k} : \A phase :
           LET m == To(x, phase)
           IN m.phase = phase /\ "borrowSeq" \in DOMAIN m /\ m.borrowSeq = e.borrowSeq
    BY <1>1, PhaseKeeps DEF Beside, Lent
  <1>3. /\ e.phase \notin LatePhases =>
             n \in {e, To(e, "grounding"), To(e, "awaiting_devices"), To(f, "retracting"),
                    ComputePark(e)}
        /\ e.phase \in LatePhases => n \in {e, k, To(k, "parked"), To(k, "failed"), To(e, "parked")}
    <2>1. CASE e.phase \in {"awaiting_power", "awaiting_devices"}
      BY <2>1 DEF StepLock, LatePhases, f, k, n
    <2>2. CASE e.phase \in {"grounding", "retracting"}
      BY <2>2 DEF StepLock, LatePhases, f, k, n
    <2>3. CASE e.phase = "rotating"
      BY <2>3 DEF StepLock, LatePhases, f, k, n
    <2>4. CASE e.phase \in {"failed", "idle", "parked"}
      BY <2>4 DEF StepLock, LatePhases, f, k, n
    <2> QED
      BY <2>1, <2>2, <2>3, <2>4 DEF Sound, LockPhases
  <1>4. CASE e.phase \in LatePhases
    <2>1. n.phase \in LatePhases /\ "borrowSeq" \in DOMAIN n /\ n.borrowSeq = e.borrowSeq
      BY <1>1, <1>2, <1>3, <1>4 DEF LatePhases, Beside, Lent
    <2> QED
      BY <1>4, <2>1 DEF Onward, n
  <1>5. CASE e.phase \notin LatePhases
    <2>1. /\ n.phase \notin LatePhases \/ n.phase = "rotating"
          /\ "borrowSeq" \in DOMAIN n /\ n.borrowSeq = e.borrowSeq
      BY <1>2, <1>3, <1>5, ComputeParkOnward DEF LatePhases
    <2> QED
      BY <1>5, <2>1 DEF Onward, n
  <1> QED
    BY <1>4, <1>5

\* A lock that is entered or run again is not late, and its borrow is its own.
Fresh(e) == "borrowSeq" \in DOMAIN e /\ Owns(e) /\ e.phase \notin LatePhases

LEMMA AttachFresh ==
    ASSUME NEW e, Sound(e), "borrowSeq" \in DOMAIN e, e.phase \notin LatePhases,
           {"open", "from", "sent", "restore", "taken"} \subseteq DOMAIN e.borrow
    PROVE  Fresh(Attach(e))
  <1> DEFINE f == [e EXCEPT !.borrow.restore = FALSE, !.borrowSeq = e.lock.seq]
             g == [f EXCEPT !.borrow.sent = FALSE]
             h == To(g, "awaiting_power")
             i == [h EXCEPT !.over.borrow = FALSE]
             n == Attach(e)
  <1>1. \/ n = [e EXCEPT !.borrow = NoBorrow]
        \/ ~e.borrow.open /\ n = e
        \/ n = f \/ n = i
    BY DEF Attach
  <1>2. /\ "borrowSeq" \in DOMAIN f /\ f.borrowSeq = e.lock.seq /\ f.phase = e.phase
        /\ Sound(f) /\ f.lock = e.lock
    BY DEF Sound, LockOK, Locked
  <1> HIDE DEF f
  <1>3. "borrowSeq" \in DOMAIN g /\ g.borrowSeq = f.borrowSeq /\ Sound(g) /\ g.lock = f.lock
    BY <1>2 DEF Sound, LockOK, Locked
  <1> HIDE DEF g
  <1>4. /\ "borrowSeq" \in DOMAIN h /\ h.borrowSeq = g.borrowSeq /\ h.phase = "awaiting_power"
        /\ Sound(h) /\ h.lock = g.lock
    <2>1. Sound(h) /\ h.phase = "awaiting_power" /\ "borrowSeq" \in DOMAIN h
          /\ h.borrowSeq = g.borrowSeq
      BY <1>3, PhaseKeeps, NearPhase DEF Near, LockPhases
    <2>2. h.lock = g.lock
      BY <1>3 DEF To, Sound
    <2> QED
      BY <2>1, <2>2
  <1> HIDE DEF h
  <1>5. /\ "borrowSeq" \in DOMAIN i /\ i.borrowSeq = h.borrowSeq /\ i.phase = h.phase
        /\ i.lock = h.lock
    BY <1>4 DEF Sound
  <1> HIDE DEF i, n
  <1>6. CASE n = [e EXCEPT !.borrow = NoBorrow]
    <2>1. "borrowSeq" \in DOMAIN n /\ n.borrow = NoBorrow /\ n.phase = e.phase
      BY <1>6 DEF Sound
    <2> QED
      BY <2>1, NoBorrowOK DEF Fresh, Owns, n
  <1>7. CASE ~e.borrow.open /\ n = e
    BY <1>7 DEF Fresh, Owns, n
  <1>8. CASE n = f
    BY <1>2, <1>8 DEF Fresh, Owns, n
  <1>9. CASE n = i
    BY <1>2, <1>3, <1>4, <1>5, <1>9 DEF Fresh, Owns, LatePhases, n
  <1> QED
    BY <1>1, <1>6, <1>7, <1>8, <1>9

LEMMA RestartFresh ==
    ASSUME NEW e, Sound(e), Locked(e), "borrowSeq" \in DOMAIN e,
           {"open", "from", "sent", "restore", "taken"} \subseteq DOMAIN e.borrow
    PROVE  Fresh(RestartPark(e))
  <1> DEFINE f == [e EXCEPT !.lock.seq = e.pol.seq, !.lock.park = NoAz]
             phase == IF f.lock.retract THEN "retracting" ELSE "grounding"
             g == To(f, phase)
             h == [g EXCEPT !.over.phase = FALSE]
             i == Capture(h)
  <1>1. Sound(f) /\ f.borrow = e.borrow /\ "borrowSeq" \in DOMAIN f
    <2> DEFINE d == [e EXCEPT !.lock.seq = e.pol.seq]
    <2>1. Sound(d) /\ d.borrow = e.borrow /\ "borrowSeq" \in DOMAIN d
      BY DEF Sound, LockOK, Bare, Locked, Policies
    <2>2. f = [d EXCEPT !.lock.park = NoAz]
      BY DEF Sound, LockOK
    <2> HIDE DEF d, f
    <2> QED
      BY <2>1, <2>2 DEF Sound, LockOK, Bare, Locked
  <1>2. phase \in LockPhases \ LatePhases
    BY DEF LockPhases, LatePhases
  <1>3. RestartPark(e) = Attach(i)
    BY DEF RestartPark
  <1> HIDE DEF f, phase
  <1>4. Sound(g) /\ g.borrow = f.borrow /\ g.phase = phase /\ "borrowSeq" \in DOMAIN g
    BY <1>1, <1>2, NearPhase, BorrowBeside, PhaseKeeps DEF Near
  <1> HIDE DEF g
  <1>5. Sound(h) /\ h.borrow = g.borrow /\ h.phase = phase /\ "borrowSeq" \in DOMAIN h
    BY <1>4 DEF Sound, LockOK, Locked
  <1> HIDE DEF h
  <1>6. Sound(i) /\ Beside(h, i)
    BY <1>5, NearCapture, BesideSeen DEF Near
  <1> HIDE DEF i
  <1>7. Fresh(Attach(i))
    BY <1>1, <1>2, <1>4, <1>5, <1>6, AttachFresh DEF Beside, Lent
  <1> QED
    BY <1>7, <1>3

LEMMA DecideFresh ==
    ASSUME NEW e, Sound(e), BorrowOK(e), "borrowSeq" \in DOMAIN e, NEW p \in Policies,
           Locks(e.pol, p)
    PROVE  Fresh(Decide(e, p))
  <1> DEFINE f == [e EXCEPT !.pol = p]
             n == Decide(e, p)
  <1>1. n = IF p.mode # e.pol.mode THEN ModeChanged(f, e.pol.mode)
            ELSE IF p.seq # e.pol.seq THEN RestartPark(f) ELSE f
    BY DEF Decide
  <1>n. e.pol.seq \in Nat /\ p.seq = e.pol.seq + 1 /\ p.mode # "normal"
    BY Bounds DEF Sound, Policies, Locks
  <1>2. /\ f.borrow = e.borrow /\ f.pol = p /\ f.lock = e.lock /\ "borrowSeq" \in DOMAIN f
        /\ {"open", "from", "sent", "restore", "taken"} \subseteq DOMAIN e.borrow
    BY DEF Sound, BorrowOK
  <1> HIDE DEF n
  <1>3. CASE e.pol.mode # "normal"
    <2>1. Sound(f)
      BY <1>n, <1>3 DEF Sound, LockOK, Locked, Policies
    <2>2. n = RestartPark(f)
      BY <1>1, <1>2, <1>n, <1>3 DEF ModeChanged
    <2> HIDE DEF f
    <2> QED
      BY <1>2, <1>n, <2>1, <2>2, RestartFresh DEF Locked, n
  <1>4. CASE e.pol.mode = "normal"
    <2> DEFINE k == [f EXCEPT !.lock = [NoLock EXCEPT !.seq = f.pol.seq]]
               g == To(k, "grounding")
               h == Capture(g)
    <2>0. /\ [NoLock EXCEPT !.seq = p.seq].seq = p.seq
          /\ LockOK([NoLock EXCEPT !.seq = p.seq], p.seq)
      BY <1>n DEF LockOK, NoLock
    <2>1. Sound(k) /\ k.borrow = e.borrow /\ "borrowSeq" \in DOMAIN k
      BY <1>2, <1>n, <2>0 DEF Sound, Locked
    <2>2. n = Attach(h)
      BY <1>1, <1>2, <1>n, <1>4 DEF ModeChanged
    <2> HIDE DEF k
    <2>3. Sound(g) /\ g.borrow = k.borrow /\ g.phase = "grounding" /\ "borrowSeq" \in DOMAIN g
      BY <2>1, NearPhase, BorrowBeside, PhaseKeeps DEF LockPhases, Near
    <2> HIDE DEF g
    <2>4. Sound(h) /\ Beside(g, h)
      BY <2>3, NearCapture, BesideSeen DEF Near
    <2> HIDE DEF h
    <2>5. Fresh(n)
      BY <1>2, <2>1, <2>2, <2>3, <2>4, AttachFresh DEF Beside, Lent, LatePhases
    <2> QED
      BY <2>5 DEF n
  <1> QED
    BY <1>3, <1>4

BackOK == "back" \in DOMAIN past /\ past.back \subseteq Nat

\* A decision: a lock that is new has not given its power back.
LEMMA DecideRests ==
    ASSUME BackOK, NEW e, Rests(e), NEW p \in Policies,
           Stays(e.pol, p) \/ Locks(e.pol, p) \/ Frees(e.pol, p)
    PROVE  LET n == Decide(e, p)
           IN Rests(n) /\ (Relocked(e, n) => n.lock.seq \notin past.back)
  <1> DEFINE n == Decide(e, p)
  <1>1. /\ Sound(n) /\ BorrowOK(n) /\ n.pol = p
        /\ Stays(e.pol, p) => n.lock.seq = e.lock.seq
        /\ Locks(e.pol, p) => n.lock.seq = p.seq
    BY DecideOK, DecideHands DEF Rests, Fair, Same, Hands, Kept, Relocks
  <1>n. e.pol.seq \in Nat /\ \A s \in past.back : s \in Nat /\ s <= e.pol.seq
    BY Bounds DEF Rests, Fair, Barred, BackOK, Sound, Policies
  <1>2. CASE Stays(e.pol, p)
    <2>1. n = [e EXCEPT !.pol = p]
      BY <1>2 DEF Decide, Stays
    <2>2. /\ n.borrow = e.borrow /\ n.phase = e.phase /\ n.borrowSeq = e.borrowSeq
          /\ "borrowSeq" \in DOMAIN n /\ n.lock = e.lock
      BY <2>1 DEF Rests, Fair, Owns, Sound
    <2> HIDE DEF n
    <2>3. Barred(n) /\ Owns(n) /\ InFile(n)
      BY <1>1, <1>2, <2>2 DEF Rests, Fair, Barred, Owns, InFile, Locked, Stays
    <2> QED
      BY <1>1, <2>2, <2>3 DEF Rests, Fair, Relocked, n
  <1>3. CASE Locks(e.pol, p)
    <2>1. Fresh(n)
      BY <1>3, DecideFresh DEF Rests, Fair, Owns
    <2> HIDE DEF n
    <2>2. n.pol.seq = e.pol.seq + 1 /\ n.lock.seq = e.pol.seq + 1
      BY <1>1, <1>3 DEF Locks
    <2>3. n.lock.seq \notin past.back
      BY <1>n, <2>2
    <2>4. Barred(n) /\ Owns(n) /\ InFile(n)
      BY <1>n, <2>1, <2>2 DEF Fresh, Barred, InFile
    <2> QED
      BY <1>1, <2>3, <2>4 DEF Rests, Fair, n
  <1>4. CASE Frees(e.pol, p)
    <2>1. ~Locked(n) /\ n.pol.seq = e.pol.seq
      BY <1>1, <1>4 DEF Frees, Locked
    <2>2. "borrowSeq" \in DOMAIN n
      <3> DEFINE f == [e EXCEPT !.pol = p]
                 k == [f EXCEPT !.lock = NoLock, !.aim.base = NoAz, !.borrow.restore = f.borrow.open]
      <3>1. f.pol = p
        BY DEF Rests, Fair, Sound
      <3>2. n = To(k, "idle")
        BY <1>4, <3>1 DEF Decide, ModeChanged, Frees
      <3>3. "borrowSeq" \in DOMAIN k /\ "phase" \in DOMAIN k
        BY DEF Rests, Fair, Owns, Sound
      <3> HIDE DEF k, n
      <3> QED
        BY <3>2, <3>3 DEF To
    <2> HIDE DEF n
    <2>3. Barred(n) /\ Owns(n) /\ InFile(n)
      BY <1>n, <2>1, <2>2 DEF Barred, Owns, InFile
    <2> QED
      BY <1>1, <2>1, <2>3 DEF Rests, Fair, Relocked, n
  <1> QED
    BY <1>2, <1>3, <1>4

LEMMA AppliedRests ==
    ASSUME BackOK, NEW e, Rests(e), NEW c
    PROVE  LET n == Applied(e, c)
           IN Rests(n) /\ (Relocked(e, n) => n.lock.seq \notin past.back)
  <1>p. e.pol \in Policies /\ e.see.active \in SUBSET Warnings
    BY DEF Rests, Fair, Sound
  <1>1. CASE c \in Modes
    <2> DEFINE p == SetMode(e.pol, c, e.see.active)
    <2>1. p \in Policies /\ (Stays(e.pol, p) \/ Locks(e.pol, p) \/ Frees(e.pol, p))
      BY <1>p, <1>1, SetModeOK
    <2>2. Applied(e, c) = Decide(e, p)
      BY <1>1 DEF Applied, Modes
    <2> HIDE DEF p
    <2> QED
      BY <2>1, <2>2, DecideRests
  <1>2. CASE c = "repark"
    <2> DEFINE p == Repark(e.pol)
    <2>1. p \in Policies /\ (Stays(e.pol, p) \/ Locks(e.pol, p))
      BY <1>p, ReparkOK
    <2>2. Applied(e, c) = Decide(e, p)
      BY <1>2 DEF Applied, Modes
    <2> HIDE DEF p
    <2> QED
      BY <2>1, <2>2, DecideRests
  <1>3. CASE c = "dismiss"
    <2> DEFINE p == Dismiss(e.pol, e.see.active)
    <2>1. p \in Policies /\ Stays(e.pol, p)
      BY <1>p, SetsOK
    <2>2. Applied(e, c) = Decide(e, p)
      BY <1>3 DEF Applied, Modes
    <2> HIDE DEF p
    <2> QED
      BY <2>1, <2>2, DecideRests
  <1>4. CASE c \notin Modes /\ c # "repark" /\ c # "dismiss"
    <2>1. Applied(e, c) = e
      BY <1>4 DEF Applied
    <2> QED
      BY <2>1 DEF Relocked
  <1> QED
    BY <1>1, <1>2, <1>3, <1>4

\* How far a handler gets.

LEMMA WaitsComes ==
    ASSUME NEW e, Rests(e), NEW pc \in Places \ {"save", "hold", "on", "resend", "restore"}, NEW f
    PROVE  LET r == Waits(e, pc, f) IN Comes(r.eng, r.at)
  <1>1. Waits(e, pc, f).eng = e /\ Waits(e, pc, f).at.pc = pc
    BY DEF Waits, At
  <1> QED
    BY <1>1 DEF Comes, Rests, Poised

LEMMA IdleComes == ASSUME NEW e, Rests(e) PROVE Comes(e, Idle)
  BY IdleOK DEF Comes, Rests, Poised

LEMMA PublishComes ==
    ASSUME NEW e, Rests(e), NEW f
    PROVE  LET r == AtPublish(e, f) IN Comes(r.eng, r.at)
  <1>1. AtPublish(e, f) \in {Waits(e, "publish", f), [eng |-> e, at |-> Idle]}
    BY DEF AtPublish
  <1> QED
    BY <1>1, WaitsComes, IdleComes DEF Places

\* What is in the file rests, and what is not is written.
LEMMA PersistComes ==
    ASSUME NEW e, Fair(e), NEW f
    PROVE  LET r == AtPersist(e, f) IN Comes(r.eng, r.at)
  <1>1. CASE e.run.saved /\ file = Snapshot(e)
    <2>1. /\ file # None /\ file.lock = e.lock /\ file.pol.mode = e.pol.mode
      BY <1>1, SnapshotOK, ShownFile DEF Fair
    <2>2. file.phase = e.phase /\ file.borrowSeq = e.borrowSeq
      BY <1>1 DEF Snapshot
    <2>3. Rests(e)
      BY <2>1, <2>2 DEF Rests, InFile, Locked
    <2>4. AtPersist(e, f) = AtPublish(e, f)
      BY <1>1 DEF AtPersist
    <2> QED
      BY <2>3, <2>4, PublishComes
  <1>2. CASE ~(e.run.saved /\ file = Snapshot(e))
    <2>1. AtPersist(e, f) = Waits(e, "persist", f)
      BY <1>2 DEF AtPersist
    <2>2. Waits(e, "persist", f).eng = e /\ Waits(e, "persist", f).at.pc = "persist"
      BY DEF Waits, At
    <2> QED
      BY <2>1, <2>2 DEF Comes, Poised
  <1> QED
    BY <1>1, <1>2

LEMMA WatchFair ==
    ASSUME NEW e, Fair(e)
    PROVE  /\ Fair(Watch(e)) /\ Fair(Return(e))
           /\ Watch(e).lock = e.lock /\ Watch(e).borrowSeq = e.borrowSeq
  <1> DEFINE w == Watch(e)
             v == Return(e)
  <1>1. /\ BorrowOK(w) /\ BorrowOK(v) /\ ~v.borrow.open
        /\ w.borrow.open = e.borrow.open /\ w.phase = e.phase /\ w.pol = e.pol
    BY WatchBorrow DEF Fair
  <1>2. Sound(w) /\ Sound(v) /\ v.pol = e.pol
    BY NearBorrow DEF Fair, Near
  <1>3. /\ "borrowSeq" \in DOMAIN w /\ w.borrowSeq = e.borrowSeq /\ w.lock = e.lock
        /\ "borrowSeq" \in DOMAIN v /\ v.borrowSeq = e.borrowSeq /\ v.lock = e.lock
        /\ v.phase = e.phase
    BY DEF Watch, Return, Fair, Owns, Sound
  <1> HIDE DEF w, v
  <1>4. Barred(w) /\ Barred(v)
    BY <1>1, <1>2, <1>3 DEF Fair, Barred, Locked
  <1>5. Owns(w) /\ Owns(v)
    BY <1>1, <1>2, <1>3 DEF Fair, Owns, Locked
  <1> QED
    BY <1>1, <1>2, <1>3, <1>4, <1>5 DEF Fair, w, v

LEMMA ReturnComes ==
    ASSUME NEW e, Fair(e), InFile(e) \/ e.phase = "rotating", NEW f
    PROVE  LET r == AtReturn(e, f) IN Comes(r.eng, r.at)
  <1> DEFINE w == Watch(e)
             v == Return(w)
             r == AtReturn(e, f)
  <1>1. /\ Fair(w) /\ w.lock = e.lock /\ w.borrowSeq = e.borrowSeq
        /\ w.phase = e.phase /\ w.pol = e.pol
    BY WatchFair, WatchBorrow DEF Fair
  <1>2. r = IF Restores(w) THEN Waits(w, "restore", f) ELSE AtPersist(IF Yields(w) THEN v ELSE w, f)
    BY DEF AtReturn
  <1> HIDE DEF w, r
  <1>3. Fair(v)
    BY <1>1, WatchFair
  <1> HIDE DEF v
  <1>4. CASE Restores(w)
    <2>1. r.eng = w /\ r.at.pc = "restore"
      BY <1>2, <1>4 DEF Waits, At
    <2>2. w.borrow.open /\ (w.borrow.restore \/ w.phase \in {"parked", "failed"})
      BY <1>4 DEF Restores, Due
    <2>3. Locked(w) => w.phase \in {"parked", "failed"}
      BY <1>1, <2>2 DEF Fair, BorrowOK
    <2>4. InFile(w)
      BY <1>1, <2>3 DEF InFile, Locked
    <2>5. Comes(r.eng, r.at)
      BY <1>1, <2>1, <2>2, <2>3, <2>4 DEF Comes, Poised
    <2> QED
      BY <2>5 DEF r
  <1>5. CASE ~Restores(w)
    <2>1. r = AtPersist(v, f) \/ r = AtPersist(w, f)
      BY <1>2, <1>5
    <2> QED
      BY <1>1, <1>3, <2>1, PersistComes DEF r
  <1> QED
    BY <1>4, <1>5

LEMMA SteppedComes ==
    ASSUME NEW e, Rests(e), Locked(e), NEW f
    PROVE  LET r == AtReturn(StepLock(e), f) IN Comes(r.eng, r.at)
  <1> DEFINE n == StepLock(e)
  <1>1. /\ Sound(n) /\ n.pol = e.pol /\ n.lock.seq = e.lock.seq
        /\ n.borrow = e.borrow /\ Onward(e, n)
    BY NearStepLock, StepLockBorrow, StepLockOnward DEF Rests, Fair, Owns, Near
  <1> HIDE DEF n
  <1>2. BorrowOK(n) /\ Owns(n)
    BY <1>1 DEF Rests, Fair, BorrowOK, Owns, Onward, Locked
  <1>3. Barred(n)
    BY <1>1 DEF Rests, Fair, Barred, Onward, Locked
  <1>4. InFile(n) \/ n.phase = "rotating"
    BY <1>1 DEF Rests, InFile, Onward, Locked
  <1>5. Fair(n)
    BY <1>1, <1>2, <1>3 DEF Fair
  <1>6. LET r == AtReturn(n, f) IN Comes(r.eng, r.at)
    BY <1>4, <1>5, ReturnComes
  <1> QED
    BY <1>6 DEF n

LEMMA LockComes ==
    ASSUME NEW e, Rests(e), NEW f
    PROVE  LET r == AtLock(e, f) IN Comes(r.eng, r.at)
  <1>1. CASE ~Locked(e)
    BY <1>1, ReturnComes DEF AtLock, Rests
  <1>2. CASE Locked(e) /\ e.phase = "awaiting_power" /\ e.borrow.open /\ ~e.borrow.sent
    <2>1. AtLock(e, f) = Waits(e, "resend", f)
      BY <1>2 DEF AtLock
    <2>2. Waits(e, "resend", f).eng = e /\ Waits(e, "resend", f).at.pc = "resend"
      BY DEF Waits, At
    <2> QED
      BY <1>2, <2>1, <2>2 DEF Comes, Rests, Poised
  <1>3. CASE Locked(e) /\ ~(e.phase = "awaiting_power" /\ e.borrow.open /\ ~e.borrow.sent)
    <2>1. AtLock(e, f) = AtReturn(StepLock(e), f)
      BY <1>3 DEF AtLock
    <2> QED
      BY <1>3, <2>1, SteppedComes
  <1> QED
    BY <1>1, <1>2, <1>3

\* A borrow is opened only for a lock that has not given its power back.
LEMMA BorrowComes ==
    ASSUME NEW e, Rests(e), Locked(e), CanBorrow(e), e.lock.seq \notin past.back, NEW ret, NEW f
    PROVE  LET r == AtBorrow(e, ret, f) IN Comes(r.eng, r.at)
  <1> DEFINE b == [NoBorrow EXCEPT !.open = TRUE, !.from = e.see.seqPhase]
             c == [e EXCEPT !.borrow = b, !.borrowSeq = e.lock.seq]
             n == Borrow(e)
             r == AtBorrow(e, ret, f)
  <1>1. n = To(c, "awaiting_power") /\ r.eng = n /\ r.at.pc = "save"
    BY DEF Borrow, AtBorrow, At
  <1>2. Lends(e, r)
    BY BorrowLends DEF Rests, Fair
  <1>3. Near(e, n)
    BY NearBorrow DEF Rests, Fair
  <1> HIDE DEF b, n, r
  <1>4. "phase" \in DOMAIN c /\ "borrowSeq" \in DOMAIN c /\ c.borrowSeq = e.lock.seq
    BY DEF Rests, Fair, Owns, Sound
  <1> HIDE DEF c
  <1>5. "borrowSeq" \in DOMAIN n /\ n.borrowSeq = e.lock.seq /\ n.phase = "awaiting_power"
    BY <1>1, <1>4 DEF To
  <1>6. Fair(n) /\ InFile(n)
    BY <1>1, <1>2, <1>3, <1>5
    DEF Lends, Near, Rests, Fair, Barred, Owns, InFile, LatePhases, Locked
  <1>7. Comes(r.eng, r.at)
    BY <1>1, <1>2, <1>6 DEF Comes, Lends
  <1> QED
    BY <1>7 DEF r

LEMMA LateComes ==
    ASSUME NEW e, Rests(e), NEW f
    PROVE  LET r == AtLate(e, f) IN Comes(r.eng, r.at)
  <1>1. CASE Locked(e) /\ LateBorrow(e)
    <2>1. CanBorrow(e) /\ e.borrowSeq # e.lock.seq /\ AtLate(e, f) = AtBorrow(e, "lock", f)
      BY <1>1 DEF LateBorrow, AtLate
    <2>2. e.lock.seq \notin past.back
      BY <1>1, <2>1 DEF Rests, Fair, Barred
    <2> QED
      BY <1>1, <2>1, <2>2, BorrowComes
  <1>2. CASE ~(Locked(e) /\ LateBorrow(e))
    <2>1. AtLate(e, f) = AtLock(e, f)
      BY <1>2 DEF AtLate
    <2> QED
      BY <2>1, LockComes
  <1> QED
    BY <1>1, <1>2

LEMMA StepComes ==
    ASSUME BackOK, NEW e, Rests(e), NEW f
    PROVE  LET r == AtStep(e, f) IN Comes(r.eng, r.at)
  <1> DEFINE x == NoteTX(e)
             t == Track(x)
             p == Evaluate(t.pol, t.see.active, Manned(t))
             n == Decide(t, p)
             r == AtStep(e, f)
  <1>1. Rests(x)
    BY NearTX, BesideSeen, BesideRests DEF Rests, Fair, Owns, Near
  <1>2. r = IF Relocked(t, n) /\ CanBorrow(n) THEN AtBorrow(n, "late", f) ELSE AtLate(n, f)
    BY DEF AtStep
  <1> HIDE DEF x, r
  <1>3. Rests(t)
    BY <1>1, NearTrack, BesideSeen, BesideRests DEF Rests, Fair, Owns, Near
  <1> HIDE DEF t
  <1>4. p \in Policies /\ (Stays(t.pol, p) \/ Locks(t.pol, p))
    BY <1>3, EvaluateOK DEF Rests, Fair, Sound, Stays
  <1> HIDE DEF p
  <1>5. Rests(n) /\ (Relocked(t, n) => n.lock.seq \notin past.back)
    BY <1>3, <1>4, DecideRests
  <1> HIDE DEF n
  <1>6. CASE Relocked(t, n) /\ CanBorrow(n)
    <2>1. Locked(n) /\ n.lock.seq \notin past.back /\ r = AtBorrow(n, "late", f)
      BY <1>2, <1>5, <1>6 DEF Relocked
    <2> QED
      BY <1>5, <1>6, <2>1, BorrowComes DEF r
  <1>7. CASE ~(Relocked(t, n) /\ CanBorrow(n))
    <2>1. r = AtLate(n, f)
      BY <1>2, <1>7
    <2> QED
      BY <1>5, <2>1, LateComes DEF r
  <1> QED
    BY <1>6, <1>7

LEMMA ApplyComes ==
    ASSUME BackOK, NEW e, Rests(e), NEW f
    PROVE  LET r == AtApply(e, f) IN Comes(r.eng, r.at)
  <1>1. AtApply(e, f) \in {AtStep(e, f), Waits(e, "apply", f)}
    BY DEF AtApply
  <1> QED
    BY <1>1, StepComes, WaitsComes DEF Places

LEMMA CommandComes ==
    ASSUME BackOK, NEW e, Rests(e), NEW c, NEW f
    PROVE  LET r == AtCommand(e, c, f) IN Comes(r.eng, r.at)
  <1> DEFINE n == Applied(e, c)
             r == AtCommand(e, c, f)
  <1>1. Rests(n) /\ (Relocked(e, n) => n.lock.seq \notin past.back)
    BY AppliedRests
  <1>2. r = IF Relocked(e, n) /\ CanBorrow(n) THEN AtBorrow(n, "apply", f) ELSE AtApply(n, f)
    BY DEF AtCommand
  <1> HIDE DEF n, r
  <1>3. CASE Relocked(e, n) /\ CanBorrow(n)
    <2>1. Locked(n) /\ n.lock.seq \notin past.back /\ r = AtBorrow(n, "apply", f)
      BY <1>1, <1>2, <1>3 DEF Relocked
    <2> QED
      BY <1>1, <1>3, <2>1, BorrowComes DEF r
  <1>4. CASE ~(Relocked(e, n) /\ CanBorrow(n))
    <2>1. r = AtApply(n, f)
      BY <1>2, <1>4
    <2> QED
      BY <1>1, <2>1, ApplyComes DEF r
  <1> QED
    BY <1>3, <1>4

LEMMA ResumeComes ==
    ASSUME BackOK, NEW e, Rests(e), NEW ret \in Returns, NEW f
    PROVE  LET r == Resume(e, ret, f) IN Comes(r.eng, r.at)
  <1>1. \/ Resume(e, ret, f) = AtApply(e, f)
        \/ Resume(e, ret, f) = AtLate(e, f)
        \/ Resume(e, ret, f) = AtLock(e, f)
    BY DEF Resume, Returns
  <1> QED
    BY <1>1, ApplyComes, LateComes, LockComes

LEMMA ChangedComes ==
    ASSUME BackOK, NEW e, Rests(e)
    PROVE  LET r == Changed(e) IN Comes(r.eng, r.at)
  <1>1. CASE e.run.ready
    <2>1. Changed(e) = AtStep(e, FALSE)
      BY <1>1 DEF Changed
    <2> QED
      BY <2>1, StepComes
  <1>2. CASE ~e.run.ready
    <2>1. Changed(e).eng = e /\ Changed(e).at = Idle
      BY <1>2 DEF Changed
    <2> QED
      BY <2>1, IdleComes
  <1> QED
    BY <1>1, <1>2
-----------------------------------------------------------------------------
(* The handlers.                                                              *)

LoopInv ==
    /\ BackOK /\ Comes(eng, at)
    /\ file # None => BorrowOK(file) /\ Barred(file) /\ Owns(file)
    /\ past.back # {} \/ state # None => file # None
    /\ ~eng.run.ready => /\ eng.run.adopt <=> file = None
                         /\ file # None => eng.run.fileSeq = file.pol.seq

\* A step that writes nothing and gives nothing back.
Looping == UNCHANGED file /\ BackOK' /\ past'.back = past.back /\ Comes(eng', at')

LEMMA LoopingKeeps ==
    ASSUME Types, Filed, LoopInv, Advance, Looping
    PROVE  LoopInv'
  <1>1. Barred(eng)'
    BY DEF Looping, Comes, Fair, Barred, Locked
  <1>2. Fair(eng)' /\ Poised(at, eng)'
    BY <1>1 DEF Looping, Comes, Fair
  <1>3. at'.pc # "persist" => InFile(eng)'
    BY DEF Looping, Comes, InFile, Locked
  <1>4. Comes(eng, at)'
    BY <1>2, <1>3 DEF Looping, Comes, Locked
  <1>5. file' # None => BorrowOK(file') /\ Barred(file)' /\ Owns(file')
    BY DEF Looping, LoopInv, Barred, Locked
  <1>6. past'.back # {} \/ state' # None => file' # None
    <2>1. at.pc \in {"hold", "publish"} => file # None
      BY DEF Filed, LoopInv, Comes
    <2>2. state' = state \/ file # None
      BY <2>1 DEF Advance
    <2>3. file' = file /\ past'.back = past.back
      BY DEF Looping
    <2>4. past.back # {} \/ state # None => file # None
      BY DEF LoopInv
    <2> QED
      BY <2>2, <2>3, <2>4
  <1>7. ~eng'.run.ready => /\ eng'.run.adopt <=> file' = None
                           /\ file' # None => eng'.run.fileSeq = file'.pol.seq
    BY DEF Looping, LoopInv, Advance
  <1> QED
    BY <1>4, <1>5, <1>6, <1>7 DEF LoopInv, Looping

LEMMA RecallBack ==
    ASSUME BackOK, NEW e
    PROVE  "back" \in DOMAIN Recall(e) /\ Recall(e).back = past.back
  BY DEF Recall, BackOK

LEMMA BecomesLoops ==
    ASSUME BackOK, UNCHANGED file, NEW r, Becomes(r), Comes(r.eng, r.at),
           "back" \in DOMAIN past', past'.back = past.back
    PROVE  Looping
  BY DEF Becomes, Looping, BackOK

LEMMA RunsLoops ==
    ASSUME BackOK, UNCHANGED file, NEW r, Runs(r), Comes(r.eng, r.at)
    PROVE  Looping
  BY BecomesLoops, RecallBack DEF Runs

LEMMA EngRests ==
    ASSUME LoopInv, at.pc # "persist"
    PROVE  Rests(eng) /\ Sound(eng) /\ "borrowSeq" \in DOMAIN eng
  BY DEF LoopInv, Comes, Rests, Fair, Owns

LEMMA MessagesLoop ==
    ASSUME Types, LoopInv,
           \/ PowerSeqStatus \/ PowerSeqState \/ RotatorStatus \/ RotatorState \/ AntCtrlState
           \/ AntSwitchState \/ RadioState \/ PowerState \/ WindResult \/ NinaFails
    PROVE  Looping
  <1>1. PICK x : Takes(x) /\ Alike(x) /\ Lent(eng, x)
    BY MessagesAlike
  <1>2. at.pc = "idle" /\ Becomes(Changed(x)) /\ UNCHANGED file
    BY <1>1 DEF Takes
  <1>3. Beside(eng, x)
    BY <1>1 DEF Alike, Kept, Beside
  <1>4. Rests(x)
    BY <1>2, <1>3, EngRests, BesideRests
  <1>5. "back" \in DOMAIN past' /\ past'.back = past.back
    BY <1>1, TakesRecalls, RecallBack DEF LoopInv
  <1> QED
    BY <1>2, <1>4, <1>5, ChangedComes, BecomesLoops DEF LoopInv

LEMMA TickLoops == ASSUME Types, LoopInv, Tick PROVE Looping
  <1>1. PICK w \in SUBSET Running, a \in SUBSET eng.see.listed :
           LET r == Changed(Pass(eng, w, a))
           IN /\ Becomes(r)
              /\ past' = [Recall(r.eng) EXCEPT !.beat = IF Beats /\ w = Running THEN ~@ ELSE @]
    BY DEF Tick
  <1> DEFINE x == Pass(eng, w, a)
             r == Changed(x)
  <1>2. at.pc = "idle" /\ UNCHANGED file
    BY DEF Tick
  <1>3. Beside(eng, x)
    <2>1. Sound(x) /\ x.pol = eng.pol /\ x.lock = eng.lock
      BY DEF Pass, Types, Sound, LockOK, Locked
    <2>2. Lent(eng, x)
      BY DEF Pass, Types, Sound, Lent
    <2> QED
      BY <2>1, <2>2 DEF Beside, Stays
  <1>4. Becomes(r) /\ past' = [Recall(r.eng) EXCEPT !.beat = IF Beats /\ w = Running THEN ~@ ELSE @]
    BY <1>1
  <1> HIDE DEF x
  <1>5. Rests(x)
    BY <1>2, <1>3, EngRests, BesideRests
  <1>6. Comes(r.eng, r.at)
    BY <1>5, ChangedComes DEF LoopInv
  <1> HIDE DEF r
  <1>7. "back" \in DOMAIN past' /\ past'.back = past.back
    BY <1>4, RecallBack DEF LoopInv
  <1> QED
    BY <1>2, <1>4, <1>6, <1>7, BecomesLoops DEF LoopInv

LEMMA ReadyLoops == ASSUME Types, LoopInv, BecomeReady PROVE Looping
  <1> DEFINE x == [eng EXCEPT !.run.ready = TRUE, !.run.adopt = FALSE, !.run.fileSeq = 0,
                              !.over.phase = FALSE, !.over.borrow = @ /\ ~eng.borrow.open]
  <1>1. Runs(AtApply(x, TRUE)) /\ at.pc = "idle" /\ UNCHANGED file
    BY DEF BecomeReady
  <1>2. Sound(x) /\ x.pol = eng.pol
    BY ReadyOK
  <1>3. Beside(eng, x)
    <2>1. x.lock = eng.lock /\ Lent(eng, x)
      BY DEF Types, Sound, Lent
    <2> QED
      BY <1>2, <2>1 DEF Beside, Stays
  <1> HIDE DEF x
  <1>4. Rests(x)
    BY <1>1, <1>3, EngRests, BesideRests
  <1> QED
    BY <1>1, <1>4, ApplyComes, RunsLoops DEF LoopInv

LEMMA CmdLoops == ASSUME Types, LoopInv, NEW o, Cmd(o) PROVE Looping
  <1> DEFINE q == eng.run.queue
             x == [eng EXCEPT !.run.queue =
                      IF Len(q) < QueueCap THEN Append(q, cmd.what) ELSE q]
             r == IF eng.run.ready THEN AtCommand(eng, cmd.what, FALSE)
                  ELSE [at |-> Idle, eng |-> x]
             over == eng.run.ready /\ cmd.what = "normal" /\ Locked(eng)
  <1>1. /\ Becomes(r) /\ at.pc = "idle" /\ UNCHANGED file
        /\ past' = [Recall(r.eng) EXCEPT !.overruled = IF over THEN eng.see.active ELSE @]
    BY DEF Cmd
  <1>2. Beside(eng, x)
    BY DEF Types, Sound, LockOK, Locked, Beside, Stays, Lent
  <1>3. Rests(eng) /\ Rests(x)
    BY <1>1, <1>2, EngRests, BesideRests
  <1>4. Comes(r.eng, r.at)
    <2>1. CASE eng.run.ready
      <3>1. r = AtCommand(eng, cmd.what, FALSE)
        BY <2>1
      <3> HIDE DEF r
      <3> QED
        BY <1>3, <3>1, CommandComes DEF LoopInv
    <2>2. CASE ~eng.run.ready
      <3>1. r.eng = x /\ r.at = Idle
        BY <2>2
      <3> HIDE DEF x, r
      <3> QED
        BY <1>3, <3>1, IdleComes
    <2> QED
      BY <2>1, <2>2
  <1> HIDE DEF r, over
  <1>5. "back" \in DOMAIN past' /\ past'.back = past.back
    BY <1>1, RecallBack DEF LoopInv
  <1> QED
    BY <1>1, <1>4, <1>5, BecomesLoops DEF LoopInv

LEMMA NinaLoops == ASSUME Types, LoopInv, NinaResult PROVE Looping
  <1>0. PICK ws \in SUBSET Warnings : \E a \in SUBSET ws :
           LET e == [eng EXCEPT !.see.listed = ws, !.see.active = a]
               n == IF e.run.ready THEN Decide(e, Poll(e.pol, a)) ELSE e
               r == IF e.run.ready THEN AtStep(n, FALSE) ELSE [eng |-> n, at |-> Idle]
           IN /\ at.pc = "idle" /\ Becomes(r)
              /\ past' = [Recall(r.eng) EXCEPT
                            !.overruled = IF e.run.ready THEN @ \cap a ELSE @,
                            !.calm = IF ~e.run.ready THEN @ ELSE IF a # {} THEN 0
                                     ELSE IF past.near /\ @ < ExitAfter THEN @ + 1 ELSE @,
                            !.near = e.run.ready /\ a = {}]
              /\ UNCHANGED <<file, state, sent, cmd, power, net>>
    BY DEF NinaResult
  <1>1. PICK a \in SUBSET ws :
           LET e == [eng EXCEPT !.see.listed = ws, !.see.active = a]
               n == IF e.run.ready THEN Decide(e, Poll(e.pol, a)) ELSE e
               r == IF e.run.ready THEN AtStep(n, FALSE) ELSE [eng |-> n, at |-> Idle]
           IN /\ at.pc = "idle" /\ Becomes(r)
              /\ past' = [Recall(r.eng) EXCEPT
                            !.overruled = IF e.run.ready THEN @ \cap a ELSE @,
                            !.calm = IF ~e.run.ready THEN @ ELSE IF a # {} THEN 0
                                     ELSE IF past.near /\ @ < ExitAfter THEN @ + 1 ELSE @,
                            !.near = e.run.ready /\ a = {}]
              /\ UNCHANGED <<file, state, sent, cmd, power, net>>
    BY <1>0
  <1> DEFINE e == [eng EXCEPT !.see.listed = ws, !.see.active = a]
             n == IF e.run.ready THEN Decide(e, Poll(e.pol, a)) ELSE e
             r == IF e.run.ready THEN AtStep(n, FALSE) ELSE [eng |-> n, at |-> Idle]
  <1>2. Beside(eng, e)
    <2> DEFINE d == [eng EXCEPT !.see.listed = ws]
    <2>1. Sound(d) /\ d.pol = eng.pol /\ d.lock = eng.lock /\ Lent(eng, d)
      BY DEF Types, Sound, LockOK, Locked, Lent
    <2>2. e = [d EXCEPT !.see.active = a]
      BY DEF Types, Sound
    <2> HIDE DEF d, e
    <2>3. Sound(e) /\ e.pol = d.pol /\ e.lock = d.lock /\ Lent(d, e)
      BY <2>1, <2>2 DEF Sound, LockOK, Locked, Lent
    <2> QED
      BY <2>1, <2>3, LentTwice DEF Beside, Stays
  <1>3. /\ Becomes(r) /\ at.pc = "idle" /\ UNCHANGED file
        /\ "back" \in DOMAIN past' /\ past'.back = past.back
    <2>1. /\ Becomes(r) /\ at.pc = "idle" /\ UNCHANGED file
          /\ past' = [Recall(r.eng) EXCEPT
                        !.overruled = IF e.run.ready THEN @ \cap a ELSE @,
                        !.calm = IF ~e.run.ready THEN @ ELSE IF a # {} THEN 0
                                 ELSE IF past.near /\ @ < ExitAfter THEN @ + 1 ELSE @,
                        !.near = e.run.ready /\ a = {}]
      BY <1>1
    <2> HIDE DEF r, e
    <2> QED
      BY <2>1, RecallBack DEF LoopInv
  <1> HIDE DEF e
  <1>4. Rests(e)
    BY <1>2, <1>3, EngRests, BesideRests
  <1>5. Rests(n)
    <2>1. CASE e.run.ready
      <3> DEFINE p == Poll(e.pol, a)
      <3>1. p \in Policies /\ (Stays(e.pol, p) \/ Frees(e.pol, p))
        BY <1>2, PollOK DEF Beside, Sound
      <3>2. n = Decide(e, p)
        BY <2>1
      <3> HIDE DEF p, n
      <3> QED
        BY <1>4, <3>1, <3>2, DecideRests DEF LoopInv
    <2>2. CASE ~e.run.ready
      BY <1>4, <2>2
    <2> QED
      BY <2>1, <2>2
  <1>6. CASE e.run.ready
    <2>1. r = AtStep(n, FALSE)
      BY <1>6
    <2> HIDE DEF n, r
    <2>2. Comes(r.eng, r.at)
      BY <1>5, <2>1, StepComes DEF LoopInv
    <2> QED
      BY <1>3, <2>2, BecomesLoops DEF LoopInv
  <1>7. CASE ~e.run.ready
    <2>1. r.eng = n /\ r.at = Idle
      BY <1>7
    <2> HIDE DEF n, r
    <2>2. Comes(r.eng, r.at)
      BY <1>5, <2>1, IdleComes
    <2> QED
      BY <1>3, <2>2, BecomesLoops DEF LoopInv
  <1> QED
    BY <1>6, <1>7

LEMMA ApplyLoops == ASSUME Types, LoopInv, Apply PROVE Looping
  <1> DEFINE x == [eng EXCEPT !.run.queue = Tail(@)]
             r == AtCommand(x, Head(eng.run.queue), at.force)
  <1>1. at.pc = "apply" /\ Runs(r) /\ UNCHANGED file
    BY DEF Apply
  <1>2. Beside(eng, x)
    BY DEF Types, Sound, LockOK, Locked, Beside, Stays, Lent
  <1> HIDE DEF x
  <1>3. Rests(x)
    BY <1>1, <1>2, EngRests, BesideRests
  <1>4. Comes(r.eng, r.at)
    BY <1>3, CommandComes DEF LoopInv
  <1> HIDE DEF r
  <1> QED
    BY <1>1, <1>4, RunsLoops DEF LoopInv

LEMMA LinkLoops ==
    ASSUME Types, LoopInv,
           \/ OperatorSends \/ LinkDown \/ Lost \/ Opened \/ Republish
           \/ \E o : Hold(o) \/ Publish(o)
    PROVE  Looping
  <1>1. CASE Republish
    <2>1. at.pc = "idle" /\ Runs(AtPublish(eng, TRUE)) /\ UNCHANGED file
      BY <1>1 DEF Republish
    <2> QED
      BY <2>1, EngRests, PublishComes, RunsLoops DEF LoopInv
  <1>2. CASE ~Republish
    <2>1. past' = past /\ file' = file
      BY <1>2 DEF OperatorSends, LinkDown, Lost, Opened, Hold, Publish
    <2>2. eng' = eng \/ \E up : eng' = [eng EXCEPT !.run.connected = up]
      BY <1>2 DEF OperatorSends, LinkDown, Lost, Opened, Hold, Publish
    <2>3. Beside(eng, eng')
      BY <2>2 DEF Types, Sound, LockOK, Locked, Beside, Stays, Lent
    <2>4. at' = at \/ (at.pc = "hold" /\ at' = [at EXCEPT !.pc = "on"])
          \/ (at.pc = "publish" /\ at' = Idle)
      BY <1>2 DEF OperatorSends, LinkDown, Lost, Opened, Hold, Publish
    <2>5. \/ at'.pc = at.pc
          \/ (at.pc = "hold" /\ at'.pc = "on") \/ (at.pc = "publish" /\ at'.pc = "idle")
      <3>1. /\ at.pc = "hold" /\ at' = [at EXCEPT !.pc = "on"] => at'.pc = "on"
            /\ at' = Idle => at'.pc = "idle"
        BY IdleOK DEF Types, AtOK
      <3> QED
        BY <2>4, <3>1
    <2>6. /\ Fair(eng) /\ Poised(at, eng) /\ "borrowSeq" \in DOMAIN eng
          /\ at.pc # "persist" => Rests(eng)
          /\ at.pc = "hold" => file # None
          /\ at.pc = "restore" /\ Locked(eng) => eng.phase \in {"parked", "failed"} /\ eng.borrow.open
      BY DEF LoopInv, Comes, Rests, Fair, Owns
    <2>7. Fair(eng') /\ (at.pc # "persist" => Rests(eng'))
      BY <2>3, <2>6, BesideRests
    <2>8. Poised(at', eng')
      BY <2>3, <2>5, <2>6 DEF Poised, Firm, Beside, Stays, Lent, Locked
    <2>9. at'.pc = "restore" /\ Locked(eng') =>
            eng'.phase \in {"parked", "failed"} /\ eng'.borrow.open
      BY <2>3, <2>5, <2>6 DEF Beside, Stays, Lent, Locked
    <2>10. Comes(eng', at')
      BY <2>5, <2>6, <2>7, <2>8, <2>9 DEF Comes, Rests
    <2> QED
      BY <2>1, <2>10 DEF Looping, LoopInv, BackOK
  <1> QED
    BY <1>1, <1>2

LEMMA PowerOnLoops == ASSUME Types, LoopInv, NEW o, PowerOn(o) PROVE Looping
  <1> DEFINE x == [eng EXCEPT !.borrow.sent = @ \/ o = "ok"]
             r == IF at.pc = "on" THEN Resume(x, at.ret, at.force)
                  ELSE AtReturn(StepLock(x), at.force)
  <1>1. /\ at.pc \in {"on", "resend"} /\ Becomes(r)
        /\ past' = [Recall(r.eng) EXCEPT !.yielded = @ /\ ~Delivered(o)]
        /\ UNCHANGED file
    BY DEF PowerOn
  <1>2. at.pc = "on" => at.ret \in Returns
    BY DEF Types, AtOK
  <1>3. Locked(eng) /\ eng.phase = "awaiting_power"
    BY <1>1 DEF LoopInv, Comes, Poised, Firm
  <1>4. Rests(x) /\ Locked(x)
    <2>1. /\ Sound(x) /\ x.pol = eng.pol /\ x.lock = eng.lock /\ x.phase = eng.phase
      BY DEF Types, Sound, LockOK, Locked
    <2>2. x.borrow = [eng.borrow EXCEPT !.sent = @ \/ o = "ok"]
      BY DEF Types, Sound
    <2>3. "borrowSeq" \in DOMAIN x /\ x.borrowSeq = eng.borrowSeq
      BY <1>1, EngRests
    <2> HIDE DEF x
    <2>4. /\ {"open", "from", "sent", "restore", "taken"} \subseteq DOMAIN x.borrow
          /\ x.borrow.open = eng.borrow.open /\ x.borrow.restore = eng.borrow.restore
      BY <2>2 DEF LoopInv, Comes, Fair, BorrowOK
    <2>5. BorrowOK(x) /\ Owns(x) /\ Barred(x) /\ InFile(x)
      BY <1>1, <2>1, <2>3, <2>4 DEF LoopInv, Comes, Fair, BorrowOK, Owns, Barred, InFile, Locked
    <2> QED
      BY <1>3, <2>1, <2>5 DEF Rests, Fair, Locked
  <1> HIDE DEF x
  <1>5. Comes(r.eng, r.at)
    <2>1. CASE at.pc = "on"
      <3>1. r = Resume(x, at.ret, at.force)
        BY <2>1
      <3> HIDE DEF r
      <3> QED
        BY <1>2, <1>4, <2>1, <3>1, ResumeComes DEF LoopInv
    <2>2. CASE at.pc # "on"
      <3>1. r = AtReturn(StepLock(x), at.force)
        BY <2>2
      <3> HIDE DEF r
      <3> QED
        BY <1>4, <3>1, SteppedComes
    <2> QED
      BY <2>1, <2>2
  <1> HIDE DEF r
  <1>6. "back" \in DOMAIN past' /\ past'.back = past.back
    BY <1>1, RecallBack DEF LoopInv
  <1> QED
    BY <1>1, <1>5, <1>6, BecomesLoops DEF LoopInv

\* What goes to the file.

LEMMA SnapshotFair ==
    ASSUME NEW e, Fair(e)
    PROVE  LET f == Snapshot(e)
           IN /\ f # None /\ BorrowOK(f) /\ Barred(f) /\ Owns(f)
              /\ f.phase = e.phase /\ f.lock = e.lock /\ f.borrowSeq = e.borrowSeq
              /\ f.pol.mode = e.pol.mode /\ f.pol.seq = e.pol.seq
  <1> DEFINE f == Snapshot(e)
  <1>1. /\ f # None /\ BorrowOK(f) /\ f.borrow = e.borrow /\ f.lock = e.lock
        /\ f.pol.mode = e.pol.mode /\ f.pol.seq = e.pol.seq
    BY SnapshotOK, SnapshotBorrow DEF Fair
  <1>2. "borrowSeq" \in DOMAIN f /\ f.phase = e.phase /\ f.borrowSeq = e.borrowSeq
    BY DEF Snapshot
  <1> HIDE DEF f
  <1>3. Barred(f)
    BY <1>1, <1>2 DEF Fair, Barred, Locked
  <1>4. Owns(f)
    BY <1>1, <1>2 DEF Fair, Owns, Locked
  <1> QED
    BY <1>1, <1>2, <1>3, <1>4 DEF f

\* A write that succeeds, in a handler that has not yet told of it.
LEMMA WrittenLoops ==
    ASSUME Types, LoopInv, file' = Snapshot(eng), BackOK', past'.back = past.back,
           Beside(eng, eng'), eng'.run.ready, Poised(at', eng'), at'.pc # "restore"
    PROVE  LoopInv'
  <1>1. Fair(eng) /\ "borrowSeq" \in DOMAIN eng
    BY DEF LoopInv, Comes, Fair, Owns
  <1>2. /\ file' # None /\ BorrowOK(file') /\ Barred(file') /\ Owns(file')
        /\ file'.phase = eng.phase /\ file'.lock = eng.lock /\ file'.borrowSeq = eng.borrowSeq
        /\ file'.pol.mode = eng.pol.mode
    BY <1>1, SnapshotFair
  <1>3. Fair(eng')
    BY <1>1, BesideRests
  <1>4. Barred(eng)' /\ Barred(file)'
    BY <1>2, <1>3 DEF Fair, Barred, Locked
  <1>5. Fair(eng)'
    BY <1>3, <1>4 DEF Fair
  <1>6. InFile(eng)'
    BY <1>1, <1>2 DEF InFile, Beside, Lent, Stays, Locked
  <1>7. Comes(eng, at)'
    BY <1>2, <1>5, <1>6 DEF Comes
  <1> QED
    BY <1>2, <1>4, <1>7 DEF LoopInv

LEMMA SaveLoops == ASSUME Types, LoopInv, Save(TRUE) PROVE LoopInv'
  <1> DEFINE x == [eng EXCEPT !.run.saved = FALSE, !.over.borrow = FALSE]
             a == [at EXCEPT !.pc = IF Publishes(x, FALSE) THEN "hold" ELSE "on"]
  <1>1. /\ at.pc = "save" /\ file' = Snapshot(eng)
        /\ Becomes([eng |-> x, at |-> a]) /\ past' = Recall(eng')
    BY DEF Save, Runs, Becomes
  <1>2. eng' = x /\ at' = a
    BY <1>1 DEF Becomes
  <1>3. a.pc \in {"hold", "on"}
    BY DEF Types, AtOK
  <1>4. Beside(eng, x) /\ x.run.ready = eng.run.ready
    BY DEF Types, Sound, LockOK, Locked, Beside, Stays, Lent
  <1> HIDE DEF x, a
  <1>5. BackOK' /\ past'.back = past.back
    BY <1>1, RecallBack DEF LoopInv, BackOK
  <1>6. Firm(eng)
    BY <1>1 DEF LoopInv, Comes, Poised
  <1>7. Poised(a, x)
    BY <1>3, <1>4, <1>6 DEF Poised, Firm, Beside, Lent, Stays, Locked
  <1>8. eng'.run.ready
    BY <1>1, <1>2, <1>4 DEF Types
  <1> QED
    BY <1>1, <1>2, <1>3, <1>4, <1>5, <1>7, <1>8, WrittenLoops

LEMMA PersistLoops == ASSUME Types, LoopInv, Persist(TRUE) PROVE LoopInv'
  <1> DEFINE x == [eng EXCEPT !.run.saved = @ \/ TRUE]
             r == AtPublish(x, at.force)
  <1>1. at.pc = "persist" /\ file' = Snapshot(eng) /\ Runs(r)
    BY DEF Persist
  <1>2. Beside(eng, x) /\ x.run.ready = eng.run.ready
    BY DEF Types, Sound, LockOK, Locked, Beside, Stays, Lent
  <1> HIDE DEF x
  <1>3. Fair(eng) /\ "borrowSeq" \in DOMAIN eng
    BY DEF LoopInv, Comes, Fair, Owns
  <1>4. BorrowOK(x)
    BY <1>2, <1>3, BesideRests DEF Fair
  <1>5. Lends(x, r) /\ r.eng = x /\ r.at.pc \in {"idle", "publish"}
    BY <1>4, PublishLends
  <1> HIDE DEF r
  <1>6. eng' = x /\ at' = r.at /\ past' = Recall(x)
    BY <1>1, <1>5 DEF Runs, Becomes
  <1>7. BackOK' /\ past'.back = past.back
    BY <1>6, RecallBack DEF LoopInv, BackOK
  <1>8. eng'.run.ready
    BY <1>1, <1>2, <1>6 DEF Types
  <1> QED
    BY <1>1, <1>2, <1>5, <1>6, <1>7, <1>8, WrittenLoops DEF Lends

\* The power of a lock goes back: it is late, and the file says so.
LEMMA RestoreLoops == ASSUME Types, LoopInv, NEW o, Restore(o) PROVE LoopInv'
  <1> DEFINE x == IF o = "ok" THEN Return(eng) ELSE eng
             r == AtPersist(x, at.force)
             s == eng.lock.seq
             back == IF Locked(eng) /\ Delivered(o) THEN past.back \cup {s} ELSE past.back
  <1>1. /\ at.pc = "restore" /\ Becomes(r) /\ UNCHANGED <<file, state>>
        /\ past' = [Recall(r.eng) EXCEPT !.back =
                      IF Locked(eng) /\ Delivered(o) THEN @ \cup {eng.lock.seq} ELSE @]
    BY DEF Restore
  <1>2. Rests(eng) /\ (Locked(eng) => eng.phase \in {"parked", "failed"} /\ eng.borrow.open)
    BY <1>1, EngRests DEF LoopInv, Comes
  <1>3. /\ Fair(x) /\ x.pol = eng.pol /\ x.lock = eng.lock
        /\ x.borrowSeq = eng.borrowSeq /\ x.phase = eng.phase /\ x.run = eng.run
    <2>1. Fair(eng) /\ Fair(Return(eng))
      BY <1>2, WatchFair DEF Rests
    <2>2. LET v == Return(eng)
          IN /\ v.pol = eng.pol /\ v.lock = eng.lock /\ v.run = eng.run
             /\ v.borrowSeq = eng.borrowSeq /\ v.phase = eng.phase
      BY <2>1 DEF Return, Fair, Owns, Sound
    <2> QED
      BY <2>1, <2>2
  <1> HIDE DEF x
  <1>4. Lends(x, r) /\ r.eng = x /\ r.at.pc \in {"idle", "publish", "persist"}
    BY <1>3, PersistLends DEF Fair
  <1>5. Comes(x, r.at)
    BY <1>3, <1>4, PersistComes
  <1>6. "back" \in DOMAIN past' /\ past'.back = back
    BY <1>1, RecallBack DEF LoopInv
  <1> HIDE DEF r
  <1>7. eng' = x /\ at' = r.at
    BY <1>1, <1>4 DEF Becomes
  <1>8. s \in Nat /\ eng.pol.seq \in Nat /\ s <= eng.pol.seq
    BY Bounds DEF Types, Sound, LockOK, Policies
  <1>9. BackOK'
    BY <1>6, <1>8 DEF LoopInv, BackOK
  <1>10. Barred(eng)'
    <2>1. Locked(eng) => eng.borrowSeq = s /\ eng.phase \in LatePhases
      BY <1>2 DEF Rests, Fair, Owns, LatePhases
    <2>2. Barred(x)
      BY <1>3 DEF Fair
    <2> QED
      BY <1>3, <1>6, <1>7, <1>8, <2>1, <2>2 DEF Barred, Locked
  <1>11. file # None => Barred(file)'
    <2> SUFFICES ASSUME file # None PROVE Barred(file)'
      OBVIOUS
    <2>1. Barred(file)
      BY DEF LoopInv
    <2>2. file' = file
      BY <1>1
    <2>3. CASE Locked(eng)
      <3>1. /\ Locked(file) /\ file.lock.seq = s /\ file.phase \in LatePhases
            /\ file.borrowSeq = s
        BY <1>2, <2>3 DEF Rests, InFile, Fair, Owns, LatePhases
      <3>2. s <= file.pol.seq
        BY <3>1, Bounds DEF Types, FileOK, LockOK, Policies
      <3> QED
        BY <1>6, <2>1, <2>2, <3>1, <3>2 DEF Barred, Locked
    <2>4. CASE ~Locked(eng)
      BY <1>6, <2>1, <2>2, <2>4 DEF Barred, Locked
    <2> QED
      BY <2>3, <2>4
  <1>12. Comes(eng, at)'
    <2>1. Fair(eng)'
      BY <1>3, <1>7, <1>10 DEF Fair, Barred, Locked
    <2>2. at'.pc # "persist" => InFile(eng)'
      BY <1>1, <1>5, <1>7 DEF Comes, InFile, Locked
    <2> QED
      BY <1>4, <1>5, <1>7, <2>1, <2>2 DEF Comes
  <1>13. past'.back # {} => file' # None
    BY <1>1, <1>2, <1>6 DEF LoopInv, Rests, InFile, LatePhases
  <1>14. eng'.run.ready
    BY <1>1, <1>3, <1>7 DEF Types
  <1> QED
    BY <1>1, <1>9, <1>11, <1>12, <1>13, <1>14 DEF LoopInv, BorrowOK, Owns, Locked

\* Own /state never has a lock that the file has not: only its seq is taken over.
LEMMA OwnStateLoops == ASSUME Types, GrowInv, LoopInv, OwnState PROVE LoopInv'
  <1>1. /\ at.pc = "idle" /\ UNCHANGED <<at, file, state, past>> /\ ~eng.run.ready
        /\ eng' = IF state = None THEN eng ELSE Adopt(eng, state)
    BY DEF OwnState, Types
  <1>2. Rests(eng)
    BY <1>1, EngRests
  <1>3. /\ Rests(eng') /\ eng'.run = eng.run
    <2>1. CASE state = None
      BY <1>1, <1>2, <2>1
    <2>2. CASE state # None
      <3> DEFINE seq == IF state.seq > eng.pol.seq THEN state.seq ELSE eng.pol.seq
                 p == [eng.pol EXCEPT !.seq = seq]
                 n == [eng EXCEPT !.pol = p]
      <3>1. file # None /\ ~eng.run.adopt /\ eng.run.fileSeq = file.pol.seq
        BY <1>1, <2>2 DEF LoopInv
      <3>2. state.mode = "normal" \/ state.lock.seq <= file.pol.seq
        <4>1. Grows(Published, Shown(file))
          BY <3>1 DEF GrowInv
        <4>2. file.lock.seq <= file.pol.seq /\ file.lock.seq \in Nat /\ file.pol.seq \in Nat
          BY <3>1, Bounds DEF Types, FileOK, LockOK, Policies
        <4>3. state.lock.seq \in Nat
          BY <2>2, Bounds DEF Types, StateOK, LockOK
        <4> QED
          BY <2>2, <4>1, <4>2, <4>3 DEF Grows, Published, Shown
      <3>3. eng' = n
        BY <1>1, <2>2, <3>1, <3>2 DEF Adopt, Types, Sound, Policies
      <3>4. Sound(eng')
        BY <1>1, <2>2, AdoptOK DEF Types, Same
      <3>5. seq \in Nat /\ eng.pol.seq \in Nat /\ eng.pol.seq <= seq
        BY <2>2, Bounds DEF Types, Sound, StateOK, Policies
      <3> HIDE DEF seq
      <3>6. p.mode = eng.pol.mode /\ p.seq = seq
        BY DEF Types, Sound, Policies
      <3> HIDE DEF p
      <3>7. /\ n.pol = p /\ n.lock = eng.lock /\ n.phase = eng.phase /\ n.borrow = eng.borrow
            /\ n.run = eng.run /\ "borrowSeq" \in DOMAIN n /\ n.borrowSeq = eng.borrowSeq
        BY <1>2 DEF Rests, Fair, Owns, Sound
      <3> HIDE DEF n
      <3>8. BorrowOK(n) /\ Owns(n) /\ InFile(n)
        BY <1>2, <3>6, <3>7 DEF Rests, Fair, BorrowOK, Owns, InFile, Locked
      <3>9. Barred(n)
        BY <1>2, <3>5, <3>6, <3>7 DEF Rests, Fair, Barred, Locked, LoopInv, BackOK
      <3> QED
        BY <3>3, <3>4, <3>7, <3>8, <3>9 DEF Rests, Fair
    <2> QED
      BY <2>1, <2>2
  <1>4. Poised(at, eng')
    BY <1>1 DEF Poised
  <1>5. Comes(eng', at)
    BY <1>1, <1>3, <1>4 DEF Comes, Rests
  <1> QED
    BY <1>1, <1>3, <1>5
    DEF LoopInv, Comes, Fair, BackOK, BorrowOK, Barred, Owns, InFile, Locked

\* A restart goes on with the lock of the file, and what it has borrowed.
LEMMA NewRests ==
    ASSUME NEW n \in 0..MaxSeq, FileOK(file),
           file # None => BorrowOK(file) /\ Barred(file) /\ Owns(file),
           past.back # {} => file # None
    PROVE  Rests(New(file, n))
  <1> DEFINE f == file
             e == [pol |-> IF f = None THEN NewPolicy(n) ELSE f.pol,
              lock |-> IF f = None THEN NoLock ELSE f.lock,
              phase |-> IF f = None THEN "idle" ELSE f.phase,
              borrow |-> IF f = None THEN NoBorrow ELSE f.borrow,
              borrowSeq |-> IF f = None THEN 0 ELSE f.borrowSeq,
              aim |-> [base |-> IF f = None THEN NoAz ELSE f.base, seen |-> FALSE],
              over |-> [phase |-> TRUE, borrow |-> TRUE, quiet |-> TRUE],
              crew |-> [manned |-> FALSE, dwell |-> FALSE, lost |-> "no"],
              see |-> Blind,
              run |-> [ready |-> FALSE, connected |-> FALSE, saved |-> FALSE,
                       adopt |-> f = None,
                       fileSeq |-> IF f = None THEN 0 ELSE f.pol.seq, queue |-> <<>>]]
             m == New(f, n)
  <1>1. m = IF f = None THEN e ELSE Normalize(e)
    BY DEF New
  <1>2. /\ {"pol", "phase", "borrow", "borrowSeq", "lock", "over"} \subseteq DOMAIN e
        /\ f # None => /\ e.pol = f.pol /\ e.lock = f.lock /\ e.phase = f.phase
                       /\ e.borrow = f.borrow /\ e.borrowSeq = f.borrowSeq
    OBVIOUS
  <1>3. /\ Sound(m) /\ BorrowOK(m)
        /\ f = None => m.pol.mode = "normal"
        /\ f # None => m.pol = f.pol /\ (Locked(m) => m.lock = f.lock)
    BY NewOK, NewBorrow
  <1> HIDE DEF e, m
  <1>4. "borrowSeq" \in DOMAIN m
    BY <1>1, <1>2 DEF Normalize
  <1>5. f # None /\ Locked(m) =>
           /\ m.borrow = f.borrow /\ m.borrowSeq = f.borrowSeq
           /\ m.phase = IF f.phase = "idle" THEN "grounding" ELSE f.phase
    <2> SUFFICES ASSUME f # None, Locked(m)
                 PROVE  /\ m.borrow = f.borrow /\ m.borrowSeq = f.borrowSeq
                        /\ m.phase = IF f.phase = "idle" THEN "grounding" ELSE f.phase
      OBVIOUS
    <2>1. Locked(e)
      BY <1>2, <1>3 DEF Locked
    <2>2. m = [e EXCEPT !.phase = IF @ = "idle" THEN "grounding" ELSE @,
                        !.over.borrow = @ /\ ~e.borrow.open]
      BY <1>1, <2>1 DEF Normalize
    <2> QED
      BY <1>2, <2>2
  <1>6. Owns(m)
    BY <1>3, <1>4, <1>5 DEF Owns, Locked
  <1>7. Barred(m)
    BY <1>3, <1>5 DEF Barred, Locked, LatePhases
  <1>8. InFile(m)
    BY <1>3, <1>5 DEF InFile, Locked, LatePhases
  <1> QED
    BY <1>3, <1>6, <1>7, <1>8 DEF Rests, Fair, m

LEMMA CrashLoops == ASSUME ~LosesFile, Types, LoopInv, Crash PROVE LoopInv'
  <1>1. /\ file' = file /\ eng' = New(file, used) /\ at' = Idle /\ UNCHANGED state
    BY DEF Crash
  <1>2. "back" \in DOMAIN past' /\ past'.back = past.back
    BY DEF Crash, LoopInv, BackOK
  <1>3. Rests(eng')
    BY <1>1, NewRests DEF LoopInv, Types, Drawn
  <1>4. /\ ~eng'.run.ready
        /\ eng'.run.adopt <=> file' = None
        /\ file' # None => eng'.run.fileSeq = file'.pol.seq
    BY <1>1, NewOK DEF Types, Drawn
  <1>5. Comes(eng', at')
    BY <1>1, <1>3, IdleComes
  <1>6. BackOK'
    BY <1>2 DEF LoopInv, BackOK
  <1> QED
    BY <1>1, <1>2, <1>4, <1>5, <1>6
    DEF LoopInv, Comes, Fair, BorrowOK, Barred, Owns, InFile, Locked

LEMMA LoopInit == Init => LoopInv
  <1> SUFFICES ASSUME Init PROVE LoopInv
    OBVIOUS
  <1>1. /\ file = None /\ state = None /\ eng = New(file, 0) /\ at = Idle
        /\ "back" \in DOMAIN past /\ past.back = {}
    BY DEF Init, NoPast
  <1>2. Rests(eng)
    BY <1>1, NewRests, Bounds DEF FileOK
  <1>3. Comes(eng, at)
    BY <1>1, <1>2, IdleComes
  <1>4. eng.run.adopt
    BY <1>1, NewOK, Bounds DEF FileOK
  <1> QED
    BY <1>1, <1>3, <1>4 DEF LoopInv, BackOK

LEMMA LoopStep ==
    ~WriteFails /\ ~LosesFile /\ Types /\ GrowInv /\ LoopInv /\ [Next]_vars => LoopInv'
  <1> SUFFICES ASSUME ~WriteFails, ~LosesFile, Types, GrowInv, LoopInv, [Next]_vars
               PROVE  LoopInv'
    OBVIOUS
  <1>1. CASE UNCHANGED vars
    BY <1>1 DEF vars, world, LoopInv, Comes, Fair, Poised, Firm, BackOK, BorrowOK, Barred, Owns,
                InFile, Locked
  <1>2. CASE OwnState \/ Crash
    BY <1>2, OwnStateLoops, CrashLoops
  <1>3. CASE \E ok \in Writes : Save(ok) \/ Persist(ok)
    BY <1>3, SaveLoops, PersistLoops DEF Writes
  <1>4. CASE \E o : Restore(o)
    BY <1>4, RestoreLoops
  <1>5. CASE /\ Next /\ ~OwnState /\ ~Crash /\ ~(\E ok \in Writes : Save(ok) \/ Persist(ok))
             /\ ~\E o : Restore(o)
    <2>1. Advance
      BY <1>5, NextAdvances
    <2>2. Looping
      BY <1>5, ApplyLoops, PowerOnLoops, CmdLoops, LinkLoops, MessagesLoop, NinaLoops, TickLoops,
         ReadyLoops DEF Next
    <2> QED
      BY <2>1, <2>2, LoopingKeeps DEF GrowInv
  <1> QED
    BY <1>1, <1>2, <1>3, <1>4, <1>5

\* Nothing but PowerOn switches the power on.
LEMMA SwitchedOn ==
    ASSUME Next, power # "on", power' = "on"
    PROVE  at.pc \in {"on", "resend"}
  <1>1. CASE Apply \/ \E ok \in Writes : Save(ok) \/ Persist(ok)
    BY <1>1 DEF Apply, Save, Persist
  <1>2. CASE \E o \in {"ok", "late", "lost", "failed"} :
                Hold(o) \/ PowerOn(o) \/ Restore(o) \/ Publish(o) \/ Cmd(o)
    BY <1>2 DEF Hold, PowerOn, Restore, Publish, Cmd
  <1>3. CASE \/ PowerSeqStatus \/ PowerSeqState \/ RotatorStatus \/ RotatorState \/ AntCtrlState
             \/ AntSwitchState \/ RadioState \/ PowerState \/ WindResult \/ NinaFails
    BY <1>3 DEF PowerSeqStatus, PowerSeqState, RotatorStatus, RotatorState, AntCtrlState,
                AntSwitchState, RadioState, PowerState, WindResult, NinaFails, Receive, Handle
  <1>4. CASE NinaResult
    BY <1>4 DEF NinaResult
  <1>5. CASE Tick \/ BecomeReady
    BY <1>5 DEF Tick, BecomeReady
  <1>6. CASE OperatorSends \/ OwnState \/ LinkDown \/ Lost \/ Opened \/ Republish \/ Crash
    BY <1>6 DEF OperatorSends, OwnState, LinkDown, Lost, Opened, Republish, Crash
  <1> QED
    BY <1>1, <1>2, <1>3, <1>4, <1>5, <1>6 DEF Next

\* A lock borrows its power once.  Whatever drops, times out and crashes in between, power
\* that went back is not asked for again for the same seq, not even when a park failed with
\* it, as long as the file survives and takes every write: the file says that the lock is
\* past its retract, and what it has borrowed, before the power goes back
\* (startBorrowIfNeeded, step, stepBorrow, attachBorrow, persist, New).
THEOREM BorrowedOnce ==
    ASSUME ~WriteFails, ~LosesFile
    PROVE  Spec => NoBorrowLoop
  <1>1. LoopInv /\ [Next]_vars
        => [power # "on" /\ power' = "on" => eng.lock.seq \notin past.back]_vars
    <2> SUFFICES ASSUME LoopInv, Next, power # "on", power' = "on"
                 PROVE  eng.lock.seq \notin past.back
      OBVIOUS
    <2>1. Locked(eng) /\ eng.phase = "awaiting_power"
      BY SwitchedOn DEF LoopInv, Comes, Poised, Firm
    <2> QED
      BY <2>1 DEF LoopInv, Comes, Fair, Barred, LatePhases
  <1>2. ~WriteFails /\ ~LosesFile
    OBVIOUS
  <1> QED
    BY <1>1, <1>2, TypesInit, TypesStep, GrowInit, GrowStep, LoopInit, LoopStep, PTL
    DEF Spec, NoBorrowLoop
=============================================================================
