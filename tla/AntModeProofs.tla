---------------------------- MODULE AntModeProofs ---------------------------
(***************************************************************************)
(* The type invariant of antmode, that its lock is given up on purpose     *)
(* only, and that the bridges see it built up in order, for every set of   *)
(* inputs and every bound of seq.                                          *)
(***************************************************************************)
EXTENDS AntModeLock, TLAPS

LEMMA Bounds == ExitAfter \in Nat \ {0} /\ MaxSeq \in Nat /\ 0 \in 0..MaxSeq /\ 0 \in 0..ExitAfter
  BY PolicyAssumption
-----------------------------------------------------------------------------
(* The policy: a typed one stays typed, and it changes in one of four ways. *)

Stays(p, q) == q.mode = p.mode /\ q.source = p.source /\ q.seq = p.seq

\* A lock that is entered or run again has a new seq; automation enters one only from normal.
Locks(p, q) ==
    /\ q.mode # "normal" /\ q.seq = p.seq + 1
    /\ q.source = "manual" \/ p.mode = "normal" \/ q.source = p.source

\* Only an auto storm ends by itself.
Frees(p, q) ==
    /\ p.mode # "normal" /\ q.mode = "normal" /\ q.seq = p.seq
    /\ q.source = "manual" \/ p.source = "auto"

LEMMA EnterOK ==
    ASSUME NEW p \in Policies, NEW m \in Modes, NEW src \in {"manual", "auto"},
           m = "normal" \/ ~Spent(p)
    PROVE  /\ Enter(p, m, src) \in Policies
           /\ Enter(p, m, src).mode = m /\ Enter(p, m, src).source = src
           /\ Enter(p, m, src).seq = IF m = "normal" THEN p.seq ELSE p.seq + 1
           /\ Enter(p, m, src).acked = p.acked
  <1> DEFINE n == IF m = "normal" THEN p.seq ELSE p.seq + 1
             q == [p EXCEPT !.mode = m, !.source = src, !.seq = n, !.quiet = 0, !.clean = FALSE]
  <1>1. Enter(p, m, src) = q
    BY DEF Enter, Policies
  <1>2. n \in 0..MaxSeq
    BY Bounds DEF Policies, Spent
  <1> HIDE DEF n
  <1>3. q \in Policies /\ q.mode = m /\ q.source = src /\ q.seq = n /\ q.acked = p.acked
    BY <1>2, Bounds DEF Policies
  <1> QED
    BY <1>1, <1>3 DEF n

LEMMA SetModeOK ==
    ASSUME NEW p \in Policies, NEW m \in Modes, NEW active \in SUBSET Warnings
    PROVE  LET q == SetMode(p, m, active)
           IN /\ q \in Policies
              /\ Stays(p, q) \/ Locks(p, q) \/ (Frees(p, q) /\ active \subseteq q.acked)
  <1> DEFINE a == [p EXCEPT !.acked = @ \cup active]
             b == IF m = "normal" THEN a ELSE p
  <1>1. CASE m = p.mode \/ (m # "normal" /\ Spent(p))
    BY <1>1 DEF SetMode, Stays
  <1>2. CASE ~(m = p.mode \/ (m # "normal" /\ Spent(p)))
    <2>1. SetMode(p, m, active) = Enter(b, m, "manual")
      BY <1>2 DEF SetMode
    <2>2. b \in Policies /\ b.seq = p.seq /\ b.mode = p.mode /\ (m = "normal" => active \subseteq b.acked)
      BY DEF Policies
    <2>3. m = "normal" \/ ~Spent(b)
      BY <1>2, <2>2 DEF Spent
    <2> HIDE DEF b
    <2> QED
      BY <1>2, <2>1, <2>2, <2>3, EnterOK DEF Locks, Frees
  <1> QED
    BY <1>1, <1>2

LEMMA ReparkOK ==
    ASSUME NEW p \in Policies
    PROVE  /\ Repark(p) \in Policies
           /\ Stays(p, Repark(p)) \/ Locks(p, Repark(p))
  BY Bounds DEF Repark, Spent, Policies, Stays, Locks

LEMMA SetsOK ==
    ASSUME NEW p \in Policies, NEW active \in SUBSET Warnings
    PROVE  /\ Dismiss(p, active) \in Policies /\ Stays(p, Dismiss(p, active))
           /\ PollFailed(p) \in Policies /\ Stays(p, PollFailed(p))
  BY DEF Dismiss, PollFailed, Policies, Stays

LEMMA PollOK ==
    ASSUME NEW p \in Policies, NEW active \in SUBSET Warnings
    PROVE  LET q == Poll(p, active)
           IN /\ q \in Policies
              /\ Stays(p, q) \/ (Frees(p, q) /\ active = {})
  <1> DEFINE q == [p EXCEPT !.acked = @ \cap active, !.dismissed = @ \cap active]
             k == IF q.quiet < ExitAfter /\ q.clean THEN q.quiet + 1 ELSE q.quiet
  <1>1. q \in Policies /\ Stays(p, q)
    BY DEF Policies, Stays
  <1>2. k \in 0..ExitAfter
    BY <1>1, Bounds DEF Policies
  <1>3. Poll(p, active) = IF ~AutoStorm(p) THEN q
                          ELSE IF active # {} THEN [q EXCEPT !.quiet = 0, !.clean = FALSE]
                          ELSE IF k = ExitAfter THEN Enter(q, "normal", "auto")
                          ELSE [q EXCEPT !.quiet = k, !.clean = TRUE]
    BY DEF Poll
  <1> HIDE DEF q, k
  <1>4. CASE ~AutoStorm(p)
    BY <1>1, <1>3, <1>4
  <1>5. CASE AutoStorm(p) /\ active # {}
    BY <1>1, <1>3, <1>5, Bounds DEF Policies, Stays
  <1>6. CASE AutoStorm(p) /\ active = {} /\ k = ExitAfter
    <2>1. Poll(p, active) = Enter(q, "normal", "auto")
      BY <1>3, <1>6
    <2> QED
      BY <1>1, <1>6, <2>1, EnterOK DEF Frees, Stays, AutoStorm, Modes
  <1>7. CASE AutoStorm(p) /\ active = {} /\ k # ExitAfter
    BY <1>1, <1>2, <1>3, <1>7 DEF Policies, Stays
  <1> QED
    BY <1>4, <1>5, <1>6, <1>7

LEMMA EvaluateOK ==
    ASSUME NEW p \in Policies, NEW active \in SUBSET Warnings, NEW manned
    PROVE  LET q == Evaluate(p, active, manned)
           IN /\ q \in Policies
              /\ q = p \/ (p.mode = "normal" /\ ~(active \subseteq p.acked) /\ Locks(p, q))
  BY EnterOK DEF Evaluate, Locks, Modes
-----------------------------------------------------------------------------
(* The engine's memory, as far as its handlers keep it. *)

\* The boom is aimed only after the retract was told.
LockOK(l, n) ==
    /\ {"seq", "retract", "park"} \subseteq DOMAIN l
    /\ l.seq \in 0..n /\ l.retract \in BOOLEAN /\ (l.park # NoAz => l.retract)

\* Nothing is told without a lock.
Bare(l) == ~l.retract /\ l.park = NoAz

\* A lock is built up.
Builds(l, m) == (l.retract => m.retract) /\ (l.park # NoAz => m.park = l.park)

Sound(e) ==
    /\ {"pol", "lock", "phase", "borrow", "see", "run"} \subseteq DOMAIN e
    /\ e.pol \in Policies /\ e.phase \in LockPhases /\ LockOK(e.lock, e.pol.seq)
    /\ ~Locked(e) => Bare(e.lock)
    /\ {"active", "listed"} \subseteq DOMAIN e.see
    /\ e.see.active \in SUBSET Warnings /\ e.see.listed \in SUBSET Warnings
    /\ {"ready", "connected", "saved", "adopt", "fileSeq", "queue"} \subseteq DOMAIN e.run
    /\ e.run.ready \in BOOLEAN

\* A step of the lock or the borrow keeps what the policy has decided.
Near(e, n) ==
    /\ Sound(n) /\ n.pol = e.pol /\ n.lock.seq = e.lock.seq /\ Builds(e.lock, n.lock)
    /\ n.see = e.see /\ n.run = e.run

LEMMA NearTwice == ASSUME NEW e, NEW m, NEW n, Near(e, m), Near(m, n) PROVE Near(e, n)
  BY DEF Near, Builds

LEMMA NearSelf == ASSUME NEW e, Sound(e) PROVE Near(e, e)
  BY DEF Near, Builds

\* Fields that are not looked at here.
LEMMA NearAside ==
    ASSUME NEW e, Sound(e), NEW x
    PROVE  /\ Near(e, [e EXCEPT !.borrow = x]) /\ Near(e, [e EXCEPT !.borrowSeq = x])
           /\ Near(e, [e EXCEPT !.aim = x]) /\ Near(e, [e EXCEPT !.over = x])
           /\ Near(e, [e EXCEPT !.crew = x])
  BY DEF Sound, Near, LockOK, Builds, Locked

LEMMA NearPhase ==
    ASSUME NEW e, Sound(e), NEW phase \in LockPhases
    PROVE  Near(e, To(e, phase))
  BY DEF To, Sound, Near, LockOK, Builds, Locked

LEMMA NearLock ==
    ASSUME NEW e, Sound(e), Locked(e), NEW x
    PROVE  /\ Near(e, [e EXCEPT !.lock.retract = TRUE])
           /\ e.lock.park = NoAz => Near(e, [e EXCEPT !.lock.retract = TRUE, !.lock.park = x])
  BY DEF Sound, Near, LockOK, Builds, Locked

LEMMA NearPark == ASSUME NEW e, Sound(e), NEW fresh PROVE Near(e, NotePark(e, fresh))
  BY DEF NotePark, Sound, Near, LockOK, Builds, Locked

LEMMA NearCapture == ASSUME NEW e, Sound(e) PROVE Near(e, Capture(e))
  BY DEF Capture, Sound, Near, LockOK, Builds, Locked

LEMMA NearTX == ASSUME NEW e, Sound(e) PROVE Near(e, NoteTX(e))
  BY DEF NoteTX, Sound, Near, LockOK, Builds, Locked

LEMMA NearTrack == ASSUME NEW e, Sound(e) PROVE Near(e, Track(e))
  BY DEF Track, Sound, Near, LockOK, Builds, Locked

LEMMA NearAttach == ASSUME NEW e, Sound(e) PROVE Near(e, Attach(e))
  <1> DEFINE f == [e EXCEPT !.borrow.restore = FALSE, !.borrowSeq = e.lock.seq]
             g == [f EXCEPT !.borrow.sent = FALSE]
             h == To(g, "awaiting_power")
  <1>1. Near(e, f)
    BY DEF Sound, Near, LockOK, Builds, Locked
  <1>2. Near(f, g)
    BY <1>1 DEF Sound, Near, LockOK, Builds, Locked
  <1>3. Near(g, h)
    BY <1>2, NearPhase DEF LockPhases, Near
  <1>4. Near(h, [h EXCEPT !.over.borrow = FALSE])
    BY <1>3 DEF Sound, Near, LockOK, Builds, Locked
  <1>5. Near(e, [e EXCEPT !.borrow = NoBorrow]) /\ Near(e, e)
    BY NearAside, NearSelf
  <1>6. \/ Attach(e) = [e EXCEPT !.borrow = NoBorrow] \/ Attach(e) = e
        \/ Attach(e) = f \/ Attach(e) = [h EXCEPT !.over.borrow = FALSE]
    BY DEF Attach
  <1> DEFINE i == [h EXCEPT !.over.borrow = FALSE]
  <1> HIDE DEF f, g, h, i
  <1>7. Near(e, g)
    BY <1>1, <1>2, NearTwice
  <1>8. Near(e, h)
    BY <1>3, <1>7, NearTwice
  <1>9. Near(e, i)
    BY <1>4, <1>8, NearTwice DEF i
  <1> QED
    BY <1>1, <1>5, <1>6, <1>9 DEF i

LEMMA NearComputePark == ASSUME NEW e, Sound(e), Locked(e) PROVE Near(e, ComputePark(e))
  <1> DEFINE az == IF e.pol.mode # "storm" THEN MaintenanceAz
                   ELSE Storm(e.see.wind, IF e.see.rot.live THEN e.see.rot.az ELSE NoAz)
             f == [e EXCEPT !.lock.retract = TRUE]
             g == [e EXCEPT !.lock.retract = TRUE, !.lock.park = az]
             h == To(g, "rotating")
  <1>1. Near(e, f) /\ (e.lock.park = NoAz => Near(e, g))
    BY NearLock
  <1>2. ComputePark(e) = IF e.lock.park # NoAz THEN To(f, "rotating") ELSE NotePark(h, FALSE)
    BY DEF ComputePark
  <1> HIDE DEF f, g, h
  <1>3. CASE e.lock.park # NoAz
    <2>1. Near(f, To(f, "rotating"))
      BY <1>1, NearPhase DEF LockPhases, Near
    <2>2. Near(e, To(f, "rotating"))
      BY <1>1, <2>1, NearTwice
    <2> QED
      BY <1>2, <1>3, <2>2
  <1>4. CASE e.lock.park = NoAz
    <2>1. Near(g, h)
      BY <1>1, <1>4, NearPhase DEF LockPhases, Near, h
    <2>2. Near(e, h)
      BY <1>1, <1>4, <2>1, NearTwice
    <2>3. Near(h, NotePark(h, FALSE))
      BY <2>2, NearPark DEF Near
    <2>4. Near(e, NotePark(h, FALSE))
      BY <2>2, <2>3, NearTwice
    <2> QED
      BY <1>2, <1>4, <2>4
  <1> QED
    BY <1>3, <1>4

LEMMA NearStepLock == ASSUME NEW e, Sound(e), Locked(e) PROVE Near(e, StepLock(e))
  <1> DEFINE f == NotePark(e, FALSE)
             g == [e EXCEPT !.lock.retract = TRUE]
  <1>1. /\ Near(e, e) /\ Near(e, f) /\ Near(e, g) /\ Near(e, ComputePark(e))
        /\ \A phase \in LockPhases : Near(e, To(e, phase))
    BY NearSelf, NearPark, NearLock, NearComputePark, NearPhase
  <1>2. \A phase \in LockPhases : Near(f, To(f, phase)) /\ Near(g, To(g, phase))
    BY <1>1, NearPhase DEF Near
  <1>3. \A phase \in LockPhases : Near(e, To(f, phase)) /\ Near(e, To(g, phase))
    BY <1>1, <1>2, NearTwice
  <1> HIDE DEF f, g
  <1>4. CASE e.phase = "awaiting_power"
    BY <1>1, <1>4 DEF StepLock, LockPhases
  <1>5. CASE e.phase = "awaiting_devices"
    BY <1>1, <1>5 DEF StepLock, LockPhases
  <1>6. CASE e.phase = "grounding"
    BY <1>1, <1>3, <1>6 DEF StepLock, LockPhases, g
  <1>7. CASE e.phase = "retracting"
    BY <1>1, <1>7 DEF StepLock
  <1>8. CASE e.phase = "rotating"
    BY <1>1, <1>3, <1>8 DEF StepLock, LockPhases, f
  <1>9. CASE e.phase \in {"failed", "idle", "parked"}
    BY <1>1, <1>9 DEF StepLock, LockPhases
  <1> QED
    BY <1>4, <1>5, <1>6, <1>7, <1>8, <1>9 DEF Sound, LockPhases

LEMMA NearBorrow ==
    ASSUME NEW e, Sound(e)
    PROVE  Near(e, Borrow(e)) /\ Near(e, Watch(e)) /\ Near(e, Return(e))
  <1>1. Near(e, Watch(e)) /\ Near(e, Return(e))
    BY DEF Watch, Return, Sound, Near, LockOK, Builds, Locked
  <1> DEFINE f == [e EXCEPT !.borrow = [NoBorrow EXCEPT !.open = TRUE, !.from = e.see.seqPhase],
                            !.borrowSeq = e.lock.seq]
  <1>2. Near(e, f)
    BY DEF Sound, Near, LockOK, Builds, Locked
  <1>3. Near(f, To(f, "awaiting_power"))
    BY <1>2, NearPhase DEF LockPhases, Near
  <1>4. Borrow(e) = To(f, "awaiting_power")
    BY DEF Borrow
  <1> HIDE DEF f
  <1> QED
    BY <1>1, <1>2, <1>3, <1>4, NearTwice
-----------------------------------------------------------------------------
(* What a decision of the policy does to the lock. *)

LEMMA RestartParkOK ==
    ASSUME NEW e, Sound(e), Locked(e)
    PROVE  LET n == RestartPark(e)
           IN /\ Sound(n) /\ n.pol = e.pol /\ n.see = e.see /\ n.run = e.run
              /\ n.lock.seq = e.pol.seq
  <1> DEFINE f == [e EXCEPT !.lock.seq = e.pol.seq, !.lock.park = NoAz]
             g == To(f, IF f.lock.retract THEN "retracting" ELSE "grounding")
             h == [g EXCEPT !.over.phase = FALSE]
             i == Capture(h)
  <1>1. Sound(f) /\ f.pol = e.pol /\ f.see = e.see /\ f.run = e.run /\ f.lock.seq = e.pol.seq
    <2> DEFINE d == [e EXCEPT !.lock.seq = e.pol.seq]
    <2>1. Sound(d) /\ d.pol = e.pol /\ d.see = e.see /\ d.run = e.run /\ d.lock.seq = e.pol.seq
      BY DEF Sound, LockOK, Bare, Locked, Policies
    <2>2. f = [d EXCEPT !.lock.park = NoAz]
      BY DEF Sound, LockOK
    <2> HIDE DEF d
    <2> QED
      BY <2>1, <2>2 DEF Sound, LockOK, Bare, Locked
  <1>2. Near(f, g)
    BY <1>1, NearPhase DEF LockPhases
  <1>3. Near(g, h)
    BY <1>2 DEF Sound, Near, LockOK, Builds, Locked
  <1>4. Near(h, i)
    BY <1>3, NearCapture DEF Near
  <1>5. Near(i, Attach(i))
    BY <1>4, NearAttach DEF Near
  <1>6. RestartPark(e) = Attach(i)
    BY DEF RestartPark
  <1> HIDE DEF f, g, h, i
  <1> QED
    BY <1>1, <1>2, <1>3, <1>4, <1>5, <1>6 DEF Near

LEMMA ModeChangedOK ==
    ASSUME NEW d, Sound(d), NEW p \in Policies, d.pol.seq <= p.seq,
           NEW e, e = [d EXCEPT !.pol = p], NEW from
    PROVE  LET n == ModeChanged(e, from)
           IN /\ Sound(n) /\ n.pol = e.pol /\ n.see = e.see /\ n.run = e.run
              /\ Locked(e) => n.lock.seq = e.pol.seq
  <1>1. Locked(e) => Sound(e)
    BY Bounds DEF Sound, LockOK, Locked, Policies
  <1>2. /\ {"pol", "lock", "phase", "borrow", "see", "run"} \subseteq DOMAIN e
        /\ e.pol \in Policies /\ e.phase \in LockPhases
        /\ {"active", "listed"} \subseteq DOMAIN e.see
        /\ e.see.active \in SUBSET Warnings /\ e.see.listed \in SUBSET Warnings
        /\ {"ready", "connected", "saved", "adopt", "fileSeq", "queue"} \subseteq DOMAIN e.run
        /\ e.run.ready \in BOOLEAN
    BY DEF Sound
  <1>3. LockOK(NoLock, e.pol.seq) /\ Bare(NoLock)
    BY <1>2 DEF LockOK, Bare, NoLock, Policies
  <1>4. CASE e.pol.mode = "normal"
    <2> DEFINE f == [e EXCEPT !.lock = NoLock, !.aim.base = NoAz, !.borrow.restore = e.borrow.open]
    <2>1. Sound(f) /\ f.pol = e.pol /\ f.see = e.see /\ f.run = e.run
      BY <1>2, <1>3 DEF Sound
    <2>2. Near(f, To(f, "idle"))
      BY <2>1, NearPhase DEF LockPhases
    <2>3. ModeChanged(e, from) = To(f, "idle")
      BY <1>4 DEF ModeChanged
    <2> HIDE DEF f
    <2> QED
      BY <1>4, <2>1, <2>2, <2>3 DEF Near, Locked
  <1>5. CASE e.pol.mode # "normal" /\ from = "normal"
    <2> DEFINE f == [e EXCEPT !.lock = [NoLock EXCEPT !.seq = e.pol.seq]]
               g == To(f, "grounding")
               h == Capture(g)
    <2>0. /\ [NoLock EXCEPT !.seq = e.pol.seq].seq = e.pol.seq
          /\ LockOK([NoLock EXCEPT !.seq = e.pol.seq], e.pol.seq)
      BY <1>2 DEF LockOK, NoLock, Policies
    <2>1. Sound(f) /\ f.pol = e.pol /\ f.see = e.see /\ f.run = e.run /\ f.lock.seq = e.pol.seq
      BY <1>5, <1>2, <2>0 DEF Sound, Locked
    <2>2. Near(f, g)
      BY <2>1, NearPhase DEF LockPhases
    <2>3. Near(g, h)
      BY <2>2, NearCapture DEF Near
    <2>4. Near(h, Attach(h))
      BY <2>3, NearAttach DEF Near
    <2>5. ModeChanged(e, from) = Attach(h)
      BY <1>5 DEF ModeChanged
    <2> HIDE DEF f, g, h
    <2>6. Near(f, h)
      BY <2>2, <2>3, NearTwice
    <2>7. Near(f, Attach(h))
      BY <2>4, <2>6, NearTwice
    <2> QED
      BY <2>1, <2>5, <2>7 DEF Near
  <1>6. CASE e.pol.mode # "normal" /\ from # "normal"
    BY <1>1, <1>6, RestartParkOK DEF ModeChanged, Locked
  <1> QED
    BY <1>4, <1>5, <1>6

\* Nothing was decided; a lock was entered or run again; the lock was given up.
Kept(e, n) ==
    Stays(e.pol, n.pol) /\ n.lock.seq = e.lock.seq /\ Builds(e.lock, n.lock)
Relocks(e, n) == Locks(e.pol, n.pol) /\ n.lock.seq = n.pol.seq
Unlocks(e, n) == Frees(e.pol, n.pol)

Same(e, n) == Sound(n) /\ n.see = e.see /\ n.run = e.run

\* Automation leaves the station as it is.
Calm(e) == Locked(e) \/ e.see.active \subseteq e.pol.acked

LEMMA DecideOK ==
    ASSUME NEW e, Sound(e), NEW p \in Policies,
           Stays(e.pol, p) \/ Locks(e.pol, p) \/ Frees(e.pol, p)
    PROVE  LET n == Decide(e, p)
           IN /\ Same(e, n) /\ n.pol = p
              /\ Stays(e.pol, p) => Kept(e, n)
              /\ Locks(e.pol, p) => Relocks(e, n)
              /\ Frees(e.pol, p) => Unlocks(e, n)
  <1> DEFINE f == [e EXCEPT !.pol = p]
             n == Decide(e, p)
  <1>1. e.pol.seq \in Nat /\ p.seq \in Nat /\ e.pol.seq <= p.seq
    BY Bounds DEF Sound, Policies, Stays, Locks, Frees
  <1>2. /\ f.pol = p /\ f.see = e.see /\ f.run = e.run /\ f.lock = e.lock
        /\ Locked(f) \/ ~Locked(e) => Sound(f)
    BY <1>1 DEF Sound, LockOK, Locked, Policies
  <1>3. n = IF p.mode # e.pol.mode THEN ModeChanged(f, e.pol.mode)
            ELSE IF p.seq # e.pol.seq THEN RestartPark(f) ELSE f
    BY DEF Decide
  <1>4. p.mode # e.pol.mode =>
          LET m == ModeChanged(f, e.pol.mode)
          IN /\ Sound(m) /\ m.pol = p /\ m.see = e.see /\ m.run = e.run
             /\ p.mode # "normal" => m.lock.seq = p.seq
    <2>1. ASSUME p.mode # e.pol.mode
          PROVE  LET m == ModeChanged(f, e.pol.mode)
                 IN /\ Sound(m) /\ m.pol = f.pol /\ m.see = f.see /\ m.run = f.run
                    /\ Locked(f) => m.lock.seq = f.pol.seq
      BY <1>1, ModeChangedOK
    <2> HIDE DEF f
    <2> QED
      BY <1>2, <2>1 DEF Locked
  <1> HIDE DEF f, n
  <1>5. CASE Stays(e.pol, p)
    <2>1. n = f
      BY <1>3, <1>5 DEF Stays
    <2> QED
      BY <1>1, <1>2, <1>5, <2>1 DEF Stays, Locks, Frees, Kept, Builds, Same, Locked, n
  <1>6. CASE Locks(e.pol, p)
    <2>1. Sound(n) /\ n.pol = p /\ n.see = e.see /\ n.run = e.run /\ n.lock.seq = p.seq
      BY <1>1, <1>2, <1>3, <1>6, <1>4, RestartParkOK DEF Locks, Locked
    <2> QED
      BY <1>1, <1>6, <2>1 DEF Stays, Locks, Frees, Relocks, Same, n
  <1>7. CASE Frees(e.pol, p)
    <2>1. Sound(n) /\ n.pol = p /\ n.see = e.see /\ n.run = e.run
      BY <1>3, <1>7, <1>4 DEF Frees
    <2> QED
      BY <1>7, <2>1 DEF Stays, Locks, Frees, Unlocks, Same, n
  <1> QED
    BY <1>5, <1>6, <1>7

LEMMA AppliedOK ==
    ASSUME NEW e, Sound(e), NEW c
    PROVE  LET n == Applied(e, c)
           IN /\ Same(e, n)
              /\ Kept(e, n) \/ Relocks(e, n) \/ (Unlocks(e, n) /\ Calm(n))
  <1>p. e.pol \in Policies /\ e.see.active \in SUBSET Warnings
    BY DEF Sound
  <1>1. CASE c \in Modes
    <2> DEFINE p == SetMode(e.pol, c, e.see.active)
    <2>1. p \in Policies /\ (\/ Stays(e.pol, p) \/ Locks(e.pol, p)
                             \/ (Frees(e.pol, p) /\ e.see.active \subseteq p.acked))
      BY <1>p, <1>1, SetModeOK
    <2>2. Applied(e, c) = Decide(e, p)
      BY <1>1 DEF Applied, Modes
    <2> HIDE DEF p
    <2> QED
      BY <2>1, <2>2, DecideOK DEF Calm, Same
  <1>2. CASE c = "repark"
    <2> DEFINE p == Repark(e.pol)
    <2>1. p \in Policies /\ (Stays(e.pol, p) \/ Locks(e.pol, p))
      BY <1>p, ReparkOK
    <2>2. Applied(e, c) = Decide(e, p)
      BY <1>2 DEF Applied, Modes
    <2> HIDE DEF p
    <2> QED
      BY <2>1, <2>2, DecideOK
  <1>3. CASE c = "dismiss"
    <2> DEFINE p == Dismiss(e.pol, e.see.active)
    <2>1. p \in Policies /\ Stays(e.pol, p)
      BY <1>p, SetsOK
    <2>2. Applied(e, c) = Decide(e, p)
      BY <1>3 DEF Applied, Modes
    <2> HIDE DEF p
    <2> QED
      BY <2>1, <2>2, DecideOK
  <1>4. CASE c \notin Modes /\ c # "repark" /\ c # "dismiss"
    <2>1. Applied(e, c) = e
      BY <1>4 DEF Applied
    <2> QED
      BY <2>1 DEF Kept, Builds, Stays, Same
  <1> QED
    BY <1>1, <1>2, <1>3, <1>4
-----------------------------------------------------------------------------
(* What a handler makes of the memory. *)

Places == {"idle", "apply", "save", "hold", "on", "resend", "restore", "persist", "publish"}

\* Where an aborted borrow goes on.
Returns == {"apply", "late", "lock"}

AtOK(a, e) ==
    /\ "pc" \in DOMAIN a /\ a.pc \in Places /\ a.phase \in LockPhases
    /\ a.pc \in {"save", "hold", "on"} => a.ret \in Returns
    /\ a.pc = "resend" => Locked(e)

Reaches(e, r) == Near(e, r.eng) /\ AtOK(r.at, r.eng)

LEMMA WaitsOK ==
    ASSUME NEW e, NEW n, Near(e, n), NEW pc \in Places \ {"save", "hold", "on"}, NEW f,
           pc = "resend" => Locked(n)
    PROVE  Reaches(e, Waits(n, pc, f))
  BY DEF Waits, At, Reaches, AtOK, LockPhases

LEMMA AtPublishOK ==
    ASSUME NEW e, NEW n, Near(e, n), NEW f
    PROVE  /\ Reaches(e, AtPublish(n, f)) /\ AtPublish(n, f).eng = n
           /\ AtPublish(n, f).at.pc # "idle" => n.run.ready
  BY DEF AtPublish, Publishes, Waits, Idle, At, Reaches, Places, AtOK, LockPhases

LEMMA AtPersistOK ==
    ASSUME NEW e, NEW n, Near(e, n), NEW f
    PROVE  Reaches(e, AtPersist(n, f))
  BY AtPublishOK, WaitsOK DEF AtPersist, Places

LEMMA AtReturnOK ==
    ASSUME NEW e, NEW n, Near(e, n), NEW f
    PROVE  Reaches(e, AtReturn(n, f))
  <1> DEFINE w == Watch(n)
             v == Return(w)
  <1>1. Near(n, w)
    BY NearBorrow DEF Near
  <1>2. Near(w, v)
    BY <1>1, NearBorrow DEF Near
  <1>3. AtReturn(n, f) = IF Restores(w) THEN Waits(w, "restore", f)
                         ELSE AtPersist(IF Yields(w) THEN v ELSE w, f)
    BY DEF AtReturn
  <1> HIDE DEF w, v
  <1>4. Near(e, w)
    BY <1>1, NearTwice
  <1>5. Near(e, v)
    BY <1>2, <1>4, NearTwice
  <1> QED
    BY <1>3, <1>4, <1>5, WaitsOK, AtPersistOK DEF Places

LEMMA AtLockOK ==
    ASSUME NEW e, NEW n, Near(e, n), NEW f
    PROVE  Reaches(e, AtLock(n, f))
  <1>1. Locked(n) => Near(n, StepLock(n))
    BY NearStepLock DEF Near
  <1>2. Locked(n) => Near(e, StepLock(n))
    BY <1>1, NearTwice
  <1> QED
    BY <1>2, WaitsOK, AtReturnOK DEF AtLock, Places

LEMMA AtBorrowOK ==
    ASSUME NEW e, NEW n, Near(e, n), NEW ret \in Returns, NEW f
    PROVE  Reaches(e, AtBorrow(n, ret, f))
  <1>1. Near(n, Borrow(n))
    BY NearBorrow DEF Near
  <1>2. Near(e, Borrow(n))
    BY <1>1, NearTwice
  <1>3. n.phase \in LockPhases
    BY DEF Near, Sound
  <1> QED
    BY <1>2, <1>3 DEF AtBorrow, At, Reaches, AtOK, Places

LEMMA AtLateOK ==
    ASSUME NEW e, NEW n, Near(e, n), NEW f
    PROVE  Reaches(e, AtLate(n, f))
  BY AtBorrowOK, AtLockOK DEF AtLate, Returns

\* A step of the worker: what it decides, and how far it gets.
Moves(e, r) ==
    /\ Same(e, r.eng) /\ AtOK(r.at, r.eng)
    /\ Kept(e, r.eng) \/ Relocks(e, r.eng) \/ Unlocks(e, r.eng)

\* Automation decides nothing but to enter storm.
Steps(e, r) ==
    /\ Same(e, r.eng) /\ AtOK(r.at, r.eng)
    /\ Kept(e, r.eng) \/ (~Calm(e) /\ Relocks(e, r.eng))

LEMMA ReachesSteps ==
    ASSUME NEW e, Sound(e), NEW r, Reaches(e, r)
    PROVE  Steps(e, r)
  BY DEF Reaches, Near, Steps, Same, Kept, Builds, Stays

LEMMA StepsMoves ==
    ASSUME NEW e, NEW r, Steps(e, r)
    PROVE  Moves(e, r)
  BY DEF Steps, Moves

\* Near a decision is the same decision.
LEMMA NearDecision ==
    ASSUME NEW e, NEW n, NEW m, Same(e, n), Near(n, m)
    PROVE  /\ Same(e, m)
           /\ Kept(e, n) => Kept(e, m)
           /\ Relocks(e, n) => Relocks(e, m)
           /\ Unlocks(e, n) => Unlocks(e, m)
           /\ Calm(n) <=> Calm(m)
  BY DEF Same, Near, Kept, Builds, Relocks, Unlocks, Calm, Locked

LEMMA AtStepOK ==
    ASSUME NEW e, Sound(e), NEW f
    PROVE  Steps(e, AtStep(e, f))
  <1> DEFINE t == Track(NoteTX(e))
             p == Evaluate(t.pol, t.see.active, Manned(t))
             n == Decide(t, p)
             r == AtStep(e, f)
  <1>1. Near(e, t)
    <2> DEFINE x == NoteTX(e)
    <2>1. Near(e, x)
      BY NearTX
    <2> HIDE DEF x
    <2>2. Near(x, Track(x))
      BY <2>1, NearTrack DEF Near
    <2>3. Near(e, Track(x))
      BY <2>1, <2>2, NearTwice
    <2> QED
      BY <2>3 DEF x
  <1>2. r = IF Relocked(t, n) /\ CanBorrow(n) THEN AtBorrow(n, "late", f) ELSE AtLate(n, f)
    BY DEF AtStep
  <1> HIDE DEF t, r
  <1>3. p \in Policies /\ (p = t.pol \/ (~Calm(t) /\ Locks(t.pol, p)))
    BY <1>1, EvaluateOK DEF Near, Sound, Calm, Locked
  <1> HIDE DEF p
  <1>4. Same(t, n) /\ (Kept(t, n) \/ (~Calm(t) /\ Relocks(t, n)))
    BY <1>1, <1>3, DecideOK DEF Near, Stays
  <1> HIDE DEF n
  <1>5. Near(n, n)
    BY <1>4, NearSelf DEF Same
  <1>6. Reaches(n, r)
    BY <1>2, <1>5, AtBorrowOK, AtLateOK DEF Returns
  <1>7. Same(t, r.eng) /\ (Kept(t, r.eng) \/ (~Calm(t) /\ Relocks(t, r.eng)))
    BY <1>4, <1>6, NearDecision DEF Reaches
  <1>8. Same(e, r.eng) /\ (Kept(e, r.eng) \/ (~Calm(e) /\ Relocks(e, r.eng)))
    BY <1>1, <1>7 DEF Near, Same, Kept, Builds, Relocks, Calm, Locked
  <1> QED
    BY <1>6, <1>8 DEF Steps, Reaches, r

LEMMA AtApplyOK ==
    ASSUME NEW e, Sound(e), NEW f
    PROVE  Steps(e, AtApply(e, f))
  <1>1. Reaches(e, Waits(e, "apply", f))
    BY NearSelf, WaitsOK DEF Places
  <1> QED
    BY <1>1, AtStepOK, ReachesSteps DEF AtApply

\* After a decision automation does not take it back in the same step.
LEMMA DecisionThenStep ==
    ASSUME NEW e, NEW n, Same(e, n), NEW r, Steps(n, r),
           Kept(e, n) \/ Relocks(e, n) \/ (Unlocks(e, n) /\ Calm(n))
    PROVE  Moves(e, r)
  <1>1. Same(e, r.eng) /\ AtOK(r.at, r.eng)
    BY DEF Same, Steps
  <1>2. CASE Kept(n, r.eng)
    BY <1>1, <1>2 DEF Moves, Kept, Builds, Relocks, Unlocks, Stays, Locks, Frees
  <1>3. CASE ~Calm(n) /\ Relocks(n, r.eng)
    <2>1. Kept(e, n)
      BY <1>3 DEF Calm, Locked, Relocks, Locks
    <2>2. Relocks(e, r.eng)
      BY <1>3, <2>1 DEF Kept, Builds, Stays, Relocks, Locks
    <2> QED
      BY <1>1, <2>2 DEF Moves
  <1> QED
    BY <1>2, <1>3 DEF Steps

LEMMA AtCommandOK ==
    ASSUME NEW e, Sound(e), NEW c, NEW f
    PROVE  Moves(e, AtCommand(e, c, f))
  <1> DEFINE n == Applied(e, c)
             r == AtCommand(e, c, f)
  <1>1. /\ Same(e, n)
        /\ Kept(e, n) \/ Relocks(e, n) \/ (Unlocks(e, n) /\ Calm(n))
    BY AppliedOK
  <1>2. r = IF Relocked(e, n) /\ CanBorrow(n) THEN AtBorrow(n, "apply", f) ELSE AtApply(n, f)
    BY DEF AtCommand
  <1> HIDE DEF n, r
  <1>3. Sound(n) /\ Near(n, n)
    BY <1>1, NearSelf DEF Same
  <1>4. Steps(n, AtApply(n, f)) /\ Steps(n, AtBorrow(n, "apply", f))
    BY <1>3, AtApplyOK, AtBorrowOK, ReachesSteps DEF Returns
  <1>5. Steps(n, r)
    BY <1>2, <1>4
  <1> QED
    BY <1>1, <1>5, DecisionThenStep DEF r

LEMMA ResumeOK ==
    ASSUME NEW e, Sound(e), NEW ret \in Returns, NEW f
    PROVE  Steps(e, Resume(e, ret, f))
  <1>1. Near(e, e)
    BY NearSelf
  <1>2. Steps(e, AtApply(e, f)) /\ Steps(e, AtLate(e, f)) /\ Steps(e, AtLock(e, f))
    BY <1>1, AtApplyOK, AtLateOK, AtLockOK, ReachesSteps
  <1> QED
    BY <1>2 DEF Resume, Returns
-----------------------------------------------------------------------------
(* The file, /state and a start. *)

FileOK(f) ==
    f # None => /\ f.pol \in Policies /\ f.phase \in LockPhases
                /\ LockOK(f.lock, f.pol.seq) /\ (f.pol.mode = "normal" => Bare(f.lock))

StateOK(s) ==
    s # None => /\ s.mode \in Modes /\ s.source \in {"manual", "auto"} /\ s.seq \in 0..MaxSeq
                /\ s.phase \in LockPhases
                /\ LockOK(s.lock, s.seq) /\ (s.mode = "normal" => Bare(s.lock))

LEMMA SnapshotOK ==
    ASSUME NEW e, Sound(e)
    PROVE  LET f == Snapshot(e)
           IN /\ FileOK(f) /\ f.lock = e.lock /\ f.pol.seq = e.pol.seq
              /\ f.pol.mode = e.pol.mode /\ f.pol.source = e.pol.source
  BY DEF Snapshot, FileOK, Sound, Locked, Policies

LEMMA ViewOK ==
    ASSUME NEW e, Sound(e)
    PROVE  LET s == View(e)
           IN /\ StateOK(s) /\ s.lock = e.lock /\ s.seq = e.pol.seq
              /\ s.mode = e.pol.mode /\ s.source = e.pol.source
  BY DEF View, StateOK, Sound, Locked, Policies

LEMMA NormalizeOK ==
    ASSUME NEW e, Sound(e)
    PROVE  LET n == Normalize(e)
           IN /\ Sound(n) /\ n.pol = e.pol /\ n.see = e.see /\ n.run = e.run
              /\ Locked(e) => n.lock = e.lock
  <1>1. CASE ~Locked(e)
    <2> DEFINE f == [e EXCEPT !.lock = NoLock, !.phase = "idle", !.borrow.restore = e.borrow.open]
    <2>0. LockOK(NoLock, e.pol.seq) /\ Bare(NoLock)
      BY DEF Sound, LockOK, Bare, NoLock, Policies
    <2>1. Sound(f) /\ f.pol = e.pol /\ f.see = e.see /\ f.run = e.run
      BY <2>0 DEF Sound, LockPhases
    <2> QED
      BY <1>1, <2>1 DEF Normalize
  <1>2. CASE Locked(e)
    <2> DEFINE phase == IF e.phase = "idle" THEN "grounding" ELSE e.phase
               f == [e EXCEPT !.phase = phase, !.over.borrow = @ /\ ~e.borrow.open]
    <2>1. phase \in LockPhases
      BY DEF Sound, LockPhases
    <2>2. Normalize(e) = f
      BY <1>2 DEF Normalize, Sound
    <2> HIDE DEF phase
    <2>3. Sound(f) /\ f.pol = e.pol /\ f.see = e.see /\ f.run = e.run /\ f.lock = e.lock
      BY <2>1 DEF Sound, LockOK, Locked
    <2> QED
      BY <1>2, <2>2, <2>3
  <1> QED
    BY <1>1, <1>2

LEMMA NewOK ==
    ASSUME NEW f, FileOK(f), NEW n \in 0..MaxSeq
    PROVE  LET e == New(f, n)
           IN /\ Sound(e) /\ ~e.run.ready /\ ~e.run.connected
              /\ e.run.adopt <=> f = None
              /\ f = None => e.pol.mode = "normal" /\ e.pol.seq = n
              /\ f # None => /\ e.pol = f.pol /\ e.run.fileSeq = f.pol.seq
                             /\ Locked(e) => e.lock = f.lock
  <1> DEFINE e == [pol |-> IF f = None THEN NewPolicy(n) ELSE f.pol,
              lock |-> IF f = None THEN NoLock ELSE f.lock,
              phase |-> IF f = None THEN "idle" ELSE f.phase,
              borrow |-> IF f = None THEN NoBorrow ELSE f.borrow,
              borrowSeq |-> IF f = None THEN 0 ELSE f.borrowSeq,
              aim |-> [base |-> IF f = None THEN NoAz ELSE f.base, seen |-> FALSE],
              over |-> [phase |-> TRUE, borrow |-> TRUE, quiet |-> TRUE],
              crew |-> [manned |-> FALSE, dwell |-> FALSE, lost |-> "no"],
              see |-> Blind,
              run |-> [ready |-> FALSE, connected |-> FALSE, saved |-> FALSE,
                       adopt |-> f = None,
                       fileSeq |-> IF f = None THEN 0 ELSE f.pol.seq, queue |-> <<>>]]
  <1>1. New(f, n) = IF f = None THEN e ELSE Normalize(e)
    BY DEF New
  <1>2. /\ {"pol", "lock", "phase", "borrow", "see", "run"} \subseteq DOMAIN e
        /\ e.pol = (IF f = None THEN NewPolicy(n) ELSE f.pol)
        /\ e.lock = (IF f = None THEN NoLock ELSE f.lock)
        /\ e.phase = (IF f = None THEN "idle" ELSE f.phase)
        /\ e.see = Blind
        /\ e.run = [ready |-> FALSE, connected |-> FALSE, saved |-> FALSE, adopt |-> f = None,
                    fileSeq |-> IF f = None THEN 0 ELSE f.pol.seq, queue |-> <<>>]
    OBVIOUS
  <1> HIDE DEF e
  <1>3. NewPolicy(n) \in Policies
    BY Bounds DEF NewPolicy, Policies, Modes
  <1>4. /\ e.pol \in Policies /\ e.phase \in LockPhases /\ LockOK(e.lock, e.pol.seq)
        /\ ~Locked(e) => Bare(e.lock)
    <2>1. CASE f = None
      <3>1. e.pol.seq = n /\ e.lock = NoLock /\ e.phase = "idle"
        BY <1>2, <2>1 DEF NewPolicy
      <3>2. LockOK(NoLock, n) /\ Bare(NoLock)
        BY Bounds DEF LockOK, Bare, NoLock
      <3> QED
        BY <1>2, <1>3, <2>1, <3>1, <3>2 DEF LockPhases
    <2>2. CASE f # None
      BY <1>2, <2>2 DEF FileOK, Locked
    <2> QED
      BY <2>1, <2>2
  <1>5. /\ {"active", "listed"} \subseteq DOMAIN e.see
        /\ e.see.active \in SUBSET Warnings /\ e.see.listed \in SUBSET Warnings
    <2>1. e.see = Blind
      BY <1>2
    <2>2. "active" \in DOMAIN Blind /\ "listed" \in DOMAIN Blind
      BY Zenon DEF Blind
    <2>3. Blind.active = {} /\ Blind.listed = {}
      BY Zenon DEF Blind
    <2> QED
      BY <2>1, <2>2, <2>3
  <1>6. /\ {"ready", "connected", "saved", "adopt", "fileSeq", "queue"} \subseteq DOMAIN e.run
        /\ e.run.ready = FALSE /\ e.run.connected = FALSE /\ e.run.adopt = (f = None)
        /\ e.run.fileSeq = IF f = None THEN 0 ELSE f.pol.seq
    BY <1>2
  <1>7. Sound(e)
    BY <1>2, <1>4, <1>5, <1>6 DEF Sound
  <1>8. CASE f = None
    <2>1. e.pol.mode = "normal" /\ e.pol.seq = n
      BY <1>2, <1>8 DEF NewPolicy
    <2> QED
      BY <1>1, <1>6, <1>7, <1>8, <2>1
  <1>9. CASE f # None
    <2>1. e.pol = f.pol /\ e.lock = f.lock /\ e.run.fileSeq = f.pol.seq
      BY <1>2, <1>6, <1>9
    <2> QED
      BY <1>1, <1>6, <1>7, <1>9, <2>1, NormalizeOK DEF Locked
  <1> QED
    BY <1>8, <1>9

\* The seq is taken over, or the whole lock.
LEMMA AdoptOK ==
    ASSUME NEW e, Sound(e), NEW s, s # None, StateOK(s)
    PROVE  LET n == Adopt(e, s)
           IN /\ Same(e, n) /\ n.pol.seq >= e.pol.seq /\ n.pol.seq >= s.seq
              /\ n.pol.seq \in {e.pol.seq, s.seq}
              /\ \/ /\ s.mode = "normal" \/ (~e.run.adopt /\ s.lock.seq <= e.run.fileSeq)
                    /\ n.pol.mode = e.pol.mode /\ n.pol.source = e.pol.source /\ n.lock = e.lock
                 \/ /\ s.mode # "normal" /\ (e.run.adopt \/ ~(s.lock.seq <= e.run.fileSeq))
                    /\ n.pol.mode = s.mode /\ n.pol.source = s.source /\ n.lock = s.lock
  <1> DEFINE seq == IF s.seq > e.pol.seq THEN s.seq ELSE e.pol.seq
             p == [e.pol EXCEPT !.seq = seq]
             q == [p EXCEPT !.mode = s.mode, !.source = s.source, !.quiet = 0]
  <1>1. /\ seq \in 0..MaxSeq /\ seq >= e.pol.seq /\ seq >= s.seq
        /\ s.seq \in Nat /\ e.pol.seq \in Nat /\ seq \in {e.pol.seq, s.seq}
    BY Bounds DEF Sound, StateOK, Policies
  <1> HIDE DEF seq
  <1>2. /\ p \in Policies /\ p.mode = e.pol.mode /\ p.source = e.pol.source /\ p.seq = seq
    BY <1>1 DEF Sound, Policies
  <1> HIDE DEF p
  <1>3. q \in Policies /\ q.mode = s.mode /\ q.source = s.source /\ q.seq = seq
    <2>1. s.mode \in Modes /\ s.source \in {"manual", "auto"} /\ 0 \in 0..ExitAfter
      BY Bounds DEF StateOK
    <2> QED
      BY <1>2, <2>1, ZenonT(60) DEF Policies
  <1>4. CASE s.mode = "normal" \/ (~e.run.adopt /\ s.lock.seq <= e.run.fileSeq)
    <2>1. Adopt(e, s) = [e EXCEPT !.pol = p]
      BY <1>4 DEF Adopt, p, seq, Sound, Policies
    <2>2. Sound([e EXCEPT !.pol = p])
      BY <1>1, <1>2 DEF Sound, LockOK, Locked
    <2> QED
      BY <1>1, <1>2, <1>4, <2>1, <2>2 DEF Same, Sound
  <1>5. CASE ~(s.mode = "normal" \/ (~e.run.adopt /\ s.lock.seq <= e.run.fileSeq))
    <2> DEFINE b == [NoBorrow EXCEPT !.open = TRUE, !.from = s.borrow.from,
                       !.sent = s.phase # "awaiting_power", !.taken = s.borrow.taken]
               f == [e EXCEPT !.pol = q, !.lock = s.lock, !.phase = s.phase,
                              !.borrow = IF s.borrow.open THEN b ELSE NoBorrow,
                              !.borrowSeq = IF s.borrow.open THEN s.lock.seq ELSE @]
    <2>1. Adopt(e, s) = Normalize(f)
      BY <1>5 DEF Adopt, p, seq, Sound, Policies
    <2> HIDE DEF b, q
    <2>2. f.pol = q /\ f.lock = s.lock /\ f.phase = s.phase /\ f.see = e.see /\ f.run = e.run
      BY DEF Sound
    <2>3. LockOK(s.lock, seq)
      BY <1>1 DEF StateOK, LockOK
    <2>4. Sound(f)
      BY <1>3, <1>5, <2>2, <2>3 DEF Sound, StateOK, Locked
    <2> HIDE DEF f
    <2> QED
      BY <1>1, <1>3, <1>5, <2>1, <2>2, <2>4, NormalizeOK DEF Same, Locked
  <1> QED
    BY <1>4, <1>5
-----------------------------------------------------------------------------
(* The types, and what a step is that is neither an adoption nor a crash. *)

PastOK == "freed" \in DOMAIN past /\ past.freed \in [manual : Nat, auto : Nat]

Nets == [up : BOOLEAN, republish : BOOLEAN, replay : BOOLEAN]

\* No seq is in use that was not drawn.
Drawn ==
    /\ used \in 0..MaxSeq /\ eng.pol.seq <= used
    /\ file # None => file.pol.seq <= used
    /\ state # None => state.seq <= used

Types ==
    /\ Sound(eng) /\ AtOK(at, eng) /\ Drawn
    /\ FileOK(file) /\ StateOK(state) /\ PastOK /\ net \in Nets
    /\ at.pc # "idle" => eng.run.ready
    /\ eng.run.ready => ~net.replay

\* Own /state, if there is one, has been taken in.
TakenIn == eng.run.ready \/ (eng.run.connected /\ ~net.replay)

\* The history of a decision.
Recalled ==
    /\ "freed" \in DOMAIN past'
    /\ past'.freed = IF Locked(eng) /\ ~Locked(eng')
                     THEN [past.freed EXCEPT ![eng'.pol.source] = Higher(@, eng.lock.seq)]
                     ELSE past.freed

SameRun(e, n) ==
    /\ n.run.ready = e.run.ready /\ n.run.connected = e.run.connected
    /\ n.run.adopt = e.run.adopt /\ n.run.fileSeq = e.run.fileSeq

\* A step of the worker.
Work ==
    /\ Sound(eng') /\ AtOK(at', eng')
    /\ used' \in 0..MaxSeq /\ used <= used' /\ eng'.pol.seq <= used'
    /\ Kept(eng, eng') \/ Relocks(eng, eng') \/ Unlocks(eng, eng')
    /\ SameRun(eng, eng')
    /\ at'.pc # "idle" => eng.run.ready
    /\ Recalled

Advance ==
    /\ Sound(eng') /\ AtOK(at', eng')
    /\ used' \in 0..MaxSeq /\ used <= used' /\ eng'.pol.seq <= used'
    /\ Kept(eng, eng') \/ Relocks(eng, eng') \/ Unlocks(eng, eng')
    /\ at'.pc # "idle" => eng'.run.ready
    /\ eng.run.ready => eng'.run.ready
    /\ ~eng'.run.ready => eng'.run.adopt = eng.run.adopt /\ eng'.run.fileSeq = eng.run.fileSeq
    /\ Recalled
    /\ file' = file \/ (eng.run.ready /\ file' = Snapshot(eng))
    /\ \/ state' = state
       \/ /\ eng.run.ready /\ state' = View(eng)
          /\ at.pc \in {"hold", "publish"} /\ file' = file
    /\ net' \in Nets /\ (eng'.run.ready => ~net'.replay)
    /\ SteadyStart /\ TakenIn' => TakenIn

LEMMA RecallOK ==
    ASSUME Types, NEW e, NEW x
    PROVE  /\ "freed" \in DOMAIN Recall(e)
           /\ "freed" \in DOMAIN [Recall(e) EXCEPT !.overruled = x]
           /\ [Recall(e) EXCEPT !.overruled = x].freed = Recall(e).freed
           /\ Recall(e).freed = IF Locked(eng) /\ ~Locked(e)
                                THEN [past.freed EXCEPT ![e.pol.source] = Higher(@, eng.lock.seq)]
                                ELSE past.freed
  <1> DEFINE freed == IF Locked(eng) /\ ~Locked(e)
                      THEN [past.freed EXCEPT ![e.pol.source] = Higher(@, eng.lock.seq)]
                      ELSE past.freed
             yielded == past.yielded \/ /\ eng.borrow.open /\ at.pc \notin {"restore", "save"}
                                        /\ ~e.borrow.open \/ (eng.borrow.taken /\ ~e.borrow.taken)
  <1>1. Recall(e) = [past EXCEPT !.freed = freed, !.yielded = yielded]
    BY DEF Recall
  <1> HIDE DEF freed, yielded
  <1>2. "freed" \in DOMAIN Recall(e) /\ Recall(e).freed = freed
    BY <1>1 DEF Types, PastOK
  <1> QED
    BY <1>2 DEF freed

LEMMA HigherOK ==
    \A a, b \in 0..MaxSeq :
        Higher(a, b) \in 0..MaxSeq /\ a <= Higher(a, b) /\ b <= Higher(a, b)
  BY DEF Higher

LEMMA Working ==
    ASSUME Types, NEW x, Sound(x), Kept(eng, x), SameRun(eng, x),
           NEW r, Moves(x, r), Becomes(r), r.at.pc # "idle" => eng.run.ready,
           "freed" \in DOMAIN past', past'.freed = Recall(r.eng).freed
    PROVE  Work
  <1>1. eng' = r.eng /\ at' = r.at /\ used' = Higher(used, eng'.pol.seq)
    BY DEF Becomes
  <1>2. Sound(eng') /\ AtOK(at', eng')
    BY <1>1 DEF Moves, Same
  <1>3. used' \in 0..MaxSeq /\ used <= used' /\ eng'.pol.seq <= used'
    BY <1>1, <1>2, HigherOK DEF Types, Drawn, Sound, Policies
  <1>4. Kept(eng, eng') \/ Relocks(eng, eng') \/ Unlocks(eng, eng')
    BY <1>1 DEF Moves, Kept, Builds, Relocks, Unlocks, Stays, Locks, Frees
  <1>5. SameRun(eng, eng')
    BY <1>1 DEF Moves, Same, SameRun
  <1>6. Recalled
    BY <1>1, RecallOK DEF Recalled
  <1> QED
    BY <1>1, <1>2, <1>3, <1>4, <1>5, <1>6 DEF Work

LEMMA WorkAdvances ==
    ASSUME Types, Work, net' \in Nets, net'.replay = net.replay,
           file' = file \/ (eng.run.ready /\ file' = Snapshot(eng)), state' = state
    PROVE  Advance
  BY DEF Types, Drawn, Work, SameRun, Advance, TakenIn

\* A step that leaves the memory alone, but for the link.
LEMMA QuietAdvances ==
    ASSUME Types, Sound(eng'), Kept(eng, eng'), eng'.run.ready = eng.run.ready,
           eng'.run.adopt = eng.run.adopt, eng'.run.fileSeq = eng.run.fileSeq,
           AtOK(at', eng'), at'.pc # "idle" => eng.run.ready,
           UNCHANGED <<file, used, past>>,
           \/ state' = state
           \/ eng.run.ready /\ state' = View(eng) /\ at.pc \in {"hold", "publish"},
           net' \in Nets, eng.run.ready => ~net'.replay, TakenIn' => TakenIn
    PROVE  Advance
  <1>1. Recalled
    BY DEF Recalled, Types, PastOK, Kept, Stays, Locked
  <1>2. used \in 0..MaxSeq /\ used <= used /\ eng'.pol.seq <= used
    BY DEF Types, Drawn, Kept, Stays
  <1> QED
    BY <1>1, <1>2 DEF Types, Advance
-----------------------------------------------------------------------------
(* The handlers, each as such a step. *)

\* The memory with what a message, a deadline or an effect has changed in it.
Alike(x) == Sound(x) /\ Kept(eng, x) /\ SameRun(eng, x)

LEMMA NearAlike == ASSUME NEW x, Near(eng, x) PROVE Alike(x)
  BY DEF Near, Alike, Kept, Stays, SameRun

LEMMA NearNear == ASSUME NEW x, NEW y, Alike(x), Near(x, y) PROVE Alike(y)
  BY DEF Near, Alike, Kept, Builds, Stays, SameRun

LEMMA IdleOK == \A e : AtOK(Idle, e) /\ Idle.pc = "idle"
  BY DEF Idle, At, AtOK, Places, LockPhases

LEMMA KeptMoves ==
    ASSUME NEW x, Sound(x), NEW r, r.eng = x, AtOK(r.at, r.eng)
    PROVE  Moves(x, r)
  BY DEF Moves, Same, Kept, Builds, Stays

LEMMA ChangedOK ==
    ASSUME Types, NEW x, Alike(x)
    PROVE  /\ Moves(x, Changed(x))
           /\ Changed(x).at.pc # "idle" => eng.run.ready
  <1>1. Steps(x, AtStep(x, FALSE))
    BY AtStepOK DEF Alike
  <1>2. Moves(x, AtStep(x, FALSE))
    BY <1>1, StepsMoves
  <1>3. Moves(x, [eng |-> x, at |-> Idle])
    BY IdleOK, KeptMoves DEF Alike
  <1> QED
    BY <1>2, <1>3, IdleOK DEF Changed, Alike, SameRun

\* A message or a poll that failed is handled; only the latter breaks the quiet time.
Takes(x) ==
    /\ at.pc = "idle" /\ Becomes(Changed(x))
    /\ \/ past' = Recall(Changed(x).eng)
       \/ /\ past' = [Recall(Changed(x).eng) EXCEPT !.near = FALSE]
          /\ ~eng.run.ready \/ x.pol = PollFailed(eng.pol)
    /\ UNCHANGED <<file, state, sent, cmd, power, net>>

LEMMA HandleTakes == ASSUME NEW x, Handle(x) PROVE Takes(x)
  BY DEF Handle, Runs, Takes

\* Nothing but near is changed beside what every step recalls.
LEMMA TakesRecalls ==
    ASSUME NEW x, Takes(x), NEW f, f # "near", f \in DOMAIN Recall(Changed(x).eng)
    PROVE  f \in DOMAIN past' /\ past'[f] = Recall(Changed(x).eng)[f]
  <1> DEFINE h == Recall(Changed(x).eng)
  <1>1. past' = h \/ past' = [h EXCEPT !.near = FALSE]
    BY DEF Takes
  <1> HIDE DEF h
  <1>2. f \in DOMAIN h
    BY DEF h
  <1>3. f \in DOMAIN past' /\ past'[f] = h[f]
    BY <1>1, <1>2
  <1> QED
    BY <1>3 DEF h

LEMMA TakesOK ==
    ASSUME Types, NEW x, Alike(x), Takes(x)
    PROVE  Advance
  <1> DEFINE r == Changed(x)
  <1>1. Moves(x, r) /\ (r.at.pc # "idle" => eng.run.ready)
    BY ChangedOK
  <1>2. Becomes(r) /\ UNCHANGED <<file, state, net>>
    BY DEF Takes
  <1>3. "freed" \in DOMAIN past' /\ past'.freed = Recall(r.eng).freed
    BY TakesRecalls, RecallOK
  <1> HIDE DEF r
  <1>4. Work
    BY <1>1, <1>2, <1>3, Working DEF Alike
  <1> QED
    BY <1>2, <1>4, WorkAdvances DEF Types

\* The borrow, the seq it was taken for and the phase it is due in are as they were.
Lent(e, n) ==
    /\ n.borrow = e.borrow /\ n.phase = e.phase
    /\ "borrowSeq" \in DOMAIN e => "borrowSeq" \in DOMAIN n /\ n.borrowSeq = e.borrowSeq

LEMMA BorrowAside ==
    ASSUME NEW e, Sound(e), NEW fresh
    PROVE  /\ Lent(e, NotePark(e, fresh)) /\ Lent(e, NoteTX(e)) /\ Lent(e, Track(e))
           /\ Lent(e, Capture(e))
  BY DEF Sound, NotePark, NoteTX, Track, Capture, Lent

LEMMA LentTwice == ASSUME NEW e, NEW n, NEW m, Lent(e, n), Lent(n, m) PROVE Lent(e, m)
  BY DEF Lent

LEMMA MessagesAlike ==
    ASSUME Types,
           \/ PowerSeqStatus \/ PowerSeqState \/ RotatorStatus \/ RotatorState \/ AntCtrlState
           \/ AntSwitchState \/ RadioState \/ PowerState \/ WindResult \/ NinaFails
    PROVE  \E x : /\ Takes(x) /\ Alike(x) /\ Lent(eng, x)
                /\ x.pol \in {eng.pol, PollFailed(eng.pol)}
  <1>1. CASE PowerSeqStatus
    <2>1. PICK on \in BOOLEAN : Handle([eng EXCEPT !.see.seqOn = on])
      BY <1>1 DEF PowerSeqStatus, Receive
    <2>2. LET x == [eng EXCEPT !.see.seqOn = on] IN Alike(x) /\ x.pol = eng.pol /\ Lent(eng, x)
      BY DEF Types, Sound, LockOK, Builds, Locked, Alike, Kept, Stays, SameRun, Lent
    <2> QED
      BY <2>1, <2>2, HandleTakes
  <1>2. CASE PowerSeqState
    <2>1. PICK p \in Phases :
             Handle([eng EXCEPT !.see.seqPhase = p, !.crew.lost =
                       IF p = "idle" /\ PresenceOf(TRUE, eng.see.seqPhase) THEN "lately"
                       ELSE IF p \in {"idle", ""} THEN @ ELSE "no"])
      BY <1>2 DEF PowerSeqState, Receive
    <2> DEFINE x == [eng EXCEPT !.see.seqPhase = p, !.crew.lost =
                       IF p = "idle" /\ PresenceOf(TRUE, eng.see.seqPhase) THEN "lately"
                       ELSE IF p \in {"idle", ""} THEN @ ELSE "no"]
    <2>2. Alike(x) /\ x.pol = eng.pol /\ Lent(eng, x)
      BY DEF Types, Sound, LockOK, Builds, Locked, Alike, Kept, Stays, SameRun, Lent
    <2> QED
      BY <2>1, <2>2, HandleTakes
  <1>3. CASE RotatorStatus
    <2>1. PICK on \in BOOLEAN : Handle(NotePark([eng EXCEPT !.see.rot.live = on], FALSE))
      BY <1>3 DEF RotatorStatus, Receive
    <2> DEFINE x == [eng EXCEPT !.see.rot.live = on]
    <2>2. Alike(x) /\ x.pol = eng.pol /\ Lent(eng, x)
      BY DEF Types, Sound, LockOK, Builds, Locked, Alike, Kept, Stays, SameRun, Lent
    <2> HIDE DEF x
    <2>3. Near(x, NotePark(x, FALSE))
      BY <2>2, NearPark DEF Alike
    <2>4. /\ Alike(NotePark(x, FALSE)) /\ NotePark(x, FALSE).pol = eng.pol
          /\ Lent(eng, NotePark(x, FALSE))
      BY <2>2, <2>3, BorrowAside, LentTwice, NearNear DEF Near, Alike
    <2> QED
      BY <2>1, <2>4, HandleTakes DEF x
  <1>4. CASE RotatorState
    <2>1. PICK v : Handle(NotePark([eng EXCEPT !.see.rot = v], TRUE))
      BY <1>4 DEF RotatorState, Receive
    <2> DEFINE x == [eng EXCEPT !.see.rot = v]
    <2>2. Alike(x) /\ x.pol = eng.pol /\ Lent(eng, x)
      BY DEF Types, Sound, LockOK, Builds, Locked, Alike, Kept, Stays, SameRun, Lent
    <2> HIDE DEF x
    <2>3. Near(x, NotePark(x, TRUE))
      BY <2>2, NearPark DEF Alike
    <2>4. /\ Alike(NotePark(x, TRUE)) /\ NotePark(x, TRUE).pol = eng.pol
          /\ Lent(eng, NotePark(x, TRUE))
      BY <2>2, <2>3, BorrowAside, LentTwice, NearNear DEF Near, Alike
    <2> QED
      BY <2>1, <2>4, HandleTakes DEF x
  <1>5. CASE AntCtrlState
    <2>1. PICK v : Handle([eng EXCEPT !.see.ant = v])
      BY <1>5 DEF AntCtrlState, Receive
    <2>2. LET x == [eng EXCEPT !.see.ant = v] IN Alike(x) /\ x.pol = eng.pol /\ Lent(eng, x)
      BY DEF Types, Sound, LockOK, Builds, Locked, Alike, Kept, Stays, SameRun, Lent
    <2> QED
      BY <2>1, <2>2, HandleTakes
  <1>6. CASE AntSwitchState
    <2>1. PICK v : Handle([eng EXCEPT !.see.off = v])
      BY <1>6 DEF AntSwitchState, Receive
    <2>2. LET x == [eng EXCEPT !.see.off = v] IN Alike(x) /\ x.pol = eng.pol /\ Lent(eng, x)
      BY DEF Types, Sound, LockOK, Builds, Locked, Alike, Kept, Stays, SameRun, Lent
    <2> QED
      BY <2>1, <2>2, HandleTakes
  <1>7. CASE RadioState
    <2>1. PICK v : Handle(NoteTX([eng EXCEPT !.see.radio = v]))
      BY <1>7 DEF RadioState, Receive
    <2> DEFINE x == [eng EXCEPT !.see.radio = v]
    <2>2. Alike(x) /\ x.pol = eng.pol /\ Lent(eng, x)
      BY DEF Types, Sound, LockOK, Builds, Locked, Alike, Kept, Stays, SameRun, Lent
    <2> HIDE DEF x
    <2>3. Near(x, NoteTX(x))
      BY <2>2, NearTX DEF Alike
    <2>4. /\ Alike(NoteTX(x)) /\ NoteTX(x).pol = eng.pol
          /\ Lent(eng, NoteTX(x))
      BY <2>2, <2>3, BorrowAside, LentTwice, NearNear DEF Near, Alike
    <2> QED
      BY <2>1, <2>4, HandleTakes DEF x
  <1>8. CASE PowerState
    <2>1. PICK v : Handle([eng EXCEPT !.see.power = v])
      BY <1>8 DEF PowerState, Receive
    <2>2. LET x == [eng EXCEPT !.see.power = v] IN Alike(x) /\ x.pol = eng.pol /\ Lent(eng, x)
      BY DEF Types, Sound, LockOK, Builds, Locked, Alike, Kept, Stays, SameRun, Lent
    <2> QED
      BY <2>1, <2>2, HandleTakes
  <1>9. CASE WindResult
    <2>1. PICK v : Handle([eng EXCEPT !.see.wind = v])
      BY <1>9 DEF WindResult
    <2>2. LET x == [eng EXCEPT !.see.wind = v] IN Alike(x) /\ x.pol = eng.pol /\ Lent(eng, x)
      BY DEF Types, Sound, LockOK, Builds, Locked, Alike, Kept, Stays, SameRun, Lent
    <2> QED
      BY <2>1, <2>2, HandleTakes
  <1>10. CASE NinaFails
    <2> DEFINE x == IF eng.run.ready THEN [eng EXCEPT !.pol = PollFailed(@)] ELSE eng
    <2>1. /\ at.pc = "idle" /\ Becomes(Changed(x))
          /\ past' = [Recall(Changed(x).eng) EXCEPT !.near = FALSE]
          /\ UNCHANGED <<file, state, sent, cmd, power, net>>
      BY <1>10 DEF NinaFails
    <2>2. Sound(eng) /\ PollFailed(eng.pol) \in Policies /\ Stays(eng.pol, PollFailed(eng.pol))
      BY SetsOK DEF Types, Sound
    <2>3. Alike(x) /\ x.pol \in {eng.pol, PollFailed(eng.pol)} /\ Lent(eng, x)
      BY <2>2 DEF Sound, LockOK, Builds, Locked, Alike, Kept, Stays, SameRun, Lent
    <2>4. ~eng.run.ready \/ x.pol = PollFailed(eng.pol)
      BY DEF Types, Sound
    <2> HIDE DEF x
    <2>5. Takes(x)
      BY <2>1, <2>4 DEF Takes
    <2> QED
      BY <2>3, <2>5
  <1> QED
    BY <1>1, <1>2, <1>3, <1>4, <1>5, <1>6, <1>7, <1>8, <1>9, <1>10

LEMMA MessagesOK ==
    ASSUME Types,
           \/ PowerSeqStatus \/ PowerSeqState \/ RotatorStatus \/ RotatorState \/ AntCtrlState
           \/ AntSwitchState \/ RadioState \/ PowerState \/ WindResult \/ NinaFails
    PROVE  Advance
  BY MessagesAlike, TakesOK

\* A poll, a tick and the end of the startup hold.
LEMMA NinaResultOK == ASSUME Types, NinaResult PROVE Advance
  <1>0. PICK ws \in SUBSET Warnings : \E a \in SUBSET ws :
           LET e == [eng EXCEPT !.see.listed = ws, !.see.active = a]
               n == IF e.run.ready THEN Decide(e, Poll(e.pol, a)) ELSE e
               r == IF e.run.ready THEN AtStep(n, FALSE) ELSE [eng |-> n, at |-> Idle]
           IN /\ at.pc = "idle" /\ Becomes(r)
              /\ past' = [Recall(r.eng) EXCEPT
                            !.overruled = IF e.run.ready THEN @ \cap a ELSE @,
                            !.calm = IF ~e.run.ready THEN @ ELSE IF a # {} THEN 0
                                     ELSE IF past.near /\ @ < ExitAfter THEN @ + 1 ELSE @,
                            !.near = e.run.ready /\ a = {}]
              /\ UNCHANGED <<file, state, sent, cmd, power, net>>
    BY DEF NinaResult
  <1>1. PICK a \in SUBSET ws :
           LET e == [eng EXCEPT !.see.listed = ws, !.see.active = a]
               n == IF e.run.ready THEN Decide(e, Poll(e.pol, a)) ELSE e
               r == IF e.run.ready THEN AtStep(n, FALSE) ELSE [eng |-> n, at |-> Idle]
           IN /\ at.pc = "idle" /\ Becomes(r)
              /\ past' = [Recall(r.eng) EXCEPT
                            !.overruled = IF e.run.ready THEN @ \cap a ELSE @,
                            !.calm = IF ~e.run.ready THEN @ ELSE IF a # {} THEN 0
                                     ELSE IF past.near /\ @ < ExitAfter THEN @ + 1 ELSE @,
                            !.near = e.run.ready /\ a = {}]
              /\ UNCHANGED <<file, state, sent, cmd, power, net>>
    BY <1>0
  <1> DEFINE e == [eng EXCEPT !.see.listed = ws, !.see.active = a]
             n == IF e.run.ready THEN Decide(e, Poll(e.pol, a)) ELSE e
             r == IF e.run.ready THEN AtStep(n, FALSE) ELSE [eng |-> n, at |-> Idle]
  <1>2. Alike(e) /\ e.see.active = a
    <2> DEFINE d == [eng EXCEPT !.see.listed = ws]
    <2>1. Alike(d)
      BY DEF Types, Sound, LockOK, Builds, Locked, Alike, Kept, Stays, SameRun
    <2>2. e = [d EXCEPT !.see.active = a]
      BY DEF Types, Sound
    <2> HIDE DEF d, e
    <2> QED
      BY <2>1, <2>2 DEF Sound, LockOK, Builds, Locked, Alike, Kept, Stays, SameRun
  <1>3. /\ Becomes(r) /\ UNCHANGED <<file, state, net>>
        /\ "freed" \in DOMAIN past' /\ past'.freed = Recall(r.eng).freed
    <2>1. /\ Becomes(r) /\ UNCHANGED <<file, state, net>>
          /\ past' = [Recall(r.eng) EXCEPT
                        !.overruled = IF e.run.ready THEN @ \cap a ELSE @,
                        !.calm = IF ~e.run.ready THEN @ ELSE IF a # {} THEN 0
                                 ELSE IF past.near /\ @ < ExitAfter THEN @ + 1 ELSE @,
                        !.near = e.run.ready /\ a = {}]
      BY <1>1
    <2> HIDE DEF r
    <2> QED
      BY <2>1, RecallOK
  <1> HIDE DEF e
  <1>4. Moves(e, r)
    <2>1. CASE e.run.ready
      <3> DEFINE p == Poll(e.pol, a)
      <3>1. p \in Policies /\ (Stays(e.pol, p) \/ (Frees(e.pol, p) /\ a = {}))
        BY <1>2, PollOK DEF Alike, Sound
      <3> HIDE DEF p
      <3>2. Same(e, Decide(e, p)) /\ (\/ Kept(e, Decide(e, p))
                                      \/ (Unlocks(e, Decide(e, p)) /\ Calm(Decide(e, p))))
        BY <1>2, <3>1, DecideOK DEF Alike, Same, Calm
      <3>3. Steps(Decide(e, p), AtStep(Decide(e, p), FALSE))
        BY <3>2, AtStepOK DEF Same
      <3>4. Moves(e, AtStep(Decide(e, p), FALSE))
        BY <3>2, <3>3, DecisionThenStep
      <3>5. r = AtStep(Decide(e, p), FALSE)
        BY <2>1 DEF p
      <3> QED
        BY <3>4, <3>5
    <2>2. CASE ~e.run.ready
      <3>1. r = [eng |-> e, at |-> Idle]
        BY <2>2
      <3> HIDE DEF r
      <3> QED
        BY <1>2, <3>1, IdleOK, KeptMoves DEF Alike
    <2> QED
      BY <2>1, <2>2
  <1>5. r.at.pc # "idle" => eng.run.ready
    BY <1>2, IdleOK DEF Alike, SameRun
  <1> HIDE DEF r
  <1>6. Work
    BY <1>2, <1>3, <1>4, <1>5, Working DEF Alike
  <1> QED
    BY <1>3, <1>6, WorkAdvances DEF Types

LEMMA TickOK == ASSUME Types, Tick PROVE Advance
  <1>1. PICK w \in SUBSET Running, a \in SUBSET eng.see.listed :
           LET r == Changed(Pass(eng, w, a))
           IN /\ Becomes(r)
              /\ past' = [Recall(r.eng) EXCEPT !.beat = IF Beats /\ w = Running THEN ~@ ELSE @]
              /\ UNCHANGED <<file, state, net>>
    BY DEF Tick
  <1> DEFINE x == Pass(eng, w, a)
             r == Changed(x)
  <1>2. Alike(x)
    BY DEF Pass, Types, Sound, LockOK, Builds, Locked, Alike, Kept, Stays, SameRun
  <1> HIDE DEF x
  <1>3. Moves(x, r) /\ (r.at.pc # "idle" => eng.run.ready)
    BY <1>2, ChangedOK
  <1>4. /\ Becomes(r) /\ UNCHANGED <<file, state, net>>
        /\ "freed" \in DOMAIN past' /\ past'.freed = Recall(r.eng).freed
    BY <1>1, RecallOK DEF x
  <1> HIDE DEF r
  <1>5. Work
    BY <1>2, <1>3, <1>4, Working DEF Alike
  <1> QED
    BY <1>4, <1>5, WorkAdvances DEF Types

\* The memory as the startup hold ends.
LEMMA ReadyOK ==
    ASSUME Types
    PROVE  LET x == [eng EXCEPT !.run.ready = TRUE, !.run.adopt = FALSE, !.run.fileSeq = 0,
                                !.over.phase = FALSE, !.over.borrow = @ /\ ~eng.borrow.open]
           IN Sound(x) /\ Kept(eng, x) /\ x.run.ready /\ x.pol = eng.pol
  <1> DEFINE x == [eng EXCEPT !.run.ready = TRUE, !.run.adopt = FALSE, !.run.fileSeq = 0,
                              !.over.phase = FALSE, !.over.borrow = @ /\ ~eng.borrow.open]
             b == [eng EXCEPT !.run.ready = TRUE]
             c == [b EXCEPT !.run.adopt = FALSE]
             d == [c EXCEPT !.run.fileSeq = 0]
  <1>1. Sound(b) /\ Kept(eng, b) /\ b.run.ready /\ b.pol = eng.pol
    BY DEF Types, Sound, LockOK, Builds, Locked, Kept, Stays
  <1> HIDE DEF b
  <1>2. Sound(c) /\ Kept(eng, c) /\ c.run.ready /\ c.pol = eng.pol
    BY <1>1 DEF Sound, LockOK, Builds, Locked, Kept, Stays
  <1> HIDE DEF c
  <1>3. Sound(d) /\ Kept(eng, d) /\ d.run.ready /\ d.pol = eng.pol
    BY <1>2 DEF Sound, LockOK, Builds, Locked, Kept, Stays
  <1>4. x = [d EXCEPT !.over.phase = FALSE, !.over.borrow = @ /\ ~eng.borrow.open]
    BY DEF b, c, d
  <1> HIDE DEF d, x
  <1>5. Sound(x) /\ Kept(eng, x) /\ x.run.ready /\ x.pol = eng.pol
    BY <1>3, <1>4 DEF Sound, LockOK, Builds, Locked, Kept, Stays
  <1> QED
    BY <1>5 DEF x

LEMMA BecomeReadyOK == ASSUME Types, BecomeReady PROVE Advance
  <1> DEFINE x == [eng EXCEPT !.run.ready = TRUE, !.run.adopt = FALSE, !.run.fileSeq = 0,
                              !.over.phase = FALSE, !.over.borrow = @ /\ ~eng.borrow.open]
             r == AtApply(x, TRUE)
  <1>1. /\ at.pc = "idle" /\ eng.run.connected /\ (SteadyStart => ~net.replay)
        /\ Becomes(r) /\ past' = Recall(r.eng) /\ UNCHANGED <<file, state>>
        /\ net' = [net EXCEPT !.replay = FALSE]
    BY DEF BecomeReady, Runs
  <1>2. Sound(x) /\ Kept(eng, x) /\ x.run.ready
    BY ReadyOK
  <1> HIDE DEF x
  <1>3. Steps(x, r)
    BY <1>2, AtApplyOK
  <1>4. Moves(x, r)
    BY <1>3, StepsMoves
  <1> HIDE DEF r
  <1>5. eng' = r.eng /\ at' = r.at /\ used' = Higher(used, eng'.pol.seq)
    BY <1>1 DEF Becomes
  <1>6. Sound(eng') /\ AtOK(at', eng') /\ eng'.run = x.run
    BY <1>4, <1>5 DEF Moves, Same
  <1>7. used' \in 0..MaxSeq /\ used <= used' /\ eng'.pol.seq <= used'
    BY <1>5, <1>6, HigherOK DEF Types, Drawn, Sound, Policies
  <1>8. Kept(eng, eng') \/ Relocks(eng, eng') \/ Unlocks(eng, eng')
    BY <1>2, <1>4, <1>5 DEF Moves, Kept, Builds, Relocks, Unlocks, Stays, Locks, Frees
  <1>9. Recalled
    BY <1>1, <1>5, RecallOK DEF Recalled
  <1>10. net' \in Nets /\ ~net'.replay
    BY <1>1 DEF Types, Nets
  <1> QED
    BY <1>1, <1>2, <1>5, <1>6, <1>7, <1>8, <1>9, <1>10 DEF Advance, TakenIn

\* Own topics and the link.
LEMMA CmdOK ==
    ASSUME Types, NEW o, Cmd(o)
    PROVE  Advance
  <1> DEFINE q == eng.run.queue
             x == [eng EXCEPT !.run.queue =
                      IF Len(q) < QueueCap THEN Append(q, cmd.what) ELSE q]
             r == IF eng.run.ready THEN AtCommand(eng, cmd.what, FALSE)
                  ELSE [at |-> Idle, eng |-> x]
             over == eng.run.ready /\ cmd.what = "normal" /\ Locked(eng)
  <1>1. /\ Becomes(r) /\ UNCHANGED <<file, state, net>>
        /\ past' = [Recall(r.eng) EXCEPT !.overruled = IF over THEN eng.see.active ELSE @]
    BY DEF Cmd
  <1>2. "freed" \in DOMAIN past' /\ past'.freed = Recall(r.eng).freed
    BY <1>1, RecallOK
  <1>3. CASE eng.run.ready
    <2>1. Moves(eng, r) /\ Alike(eng)
      BY <1>3, AtCommandOK, NearSelf, NearAlike DEF Types
    <2> HIDE DEF r
    <2>2. Work
      BY <1>1, <1>2, <1>3, <2>1, Working DEF Alike
    <2> QED
      BY <1>1, <2>2, WorkAdvances DEF Types
  <1>4. CASE ~eng.run.ready
    <2>1. r = [at |-> Idle, eng |-> x]
      BY <1>4
    <2>2. Alike(x)
      BY DEF Types, Sound, LockOK, Builds, Locked, Alike, Kept, Stays, SameRun
    <2> HIDE DEF r, x
    <2>3. Moves(x, r) /\ r.at.pc = "idle"
      BY <2>1, <2>2, IdleOK, KeptMoves DEF Alike
    <2>4. Work
      BY <1>1, <1>2, <2>2, <2>3, Working DEF Alike
    <2> QED
      BY <1>1, <2>4, WorkAdvances DEF Types
  <1> QED
    BY <1>3, <1>4

LEMMA RepublishOK == ASSUME Types, Republish PROVE Advance
  <1> DEFINE r == AtPublish(eng, TRUE)
  <1>1. /\ Becomes(r) /\ past' = Recall(r.eng) /\ UNCHANGED <<file, state>>
        /\ net' = [net EXCEPT !.republish = FALSE]
    BY DEF Republish, Runs
  <1>2. Near(eng, eng)
    BY NearSelf DEF Types
  <1>3. Reaches(eng, r) /\ (r.at.pc # "idle" => eng.run.ready)
    BY <1>2, AtPublishOK
  <1> HIDE DEF r
  <1>4. Steps(eng, r)
    BY <1>3, ReachesSteps DEF Types
  <1>5. Moves(eng, r)
    BY <1>4, StepsMoves
  <1>6. Work
    BY <1>1, <1>2, <1>3, <1>5, NearAlike, RecallOK, Working DEF Alike
  <1>7. net' \in Nets /\ net'.replay = net.replay
    BY <1>1 DEF Types, Nets
  <1> QED
    BY <1>1, <1>6, <1>7, WorkAdvances

LEMMA LinkOK ==
    ASSUME Types, OperatorSends \/ LinkDown \/ Lost \/ Opened
    PROVE  Advance
  <1>1. CASE OperatorSends
    <2>1. UNCHANGED <<eng, at, file, state, net, used, past>>
      BY <1>1 DEF OperatorSends
    <2>2. Kept(eng, eng') /\ (TakenIn' => TakenIn)
      BY <2>1 DEF Kept, Builds, Stays, TakenIn
    <2> QED
      BY <2>1, <2>2, QuietAdvances DEF Types
  <1>2. CASE LinkDown \/ Lost \/ Opened
    <2>1. PICK up \in BOOLEAN : eng' = [eng EXCEPT !.run.connected = up]
      BY <1>2 DEF LinkDown, Lost, Opened
    <2>2. /\ Sound(eng') /\ Kept(eng, eng') /\ eng'.run.ready = eng.run.ready
          /\ eng'.run.adopt = eng.run.adopt /\ eng'.run.fileSeq = eng.run.fileSeq
          /\ eng'.run.connected = up
      BY <2>1 DEF Types, Sound, LockOK, Builds, Locked, Kept, Stays
    <2>3. UNCHANGED <<at, file, state, used, past>>
      BY <1>2 DEF LinkDown, Lost, Opened
    <2>4. net' \in Nets /\ (eng.run.ready => ~net'.replay)
      <3>1. CASE LinkDown
        BY <3>1 DEF LinkDown, Nets, Unlinked
      <3>2. CASE Lost
        BY <3>2 DEF Lost, Types
      <3>3. CASE Opened
        <4>1. net' = [up |-> TRUE, republish |-> TRUE, replay |-> ~eng.run.ready]
          BY <3>3 DEF Opened
        <4> QED
          BY <4>1 DEF Nets
      <3> QED
        BY <1>2, <3>1, <3>2, <3>3
    <2>5. TakenIn' => TakenIn
      <3>1. CASE LinkDown
        <4>1. at.pc # "idle" => eng.run.ready
          BY DEF Types
        <4>2. eng'.run.connected <=> at.pc # "idle"
          BY <3>1 DEF LinkDown, Types, Sound
        <4> QED
          BY <2>2, <4>1, <4>2 DEF TakenIn
      <3>2. CASE Lost
        BY <2>2, <3>2 DEF Lost, TakenIn, Types, Sound
      <3>3. CASE Opened
        BY <2>2, <3>3 DEF Opened, TakenIn
      <3> QED
        BY <1>2, <3>1, <3>2, <3>3
    <2>6. AtOK(at', eng')
      BY <2>2, <2>3 DEF Types, AtOK, Kept, Stays, Locked
    <2> QED
      BY <2>2, <2>3, <2>4, <2>5, <2>6, QuietAdvances DEF Types
  <1> QED
    BY <1>1, <1>2

\* The effects.
LEMMA ApplyOK == ASSUME Types, Apply PROVE Advance
  <1> DEFINE x == [eng EXCEPT !.run.queue = Tail(@)]
             r == AtCommand(x, Head(eng.run.queue), at.force)
  <1>1. /\ at.pc = "apply" /\ Becomes(r) /\ past' = Recall(r.eng)
        /\ UNCHANGED <<file, state, net>>
    BY DEF Apply, Runs
  <1>2. Alike(x)
    BY DEF Types, Sound, LockOK, Builds, Locked, Alike, Kept, Stays, SameRun
  <1> HIDE DEF x
  <1>3. Moves(x, r)
    BY <1>2, AtCommandOK DEF Alike
  <1> HIDE DEF r
  <1>4. Work
    BY <1>1, <1>2, <1>3, RecallOK, Working DEF Alike, Types
  <1> QED
    BY <1>1, <1>4, WorkAdvances DEF Types

LEMMA SaveOK ==
    ASSUME Types, NEW ok, Save(ok)
    PROVE  Advance
  <1> DEFINE x == [eng EXCEPT !.run.saved = FALSE, !.over.borrow = FALSE]
             a == [at EXCEPT !.pc = IF Publishes(x, FALSE) THEN "hold" ELSE "on"]
             v == [eng EXCEPT !.borrow = NoBorrow, !.borrowSeq = at.borrowSeq]
             u == To(v, at.phase)
             r == IF ok THEN [eng |-> x, at |-> a] ELSE Resume(u, at.ret, at.force)
  <1>1. /\ at.pc = "save" /\ file' = (IF ok THEN Snapshot(eng) ELSE file)
        /\ Becomes(r) /\ past' = Recall(r.eng) /\ UNCHANGED <<state, net>>
    BY DEF Save, Runs
  <1>2. eng.run.ready /\ at.ret \in Returns /\ at.phase \in LockPhases
    BY <1>1 DEF Types, AtOK
  <1>3. \E y : Alike(y) /\ Moves(y, r)
    <2>1. CASE ok
      <3>1. Alike(x)
        BY DEF Types, Sound, LockOK, Builds, Locked, Alike, Kept, Stays, SameRun
      <3>2. AtOK(a, x)
        BY <1>1 DEF Types, AtOK, Places
      <3>3. r = [eng |-> x, at |-> a]
        BY <2>1
      <3> HIDE DEF x, a, r
      <3>4. Moves(x, r)
        BY <3>1, <3>2, <3>3, KeptMoves DEF Alike
      <3> QED
        BY <3>1, <3>4
    <2>2. CASE ~ok
      <3>1. Near(eng, v)
        BY DEF Types, Sound, LockOK, Builds, Locked, Near
      <3>2. r = Resume(u, at.ret, at.force)
        BY <2>2
      <3> HIDE DEF v
      <3>3. Near(v, u)
        BY <1>2, <3>1, NearPhase DEF Near
      <3>4. Near(eng, u)
        BY <3>1, <3>3, NearTwice
      <3> HIDE DEF u, r
      <3>5. Alike(u)
        BY <3>4, NearAlike
      <3>6. Steps(u, r)
        BY <1>2, <3>2, <3>5, ResumeOK DEF Alike
      <3>7. Moves(u, r)
        BY <3>6, StepsMoves
      <3> QED
        BY <3>5, <3>7
    <2> QED
      BY <2>1, <2>2
  <1> HIDE DEF r
  <1>4. Work
    BY <1>1, <1>2, <1>3, RecallOK, Working DEF Alike
  <1> QED
    BY <1>1, <1>2, <1>4, WorkAdvances DEF Types

\* A publish of /state.
LEMMA PublishOK ==
    ASSUME Types, NEW o, Hold(o) \/ Publish(o)
    PROVE  Advance
  <1>1. /\ at.pc \in {"hold", "publish"} /\ UNCHANGED <<eng, file, net, used, past>>
        /\ state' = state \/ state' = View(eng)
    BY DEF Hold, Publish, PublishState
  <1>2. eng.run.ready /\ Kept(eng, eng')
    BY <1>1 DEF Types, Kept, Builds, Stays
  <1>3. AtOK(at', eng')
    <2>1. CASE Hold(o)
      <3>1. at.pc = "hold" /\ at' = [at EXCEPT !.pc = "on"]
        BY <2>1 DEF Hold
      <3> QED
        BY <3>1 DEF Types, AtOK, Places
    <2>2. CASE Publish(o)
      BY <2>2, IdleOK DEF Publish
    <2> QED
      BY <2>1, <2>2
  <1> QED
    BY <1>1, <1>2, <1>3, QuietAdvances DEF Types, TakenIn

LEMMA PowerOnOK ==
    ASSUME Types, NEW o, PowerOn(o)
    PROVE  Advance
  <1> DEFINE x == [eng EXCEPT !.borrow.sent = @ \/ o = "ok"]
             r == IF at.pc = "on" THEN Resume(x, at.ret, at.force)
                  ELSE AtReturn(StepLock(x), at.force)
  <1>1. /\ at.pc \in {"on", "resend"} /\ Becomes(r)
        /\ past' = [Recall(r.eng) EXCEPT !.yielded = @ /\ ~Delivered(o)]
        /\ UNCHANGED <<file, state, net>>
    BY DEF PowerOn
  <1>2. eng.run.ready /\ (at.pc = "on" => at.ret \in Returns)
    BY <1>1 DEF Types, AtOK
  <1>3. Alike(x)
    BY DEF Types, Sound, LockOK, Builds, Locked, Alike, Kept, Stays, SameRun
  <1> HIDE DEF x
  <1>4. Steps(x, r)
    <2>1. CASE at.pc = "on"
      BY <1>2, <1>3, <2>1, ResumeOK DEF Alike
    <2>2. CASE at.pc # "on"
      <3>0. Locked(x)
        BY <1>1, <1>3, <2>2 DEF Types, AtOK, Alike, Kept, Stays, Locked
      <3>1. Near(x, StepLock(x))
        BY <1>3, <3>0, NearStepLock DEF Alike
      <3>2. Reaches(x, AtReturn(StepLock(x), at.force))
        BY <3>1, AtReturnOK
      <3>3. r = AtReturn(StepLock(x), at.force)
        BY <2>2
      <3> HIDE DEF r
      <3> QED
        BY <1>3, <3>2, <3>3, ReachesSteps DEF Alike
    <2> QED
      BY <2>1, <2>2
  <1>5. Moves(x, r)
    BY <1>4, StepsMoves
  <1> HIDE DEF r
  <1>6. "freed" \in DOMAIN past' /\ past'.freed = Recall(r.eng).freed
    BY <1>1, RecallOK
  <1>7. Work
    BY <1>1, <1>2, <1>3, <1>5, <1>6, Working DEF Alike
  <1> QED
    BY <1>1, <1>7, WorkAdvances DEF Types

LEMMA RestoreOK ==
    ASSUME Types, NEW o, Restore(o)
    PROVE  Advance
  <1> DEFINE x == IF o = "ok" THEN Return(eng) ELSE eng
             r == AtPersist(x, at.force)
  <1>1. /\ at.pc = "restore" /\ Becomes(r)
        /\ past' = [Recall(r.eng) EXCEPT !.back =
                      IF Locked(eng) /\ Delivered(o) THEN @ \cup {eng.lock.seq} ELSE @]
        /\ UNCHANGED <<file, state, net>>
    BY DEF Restore
  <1>2. Near(eng, x)
    BY NearBorrow, NearSelf DEF Types
  <1> HIDE DEF x
  <1>3. Reaches(eng, r)
    BY <1>2, AtPersistOK
  <1> HIDE DEF r
  <1>4. Steps(eng, r) /\ Alike(eng)
    BY <1>3, ReachesSteps, NearSelf, NearAlike DEF Types
  <1>5. Moves(eng, r)
    BY <1>4, StepsMoves
  <1>6. "freed" \in DOMAIN past' /\ past'.freed = Recall(r.eng).freed
    BY <1>1, RecallOK
  <1>7. Work
    BY <1>1, <1>4, <1>5, <1>6, Working DEF Alike, Types
  <1> QED
    BY <1>1, <1>7, WorkAdvances DEF Types

LEMMA PersistOK ==
    ASSUME Types, NEW ok, Persist(ok)
    PROVE  Advance
  <1> DEFINE x == [eng EXCEPT !.run.saved = @ \/ ok]
             r == AtPublish(x, at.force)
  <1>1. /\ at.pc = "persist" /\ file' = (IF ok THEN Snapshot(eng) ELSE file)
        /\ Becomes(r) /\ past' = Recall(r.eng) /\ UNCHANGED <<state, net>>
    BY DEF Persist, Runs
  <1>2. Alike(x) /\ eng.run.ready
    BY <1>1 DEF Types, Sound, LockOK, Builds, Locked, Alike, Kept, Stays, SameRun
  <1> HIDE DEF x
  <1>3. Near(x, x)
    BY <1>2, NearSelf DEF Alike
  <1>4. Reaches(x, r)
    BY <1>3, AtPublishOK
  <1> HIDE DEF r
  <1>5. Steps(x, r)
    BY <1>2, <1>4, ReachesSteps DEF Alike
  <1>6. Moves(x, r)
    BY <1>5, StepsMoves
  <1>7. Work
    BY <1>1, <1>2, <1>6, RecallOK, Working DEF Alike
  <1> QED
    BY <1>1, <1>2, <1>7, WorkAdvances DEF Types

LEMMA NextAdvances ==
    ASSUME Types, Next
    PROVE  Advance \/ OwnState \/ Crash
  <1>1. CASE Apply \/ \E ok \in Writes : Save(ok) \/ Persist(ok)
    BY <1>1, ApplyOK, SaveOK, PersistOK
  <1>2. CASE \E o \in {"ok", "late", "lost", "failed"} :
                Hold(o) \/ PowerOn(o) \/ Restore(o) \/ Publish(o) \/ Cmd(o)
    BY <1>2, PublishOK, PowerOnOK, RestoreOK, CmdOK
  <1>3. CASE \/ PowerSeqStatus \/ PowerSeqState \/ RotatorStatus \/ RotatorState \/ AntCtrlState
             \/ AntSwitchState \/ RadioState \/ PowerState \/ WindResult \/ NinaFails
    BY <1>3, MessagesOK
  <1>4. CASE NinaResult \/ Tick \/ BecomeReady \/ Republish
    BY <1>4, NinaResultOK, TickOK, BecomeReadyOK, RepublishOK
  <1>5. CASE OperatorSends \/ LinkDown \/ Lost \/ Opened
    BY <1>5, LinkOK
  <1> QED
    BY <1>1, <1>2, <1>3, <1>4, <1>5 DEF Next
-----------------------------------------------------------------------------
(* Types. *)

LEMMA RecalledOK ==
    ASSUME Types, Sound(eng'), Recalled
    PROVE  /\ PastOK'
           /\ past'.freed.manual >= past.freed.manual /\ past'.freed.auto >= past.freed.auto
           /\ Locked(eng) /\ ~Locked(eng') =>
                 past'.freed[eng'.pol.source] >= eng.lock.seq
  <1>1. /\ past.freed \in [manual : Nat, auto : Nat]
        /\ eng'.pol.source \in {"manual", "auto"} /\ eng.lock.seq \in Nat
    BY Bounds DEF Types, PastOK, Sound, Policies, LockOK
  <1> DEFINE h == Higher(past.freed[eng'.pol.source], eng.lock.seq)
  <1>2. CASE Locked(eng) /\ ~Locked(eng')
    <2>1. /\ "freed" \in DOMAIN past'
          /\ past'.freed = [past.freed EXCEPT ![eng'.pol.source] = h]
      BY <1>2 DEF Recalled
    <2>2. h \in Nat /\ h >= past.freed[eng'.pol.source] /\ h >= eng.lock.seq
      BY <1>1 DEF Higher
    <2> HIDE DEF h
    <2> QED
      BY <1>1, <2>1, <2>2 DEF PastOK
  <1>3. CASE ~(Locked(eng) /\ ~Locked(eng'))
    BY <1>1, <1>3 DEF Recalled, PastOK
  <1> QED
    BY <1>2, <1>3

LEMMA TypesInit == Init => Types
  <1> SUFFICES ASSUME Init PROVE Types
    OBVIOUS
  <1>1. FileOK(None) /\ StateOK(None)
    BY DEF FileOK, StateOK
  <1>2. Sound(eng) /\ ~eng.run.ready /\ eng.pol.seq = 0
    BY <1>1, NewOK, Bounds DEF Init
  <1>3. Drawn
    BY <1>2, Bounds DEF Init, Drawn
  <1>4. PastOK
    BY DEF Init, NoPast, PastOK
  <1>5. net \in Nets
    BY DEF Init, Unlinked, Nets
  <1> QED
    BY <1>1, <1>2, <1>4, <1>5, <1>3, IdleOK DEF Init, Types

LEMMA TypesStep == Types /\ [Next]_vars => Types'
  <1> SUFFICES ASSUME Types, [Next]_vars PROVE Types'
    OBVIOUS
  <1>1. CASE Advance
    <2>1. /\ file' = file \/ file' = Snapshot(eng)
          /\ state' = state \/ state' = View(eng)
          /\ used \in 0..MaxSeq /\ used' \in 0..MaxSeq /\ used <= used'
      BY <1>1 DEF Advance, Types, Drawn
    <2>2. FileOK(file') /\ (file' # None => file'.pol.seq <= used)
      BY <2>1, SnapshotOK DEF Types, Drawn
    <2>3. StateOK(state') /\ (state' # None => state'.seq <= used)
      BY <2>1, ViewOK DEF Types, Drawn
    <2>4. PastOK'
      BY <1>1, RecalledOK DEF Advance
    <2>5. Drawn'
      <3>1. eng'.pol.seq <= used'
        BY <1>1 DEF Advance
      <3>2. file' # None => file'.pol.seq \in Nat
        BY <2>2, Bounds DEF FileOK, Policies
      <3>3. state' # None => state'.seq \in Nat
        BY <2>3, Bounds DEF StateOK
      <3> QED
        BY <2>1, <2>2, <2>3, <3>1, <3>2, <3>3 DEF Drawn
    <2> QED
      BY <1>1, <2>2, <2>3, <2>4, <2>5 DEF Advance, Types
  <1>2. CASE OwnState
    <2>1. /\ at.pc = "idle" /\ UNCHANGED <<at, file, state, used, past>>
          /\ net' = [net EXCEPT !.replay = FALSE]
          /\ eng' = IF state = None THEN eng ELSE Adopt(eng, state)
      BY <1>2 DEF OwnState
    <2>2. Sound(eng') /\ eng'.run = eng.run
      BY <2>1, AdoptOK DEF Types, Same
    <2>3. eng'.pol.seq <= used
      BY <2>1, AdoptOK DEF Types, Drawn
    <2>4. net' \in Nets /\ ~net'.replay
      BY <2>1 DEF Types, Nets
    <2>5. AtOK(at', eng')
      BY <2>1 DEF Types, AtOK
    <2> QED
      BY <2>1, <2>2, <2>4, <2>5, <2>3 DEF Types, Drawn, PastOK
  <1>3. CASE Crash
    <2>1. /\ file' = file \/ file' = None
          /\ eng' = New(file', used) /\ at' = Idle /\ net' = Unlinked /\ UNCHANGED <<state, used>>
      BY <1>3 DEF Crash
    <2>2. FileOK(file')
      BY <2>1 DEF FileOK, Types
    <2>3. used \in 0..MaxSeq
      BY DEF Types, Drawn
    <2>4. /\ Sound(eng') /\ ~eng'.run.ready
          /\ file' = None => eng'.pol.seq = used
          /\ file' # None => eng'.pol = file'.pol
      BY <2>1, <2>2, <2>3, NewOK
    <2>5. Drawn'
      <3>1. eng'.pol.seq <= used
        BY <2>1, <2>4, <2>3 DEF Types, Drawn
      <3> QED
        BY <2>1, <3>1 DEF Types, Drawn
    <2>6. PastOK'
      BY <1>3 DEF Crash, Types, PastOK
    <2>7. net' \in Nets
      BY <2>1 DEF Unlinked, Nets
    <2> QED
      BY <2>1, <2>2, <2>4, <2>6, <2>7, <2>5, IdleOK DEF Types
  <1>4. CASE UNCHANGED vars
    BY <1>4 DEF vars, world, Types, Drawn, PastOK
  <1> QED
    BY <1>1, <1>2, <1>3, <1>4, NextAdvances

\* Whatever comes in, is lost, times out or is restarted: the policy, the phase of the lock
\* and the place of the worker keep their types, and no seq runs past the bound (Policy,
\* LockState, State in the file and in /state).
THEOREM TypeCorrect == Spec => []TypeOK
  <1>1. Types => TypeOK
    <2> SUFFICES ASSUME Types PROVE TypeOK
      OBVIOUS
    <2>1. eng.pol \in Policies /\ eng.phase \in LockPhases /\ eng.lock.seq \in 0..eng.pol.seq
      BY DEF Types, Sound, LockOK
    <2>2. eng.lock.seq \in 0..MaxSeq
      BY <2>1, Bounds DEF Policies
    <2>3. at.pc \in Places /\ used \in 0..MaxSeq
      BY DEF Types, Drawn, AtOK
    <2> QED
      BY <2>1, <2>2, <2>3 DEF Places, TypeOK
  <1> QED
    BY <1>1, TypesInit, TypesStep, PTL DEF Spec
-----------------------------------------------------------------------------
(* The lock is given up on purpose only.  What makes UnlockedOnPurpose          *)
(* inductive: a lock that is out in /state is one that a normal has left, or    *)
(* the engine still holds it or a later one - and so does whatever a restart    *)
(* goes back to, the file unless its seq says it is older than /state.          *)

Locking(s) == s # None /\ s.mode # "normal"

Left(s) ==
    \/ s.lock.seq <= past.freed.manual
    \/ s.source = "auto" /\ s.lock.seq <= past.freed.auto

\* A lock s is held by a policy and its lock.
Holds(pol, l, s) ==
    /\ pol.mode # "normal" /\ s.lock.seq <= l.seq
    /\ pol.source = "auto" => s.source = "auto"

Heeds(pol, l) == Locking(state) => Left(state) \/ Holds(pol, l, state)

\* No lock is out that is newer than seq n.
Recent(n) == Locking(state) => state.lock.seq <= n

RecentEng  == Recent(eng.run.fileSeq)
RecentFile == Recent(file.pol.seq)

HeedsEng  == Heeds(eng.pol, eng.lock)
HeedsFile == file # None /\ RecentFile => Heeds(file.pol, file.lock)

\* A file that is behind the engine has no seq of the lock the engine holds.
Behind ==
    file # None =>
      /\ file.pol.seq <= eng.pol.seq
      /\ Locked(eng) /\ eng.lock.seq <= file.pol.seq =>
            /\ file.pol.mode # "normal" /\ eng.lock.seq <= file.lock.seq
            /\ file.pol.source = "auto" => eng.pol.source = "auto"

\* What the startup goes by.
Startup ==
    ~eng.run.ready =>
      /\ file # None => ~eng.run.adopt /\ eng.run.fileSeq = file.pol.seq
      /\ ~eng.run.adopt /\ RecentEng => HeedsEng

UnlockInv ==
    /\ TakenIn => HeedsEng
    /\ HeedsFile /\ Behind /\ Startup

LEMMA UnlockInit == Init => UnlockInv
  <1> SUFFICES ASSUME Init PROVE UnlockInv
    OBVIOUS
  <1>1. state = None /\ file = None
    BY DEF Init
  <1> QED
    BY <1>1 DEF UnlockInv, HeedsEng, HeedsFile, Heeds, Locking, Behind, Startup

LEMMA Numbers ==
    ASSUME Types
    PROVE  /\ eng.pol.seq \in Nat /\ eng.lock.seq \in Nat /\ eng.lock.seq <= eng.pol.seq
           /\ file # None => file.pol.seq \in Nat /\ file.lock.seq \in Nat
           /\ state # None => state.lock.seq \in Nat
           /\ past.freed.manual \in Nat /\ past.freed.auto \in Nat
  BY Bounds DEF Types, Sound, FileOK, StateOK, LockOK, Policies, PastOK

\* What was left stays left.
LEMMA LeftStays ==
    ASSUME Types, Types', Advance, NEW s, s.lock.seq \in Nat, Left(s)
    PROVE  Left(s)'
  <1>1. past'.freed.manual >= past.freed.manual /\ past'.freed.auto >= past.freed.auto
    BY RecalledOK DEF Advance
  <1>2. /\ past.freed.manual \in Nat /\ past.freed.auto \in Nat
        /\ past'.freed.manual \in Nat /\ past'.freed.auto \in Nat
    BY Numbers DEF Types, PastOK
  <1> QED
    BY <1>1, <1>2 DEF Left

\* A step of the engine holds on to the lock it held, or leaves it.
LEMMA HoldsOn ==
    ASSUME Types, Types', Advance, NEW s, s.lock.seq \in Nat,
           s.source \in {"manual", "auto"}, Holds(eng.pol, eng.lock, s)
    PROVE  Left(s)' \/ Holds(eng'.pol, eng'.lock, s)
  <1>n. eng.pol.seq \in Nat /\ eng.lock.seq \in Nat /\ eng.lock.seq <= eng.pol.seq
    BY Numbers
  <1>m. past'.freed.manual \in Nat /\ past'.freed.auto \in Nat
    BY DEF Types, PastOK
  <1>1. CASE Kept(eng, eng')
    BY <1>1 DEF Holds, Kept, Stays
  <1>2. CASE Relocks(eng, eng')
    BY <1>2, <1>n DEF Holds, Relocks, Locks
  <1>3. CASE Unlocks(eng, eng')
    <2>1. Locked(eng) /\ ~Locked(eng')
      BY <1>3 DEF Unlocks, Frees, Locked
    <2>2. past'.freed[eng'.pol.source] >= eng.lock.seq
      BY <2>1, RecalledOK DEF Advance
    <2>3. s.lock.seq <= eng.lock.seq /\ (eng.pol.source = "auto" => s.source = "auto")
      BY DEF Holds
    <2>4. eng'.pol.source \in {"manual", "auto"}
      BY DEF Types, Sound, Policies
    <2>5. eng'.pol.source = "manual" \/ eng.pol.source = "auto"
      BY <1>3 DEF Unlocks, Frees
    <2>6. CASE eng'.pol.source = "manual"
      BY <1>n, <1>m, <2>2, <2>3, <2>6 DEF Left
    <2>7. CASE eng'.pol.source = "auto"
      BY <1>n, <1>m, <2>2, <2>3, <2>5, <2>7 DEF Left
    <2> QED
      BY <2>4, <2>6, <2>7
  <1> QED
    BY <1>1, <1>2, <1>3 DEF Advance

LEMMA AdvanceHeeds ==
    ASSUME Types, Types', Advance, state' = View(eng) \/ (state' = state /\ HeedsEng)
    PROVE  HeedsEng'
  <1> SUFFICES ASSUME NEW s, s = state', Locking(s)
               PROVE  Left(s)' \/ Holds(eng'.pol, eng'.lock, s)
    BY DEF HeedsEng, Heeds, Locking, Left
  <1>1. s.lock.seq \in Nat /\ s.source \in {"manual", "auto"}
    BY Bounds DEF Types, StateOK, LockOK, Locking
  <1>2. Left(s) \/ Holds(eng.pol, eng.lock, s)
    <2>1. CASE state' = View(eng)
      <3>1. s.lock = eng.lock /\ s.mode = eng.pol.mode /\ s.source = eng.pol.source
        BY <2>1, ViewOK DEF Types
      <3> QED
        BY <3>1, Numbers DEF Locking, Holds
    <2>2. CASE state' = state /\ HeedsEng
      <3>1. s = state
        BY <2>2
      <3> QED
        BY <2>2, <3>1 DEF HeedsEng, Heeds
    <2> QED
      BY <2>1, <2>2
  <1> QED
    BY <1>1, <1>2, HoldsOn, LeftStays

LEMMA AdvanceBehind ==
    ASSUME Types, Types', Advance, Behind
    PROVE  Behind'
  <1>n. /\ eng.pol.seq \in Nat /\ eng.lock.seq \in Nat /\ eng.lock.seq <= eng.pol.seq
        /\ file # None => file.pol.seq \in Nat /\ file.lock.seq \in Nat
    BY Numbers
  <1>1. eng'.pol.seq \in Nat /\ eng.pol.seq <= eng'.pol.seq
    BY <1>n DEF Advance, Kept, Relocks, Unlocks, Stays, Locks, Frees
  <1>2. CASE file' = file
    <2> SUFFICES ASSUME file # None PROVE Behind'
      BY <1>2 DEF Behind
    <2>1. CASE Kept(eng, eng')
      BY <1>1, <1>2, <1>n, <2>1 DEF Behind, Kept, Stays, Locked
    <2>2. CASE Relocks(eng, eng')
      BY <1>1, <1>2, <1>n, <2>2 DEF Behind, Relocks, Locks, Locked
    <2>3. CASE Unlocks(eng, eng')
      BY <1>1, <1>2, <1>n, <2>3 DEF Behind, Unlocks, Frees, Locked
    <2> QED
      BY <2>1, <2>2, <2>3 DEF Advance
  <1>3. CASE file' = Snapshot(eng)
    <2>1. /\ file'.lock = eng.lock /\ file'.pol.seq = eng.pol.seq
          /\ file'.pol.mode = eng.pol.mode /\ file'.pol.source = eng.pol.source
      BY <1>3, SnapshotOK DEF Types
    <2>2. CASE Kept(eng, eng')
      BY <1>1, <1>n, <2>1, <2>2 DEF Behind, Kept, Stays, Locked
    <2>3. CASE Relocks(eng, eng')
      BY <1>1, <1>n, <2>1, <2>3 DEF Behind, Relocks, Locks, Locked
    <2>4. CASE Unlocks(eng, eng')
      BY <1>1, <1>n, <2>1, <2>4 DEF Behind, Unlocks, Frees, Locked
    <2> QED
      BY <2>2, <2>3, <2>4 DEF Advance
  <1> QED
    BY <1>2, <1>3 DEF Advance

LEMMA AdvanceFile ==
    ASSUME Types, Types', Advance, UnlockInv
    PROVE  HeedsFile'
  <1> SUFFICES ASSUME NEW s, s = state', Locking(s), NEW f, f = file', f # None,
                      s.lock.seq <= f.pol.seq
               PROVE  Left(s)' \/ Holds(f.pol, f.lock, s)
    BY DEF HeedsFile, Heeds, Recent, RecentEng, RecentFile, Locking, Left
  <1>0. s.lock.seq \in Nat /\ s.source \in {"manual", "auto"}
    BY Bounds DEF Types, StateOK, LockOK, Locking
  <1>n. /\ eng.pol.seq \in Nat /\ eng.lock.seq \in Nat /\ eng.lock.seq <= eng.pol.seq
        /\ file # None => file.pol.seq \in Nat /\ file.lock.seq \in Nat
    BY Numbers
  <1>1. eng.run.ready => HeedsEng
    BY DEF UnlockInv, TakenIn
  <1>2. state' = View(eng) => /\ s.lock = eng.lock /\ s.mode = eng.pol.mode
                              /\ s.source = eng.pol.source
    BY ViewOK DEF Types
  <1>3. file' = Snapshot(eng) => /\ f.lock = eng.lock /\ f.pol.seq = eng.pol.seq
                                 /\ f.pol.mode = eng.pol.mode /\ f.pol.source = eng.pol.source
    BY SnapshotOK DEF Types
  <1>4. CASE state' = state /\ file' = file
    <2>1. s = state /\ f = file
      BY <1>4
    <2>2. Left(s) \/ Holds(f.pol, f.lock, s)
      BY <2>1 DEF UnlockInv, HeedsFile, Heeds, Recent, RecentEng, RecentFile
    <2> QED
      BY <1>0, <2>2, LeftStays
  <1>5. CASE state' = state /\ file' = Snapshot(eng) /\ eng.run.ready
    <2>1. s = state
      BY <1>5
    <2>2. Left(s) \/ Holds(eng.pol, eng.lock, s)
      BY <1>1, <1>5, <2>1 DEF HeedsEng, Heeds
    <2>3. Left(s) \/ Holds(f.pol, f.lock, s)
      BY <1>3, <1>5, <2>2 DEF Holds
    <2> QED
      BY <1>0, <2>3, LeftStays
  <1>6. CASE state' = View(eng) /\ file' = file
    <2>1. f = file
      BY <1>6
    <2>2. Locked(eng) /\ eng.lock.seq <= f.pol.seq
      BY <1>2, <1>6 DEF Locked, Locking
    <2> QED
      BY <1>2, <1>6, <2>1, <2>2 DEF UnlockInv, Behind, Holds
  <1>7. CASE state' = View(eng) /\ file' = Snapshot(eng)
    BY <1>2, <1>3, <1>7, <1>n DEF Holds, Locking
  <1> QED
    BY <1>4, <1>5, <1>6, <1>7 DEF Advance

LEMMA AdvanceUnlock ==
    ASSUME SteadyStart, Types, Types', Advance, UnlockInv
    PROVE  UnlockInv'
  <1>1. TakenIn' => HeedsEng'
    BY AdvanceHeeds DEF Advance, UnlockInv
  <1>2. Startup'
    <2> SUFFICES ASSUME ~eng'.run.ready PROVE Startup'
      BY DEF Startup
    <2>1. ~eng.run.ready /\ UNCHANGED <<file, state>>
      BY DEF Advance
    <2>2. eng'.run.adopt = eng.run.adopt /\ eng'.run.fileSeq = eng.run.fileSeq
      BY DEF Advance
    <2>3. file # None => ~eng.run.adopt /\ eng.run.fileSeq = file.pol.seq
      BY <2>1 DEF UnlockInv, Startup
    <2>4. ASSUME ~eng'.run.adopt, RecentEng PROVE HeedsEng'
      <3>1. HeedsEng
        BY <2>1, <2>2, <2>4 DEF UnlockInv, Startup
      <3> QED
        BY <2>1, <3>1, AdvanceHeeds
    <2>5. RecentEng' => RecentEng
      BY <2>1, <2>2 DEF RecentEng, Recent, Locking
    <2> QED
      BY <2>1, <2>2, <2>3, <2>4, <2>5 DEF Startup
  <1> QED
    BY <1>1, <1>2, AdvanceBehind, AdvanceFile DEF UnlockInv

\* The lock of /state is adopted, or the file is not behind it.
LEMMA OwnStateUnlock ==
    ASSUME Types, UnlockInv, OwnState
    PROVE  UnlockInv'
  <1>1. /\ UNCHANGED <<file, state, past>> /\ ~eng.run.ready
        /\ eng' = IF state = None THEN eng ELSE Adopt(eng, state)
    BY DEF OwnState, Types
  <1>2. CASE state = None
    <2>1. eng' = eng
      BY <1>1, <1>2
    <2> QED
      BY <1>1, <1>2, <2>1 DEF UnlockInv, HeedsEng, HeedsFile, Heeds, Left, Locking, Recent, RecentEng, RecentFile,
                              Behind, Startup, Locked
  <1>3. CASE state # None
    <2> DEFINE n == Adopt(eng, state)
    <2>1. /\ Same(eng, n) /\ n.pol.seq >= eng.pol.seq
          /\ \/ /\ state.mode = "normal" \/ (~eng.run.adopt /\ state.lock.seq <= eng.run.fileSeq)
                /\ n.pol.mode = eng.pol.mode /\ n.pol.source = eng.pol.source
                /\ n.lock = eng.lock
             \/ /\ state.mode # "normal"
                /\ eng.run.adopt \/ ~(state.lock.seq <= eng.run.fileSeq)
                /\ n.pol.mode = state.mode /\ n.pol.source = state.source
                /\ n.lock = state.lock
      BY <1>3, AdoptOK DEF Types
    <2>2. eng' = n
      BY <1>1, <1>3
    <2> HIDE DEF n
    <2>3. Heeds(n.pol, n.lock)
      <3>1. CASE state.mode = "normal"
        BY <3>1 DEF Heeds, Locking
      <3>2. CASE /\ ~eng.run.adopt /\ state.lock.seq <= eng.run.fileSeq
                 /\ n.pol.mode = eng.pol.mode /\ n.pol.source = eng.pol.source
                 /\ n.lock = eng.lock
        <4>1. HeedsEng
          BY <1>1, <3>2 DEF UnlockInv, Startup, Recent, RecentEng, RecentFile
        <4> QED
          BY <3>2, <4>1 DEF HeedsEng, Heeds, Holds
      <3>3. CASE /\ n.pol.mode = state.mode /\ n.pol.source = state.source
                 /\ n.lock = state.lock
        BY <1>3, <3>3, Numbers DEF Heeds, Locking, Holds
      <3> QED
        BY <2>1, <3>1, <3>2, <3>3
    <2>4. HeedsEng'
      BY <1>1, <2>2, <2>3 DEF HeedsEng, Heeds, Locking, Left
    <2>5. HeedsFile'
      BY <1>1 DEF UnlockInv, HeedsFile, Heeds, Locking, Left, Recent, RecentEng, RecentFile
    <2>6. Behind'
      <3> SUFFICES ASSUME file # None PROVE Behind'
        BY <1>1 DEF Behind
      <3>1. ~eng.run.adopt /\ eng.run.fileSeq = file.pol.seq
        BY <1>1 DEF UnlockInv, Startup
      <3>2. file.pol.seq \in Nat /\ eng.pol.seq \in Nat /\ state.lock.seq \in Nat
        BY <1>3, Numbers
      <3>3. n.pol.seq \in Nat
        BY <2>1, Bounds DEF Same, Sound, Policies
      <3>4. file.pol.seq <= n.pol.seq
        BY <2>1, <3>2, <3>3 DEF UnlockInv, Behind
      <3>5. Locked(n) /\ n.lock.seq <= file.pol.seq =>
              /\ file.pol.mode # "normal" /\ n.lock.seq <= file.lock.seq
              /\ file.pol.source = "auto" => n.pol.source = "auto"
        BY <2>1, <3>1, <3>2 DEF UnlockInv, Behind, Locked
      <3> QED
        BY <1>1, <2>2, <3>4, <3>5 DEF Behind
    <2>7. Startup'
      <3>1. eng'.run = eng.run
        BY <2>1, <2>2 DEF Same
      <3> QED
        BY <1>1, <2>4, <3>1 DEF UnlockInv, Startup
    <2> QED
      BY <2>4, <2>5, <2>6, <2>7 DEF UnlockInv
  <1> QED
    BY <1>2, <1>3

LEMMA CrashUnlock ==
    ASSUME Types, UnlockInv, Crash
    PROVE  UnlockInv'
  <1>1. /\ file' = file \/ file' = None
        /\ eng' = New(file', used) /\ net' = Unlinked /\ UNCHANGED <<state, used>>
    BY DEF Crash
  <1>2. past'.freed = past.freed
    BY DEF Crash, Types, PastOK
  <1>3. FileOK(file') /\ used \in 0..MaxSeq
    BY <1>1 DEF FileOK, Types, Drawn
  <1>4. /\ Sound(eng') /\ ~eng'.run.ready /\ ~eng'.run.connected
        /\ eng'.run.adopt <=> file' = None
        /\ file' # None => /\ eng'.pol = file'.pol /\ eng'.run.fileSeq = file'.pol.seq
                           /\ Locked(eng') => eng'.lock = file'.lock
    BY <1>1, <1>3, NewOK
  <1>5. ~TakenIn'
    BY <1>4 DEF TakenIn
  <1>6. HeedsFile'
    BY <1>1, <1>2 DEF UnlockInv, HeedsFile, Heeds, Locking, Left, Recent, RecentEng, RecentFile
  <1>7. Behind'
    <2> SUFFICES ASSUME file' # None PROVE Behind'
      BY DEF Behind
    <2>1. file'.pol.seq \in Nat /\ file'.lock.seq \in Nat
      BY <1>3, Bounds DEF FileOK, LockOK, Policies
    <2> QED
      BY <1>4, <2>1 DEF Behind, Locked
  <1>8. Startup'
    <2>1. ASSUME file' # None, RecentFile' PROVE HeedsEng'
      BY <1>4, <1>6, <2>1 DEF HeedsFile, HeedsEng, Heeds, Holds, Locked
    <2> QED
      BY <1>4, <2>1 DEF Startup, RecentEng, RecentFile, Recent
  <1> QED
    BY <1>5, <1>6, <1>7, <1>8 DEF UnlockInv

LEMMA UnlockStep == SteadyStart /\ Types /\ Types' /\ UnlockInv /\ [Next]_vars => UnlockInv'
  <1> SUFFICES ASSUME SteadyStart, Types, Types', UnlockInv, [Next]_vars PROVE UnlockInv'
    OBVIOUS
  <1>1. CASE UNCHANGED vars
    BY <1>1 DEF vars, world, UnlockInv, TakenIn, HeedsEng, HeedsFile, Heeds, Locking, Left,
                Recent, RecentEng, RecentFile, Behind, Startup, Locked
  <1>2. CASE Next
    BY <1>2, NextAdvances, AdvanceUnlock, OwnStateUnlock, CrashUnlock
  <1> QED
    BY <1>1, <1>2

\* The bridges are unlocked only by a normal of the operator, or by the end of the auto
\* storm they were locked for: not by a crash, a lost or stale file, a failed write, a lost
\* publish or an adoption, if the first connection outlives the startup hold (New, OwnState,
\* Poll, SetMode, publishState).
THEOREM OnPurpose ==
    ASSUME SteadyStart
    PROVE  Spec => UnlockedOnPurpose
  <1>1. Types /\ UnlockInv /\ [Next]_vars =>
           (state # None /\ state # state' /\ state.mode # "normal" /\ state'.mode = "normal"
              => \/ state.lock.seq <= past.freed.manual
                 \/ state.source = "auto" /\ state.lock.seq <= past.freed.auto)
    <2> SUFFICES ASSUME Types, UnlockInv, [Next]_vars,
                        state # None, state # state', state.mode # "normal",
                        state'.mode = "normal"
                 PROVE  Left(state)
      BY DEF Left
    <2>1. Next /\ state' # state
      BY DEF vars, world
    <2>2. Advance
      BY <2>1, NextAdvances DEF OwnState, Crash
    <2>3. eng.run.ready /\ state' = View(eng)
      BY <2>1, <2>2 DEF Advance
    <2>4. eng.pol.mode = "normal"
      BY <2>3, ViewOK DEF Types
    <2>5. HeedsEng
      BY <2>3 DEF UnlockInv, TakenIn
    <2> QED
      BY <2>4, <2>5 DEF HeedsEng, Heeds, Locking, Holds
  <1>2. SteadyStart
    OBVIOUS
  <1> QED
    BY <1>1, <1>2, TypesInit, TypesStep, UnlockInit, UnlockStep, PTL DEF Spec, UnlockedOnPurpose
-----------------------------------------------------------------------------
(* The lock the bridges read only grows.  What makes LockGrows inductive: the   *)
(* engine and the file are at or after what is published, and what is about to  *)
(* be published, or may be published again, is what the file says.              *)

\* The lock of an engine or a file, as the bridges would read it.
Shown(e) == [mode |-> e.pol.mode, lock |-> e.lock,
             seq |-> IF e.pol.mode = "normal" THEN e.pol.seq ELSE e.lock.seq]

\* One lock is reached from another by ParkLock's steps.
Grows(a, b) ==
    IF b.mode = "normal" THEN a.seq <= b.seq
    ELSE a.seq < b.seq \/ (a.mode = b.mode /\ a.seq = b.seq /\ Builds(a.lock, b.lock))

\* A handler stops where the file says what the engine does, or before it publishes.
Recorded(r) ==
    \/ r.at.pc = "idle" /\ ~r.eng.run.ready
    \/ r.at.pc # "hold" /\ (r.at.pc \in {"idle", "publish"} => file = Snapshot(r.eng))

\* The file has the lock the engine shows, and the rest of what it decides by.
Filed ==
    /\ at.pc = "hold" /\ file # None => Shown(file) = Shown(eng)
    /\ at.pc = "publish" \/ (at.pc = "idle" /\ eng.run.ready) =>
          /\ file # None /\ Shown(file) = Shown(eng)
          /\ file.pol = [eng.pol EXCEPT !.clean = FALSE]

GrowInv ==
    /\ Grows(Published, Shown(eng))
    /\ file # None => Grows(Published, Shown(file))
    /\ Filed

\* How a handler gets there.

LEMMA RecordedWaits ==
    ASSUME NEW n, NEW pc \in {"apply", "resend", "restore", "persist"}, NEW f
    PROVE  Recorded(Waits(n, pc, f))
  BY DEF Waits, At, Recorded

LEMMA RecordedPersist == ASSUME NEW n, NEW f PROVE Recorded(AtPersist(n, f))
  <1>1. CASE n.run.saved /\ file = Snapshot(n)
    <2>1. AtPersist(n, f) = AtPublish(n, f)
      BY <1>1 DEF AtPersist
    <2> DEFINE r == AtPublish(n, f)
    <2>2. r.eng = n /\ r.at.pc \in {"idle", "publish"}
      BY DEF AtPublish, Waits, Idle, At
    <2> HIDE DEF r
    <2>3. file = Snapshot(r.eng)
      BY <1>1, <2>2
    <2>4. Recorded(r)
      BY <2>2, <2>3 DEF Recorded
    <2> QED
      BY <2>1, <2>4 DEF r
  <1>2. CASE ~(n.run.saved /\ file = Snapshot(n))
    BY <1>2, RecordedWaits DEF AtPersist
  <1> QED
    BY <1>1, <1>2

LEMMA RecordedBorrow == ASSUME NEW n, NEW ret, NEW f PROVE Recorded(AtBorrow(n, ret, f))
  BY DEF AtBorrow, At, Recorded

LEMMA RecordedReturn == ASSUME NEW n, NEW f PROVE Recorded(AtReturn(n, f))
  BY RecordedPersist, RecordedWaits DEF AtReturn

LEMMA RecordedLate ==
    ASSUME NEW n, NEW f
    PROVE  Recorded(AtLock(n, f)) /\ Recorded(AtLate(n, f))
  BY RecordedReturn, RecordedWaits, RecordedBorrow DEF AtLock, AtLate

LEMMA RecordedStep ==
    ASSUME NEW n, NEW f
    PROVE  Recorded(AtStep(n, f)) /\ Recorded(AtApply(n, f))
  BY RecordedLate, RecordedWaits, RecordedBorrow DEF AtStep, AtApply

LEMMA RecordedCommand == ASSUME NEW n, NEW c, NEW f PROVE Recorded(AtCommand(n, c, f))
  BY RecordedStep, RecordedBorrow DEF AtCommand

LEMMA RecordedResume ==
    ASSUME NEW n, NEW ret \in Returns, NEW f
    PROVE  Recorded(Resume(n, ret, f))
  BY RecordedStep, RecordedLate DEF Resume, Returns

LEMMA RecordedChanged == ASSUME NEW n PROVE Recorded(Changed(n))
  <1>1. CASE n.run.ready
    BY <1>1, RecordedStep DEF Changed
  <1>2. CASE ~n.run.ready
    BY <1>2, IdleOK DEF Changed, Recorded
  <1> QED
    BY <1>1, <1>2

\* The handlers.

LEMMA ShownFile ==
    ASSUME NEW e, Sound(e)
    PROVE  /\ Shown(Snapshot(e)) = Shown(e) /\ Snapshot(e) # None
           /\ Snapshot(e).pol = [e.pol EXCEPT !.clean = FALSE]
  <1>1. "pol" \in DOMAIN Snapshot(e) /\ "pol" \notin DOMAIN None
    BY DEF Snapshot, None
  <1>2. Snapshot(e) # None
    BY <1>1
  <1>3. Snapshot(e).pol = [e.pol EXCEPT !.clean = FALSE]
    BY DEF Snapshot
  <1> QED
    BY <1>2, <1>3, SnapshotOK DEF Shown

LEMMA RecordedFiled ==
    ASSUME Types', NEW r, Becomes(r), Recorded(r), UNCHANGED file
    PROVE  Filed'
  <1>1. eng' = r.eng /\ at' = r.at
    BY DEF Becomes
  <1>2. Sound(eng')
    BY DEF Types
  <1> QED
    BY <1>1, <1>2, ShownFile DEF Recorded, Filed

LEMMA MessagesFiled ==
    ASSUME Types',
           \/ PowerSeqStatus \/ PowerSeqState \/ RotatorStatus \/ RotatorState \/ AntCtrlState
           \/ AntSwitchState \/ RadioState \/ PowerState \/ WindResult \/ NinaFails
    PROVE  Filed'
  <1>1. \E x : Handle(x) \/ (Becomes(Changed(x)) /\ UNCHANGED file)
    BY DEF PowerSeqStatus, PowerSeqState, RotatorStatus, RotatorState, AntCtrlState,
           AntSwitchState, RadioState, PowerState, WindResult, NinaFails, Receive
  <1>2. PICK x : Becomes(Changed(x)) /\ UNCHANGED file
    BY <1>1 DEF Handle, Runs
  <1> QED
    BY <1>2, RecordedChanged, RecordedFiled

LEMMA PollFiled == ASSUME Types', NinaResult PROVE Filed'
  <1>1. PICK ws \in SUBSET Warnings : \E a \in SUBSET ws :
           LET e == [eng EXCEPT !.see.listed = ws, !.see.active = a]
               n == IF e.run.ready THEN Decide(e, Poll(e.pol, a)) ELSE e
               r == IF e.run.ready THEN AtStep(n, FALSE) ELSE [eng |-> n, at |-> Idle]
           IN /\ at.pc = "idle" /\ Becomes(r)
              /\ past' = [Recall(r.eng) EXCEPT
                            !.overruled = IF e.run.ready THEN @ \cap a ELSE @,
                            !.calm = IF ~e.run.ready THEN @ ELSE IF a # {} THEN 0
                                     ELSE IF past.near /\ @ < ExitAfter THEN @ + 1 ELSE @,
                            !.near = e.run.ready /\ a = {}]
              /\ UNCHANGED <<file, state, sent, cmd, power, net>>
    BY DEF NinaResult
  <1>2. PICK a \in SUBSET ws :
           LET e == [eng EXCEPT !.see.listed = ws, !.see.active = a]
               n == IF e.run.ready THEN Decide(e, Poll(e.pol, a)) ELSE e
               r == IF e.run.ready THEN AtStep(n, FALSE) ELSE [eng |-> n, at |-> Idle]
           IN Becomes(r) /\ UNCHANGED file
    BY <1>1
  <1> DEFINE e == [eng EXCEPT !.see.listed = ws, !.see.active = a]
             n == IF e.run.ready THEN Decide(e, Poll(e.pol, a)) ELSE e
             r == IF e.run.ready THEN AtStep(n, FALSE) ELSE [eng |-> n, at |-> Idle]
  <1>3. Becomes(r) /\ UNCHANGED file
    BY <1>2
  <1> HIDE DEF e
  <1>4. CASE e.run.ready
    <2>1. r = AtStep(n, FALSE)
      BY <1>4
    <2> HIDE DEF n, r
    <2> QED
      BY <1>3, <2>1, RecordedStep, RecordedFiled
  <1>5. CASE ~e.run.ready
    <2>1. r = [eng |-> e, at |-> Idle]
      BY <1>5
    <2> HIDE DEF n, r
    <2>2. Recorded(r)
      BY <1>5, <2>1, IdleOK DEF Recorded
    <2> QED
      BY <1>3, <2>2, RecordedFiled
  <1> QED
    BY <1>4, <1>5

LEMMA StepsFiled ==
    ASSUME Types, Types', Apply \/ Tick \/ BecomeReady \/ \E o : PowerOn(o) \/ Restore(o) \/ Cmd(o)
    PROVE  Filed'
  <1> SUFFICES ASSUME NEW r, Becomes(r), UNCHANGED file, Recorded(r) PROVE Filed'
    <2>1. CASE Apply
      <3>1. \E x, c : Becomes(AtCommand(x, c, at.force)) /\ UNCHANGED file
        BY <2>1 DEF Apply, Runs
      <3> QED
        BY <3>1, RecordedCommand
    <2>2. CASE Tick
      <3>1. \E x : Becomes(Changed(x)) /\ UNCHANGED file
        BY <2>2 DEF Tick
      <3> QED
        BY <3>1, RecordedChanged
    <2>3. CASE BecomeReady
      <3>1. \E x : Becomes(AtApply(x, TRUE)) /\ UNCHANGED file
        BY <2>3 DEF BecomeReady, Runs
      <3> QED
        BY <3>1, RecordedStep
    <2>4. ASSUME NEW o, PowerOn(o)
          PROVE  \E r : Becomes(r) /\ UNCHANGED file /\ Recorded(r)
      <3> DEFINE x == [eng EXCEPT !.borrow.sent = @ \/ o = "ok"]
      <3>1. /\ at.pc \in {"on", "resend"} /\ UNCHANGED file
            /\ Becomes(IF at.pc = "on" THEN Resume(x, at.ret, at.force)
                       ELSE AtReturn(StepLock(x), at.force))
        BY <2>4 DEF PowerOn
      <3> HIDE DEF x
      <3>2. at.pc = "on" => at.ret \in Returns
        BY DEF Types, AtOK
      <3> QED
        BY <3>1, <3>2, RecordedResume, RecordedReturn
    <2>5. ASSUME NEW o, Restore(o)
          PROVE  \E r : Becomes(r) /\ UNCHANGED file /\ Recorded(r)
      <3>1. \E x : Becomes(AtPersist(x, at.force)) /\ UNCHANGED file
        BY <2>5 DEF Restore
      <3> QED
        BY <3>1, RecordedPersist
    <2>6. ASSUME NEW o, Cmd(o)
          PROVE  \E r : Becomes(r) /\ UNCHANGED file /\ Recorded(r)
      <3>1. CASE eng.run.ready
        <4>1. Becomes(AtCommand(eng, cmd.what, FALSE)) /\ UNCHANGED file
          BY <2>6, <3>1 DEF Cmd
        <4> QED
          BY <4>1, RecordedCommand
      <3>2. CASE ~eng.run.ready
        <4>1. PICK q : /\ Becomes([at |-> Idle, eng |-> [eng EXCEPT !.run.queue = q]])
                       /\ UNCHANGED file
          BY <2>6, <3>2 DEF Cmd
        <4>2. Recorded([at |-> Idle, eng |-> [eng EXCEPT !.run.queue = q]])
          BY <3>2, IdleOK DEF Recorded, Types, Sound
        <4> QED
          BY <4>1, <4>2
      <3> QED
        BY <3>1, <3>2
    <2> QED
      BY <2>1, <2>2, <2>3, <2>4, <2>5, <2>6
  <1> QED
    BY RecordedFiled

\* Publishing, writing and the link.
LEMMA WritesFiled ==
    ASSUME ~WriteFails, Types, \E ok \in Writes : Save(ok) \/ Persist(ok)
    PROVE  Filed'
  <1>0. Save(TRUE) \/ Persist(TRUE)
    BY DEF Writes
  <1>1. CASE Save(TRUE)
    <2> DEFINE x == [eng EXCEPT !.run.saved = FALSE, !.over.borrow = FALSE]
    <2>1. /\ file' = Snapshot(eng)
          /\ Becomes([eng |-> x, at |-> [at EXCEPT !.pc =
                        IF Publishes(x, FALSE) THEN "hold" ELSE "on"]])
      BY <1>1 DEF Save, Runs
    <2>2. x.pol = eng.pol /\ x.lock = eng.lock
      BY DEF Types, Sound
    <2>3. eng' = x /\ at'.pc \in {"hold", "on"}
      BY <2>1 DEF Becomes, Types, AtOK
    <2> HIDE DEF x
    <2>4. Shown(Snapshot(eng)) = Shown(eng)
      BY ShownFile DEF Types
    <2>5. Shown(file') = Shown(eng')
      BY <2>1, <2>2, <2>3, <2>4 DEF Shown
    <2> QED
      BY <2>3, <2>5 DEF Filed
  <1>2. CASE Persist(TRUE)
    <2> DEFINE x == [eng EXCEPT !.run.saved = @ \/ TRUE]
    <2>1. file' = Snapshot(eng) /\ Becomes(AtPublish(x, at.force))
      BY <1>2 DEF Persist, Runs
    <2>2. x.pol = eng.pol /\ x.lock = eng.lock
      BY DEF Types, Sound
    <2> HIDE DEF x
    <2>3. eng' = x
      BY <2>1 DEF Becomes, AtPublish, Waits
    <2>4. /\ Shown(file') = Shown(eng') /\ file' # None
          /\ file'.pol = [eng'.pol EXCEPT !.clean = FALSE]
      BY <2>1, <2>2, <2>3, ShownFile DEF Shown, Types
    <2> QED
      BY <2>4 DEF Filed
  <1> QED
    BY <1>0, <1>1, <1>2

LEMMA LinkFiled ==
    ASSUME Types, Filed,
           \/ OperatorSends \/ LinkDown \/ Lost \/ Opened \/ Republish
           \/ \E o : Hold(o) \/ Publish(o)
    PROVE  Filed'
  <1>1. CASE OperatorSends \/ LinkDown \/ Lost \/ Opened
    <2>1. UNCHANGED <<at, file>>
      BY <1>1 DEF OperatorSends, LinkDown, Lost, Opened
    <2>2. eng' = eng \/ \E up : eng' = [eng EXCEPT !.run.connected = up]
      BY <1>1 DEF OperatorSends, LinkDown, Lost, Opened
    <2>3. eng'.pol = eng.pol /\ eng'.lock = eng.lock /\ eng'.run.ready = eng.run.ready
      BY <2>2 DEF Types, Sound
    <2> QED
      BY <2>1, <2>3 DEF Filed, Shown
  <1>2. CASE Republish
    <2>1. /\ at.pc = "idle" /\ UNCHANGED file /\ Becomes(AtPublish(eng, TRUE))
      BY <1>2 DEF Republish, Runs
    <2>2. /\ eng' = eng /\ at'.pc \in {"idle", "publish"}
          /\ at'.pc = "publish" => eng.run.ready
      BY <2>1 DEF Becomes, AtPublish, Publishes, Waits, Idle, At
    <2> QED
      BY <2>1, <2>2 DEF Filed
  <1>3. ASSUME NEW o, Hold(o) \/ Publish(o) PROVE Filed'
    <2>1. CASE Hold(o)
      <3>1. at' = [at EXCEPT !.pc = "on"]
        BY <2>1 DEF Hold
      <3>2. at'.pc = "on"
        BY <3>1 DEF Types, AtOK
      <3> QED
        BY <3>2 DEF Filed
    <2>2. CASE Publish(o)
      BY <2>2 DEF Publish, Filed
    <2> QED
      BY <1>3, <2>1, <2>2
  <1> QED
    BY <1>1, <1>2, <1>3

LEMMA StartFiled ==
    ASSUME Types, Types', OwnState \/ Crash
    PROVE  Filed'
  <1>1. at'.pc = "idle" /\ ~eng'.run.ready
    <2>1. CASE OwnState
      <3>1. at' = at /\ at.pc = "idle" /\ ~eng.run.ready
        BY <2>1 DEF OwnState, Types
      <3>2. eng'.run = eng.run
        BY <2>1, AdoptOK DEF OwnState, Types, Same
      <3> QED
        BY <3>1, <3>2
    <2>2. CASE Crash
      <3>1. eng' = New(file', used) /\ at' = Idle /\ (file' = file \/ file' = None)
        BY <2>2 DEF Crash
      <3>2. FileOK(file') /\ used \in 0..MaxSeq
        BY DEF Types, Drawn
      <3> QED
        BY <3>1, <3>2, NewOK, IdleOK
    <2> QED
      BY <2>1, <2>2
  <1> QED
    BY <1>1 DEF Filed

LEMMA NextFiled ==
    ASSUME ~WriteFails, Types, Types', Filed, Next
    PROVE  Filed'
  BY MessagesFiled, PollFiled, StepsFiled, WritesFiled, LinkFiled, StartFiled DEF Next

\* The order of the locks.

Fit(a) ==
    /\ a.seq \in Nat /\ a.lock.retract \in BOOLEAN
    /\ a.lock.park # NoAz => a.lock.retract
    /\ a.mode = "normal" => Bare(a.lock)

LEMMA GrowsTwice ==
    ASSUME NEW a, NEW b, NEW c, a.seq \in Nat, b.seq \in Nat, c.seq \in Nat,
           Grows(a, b), Grows(b, c)
    PROVE  Grows(a, c)
  BY DEF Grows, Builds

LEMMA GrowsSelf == ASSUME NEW a, a.seq \in Nat PROVE Grows(a, a)
  BY DEF Grows, Builds

LEMMA ShownFit == ASSUME NEW e, Sound(e) PROVE Fit(Shown(e))
  <1>1. e.pol.seq \in Nat /\ e.lock.seq \in Nat
    BY Bounds DEF Sound, LockOK, Policies
  <1> QED
    BY <1>1 DEF Sound, LockOK, Shown, Fit, Locked

LEMMA FileFit == ASSUME NEW f, f # None, FileOK(f) PROVE Fit(Shown(f))
  <1>1. f.pol.seq \in Nat /\ f.lock.seq \in Nat
    BY Bounds DEF FileOK, LockOK, Policies
  <1> QED
    BY <1>1 DEF FileOK, LockOK, Shown, Fit

LEMMA PublishedFit == ASSUME Types PROVE Fit(Published)
  <1>1. CASE state = None
    BY <1>1 DEF Published, NoLock, Fit, Bare
  <1>2. CASE state # None
    <2>1. state.seq \in Nat /\ state.lock.seq \in Nat
      BY <1>2, Bounds DEF Types, StateOK, LockOK
    <2> QED
      BY <1>2, <2>1 DEF Types, StateOK, LockOK, Published, Fit
  <1> QED
    BY <1>1, <1>2

\* /state carries what the engine shows.
LEMMA ViewShown ==
    ASSUME Types, state' = View(eng)
    PROVE  Published' = Shown(eng)
  <1>1. View(eng) # None
    <2>1. "mode" \in DOMAIN View(eng) /\ "mode" \notin DOMAIN None
      BY DEF View, None
    <2> QED
      BY <2>1
  <1>2. View(eng).mode = eng.pol.mode /\ View(eng).lock = eng.lock /\ View(eng).seq = eng.pol.seq
    BY ViewOK DEF Types
  <1> QED
    BY <1>1, <1>2 DEF Published, Shown

LEMMA AdvanceGrows ==
    ASSUME Types, Types', Advance
    PROVE  Grows(Shown(eng), Shown(eng'))
  <1>1. /\ eng.pol.seq \in Nat /\ eng.lock.seq \in Nat /\ eng.lock.seq <= eng.pol.seq
        /\ eng'.pol.seq \in Nat /\ eng'.lock.seq \in Nat
    BY Bounds DEF Types, Sound, LockOK, Policies
  <1>2. CASE Kept(eng, eng')
    BY <1>1, <1>2 DEF Kept, Stays, Grows, Shown
  <1>3. CASE Relocks(eng, eng')
    BY <1>1, <1>3 DEF Relocks, Locks, Grows, Shown
  <1>4. CASE Unlocks(eng, eng')
    BY <1>1, <1>4 DEF Unlocks, Frees, Grows, Shown
  <1> QED
    BY <1>2, <1>3, <1>4 DEF Advance

LEMMA GrowInit == Init => GrowInv
  <1> SUFFICES ASSUME Init PROVE GrowInv
    OBVIOUS
  <1>1. state = None /\ file = None /\ FileOK(None) /\ eng = New(None, 0)
    BY DEF Init, FileOK
  <1>2. eng.pol.mode = "normal" /\ eng.pol.seq = 0 /\ ~eng.run.ready
    BY <1>1, NewOK, Bounds
  <1>3. Grows(Published, Shown(eng))
    BY <1>1, <1>2 DEF Grows, Published, Shown
  <1>4. at.pc = "idle"
    BY IdleOK DEF Init
  <1> QED
    BY <1>1, <1>2, <1>3, <1>4 DEF GrowInv, Filed

\* What is published, or is kept as it is, never outruns the file and the engine.
LEMMA AdvanceGrow ==
    ASSUME Types, Types', Advance, GrowInv, Filed'
    PROVE  GrowInv'
  <1>1. /\ Fit(Published) /\ Fit(Shown(eng)) /\ Fit(Shown(eng'))
        /\ file' # None => Fit(Shown(file'))
    BY PublishedFit, ShownFit, FileFit DEF Types
  <1>2. /\ Grows(Shown(eng), Shown(eng'))
        /\ Grows(Published, Shown(eng)) /\ Grows(Shown(eng), Shown(eng))
    BY <1>1, AdvanceGrows, GrowsSelf DEF GrowInv, Fit
  <1>3. \/ Published' = Published
        \/ /\ Published' = Shown(eng) /\ file' = file
           /\ file # None => Shown(file) = Shown(eng)
    <2>1. CASE state' = state
      BY <2>1 DEF Published
    <2>2. CASE state' = View(eng) /\ at.pc \in {"hold", "publish"} /\ file' = file
      BY <2>2, ViewShown DEF GrowInv, Filed
    <2> QED
      BY <2>1, <2>2 DEF Advance
  <1>4. Grows(Published, Shown(eng'))
    BY <1>1, <1>2, GrowsTwice DEF Fit
  <1>5. Grows(Published', Shown(eng'))
    BY <1>2, <1>3, <1>4
  <1>6. file' # None => Grows(Published', Shown(file'))
    <2>1. CASE file' = file
      BY <1>2, <1>3, <2>1 DEF GrowInv
    <2>2. CASE file' = Snapshot(eng)
      <3>1. Shown(file') = Shown(eng)
        BY <2>2, ShownFile DEF Types
      <3> QED
        BY <1>2, <1>3, <3>1
    <2> QED
      BY <2>1, <2>2 DEF Advance
  <1> QED
    BY <1>5, <1>6 DEF GrowInv

LEMMA StartGrow ==
    ASSUME Types, Types', OwnState \/ Crash, GrowInv, Filed'
    PROVE  GrowInv'
  <1>0. Published' = Published
    BY DEF OwnState, Crash, Published
  <1>1. Fit(Published) /\ Fit(Shown(eng)) /\ Fit(Shown(eng'))
    BY PublishedFit, ShownFit DEF Types
  <1>2. Grows(Published, Shown(eng'))
    <2>1. CASE OwnState /\ state = None
      BY <2>1 DEF OwnState, GrowInv
    <2>2. CASE OwnState /\ state # None
      <3>1. /\ eng'.pol.seq >= eng.pol.seq
            /\ \/ /\ eng'.pol.mode = eng.pol.mode /\ eng'.lock = eng.lock
               \/ /\ state.mode # "normal"
                  /\ eng'.pol.mode = state.mode /\ eng'.lock = state.lock
        BY <2>2, AdoptOK DEF OwnState, Types
      <3>2. CASE eng'.pol.mode = eng.pol.mode /\ eng'.lock = eng.lock
        <4>1. Grows(Shown(eng), Shown(eng'))
          BY <1>1, <3>1, <3>2 DEF Grows, Shown, Fit, Builds
        <4> QED
          BY <1>1, <4>1, GrowsTwice DEF GrowInv, Fit
      <3>3. CASE /\ state.mode # "normal"
                 /\ eng'.pol.mode = state.mode /\ eng'.lock = state.lock
        <4>1. Shown(eng') = Published
          BY <2>2, <3>3 DEF Shown, Published
        <4> QED
          BY <1>1, <4>1, GrowsSelf DEF Fit
      <3> QED
        BY <3>1, <3>2, <3>3
    <2>3. CASE Crash
      <3>1. eng' = New(file', used) /\ (file' = file \/ file' = None)
        BY <2>3 DEF Crash
      <3>2. FileOK(file') /\ used \in 0..MaxSeq
        BY <2>3 DEF Types, Drawn, Crash
      <3>3. /\ file' = None => eng'.pol.mode = "normal" /\ eng'.pol.seq = used
            /\ file' # None => /\ eng'.pol = file'.pol
                               /\ Locked(eng') => eng'.lock = file'.lock
        BY <3>1, <3>2, NewOK
      <3>4. CASE file' = None
        <4>1. Published.seq <= used
          <5>1. CASE state = None
            BY <3>2, <5>1 DEF Published
          <5>2. CASE state # None
            BY <3>2, <5>2, Bounds DEF Published, Types, Drawn, StateOK, LockOK
          <5> QED
            BY <5>1, <5>2
        <4> QED
          BY <3>3, <3>4, <4>1 DEF Grows, Shown
      <3>5. CASE file' # None
        BY <3>1, <3>3, <3>5 DEF GrowInv, Grows, Shown, Locked
      <3> QED
        BY <3>4, <3>5
    <2> QED
      BY <2>1, <2>2, <2>3
  <1>3. file' # None => Grows(Published, Shown(file'))
    <2>1. file' = file \/ file' = None
      BY DEF OwnState, Crash
    <2> QED
      BY <2>1 DEF GrowInv
  <1> QED
    BY <1>0, <1>2, <1>3 DEF GrowInv

LEMMA GrowStep == ~WriteFails /\ Types /\ Types' /\ GrowInv /\ [Next]_vars => GrowInv'
  <1> SUFFICES ASSUME ~WriteFails, Types, Types', GrowInv, [Next]_vars PROVE GrowInv'
    OBVIOUS
  <1>1. CASE Next
    <2>1. Filed'
      BY <1>1, NextFiled DEF GrowInv
    <2> QED
      BY <1>1, <2>1, NextAdvances, AdvanceGrow, StartGrow
  <1>2. CASE UNCHANGED vars
    BY <1>2 DEF vars, world, GrowInv, Filed, Published, Shown
  <1> QED
    BY <1>1, <1>2

\* A bridge that follows /state never sees a park re-aimed, a lock taken back or a seq used
\* for another lock, nor a boom aimed before the retract was told: the published lock
\* implements ParkLock over crashes, a lost file, lost publishes and adoption, as long as no
\* write of the file fails (publishState, New, OwnState, computePark, persist).
THEOREM LockOnlyGrows ==
    ASSUME ~WriteFails
    PROVE  Spec => LockGrows
  <1>1. Init => Bus!Init
    BY DEF Init, Bus!Init, Published, NoLock
  <1>2. Types /\ GrowInv /\ [Next]_vars => [Bus!Next]_(Bus!lock)
    <2> SUFFICES ASSUME Types, GrowInv, [Next]_vars PROVE [Bus!Next]_(Bus!lock)
      OBVIOUS
    <2>1. CASE state' = state
      BY <2>1 DEF Published, Bus!lock
    <2>2. CASE state' # state
      <3>1. Next /\ ~OwnState /\ ~Crash
        BY <2>2 DEF vars, world, OwnState, Crash
      <3>2. state' = View(eng)
        BY <2>2, <3>1, NextAdvances DEF Advance
      <3>3. Published' = Shown(eng) /\ Fit(Published) /\ Fit(Shown(eng))
        BY <3>2, ViewShown, PublishedFit, ShownFit DEF Types
      <3>4. Grows(Published, Published')
        BY <3>3 DEF GrowInv
      <3>5. Fit(Published')
        BY <3>3
      <3> HIDE DEF Published
      <3>6. CASE Published'.mode = "normal"
        BY <3>4, <3>5, <3>6 DEF Grows, Fit, Bare, Bus!Next, Bus!Unlock
      <3>7. CASE Published'.mode # "normal" /\ Published.seq < Published'.seq
        BY <3>5, <3>7 DEF Fit, Bus!Next, Bus!Enter, Bus!Ordered
      <3>8. CASE Published'.mode # "normal" /\ ~(Published.seq < Published'.seq)
        BY <3>4, <3>5, <3>8 DEF Grows, Builds, Fit, Bus!Next, Bus!Build, Bus!Ordered
      <3> QED
        BY <3>6, <3>7, <3>8
    <2> QED
      BY <2>1, <2>2
  <1>3. ~WriteFails
    OBVIOUS
  <1> QED
    BY <1>1, <1>2, <1>3, TypesInit, TypesStep, GrowInit, GrowStep, PTL
    DEF Spec, LockGrows, Bus!Spec
=============================================================================
