---------------------------- MODULE RetractProofs ---------------------------
(***************************************************************************)
(* Proofs about RetractLock, for every number of clients, seqs and faults. *)
(***************************************************************************)
EXTENDS RetractSafe, TLAPS

LEMMA Constants ==
    /\ "poll" \in Goroutines /\ Clients \subseteq Goroutines
    /\ MaxSeq \in Nat /\ 0 \in 0..MaxSeq /\ Faults \subseteq {"off", "deaf", "busy"}
  BY RetractAssumption DEF Goroutines

LEMMA Fresh ==
    /\ Blank \in States /\ Unlocked \in Locks /\ NewLock \in LkStates
    /\ \A place \in Places, job \in Jobs : At(place, job) \in PCs
    /\ Idle \in PCs /\ Idle.at = "idle"
  <1>1. Blank \in States /\ Unlocked \in Locks
    BY Constants DEF Blank, States, Unlocked, Locks
  <1>2. NewLock \in LkStates
    BY <1>1 DEF NewLock, LkStates
  <1>3. \A place \in Places, job \in Jobs : At(place, job) \in PCs
    BY <1>1, Constants DEF At, PCs
  <1>4. Idle \in PCs /\ Idle.at = "idle"
    BY <1>3 DEF Idle, At, Places, Jobs
  <1> QED
    BY <1>1, <1>2, <1>3, <1>4

\* Where a job goes on is a place, and never one between an answer and its file.
LEMMA Onward ==
    ASSUME NEW p \in PCs
    PROVE  /\ After(p) \in PCs /\ After(p).at \notin {"latch", "save"}
           /\ Failed(p) \in PCs /\ Failed(p).at \notin {"latch", "save"}
  <1>1. After(p) \in PCs /\ After(p).at \notin {"latch", "save"}
    <2>1. CASE p.job = "look"
      BY <2>1, Fresh DEF After, At, Places, Jobs
    <2>2. CASE p.job = "motor"
      BY <2>2, Fresh DEF After, At, Places, Jobs
    <2>3. CASE p.job = "ensure"
      <3>1. After(p) = [p EXCEPT !.at = "mark", !.was = Blank]
        BY <2>3 DEF After
      <3> QED
        BY <3>1, Fresh DEF PCs, Places
    <2>4. CASE p.job \notin {"look", "motor", "ensure"}
      <3>1. p.job # "look" /\ p.job # "motor" /\ p.job # "ensure"
        BY <2>4
      <3>2. After(p) = Idle
        BY <3>1 DEF After
      <3> QED
        BY <3>2, Fresh
    <2> QED
      BY <2>1, <2>2, <2>3, <2>4
  <1> QED
    BY <1>1, Fresh DEF Failed

\* A goroutine that goes on is at a place, and the others stay.
LEMMA Moves ==
    ASSUME TypeOK, NEW g \in Goroutines, NEW to \in PCs, Go(g, to)
    PROVE  /\ pc' \in [Goroutines -> PCs] /\ pc'[g] = to
           /\ \A h \in Goroutines \ {g} : pc'[h] = pc[h]
  BY DEF Go, TypeOK

LEMMA Steps ==
    ASSUME TypeOK, NEW g \in Goroutines, NEW place \in Places, Step(g, place)
    PROVE  /\ pc' \in [Goroutines -> PCs]
           /\ pc'[g].at = place /\ pc'[g].job = pc[g].job /\ pc'[g].seq = pc[g].seq
           /\ \A h \in Goroutines \ {g} : pc'[h] = pc[h]
  <1> DEFINE to == [pc[g] EXCEPT !.at = place, !.was = Blank]
  <1>1. to \in PCs /\ to.at = place /\ to.job = pc[g].job /\ to.seq = pc[g].seq
    BY Fresh DEF TypeOK, PCs
  <1> QED
    BY <1>1, Moves DEF Step

LEMMA Loses ==
    ASSUME TypeOK, NEW g \in Goroutines, Lose(g)
    PROVE  /\ pc' \in [Goroutines -> PCs]
           /\ pc'[g].at = "offline" /\ pc'[g].job = pc[g].job /\ pc'[g].seq = pc[g].seq
           /\ \A h \in Goroutines \ {g} : pc'[h] = pc[h]
  <1> DEFINE to == [pc[g] EXCEPT !.at = "offline", !.was.moving = st.moving]
  <1>1. to \in PCs /\ to.at = "offline" /\ to.job = pc[g].job /\ to.seq = pc[g].seq
    BY ZenonT(60) DEF TypeOK, PCs, States, Places
  <1> QED
    BY <1>1, Moves DEF Lose

LEMMA Lists ==
    TypeOK => /\ lk.ant.locked \in BOOLEAN /\ lk.ant.retract \in BOOLEAN
              /\ lk.ant.seq \in 0..MaxSeq
  BY DEF TypeOK, LockOK, LkStates, Locks

LEMMA AppliedOK ==
    ASSUME TypeOK, NEW s \in Locks
    PROVE  LockOK(Applied(s))
  <1> DEFINE new   == ~lk.ant.locked \/ s.seq # lk.ant.seq
             rearm == s.retract /\ (new \/ ~lk.ant.retract)
             l     == [lk EXCEPT !.ant = s, !.open = TRUE, !.pending = @ \/ rearm,
                                 !.sent = IF rearm THEN "no" ELSE @,
                                 !.done = @ /\ ~new /\ s.retract /\ ~rearm]
  <1>1. CASE ~s.locked
    BY <1>1, Fresh DEF Applied, LockOK, LkStates, NewLock, Unlocked
  <1>2. CASE s.locked
    <2>1. Applied(s) = l
      BY <1>2 DEF Applied
    <2>2. new \in BOOLEAN /\ rearm \in BOOLEAN /\ s.retract \in BOOLEAN
      BY Lists DEF Locks
    <2> HIDE DEF new, rearm
    <2>3. lk \in LkStates /\ (lk.sent # "no" => lk.pending) /\ ~(lk.pending /\ lk.done)
      BY DEF TypeOK, LockOK
    <2>4. l \in LkStates /\ l.open /\ l.ant = s
      BY <2>2, <2>3 DEF LkStates
    <2>5. (l.sent # "no" => l.pending) /\ ~(l.pending /\ l.done)
      BY <2>2, <2>3 DEF LkStates
    <2> QED
      BY <2>1, <2>4, <2>5, <1>2 DEF LockOK
  <1> QED
    BY <1>1, <1>2

LEMMA RecheckedOK ==
    ASSUME TypeOK, NEW s \in States, Ensures
    PROVE  LockOK(Rechecked(s))
  BY DEF TypeOK, LockOK, LkStates, Locks, States, Ensures, Rechecked

LEMMA DevOK ==
    ASSUME TypeOK, NEW g \in Goroutines, NEW a, Execute(g, a)
    PROVE  /\ dev' \in [link : {"on"} \cup Faults, goal : {"in", "out"},
                        motors : {"rest", "starting", "running"}]
           /\ past' \in {"sound", "late", "doubt"}
  <1>1. Drives(pc[g].job) \in {"in", "out"}
    BY DEF Drives
  <1>2. dev' \in [link : {"on"} \cup Faults, goal : {"in", "out"},
                  motors : {"rest", "starting", "running"}]
    BY <1>1 DEF TypeOK, Execute
  <1>3. past' = "doubt" \/ past' = "late" \/ past' = past
    BY DEF Execute
  <1> QED
    BY <1>2, <1>3 DEF TypeOK

LEMMA LatchTypes ==
    ASSUME NEW f \in [retracted : BOOLEAN, due : BOOLEAN]
    PROVE  LatchOf(f) \in States /\ DueOf(f) \in BOOLEAN
  BY Fresh DEF LatchOf, DueOf, States

LEMMA PutTypes ==
    ASSUME TypeOK, NEW s \in States, Put(s)
    PROVE  st' \in States /\ st'.retracted = st.retracted
  BY DEF States, Put, TypeOK

LEMMA InitTypes == Init => TypeOK
  <1> SUFFICES ASSUME Init PROVE TypeOK
    OBVIOUS
  <1>1. file \in [retracted : BOOLEAN, due : BOOLEAN]
    BY DEF Init
  <1>2. LockOK(lk)
    BY Fresh DEF Init, LockOK, NewLock, Unlocked
  <1>3. st \in States /\ due \in BOOLEAN
    BY <1>1, LatchTypes DEF Init
  <1>4. pc \in [Goroutines -> PCs]
    BY Fresh DEF Init
  <1> QED
    BY <1>1, <1>2, <1>3, <1>4, Fresh DEF Init, TypeOK

\* What the world does, and the lock.
LEMMA WorldTypes ==
    ASSUME TypeOK, World \/ ApplyAntMode \/ Settle
    PROVE  TypeOK'
  <1> DEFINE Devs == [link : {"on"} \cup Faults, goal : {"in", "out"},
                      motors : {"rest", "starting", "running"}]
  <1>1. CASE Publish
    BY <1>1 DEF Publish, TypeOK, LockOK
  <1>2. CASE MotorsStart
    BY <1>2 DEF MotorsStart, TypeOK, LockOK
  <1>3. CASE MotorsStop
    BY <1>3 DEF MotorsStop, TypeOK, LockOK
  <1>4. CASE LinkFails
    <2>1. dev' \in Devs
      BY <1>4 DEF LinkFails, TypeOK
    <2> QED
      BY <1>4, <2>1 DEF LinkFails, TypeOK, LockOK
  <1>5. CASE LinkReturns
    <2>1. dev' \in Devs
      BY <1>5 DEF LinkReturns, TypeOK
    <2> QED
      BY <1>5, <2>1 DEF LinkReturns, TypeOK, LockOK
  <1>6. CASE HoldEnds
    <2>1. LockOK(lk')
      BY <1>6 DEF HoldEnds, TypeOK, LockOK, LkStates
    <2> QED
      BY <1>6, <2>1 DEF HoldEnds, TypeOK, LockOK
  <1>7. CASE Crash
    <2>1. LockOK(lk')
      BY <1>7, Fresh DEF Crash, LockOK, NewLock, Unlocked
    <2>2. st' \in States /\ due' \in BOOLEAN
      BY <1>7, LatchTypes DEF Crash, TypeOK
    <2>3. pc' \in [Goroutines -> PCs] /\ past' \in {"sound", "late", "doubt"}
      BY <1>7, Fresh DEF Crash, TypeOK
    <2> QED
      BY <1>7, <2>1, <2>2, <2>3 DEF Crash, TypeOK, LockOK
  <1>8. CASE ApplyAntMode
    <2>1. LockOK(lk')
      BY <1>8, AppliedOK DEF ApplyAntMode, TypeOK
    <2> QED
      BY <1>8, <2>1 DEF ApplyAntMode, TypeOK, LockOK
  <1>9. CASE Settle
    <2>1. LockOK(lk')
      BY <1>9 DEF Settle, TypeOK, LockOK, LkStates
    <2> QED
      BY <1>9, <2>1 DEF Settle, TypeOK, LockOK
  <1> QED
    BY <1>1, <1>2, <1>3, <1>4, <1>5, <1>6, <1>7, <1>8, <1>9 DEF World

\* What a goroutine does: in each case pc, then what the step touches.
LEMMA RunTypes ==
    ASSUME TypeOK, NEW g \in Goroutines, Runs(g) \/ Command(g) \/ Band(g)
    PROVE  TypeOK'
  <1>p. pc[g] \in PCs /\ pc[g].was \in States
    BY DEF TypeOK, PCs
  <1>f. After(pc[g]) \in PCs /\ Failed(pc[g]) \in PCs
    BY <1>p, Onward
  <1>1. CASE Command(g)
    <2>1. At("send", "retract") \in PCs /\ At("band", "tune") \in PCs
      BY Fresh DEF Places, Jobs
    <2>2. pc' \in [Goroutines -> PCs]
      BY <1>1, <2>1, Moves DEF Command
    <2> QED
      BY <1>1, <2>2 DEF Command, TypeOK, LockOK
  <1>2. CASE Band(g)
    <2>1. pc' \in [Goroutines -> PCs]
      BY <1>2, Moves, Steps, Fresh DEF Band, Places
    <2> QED
      BY <1>2, <2>1 DEF Band, TypeOK, LockOK
  <1>3. CASE Send(g)
    <2>1. PICK a \in Answers :
             /\ IF Executed(a) THEN Execute(g, a) ELSE UNCHANGED <<dev, past>>
             /\ CASE a = "ok"      -> Step(g, "latch")
                  [] a = "refused" -> Go(g, Failed(pc[g]))
                  [] OTHER         -> Lose(g)
      BY <1>3 DEF Send
    <2>2. Step(g, "latch") \/ Go(g, Failed(pc[g])) \/ Lose(g)
      BY <2>1
    <2>3. pc' \in [Goroutines -> PCs]
      BY <2>2, <1>f, Moves, Steps, Loses DEF Places
    <2>4. /\ dev' \in [link : {"on"} \cup Faults, goal : {"in", "out"},
                       motors : {"rest", "starting", "running"}]
          /\ past' \in {"sound", "late", "doubt"}
      BY <2>1, DevOK DEF TypeOK
    <2> QED
      BY <1>3, <2>3, <2>4 DEF Send, TypeOK, LockOK
  <1>4. CASE Latch(g)
    <2>1. pc' \in [Goroutines -> PCs]
      BY <1>4, Steps DEF Latch, Places
    <2>2. st' \in States /\ due' \in BOOLEAN
      BY <1>4 DEF Latch, TypeOK, States
    <2> QED
      BY <1>4, <2>1, <2>2 DEF Latch, TypeOK, LockOK
  <1>5. CASE Save(g)
    <2>1. pc' \in [Goroutines -> PCs]
      BY <1>5, <1>f, Steps, Moves DEF Save, Places
    <2>2. file' \in [retracted : BOOLEAN, due : BOOLEAN]
      BY <1>5 DEF Save, TypeOK, States
    <2> QED
      BY <1>5, <2>1, <2>2 DEF Save, TypeOK, LockOK
  <1>6. CASE Ask(g)
    <2> DEFINE to == [pc[g] EXCEPT !.at = "set", !.was.moving = Moving,
                                   !.was.offline = st.offline]
    <2>1. PICK a \in Answers :
             CASE a = "ok"      -> Go(g, to)
               [] a = "refused" -> Go(g, Failed(pc[g]))
               [] OTHER         -> Lose(g)
      BY <1>6 DEF Ask
    <2>2. Go(g, to) \/ Go(g, Failed(pc[g])) \/ Lose(g)
      BY <2>1
    <2>3. to \in PCs
      BY <1>p DEF PCs, States, Places, Moving, TypeOK
    <2>4. pc' \in [Goroutines -> PCs]
      BY <2>2, <2>3, <1>f, Moves, Loses
    <2> QED
      BY <1>6, <2>4 DEF Ask, TypeOK, LockOK
  <1>7. CASE Set(g)
    <2>1. pc' \in [Goroutines -> PCs]
      BY <1>7, <1>f, Steps, Moves DEF Set, Places
    <2>2. [pc[g].was EXCEPT !.offline = FALSE] \in States
      BY <1>p DEF States
    <2>3. st' \in States
      BY <1>7, <2>2, PutTypes DEF Set
    <2> QED
      BY <1>7, <2>1, <2>3 DEF Set, TypeOK, LockOK
  <1>8. CASE Offline(g)
    <2>1. pc' \in [Goroutines -> PCs]
      BY <1>8, <1>f, Moves DEF Offline
    <2>2. [pc[g].was EXCEPT !.offline = TRUE] \in States
      BY <1>p DEF States
    <2>3. st' \in States
      BY <1>8, <2>2, PutTypes DEF Offline
    <2> QED
      BY <1>8, <2>1, <2>3 DEF Offline, TypeOK, LockOK
  <1>9. CASE Rearm(g)
    <2>1. pc' \in [Goroutines -> PCs]
      BY <1>9, <1>f, Steps, Moves DEF Rearm, Places
    <2>2. LockOK(lk')
      BY <1>9, ZenonT(60) DEF Rearm, Ensures, TypeOK, LockOK, LkStates, Locks
    <2> QED
      BY <1>9, <2>1, <2>2 DEF Rearm, TypeOK, LockOK
  <1>10. CASE Unlatch(g)
    <2>1. pc' \in [Goroutines -> PCs]
      BY <1>10, <1>f, Steps, Moves DEF Unlatch, Places
    <2>2. st' \in States
      BY <1>10 DEF Unlatch, TypeOK, States
    <2> QED
      BY <1>10, <2>1, <2>2 DEF Unlatch, TypeOK, LockOK
  <1> QED
    BY <1>1, <1>2, <1>3, <1>4, <1>5, <1>6, <1>7, <1>8, <1>9, <1>10 DEF Runs

\* The poll loop.
LEMMA PollTypes ==
    ASSUME TypeOK, Poll
    PROVE  TypeOK'
  <1>p. "poll" \in Goroutines /\ pc["poll"] \in PCs /\ pc["poll"].was \in States
    BY Constants DEF TypeOK, PCs
  <1>1. CASE Wake
    <2>1. pc' \in [Goroutines -> PCs]
      BY <1>1, <1>p, Fresh, Moves DEF Wake, Places, Jobs
    <2> QED
      BY <1>1, <2>1 DEF Wake, Decide, Idle, At, TypeOK, LockOK
  <1>2. CASE Ensure
    <2>1. [pc["poll"] EXCEPT !.at = "decide", !.was = st] \in PCs
      BY <1>p DEF PCs, Places, TypeOK
    <2>2. pc' \in [Goroutines -> PCs]
      BY <1>2, <1>p, <2>1, Moves DEF Ensure
    <2> QED
      BY <1>2, <2>2 DEF Ensure, Decide, TypeOK, LockOK
  <1>3. CASE Decide
    <2> DEFINE s == pc["poll"].was
               l == Rechecked(s)
               on(place, job) == [At(place, job) EXCEPT !.seq = lk.ant.seq]
               to == IF ~Ensures \/ ~l.pending \/ s.offline THEN Idle
                     ELSE IF l.sent = "no"  THEN on("send", "ensure")
                     ELSE IF Finished(s, l) THEN on("confirm", "none")
                     ELSE Idle
    <2>1. lk' = (IF Ensures THEN l ELSE lk) /\ Go("poll", to)
      BY <1>3 DEF Decide
    <2>2. on("send", "ensure") \in PCs /\ on("send", "ensure").at = "send"
      BY Fresh, Lists DEF At, PCs, Places, Jobs
    <2>3. on("confirm", "none") \in PCs /\ on("confirm", "none").at = "confirm"
      BY Fresh, Lists DEF At, PCs, Places, Jobs
    <2>4. to = Idle \/ to = on("send", "ensure") \/ to = on("confirm", "none")
      OBVIOUS
    <2> HIDE DEF to, on
    <2>5. to \in PCs /\ to.at \in {"idle", "send", "confirm"}
      BY <2>2, <2>3, <2>4, Fresh
    <2>6. pc' \in [Goroutines -> PCs] /\ pc'["poll"] = to
      BY <2>1, <2>5, <1>p, Moves
    <2>7. LockOK(lk')
      BY <2>1, <1>p, RecheckedOK DEF TypeOK
    <2> QED
      BY <1>3, <2>5, <2>6, <2>7 DEF Decide, TypeOK, LockOK
  <1>4. CASE Confirm
    <2>1. pc' \in [Goroutines -> PCs]
      BY <1>4, <1>p, Fresh, Moves DEF Confirm
    <2>2. LockOK(lk')
      BY <1>4 DEF Confirm, TypeOK, LockOK, LkStates
    <2> QED
      BY <1>4, <2>1, <2>2 DEF Confirm, Decide, TypeOK, LockOK
  <1>5. CASE Mark
    <2>1. pc' \in [Goroutines -> PCs]
      BY <1>5, <1>p, Fresh, Moves DEF Mark
    <2>2. LockOK(lk')
      BY <1>5 DEF Mark, TypeOK, LockOK, LkStates
    <2> QED
      BY <1>5, <2>1, <2>2 DEF Mark, Decide, TypeOK, LockOK
  <1> QED
    BY <1>1, <1>2, <1>3, <1>4, <1>5 DEF Poll

LEMMA StepTypes == TypeOK /\ [Next]_vars => TypeOK'
  <1> SUFFICES ASSUME TypeOK, [Next]_vars PROVE TypeOK'
    OBVIOUS
  <1>1. CASE World \/ ApplyAntMode \/ Settle
    BY <1>1, WorldTypes
  <1>2. CASE Poll
    BY <1>2, PollTypes
  <1>3. CASE \E g \in Clients : Command(g) \/ Band(g)
    BY <1>3, RunTypes, Constants
  <1>4. CASE \E g \in Goroutines : Runs(g)
    BY <1>4, RunTypes
  <1>5. CASE UNCHANGED vars
    BY <1>5 DEF vars, TypeOK, LockOK
  <1> QED
    BY <1>1, <1>2, <1>3, <1>4, <1>5 DEF Next

\* The types hold in every state, whatever the clients, the link and the crashes do (lockState,
\* updateLatch, EnsureRetract).
THEOREM TypeCorrect == Spec => []TypeOK
  <1> QED
    BY InitTypes, StepTypes, PTL DEF Spec
-----------------------------------------------------------------------------
(* The latch.  What makes RetuneGetsThrough inductive: while a command is      *)
(* answered and not yet in the latch, it is the only one and the last the      *)
(* device has executed; and only a goroutine about to save it makes the file   *)
(* lag behind extendDue.                                                       *)

InLatch(g) == pc[g].at = "latch"

OneInLatch == \A g, h \in Goroutines : InLatch(g) /\ InLatch(h) => g = h

LastIsInLatch == \A g \in Goroutines :
    InLatch(g) /\ dev.goal = "in" => Drives(pc[g].job) = "in"

DueWhenIn == dev.goal = "in" /\ Nobody({"latch"}) => due

LatchInv ==
    /\ st.retracted => due
    /\ due /\ Nobody({"save"}) => DueOf(file)
    /\ past # "doubt" => OneInLatch /\ LastIsInLatch /\ DueWhenIn

\* A step that neither enters nor leaves the latch, nor writes what the invariant is about.
LEMMA Aside ==
    ASSUME TypeOK, LatchInv, UNCHANGED <<due, file>>,
           st'.retracted => st.retracted,
           past' = past \/ past' = "doubt" \/ past # "doubt",
           dev'.goal = "in" => dev.goal = "in",
           \A g \in Goroutines :
              /\ pc'[g].at = "latch" <=> pc[g].at = "latch"
              /\ pc'[g].at = "latch" => pc'[g].job = pc[g].job
              /\ pc[g].at = "save" => pc'[g].at = "save"
    PROVE  LatchInv'
  <1>1. (st.retracted => due)'
    BY DEF LatchInv
  <1>2. (due /\ Nobody({"save"}) => DueOf(file))'
    BY DEF LatchInv, Nobody, DueOf
  <1>3. ASSUME past' # "doubt" PROVE (OneInLatch /\ LastIsInLatch /\ DueWhenIn)'
    <2>1. OneInLatch /\ LastIsInLatch /\ DueWhenIn
      BY <1>3 DEF LatchInv
    <2>2. OneInLatch'
      BY <2>1 DEF OneInLatch, InLatch
    <2>3. LastIsInLatch'
      BY <2>1 DEF LastIsInLatch, InLatch, Drives
    <2>4. DueWhenIn'
      BY <2>1 DEF DueWhenIn, Nobody
    <2> QED
      BY <2>2, <2>3, <2>4
  <1> QED
    BY <1>1, <1>2, <1>3 DEF LatchInv

\* The same for a goroutine that goes on elsewhere.
LEMMA Elsewhere ==
    ASSUME TypeOK, LatchInv, NEW g \in Goroutines, UNCHANGED <<due, file, dev, past>>,
           st'.retracted => st.retracted,
           pc[g].at \notin {"latch", "save"}, pc'[g].at # "latch",
           \A h \in Goroutines \ {g} : pc'[h] = pc[h]
    PROVE  LatchInv'
  <1>1. \A h \in Goroutines :
           /\ pc'[h].at = "latch" <=> pc[h].at = "latch"
           /\ pc'[h].at = "latch" => pc'[h].job = pc[h].job
           /\ pc[h].at = "save" => pc'[h].at = "save"
    OBVIOUS
  <1> QED
    BY <1>1, Aside

LEMMA WorldKeeps ==
    ASSUME TypeOK, LatchInv, World \/ ApplyAntMode \/ Settle
    PROVE  LatchInv'
  <1>1. CASE Publish \/ MotorsStart \/ LinkFails \/ HoldEnds \/ ApplyAntMode \/ Settle
    <2>1. UNCHANGED <<st, due, file, pc, past>> /\ dev'.goal = dev.goal
      BY <1>1 DEF Publish, MotorsStart, LinkFails, HoldEnds, ApplyAntMode, Settle, TypeOK
    <2> QED
      BY <2>1, Aside
  <1>2. CASE MotorsStop
    <2>1. UNCHANGED <<st, due, file, pc>> /\ dev'.goal = dev.goal /\ (past' # past => past # "doubt")
      BY <1>2 DEF MotorsStop, TypeOK
    <2> QED
      BY <2>1, Aside
  <1>3. CASE LinkReturns
    <2>1. UNCHANGED <<st, due, file, pc, past>> /\ (dev'.goal = "in" => dev.goal = "in")
      BY <1>3 DEF LinkReturns
    <2> QED
      BY <2>1, Aside
  <1>4. CASE Crash
    <2>1. pc' = [g \in Goroutines |-> Idle] /\ UNCHANGED <<file, dev>> /\ due' = DueOf(file)
      BY <1>4 DEF Crash
    <2>2. \A g \in Goroutines : pc'[g].at = "idle"
      BY <2>1, Fresh
    <2>3. st'.retracted => due'
      BY <1>4 DEF Crash, LatchOf, DueOf, Blank
    <2>4. ASSUME past' # "doubt" PROVE (OneInLatch /\ LastIsInLatch /\ DueWhenIn)'
      <3>1. Nobody({"latch"}) /\ Nobody({"save"}) /\ past' = past
        BY <1>4, <2>4 DEF Crash, Nobody
      <3>2. dev.goal = "in" => DueOf(file)
        BY <2>4, <3>1 DEF LatchInv, DueWhenIn
      <3> QED
        BY <2>1, <2>2, <3>2 DEF OneInLatch, LastIsInLatch, DueWhenIn, InLatch
    <2> QED
      BY <2>1, <2>3, <2>4 DEF LatchInv, DueOf
  <1> QED
    BY <1>1, <1>2, <1>3, <1>4 DEF World

LEMMA PollKeeps ==
    ASSUME TypeOK, LatchInv, Poll
    PROVE  LatchInv'
  <1>p. "poll" \in Goroutines /\ UNCHANGED <<st, due, file, dev, past>>
    BY Constants DEF Poll, Wake, Ensure, Decide, Confirm, Mark
  <1>2. pc["poll"].at \notin {"latch", "save"}
    BY Fresh DEF Poll, Wake, Ensure, Decide, Confirm, Mark
  <1>3. pc'["poll"].at # "latch" /\ \A h \in Goroutines \ {"poll"} : pc'[h] = pc[h]
    <2>1. pc \in [Goroutines -> PCs]
      BY DEF TypeOK
    <2>2. CASE Wake
      BY <2>1, <2>2, <1>p DEF Wake, Go, At
    <2>3. CASE Ensure
      BY <2>1, <2>3, <1>p DEF Ensure, Go, PCs
    <2>4. CASE Decide
      BY <2>1, <2>4, <1>p DEF Decide, Go, At, Idle
    <2>5. CASE Confirm \/ Mark
      BY <2>1, <2>5, <1>p DEF Confirm, Mark, Go, Idle, At
    <2> QED
      BY <2>2, <2>3, <2>4, <2>5 DEF Poll
  <1> QED
    BY <1>p, <1>2, <1>3, Elsewhere

LEMMA ClientKeeps ==
    ASSUME TypeOK, LatchInv, NEW g \in Goroutines, Command(g) \/ Band(g)
    PROVE  LatchInv'
  <1>1. UNCHANGED <<st, due, file, dev, past>> /\ pc[g].at \notin {"latch", "save"}
    BY Fresh DEF Command, Band
  <1>2. pc'[g].at # "latch" /\ \A h \in Goroutines \ {g} : pc'[h] = pc[h]
    <2>1. At("send", "retract") \in PCs /\ At("band", "tune") \in PCs
      BY Fresh DEF Places, Jobs
    <2>2. CASE Command(g)
      BY <2>1, <2>2, Moves DEF Command, At
    <2>3. CASE Band(g)
      BY <2>3, Moves, Steps, Fresh DEF Band, Places
    <2> QED
      BY <2>2, <2>3
  <1> QED
    BY <1>1, <1>2, Elsewhere

\* A command is executed: it is the only one before the latch, or there is doubt.
LEMMA SendKeeps ==
    ASSUME TypeOK, LatchInv, NEW g \in Goroutines, Send(g)
    PROVE  LatchInv'
  <1>1. PICK a \in Answers :
           /\ IF Executed(a) THEN Execute(g, a) ELSE UNCHANGED <<dev, past>>
           /\ CASE a = "ok"      -> Step(g, "latch")
                [] a = "refused" -> Go(g, Failed(pc[g]))
                [] OTHER         -> Lose(g)
    BY DEF Send
  <1>2. pc[g].at = "send" /\ UNCHANGED <<st, due, file>>
    BY DEF Send
  <1>3. CASE a = "ok"
    <2>1. Execute(g, a) /\ Step(g, "latch")
      BY <1>1, <1>3 DEF Executed
    <2>2. /\ pc'[g].at = "latch" /\ pc'[g].job = pc[g].job
          /\ \A h \in Goroutines \ {g} : pc'[h] = pc[h]
      BY <2>1, Steps DEF Places
    <2>3. dev'.goal = Drives(pc[g].job)
      BY <2>1 DEF Execute, TypeOK
    <2>4. ASSUME past' # "doubt" PROVE (OneInLatch /\ LastIsInLatch /\ DueWhenIn)'
      <3>1. \A h \in Goroutines \ {g} : ~InLatch(h)
        BY <2>1, <2>4 DEF Execute, Unlatched, InLatch
      <3>2. \A h \in Goroutines : pc'[h].at = "latch" => h = g
        BY <3>1, <2>2 DEF InLatch
      <3> QED
        BY <3>2, <2>2, <2>3 DEF OneInLatch, LastIsInLatch, DueWhenIn, InLatch, Nobody, Drives
    <2>5. (due /\ Nobody({"save"}) => DueOf(file))'
      BY <1>2, <2>2 DEF LatchInv, Nobody, DueOf
    <2> QED
      BY <1>2, <2>4, <2>5 DEF LatchInv
  <1>4. CASE a # "ok"
    <2>1. Go(g, Failed(pc[g])) \/ Lose(g)
      BY <1>1, <1>4
    <2>2. pc[g] \in PCs
      BY DEF TypeOK
    <2>3. pc'[g].at # "latch" /\ \A h \in Goroutines \ {g} : pc'[h] = pc[h]
      BY <2>1, <2>2, Onward, Moves, Loses
    <2>4. CASE Execute(g, a)
      <3>1. past' = "doubt"
        BY <1>4, <2>4 DEF Execute
      <3>2. (due /\ Nobody({"save"}) => DueOf(file))'
        BY <1>2, <2>3 DEF LatchInv, Nobody, DueOf
      <3> QED
        BY <1>2, <3>1, <3>2 DEF LatchInv
    <2>5. CASE UNCHANGED <<dev, past>>
      BY <1>2, <2>3, <2>5, Elsewhere
    <2> QED
      BY <1>1, <2>4, <2>5
  <1> QED
    BY <1>3, <1>4

\* The answer gets into the latch, and somebody is about to save it if it changed.
LEMMA LatchKeeps ==
    ASSUME TypeOK, LatchInv, NEW g \in Goroutines, Latch(g)
    PROVE  LatchInv'
  <1> DEFINE in == Drives(pc[g].job) = "in"
  <1>1. /\ pc[g].at = "latch" /\ st' = [st EXCEPT !.retracted = in] /\ due' = in
        /\ Step(g, IF st.retracted # in \/ due # in THEN "save" ELSE "refresh")
        /\ UNCHANGED <<file, dev, past>>
    BY DEF Latch
  <1>2. /\ pc'[g].at = IF st.retracted # in \/ due # in THEN "save" ELSE "refresh"
        /\ \A h \in Goroutines \ {g} : pc'[h] = pc[h]
    BY <1>1, Steps DEF Places
  <1>3. (st.retracted => due)'
    BY <1>1 DEF TypeOK, States
  <1>4. (due /\ Nobody({"save"}) => DueOf(file))'
    <2> SUFFICES ASSUME due', Nobody({"save"})' PROVE DueOf(file)'
      OBVIOUS
    <2>1. pc'[g].at # "save"
      BY DEF Nobody
    <2>2. due = in /\ in
      BY <1>1, <1>2, <2>1
    <2>3. Nobody({"save"})
      BY <1>1, <1>2 DEF Nobody
    <2> QED
      BY <1>1, <2>2, <2>3 DEF LatchInv, DueOf
  <1>5. ASSUME past' # "doubt" PROVE (OneInLatch /\ LastIsInLatch /\ DueWhenIn)'
    <2>1. OneInLatch /\ LastIsInLatch
      BY <1>1, <1>5 DEF LatchInv
    <2>2. \A h \in Goroutines : pc'[h].at # "latch"
      BY <1>1, <1>2, <2>1 DEF OneInLatch, InLatch
    <2>3. dev.goal = "in" => in
      BY <1>1, <2>1 DEF LastIsInLatch, InLatch
    <2> QED
      BY <1>1, <2>2, <2>3 DEF OneInLatch, LastIsInLatch, DueWhenIn, InLatch
  <1> QED
    BY <1>3, <1>4, <1>5 DEF LatchInv

LEMMA SaveKeeps ==
    ASSUME TypeOK, LatchInv, NEW g \in Goroutines, Save(g)
    PROVE  LatchInv'
  <1>1. /\ pc[g].at \in {"save", "resave"} /\ UNCHANGED <<st, due, dev, past>>
        /\ file' = [retracted |-> st.retracted, due |-> due]
    BY DEF Save
  <1>2. pc'[g].at # "latch" /\ \A h \in Goroutines \ {g} : pc'[h] = pc[h]
    <2>1. pc[g] \in PCs
      BY DEF TypeOK
    <2>2. Step(g, "refresh") \/ Go(g, After(pc[g]))
      BY DEF Save
    <2> QED
      BY <2>1, <2>2, Onward, Moves, Steps DEF Places
  <1>3. (st.retracted => due)' /\ (due => DueOf(file))'
    BY <1>1 DEF LatchInv, DueOf
  <1>4. ASSUME past' # "doubt" PROVE (OneInLatch /\ LastIsInLatch /\ DueWhenIn)'
    <2>1. OneInLatch /\ LastIsInLatch /\ DueWhenIn
      BY <1>1, <1>4 DEF LatchInv
    <2>2. \A h \in Goroutines : pc'[h].at = "latch" => pc[h].at = "latch" /\ pc'[h] = pc[h]
      BY <1>2
    <2>3. Nobody({"latch"})' => Nobody({"latch"})
      BY <1>1, <1>2 DEF Nobody
    <2>4. OneInLatch'
      BY <2>1, <2>2 DEF OneInLatch, InLatch
    <2>5. LastIsInLatch'
      BY <1>1, <2>1, <2>2 DEF LastIsInLatch, InLatch
    <2>6. DueWhenIn'
      BY <1>1, <2>1, <2>3 DEF DueWhenIn
    <2> QED
      BY <2>4, <2>5, <2>6
  <1> QED
    BY <1>3, <1>4 DEF LatchInv

\* The queries: the latch is theirs only to clear.
LEMMA QueryKeeps ==
    ASSUME TypeOK, LatchInv, NEW g \in Goroutines,
           Ask(g) \/ Set(g) \/ Offline(g) \/ Rearm(g) \/ Unlatch(g)
    PROVE  LatchInv'
  <1>p. pc[g] \in PCs /\ pc[g].was \in States
    BY DEF TypeOK, PCs
  <1>1. UNCHANGED <<due, file, dev, past>> /\ pc[g].at \notin {"latch", "save"}
    BY DEF Ask, Set, Offline, Rearm, Unlatch
  <1>2. st'.retracted => st.retracted
    <2>1. CASE Set(g)
      <3>1. [pc[g].was EXCEPT !.offline = FALSE] \in States
        BY <1>p DEF States
      <3> QED
        BY <2>1, <3>1, PutTypes DEF Set
    <2>2. CASE Offline(g)
      <3>1. [pc[g].was EXCEPT !.offline = TRUE] \in States
        BY <1>p DEF States
      <3> QED
        BY <2>2, <3>1, PutTypes DEF Offline
    <2>3. CASE Unlatch(g)
      BY <2>3 DEF Unlatch, TypeOK, States
    <2>4. CASE Ask(g) \/ Rearm(g)
      BY <2>4 DEF Ask, Rearm
    <2> QED
      BY <2>1, <2>2, <2>3, <2>4
  <1>3. pc'[g].at # "latch" /\ \A h \in Goroutines \ {g} : pc'[h] = pc[h]
    <2> DEFINE to == [pc[g] EXCEPT !.at = "set", !.was.moving = Moving,
                                   !.was.offline = st.offline]
    <2>1. to \in PCs /\ to.at = "set"
      BY <1>p DEF PCs, States, Places, Moving, TypeOK
    <2>2. \/ Go(g, to) \/ Go(g, After(pc[g])) \/ Go(g, Failed(pc[g])) \/ Lose(g)
          \/ \E place \in {"rearm", "unlatch", "resave"} : Step(g, place)
      BY DEF Ask, Set, Offline, Rearm, Unlatch
    <2> HIDE DEF to
    <2> QED
      BY <2>1, <2>2, <1>p, Onward, Moves, Steps, Loses DEF Places
  <1> QED
    BY <1>1, <1>2, <1>3, Elsewhere

LEMMA LatchInit == Init => LatchInv
  <1> SUFFICES ASSUME Init PROVE LatchInv
    OBVIOUS
  <1>1. \A g \in Goroutines : pc[g].at = "idle"
    BY Fresh DEF Init
  <1>2. ~st.retracted /\ ~due /\ dev.goal = "out"
    BY DEF Init, LatchOf, DueOf, Blank
  <1> QED
    BY <1>1, <1>2 DEF LatchInv, OneInLatch, LastIsInLatch, DueWhenIn, InLatch

LEMMA LatchStep == TypeOK /\ LatchInv /\ [Next]_vars => LatchInv'
  <1> SUFFICES ASSUME TypeOK, LatchInv, [Next]_vars PROVE LatchInv'
    OBVIOUS
  <1>1. CASE World \/ ApplyAntMode \/ Settle
    BY <1>1, WorldKeeps
  <1>2. CASE Poll
    BY <1>2, PollKeeps
  <1>3. CASE \E g \in Clients : Command(g) \/ Band(g)
    BY <1>3, ClientKeeps, Constants
  <1>4. CASE \E g \in Goroutines : Runs(g)
    BY <1>4, SendKeeps, LatchKeeps, SaveKeeps, QueryKeeps DEF Runs
  <1>5. CASE UNCHANGED vars
    BY <1>5, Aside DEF vars
  <1> QED
    BY <1>1, <1>2, <1>3, <1>4, <1>5 DEF Next

\* However many clients, faults and crashes: with the elements in, extendDue is set, and the
\* file sets it again after a restart, so the deadband of SetFrequency never swallows the
\* re-tune that takes them out (updateLatch, saveLatch, PersistTo, deviceBackOnline).
THEOREM RetuneAlwaysThrough == Spec => []RetuneGetsThrough
  <1>1. LatchInv => RetuneGetsThrough
    BY DEF LatchInv, DueWhenIn, RetuneGetsThrough
  <1> QED
    BY <1>1, InitTypes, StepTypes, LatchInit, LatchStep, PTL DEF Spec
-----------------------------------------------------------------------------
(* ConfirmedIn.  First what only takes the lock and the poll loop: antmode never takes a   *)
(* retract back within a seq, and a retract under way was begun for the lock in force or   *)
(* for one that is gone for good.                                                          *)

P == pc["poll"]

Promise ==
    lk.ant.locked => /\ lk.ant.seq <= ant.seq
                     /\ ant.locked /\ ant.seq = lk.ant.seq /\ lk.ant.retract => ant.retract

\* Only EnsureRetract makes the poll loop command the device.
PollJobs ==
    /\ P.job \in {"none", "look", "motor", "ensure"}
    /\ P.at \in {"send", "latch", "save", "mark"} => P.job = "ensure"
    /\ P.at \in {"ensure", "decide", "confirm"} => P.job = "none"
    /\ P.at = "motor" => P.job = "motor"

\* A retract under way is not yet sent, and one that has settled has seen no power cycle.
Unsent ==
    /\ P.job = "ensure" => lk.sent = "no" /\ ~lk.done
    /\ P.at \in {"unlatch", "resave"} => lk.sent = "no"
    /\ lk.sent = "settled" => Nobody({"unlatch"})
    /\ lk.done => Ensures

Dated ==
    P.job = "ensure" \/ P.at = "confirm" =>
        /\ P.seq <= ant.seq
        /\ lk.ant.locked => P.seq <= lk.ant.seq
        /\ ~lk.ant.locked /\ ant.locked => P.seq < ant.seq
        /\ lk.ant.locked /\ lk.ant.seq = P.seq => lk.ant.retract

BookInv == Promise /\ PollJobs /\ Unsent /\ Dated

LEMMA BookInit == Init => BookInv
  <1> SUFFICES ASSUME Init PROVE BookInv
    OBVIOUS
  <1>1. P = Idle /\ lk = NewLock
    BY Constants DEF Init, P
  <1> QED
    BY <1>1, Fresh DEF Idle, At, NewLock, Unlocked, BookInv, Promise, PollJobs, Unsent, Dated

LEMMA Numbers ==
    TypeOK => /\ ant.seq \in Nat /\ lk.ant.seq \in Nat /\ P.seq \in Nat /\ P \in PCs
              /\ ant.locked \in BOOLEAN /\ ant.retract \in BOOLEAN
              /\ lk.ant.locked \in BOOLEAN /\ lk.ant.retract \in BOOLEAN
              /\ lk.pending \in BOOLEAN /\ lk.done \in BOOLEAN
              /\ lk.sent # "no" => lk.pending
              /\ lk.pending \/ lk.done => lk.ant.locked
              /\ ~(lk.pending /\ lk.done)
  <1> SUFFICES ASSUME TypeOK
      PROVE /\ ant.seq \in Nat /\ lk.ant.seq \in Nat /\ P.seq \in Nat /\ P \in PCs
            /\ ant.locked \in BOOLEAN /\ ant.retract \in BOOLEAN
            /\ lk.ant.locked \in BOOLEAN /\ lk.ant.retract \in BOOLEAN
            /\ lk.pending \in BOOLEAN /\ lk.done \in BOOLEAN
            /\ lk.sent # "no" => lk.pending
            /\ lk.pending \/ lk.done => lk.ant.locked
            /\ ~(lk.pending /\ lk.done)
    OBVIOUS
  <1>1. P \in PCs
    BY Constants DEF TypeOK, P
  <1>2. P.seq \in Nat
    BY <1>1, Constants DEF PCs
  <1>3. lk \in LkStates /\ ant \in Locks
    BY DEF TypeOK, LockOK
  <1>4. lk.ant \in Locks /\ lk.pending \in BOOLEAN /\ lk.done \in BOOLEAN
    BY <1>3 DEF LkStates
  <1>5. /\ ant.seq \in Nat /\ lk.ant.seq \in Nat
        /\ ant.locked \in BOOLEAN /\ ant.retract \in BOOLEAN
        /\ lk.ant.locked \in BOOLEAN /\ lk.ant.retract \in BOOLEAN
    BY <1>3, <1>4, Constants DEF Locks
  <1> QED
    BY <1>1, <1>2, <1>4, <1>5 DEF TypeOK, LockOK

\* What antmode's promise comes to for a bridge.
LEMMA PublishBook ==
    ASSUME TypeOK, TypeOK', BookInv, Publish
    PROVE  BookInv'
  <1>1. UNCHANGED <<lk, pc>> /\ P' = P
    BY DEF Publish, P
  <1>2. ant'.seq \in Nat /\ ant'.locked \in BOOLEAN /\ ant'.retract \in BOOLEAN
    BY Constants DEF Publish, Locks
  <1>3. /\ ant'.seq >= ant.seq
        /\ ant'.locked /\ ~ant.locked => ant'.seq > ant.seq
        /\ ant'.locked /\ ant.locked /\ ant'.seq = ant.seq /\ ant.retract => ant'.retract
    BY <1>2, Numbers DEF Publish, Ant!Next, Ant!Unlock, Ant!Enter, Ant!Build
  <1>4. Promise'
    BY <1>1, <1>2, <1>3, Numbers DEF BookInv, Promise
  <1>5. Dated'
    BY <1>1, <1>2, <1>3, Numbers DEF BookInv, Dated
  <1>6. PollJobs' /\ Unsent'
    BY <1>1 DEF BookInv, PollJobs, Unsent, Nobody, Ensures
  <1> QED
    BY <1>4, <1>5, <1>6 DEF BookInv

\* What a state that arrives makes of the lock.
LEMMA AppliedFrom ==
    ASSUME TypeOK, Promise, ApplyAntMode
    PROVE  /\ lk'.ant.locked => lk'.ant = ant /\ ant.locked
           /\ lk'.sent = lk.sent \/ lk'.sent = "no"
           /\ lk'.done => lk.done /\ Ensures'
           /\ lk'.sent # "no" => /\ lk.ant.locked /\ lk'.ant.locked
                                 /\ Ensures' => Ensures
  <1> DEFINE new   == ~lk.ant.locked \/ ant.seq # lk.ant.seq
             rearm == ant.retract /\ (new \/ ~lk.ant.retract)
             l     == [lk EXCEPT !.ant = ant, !.open = TRUE, !.pending = @ \/ rearm,
                                 !.sent = IF rearm THEN "no" ELSE @,
                                 !.done = @ /\ ~new /\ ant.retract /\ ~rearm]
  <1>1. CASE ~ant.locked
    <2>1. lk' = [NewLock EXCEPT !.open = TRUE]
      BY <1>1 DEF ApplyAntMode, Applied
    <2> QED
      BY <2>1 DEF NewLock, Unlocked
  <1>2. CASE ant.locked
    <2>1. lk' = l
      BY <1>2 DEF ApplyAntMode, Applied
    <2>2. lk \in LkStates
      BY DEF TypeOK, LockOK
    <2>3. new \in BOOLEAN /\ rearm \in BOOLEAN
      BY Numbers
    <2> DEFINE r == rearm
               n == new
    <2>4. /\ l.ant = ant /\ l.sent = IF r THEN "no" ELSE lk.sent
          /\ l.done <=> lk.done /\ ~n /\ ant.retract /\ ~r
      <3> HIDE DEF new, rearm
      <3> QED
        BY <2>2, <2>3 DEF LkStates
    <2> HIDE DEF l, n, r
    <2>5. (r <=> ant.retract /\ (n \/ ~lk.ant.retract)) /\ (n <=> ~lk.ant.locked \/ ant.seq # lk.ant.seq)
      BY DEF n, r
    <2> QED
      BY <1>2, <2>1, <2>4, <2>5, Numbers DEF Ensures
  <1> QED
    BY <1>1, <1>2

LEMMA ApplyBook ==
    ASSUME TypeOK, TypeOK', BookInv, ApplyAntMode
    PROVE  BookInv'
  <1>1. UNCHANGED <<ant, pc>> /\ P' = P
    BY DEF ApplyAntMode, P
  <1>2. /\ lk'.ant.locked => lk'.ant = ant /\ ant.locked
        /\ lk'.sent = lk.sent \/ lk'.sent = "no"
        /\ lk'.done => lk.done /\ Ensures'
    BY AppliedFrom DEF BookInv
  <1>3. Promise'
    BY <1>1, <1>2, Numbers DEF Promise
  <1>4. Dated'
    <2> SUFFICES ASSUME P.job = "ensure" \/ P.at = "confirm", lk'.ant.locked \/ ant.locked
                 PROVE  /\ P.seq <= ant.seq
                        /\ lk'.ant.locked => P.seq <= lk'.ant.seq
                        /\ ~lk'.ant.locked /\ ant.locked => P.seq < ant.seq
                        /\ lk'.ant.locked /\ lk'.ant.seq = P.seq => lk'.ant.retract
      BY <1>1 DEF Dated, BookInv
    <2>1. P.seq <= ant.seq /\ (~lk.ant.locked => P.seq < ant.seq)
      BY <1>2 DEF Dated, BookInv
    <2>2. ant.locked => lk'.ant.locked
      BY DEF ApplyAntMode, Applied
    <2>3. ASSUME lk'.ant.locked, lk'.ant.seq = P.seq PROVE ant.retract
      <3>1. ant.seq = P.seq /\ lk.ant.locked
        BY <1>2, <2>1, <2>3, Numbers
      <3>2. lk.ant.seq = P.seq
        BY <3>1, Numbers DEF Dated, Promise, BookInv
      <3> QED
        BY <1>2, <2>3, <3>1, <3>2 DEF Dated, Promise, BookInv
    <2> QED
      BY <1>2, <2>1, <2>2, <2>3
  <1>5. PollJobs'
    BY <1>1 DEF BookInv, PollJobs
  <1>6. Unsent'
    BY <1>1, <1>2 DEF BookInv, Unsent, Nobody
  <1> QED
    BY <1>3, <1>4, <1>5, <1>6 DEF BookInv

\* A step of a goroutine that leaves the lock alone.
LEMMA BookKept ==
    ASSUME BookInv, UNCHANGED <<ant, lk>>,
           P' = P \/ PollJobs',
           P'.job = "ensure" \/ P'.at = "confirm" =>
               /\ P'.seq = P.seq
               /\ P'.job = "ensure" => P.job = "ensure"
               /\ P'.at = "confirm" => P.at = "confirm",
           P'.at \in {"unlatch", "resave"} => lk.sent = "no",
           lk.sent = "settled" =>
               \A g \in Goroutines : pc'[g].at = "unlatch" => pc[g].at = "unlatch"
    PROVE  BookInv'
  <1>1. Promise'
    BY DEF BookInv, Promise
  <1>2. PollJobs'
    BY DEF BookInv, PollJobs
  <1>3. Unsent'
    BY DEF BookInv, Unsent, Nobody, Ensures
  <1>4. Dated'
    BY DEF BookInv, Dated
  <1> QED
    BY <1>1, <1>2, <1>3, <1>4 DEF BookInv
\* Where a goroutine goes on, and with what.
Goes(g) ==
    /\ \A h \in Goroutines \ {g} : pc'[h] = pc[h]
    /\ \/ /\ pc'[g].job = pc[g].job /\ pc'[g].seq = pc[g].seq
          /\ \/ pc[g].at = "send" /\ pc'[g].at \in {"latch", "offline"}
             \/ pc[g].at = "latch" /\ pc'[g].at \in {"save", "refresh"}
             \/ pc[g].at = "save" /\ pc'[g].at = "refresh"
             \/ pc[g].at \in {"refresh", "motor"} /\ pc'[g].at \in {"set", "offline"}
             \/ pc[g].at = "set" /\ pc'[g].at = "rearm"
             \/ pc[g].at = "rearm" /\ pc'[g].at = "unlatch" /\ Ensures
             \/ pc[g].at = "unlatch" /\ pc'[g].at = "resave"
       \/ /\ pc[g].at \in {"send", "refresh", "motor", "offline"}
          /\ pc'[g] = Failed(pc[g])
       \/ /\ pc[g].at \in {"set", "rearm", "unlatch", "resave"}
          /\ pc'[g] = After(pc[g])

LEMMA RunGoes ==
    ASSUME TypeOK, NEW g \in Goroutines, Runs(g)
    PROVE  Goes(g)
  <1>p. pc[g] \in PCs /\ pc[g].was \in States
    BY DEF TypeOK, PCs
  <1>f. After(pc[g]) \in PCs /\ Failed(pc[g]) \in PCs
    BY <1>p, Onward
  <1>1. CASE Send(g)
    <2>1. pc[g].at = "send" /\ (Step(g, "latch") \/ Go(g, Failed(pc[g])) \/ Lose(g))
      BY <1>1 DEF Send
    <2>2. CASE Step(g, "latch")
      BY <2>1, <2>2, Steps DEF Goes, Places
    <2>3. CASE Go(g, Failed(pc[g]))
      BY <2>1, <2>3, <1>f, Moves DEF Goes
    <2>4. CASE Lose(g)
      BY <2>1, <2>4, Loses DEF Goes
    <2> QED
      BY <2>1, <2>2, <2>3, <2>4
  <1>2. CASE Latch(g)
    <2>1. pc[g].at = "latch" /\ \E place \in {"save", "refresh"} : Step(g, place)
      BY <1>2 DEF Latch
    <2> QED
      BY <2>1, Steps DEF Goes, Places
  <1>3. CASE Save(g)
    <2>1. CASE pc[g].at = "save"
      <3>1. Step(g, "refresh")
        BY <1>3, <2>1 DEF Save
      <3> QED
        BY <2>1, <3>1, Steps DEF Goes, Places
    <2>2. CASE pc[g].at # "save"
      <3>1. pc[g].at = "resave" /\ Go(g, After(pc[g]))
        BY <1>3, <2>2 DEF Save
      <3> QED
        BY <3>1, <1>f, Moves DEF Goes
    <2> QED
      BY <2>1, <2>2
  <1>4. CASE Ask(g)
    <2> DEFINE to == [pc[g] EXCEPT !.at = "set", !.was.moving = Moving,
                                   !.was.offline = st.offline]
    <2>1. pc[g].at \in {"refresh", "motor"} /\ (Go(g, to) \/ Go(g, Failed(pc[g])) \/ Lose(g))
      BY <1>4 DEF Ask
    <2>2. CASE Go(g, to)
      <3>1. to \in PCs /\ to.at = "set" /\ to.job = pc[g].job /\ to.seq = pc[g].seq
        BY <1>p DEF PCs, States, Places, Moving, TypeOK
      <3> HIDE DEF to
      <3> QED
        BY <2>1, <2>2, <3>1, Moves DEF Goes
    <2>3. CASE Go(g, Failed(pc[g]))
      BY <2>1, <2>3, <1>f, Moves DEF Goes
    <2>4. CASE Lose(g)
      BY <2>1, <2>4, Loses DEF Goes
    <2> QED
      BY <2>1, <2>2, <2>3, <2>4
  <1>5. CASE Set(g) \/ Rearm(g) \/ Unlatch(g)
    <2>1. \/ pc[g].at \in {"set", "rearm", "unlatch"} /\ Go(g, After(pc[g]))
          \/ pc[g].at = "set" /\ Step(g, "rearm")
          \/ pc[g].at = "rearm" /\ Step(g, "unlatch") /\ Ensures
          \/ pc[g].at = "unlatch" /\ Step(g, "resave")
      BY <1>5 DEF Set, Rearm, Unlatch
    <2>2. CASE pc[g].at \in {"set", "rearm", "unlatch"} /\ Go(g, After(pc[g]))
      BY <2>2, <1>f, Moves DEF Goes
    <2>3. CASE pc[g].at = "set" /\ Step(g, "rearm")
      BY <2>3, Steps DEF Goes, Places
    <2>4. CASE pc[g].at = "rearm" /\ Step(g, "unlatch") /\ Ensures
      BY <2>4, Steps DEF Goes, Places
    <2>5. CASE pc[g].at = "unlatch" /\ Step(g, "resave")
      BY <2>5, Steps DEF Goes, Places
    <2> QED
      BY <2>1, <2>2, <2>3, <2>4, <2>5
  <1>6. CASE Offline(g)
    BY <1>6, <1>f, Moves DEF Offline, Goes
  <1> QED
    BY <1>1, <1>2, <1>3, <1>4, <1>5, <1>6 DEF Runs

\* The job after a job of the poll loop.
LEMMA NextJob ==
    ASSUME NEW p \in PCs, p.job \in {"none", "look", "motor", "ensure"}
    PROVE  /\ After(p).at \in {"motor", "ensure", "mark", "idle"}
           /\ Failed(p).at \in {"motor", "ensure", "idle"}
           /\ After(p).at = "mark" <=> p.job = "ensure"
           /\ After(p).at = "mark" => After(p).job = "ensure" /\ After(p).seq = p.seq
           /\ After(p).at # "mark" => After(p).job \in {"none", "motor"}
           /\ Failed(p).job \in {"none", "motor"}
           /\ After(p).at = "ensure" => After(p).job = "none" /\ p.job = "motor"
           /\ Failed(p).at = "ensure" => Failed(p).job = "none"
           /\ After(p).at = "motor" => After(p).job = "motor"
           /\ Failed(p).at = "motor" => Failed(p).job = "motor"
  <1>1. CASE p.job = "ensure"
    <2>1. After(p) = [p EXCEPT !.at = "mark", !.was = Blank] /\ Failed(p) = Idle
      BY <1>1 DEF After, Failed
    <2>2. After(p).at = "mark" /\ After(p).job = "ensure" /\ After(p).seq = p.seq
      BY <1>1, <2>1 DEF PCs
    <2> QED
      BY <1>1, <2>1, <2>2 DEF Idle, At
  <1>2. CASE p.job = "none"
    BY <1>2 DEF After, Failed, Idle, At
  <1>3. CASE p.job = "look"
    BY <1>3 DEF After, Failed, Idle, At
  <1>4. CASE p.job = "motor"
    BY <1>4 DEF After, Failed, Idle, At
  <1> QED
    BY <1>1, <1>2, <1>3, <1>4

LEMMA PollGoes ==
    ASSUME TypeOK, BookInv, Goes("poll")
    PROVE  /\ PollJobs'
           /\ P'.job = "ensure" => P.job = "ensure" /\ P'.seq = P.seq
           /\ P'.at # "confirm" /\ P'.at # "decide"
           /\ P'.at = "unlatch" => P.at = "rearm" /\ Ensures
           /\ P'.at = "resave" => P.at = "unlatch"
  <1>1. P \in PCs /\ P.job \in {"none", "look", "motor", "ensure"}
    BY Numbers DEF BookInv, PollJobs
  <1>2. CASE P' = Failed(P)
    BY <1>1, <1>2, NextJob DEF PollJobs
  <1>3. CASE P' = After(P)
    BY <1>1, <1>3, NextJob DEF PollJobs
  <1>4. CASE P'.job = P.job /\ P'.seq = P.seq /\ P' # Failed(P) /\ P' # After(P)
    BY <1>1, <1>4 DEF Goes, P, BookInv, PollJobs
  <1> QED
    BY <1>2, <1>3, <1>4 DEF Goes, P

LEMMA RearmBook ==
    ASSUME TypeOK, BookInv, NEW g \in Goroutines, Rearm(g), Ensures
    PROVE  /\ BookInv' /\ lk'.sent = "no" /\ ~lk'.done /\ lk'.ant = lk.ant
           /\ pc'[g].at = "unlatch"
  <1>1. lk' = [lk EXCEPT !.pending = TRUE, !.sent = "no", !.done = FALSE]
    BY DEF Rearm
  <1>2. lk'.sent = "no" /\ ~lk'.done /\ lk'.ant = lk.ant
    BY <1>1 DEF TypeOK, LockOK, LkStates
  <1>3. Step(g, "unlatch") /\ UNCHANGED ant
    BY DEF Rearm
  <1>4. /\ pc'[g].at = "unlatch" /\ pc'[g].job = pc[g].job /\ pc'[g].seq = pc[g].seq
        /\ \A h \in Goroutines \ {g} : pc'[h] = pc[h]
    BY <1>3, Steps DEF Places
  <1>5. P' = P \/ (P'.at = "unlatch" /\ P'.job = P.job /\ P'.seq = P.seq)
    BY <1>4, Constants DEF P
  <1>6. Promise' /\ PollJobs' /\ Unsent' /\ Dated'
    BY <1>2, <1>3, <1>5 DEF BookInv, Promise, PollJobs, Unsent, Dated
  <1> QED
    BY <1>2, <1>4, <1>6 DEF BookInv

LEMMA RunBook ==
    ASSUME TypeOK, BookInv, NEW g \in Goroutines, Runs(g)
    PROVE  BookInv'
  <1>1. CASE Rearm(g) /\ Ensures
    BY <1>1, RearmBook
  <1>2. CASE ~(Rearm(g) /\ Ensures)
    <2>1. UNCHANGED <<ant, lk>>
      BY <1>2 DEF Runs, Send, Latch, Save, Ask, Set, Offline, Rearm, Unlatch
    <2>2. Goes(g) /\ pc[g] \in PCs
      BY RunGoes DEF TypeOK
    <2>3. pc'[g].at # "unlatch"
      <3>1. After(pc[g]).at # "unlatch" /\ Failed(pc[g]).at # "unlatch"
        BY <2>2 DEF After, Failed, Idle, At, PCs
      <3>2. pc[g].at = "rearm" => Rearm(g)
        BY DEF Runs, Send, Latch, Save, Ask, Set, Offline, Unlatch
      <3> QED
        BY <1>2, <2>2, <3>1, <3>2 DEF Goes
    <2>4. CASE g = "poll"
      <3>1. Goes("poll")
        BY <2>2, <2>4
      <3>2. P'.at # "unlatch"
        BY <2>3, <2>4 DEF P
      <3>3. P'.at = "resave" => lk.sent = "no"
        BY <3>1, PollGoes DEF BookInv, Unsent
      <3>4. \A h \in Goroutines : pc'[h].at = "unlatch" => pc[h].at = "unlatch"
        BY <2>2, <2>3 DEF Goes
      <3> QED
        BY <2>1, <3>1, <3>2, <3>3, <3>4, PollGoes, BookKept
    <2>5. CASE g # "poll"
      <3>1. P' = P
        BY <2>2, <2>5, Constants DEF Goes, P
      <3>2. \A h \in Goroutines : pc'[h].at = "unlatch" => pc[h].at = "unlatch"
        BY <2>2, <2>3 DEF Goes
      <3>3. P'.at \in {"unlatch", "resave"} => lk.sent = "no"
        BY <3>1 DEF BookInv, Unsent
      <3> QED
        BY <2>1, <3>1, <3>2, <3>3, BookKept
    <2> QED
      BY <2>4, <2>5
  <1> QED
    BY <1>1, <1>2
LEMMA ClientGoes ==
    ASSUME TypeOK, NEW g \in Clients, Command(g) \/ Band(g)
    PROVE  /\ P' = P /\ \A h \in Goroutines \ {g} : pc'[h] = pc[h]
           /\ pc'[g].at \in {"idle", "send", "band"}
           /\ pc[g].at \in {"idle", "band"}
           /\ UNCHANGED <<ant, lk, st, dev, past>>
  <1>1. At("send", "retract") \in PCs /\ At("band", "tune") \in PCs /\ g # "poll"
    BY Fresh, RetractAssumption DEF Places, Jobs
  <1>2. g \in Goroutines
    BY Constants
  <1>3. CASE Command(g)
    BY <1>1, <1>2, <1>3, Moves, Fresh, Constants DEF Command, At, P
  <1>4. CASE Band(g)
    BY <1>1, <1>2, <1>4, Moves, Steps, Fresh, Constants DEF Band, Places, P
  <1> QED
    BY <1>3, <1>4

\* What the poll loop does between its exchanges.
LEMMA PollSteps ==
    ASSUME TypeOK, Poll
    PROVE  /\ \A h \in Goroutines \ {"poll"} : pc'[h] = pc[h]
           /\ UNCHANGED <<ant, st, due, file, dev, past>> /\ lk'.ant = lk.ant
           /\ \/ Wake /\ P.at = "idle" /\ P'.at = "refresh" /\ P'.job = "look" /\ lk' = lk
              \/ /\ Ensure /\ P.at = "ensure" /\ P'.at = "decide" /\ P'.job = P.job
                 /\ P'.was = st /\ lk' = lk
              \/ /\ Decide /\ P.at = "decide" /\ P' = Idle
              \/ /\ Decide /\ P.at = "decide" /\ Ensures /\ P'.at = "send"
                 /\ P'.job = "ensure" /\ P'.seq = lk.ant.seq
                 /\ lk' = Rechecked(P.was) /\ lk'.pending /\ lk'.sent = "no"
              \/ /\ Decide /\ P.at = "decide" /\ Ensures /\ P'.at = "confirm"
                 /\ P'.job = "none" /\ P'.seq = lk.ant.seq
                 /\ lk' = Rechecked(P.was) /\ ~P.was.offline /\ Finished(P.was, lk')
              \/ Confirm /\ P.at = "confirm" /\ P' = Idle
              \/ Mark /\ P.at = "mark" /\ P' = Idle
  <1>p. "poll" \in Goroutines /\ P \in PCs /\ P.was \in States /\ lk \in LkStates
    BY Constants DEF TypeOK, LockOK, PCs, P
  <1>1. CASE Wake
    <2>1. At("refresh", "look") \in PCs
      BY Fresh DEF Places, Jobs
    <2> QED
      BY <1>1, <1>p, <2>1, Moves DEF Wake, P, Idle, At
  <1>2. CASE Ensure
    <2> DEFINE to == [P EXCEPT !.at = "decide", !.was = st]
    <2>1. to \in PCs /\ to.at = "decide" /\ to.job = P.job /\ to.was = st
      BY <1>p DEF PCs, Places, TypeOK
    <2>2. P' = to /\ \A h \in Goroutines \ {"poll"} : pc'[h] = pc[h]
      BY <1>2, <1>p, <2>1, Moves DEF Ensure, P
    <2> QED
      BY <1>2, <2>1, <2>2 DEF Ensure, P
  <1>3. CASE Decide
    <2> DEFINE l == Rechecked(P.was)
               on(place, job) == [At(place, job) EXCEPT !.seq = lk.ant.seq]
               to == IF ~Ensures \/ ~l.pending \/ P.was.offline THEN Idle
                     ELSE IF l.sent = "no"  THEN on("send", "ensure")
                     ELSE IF Finished(P.was, l) THEN on("confirm", "none")
                     ELSE Idle
    <2>1. lk' = (IF Ensures THEN l ELSE lk) /\ Go("poll", to) /\ P.at = "decide"
      BY <1>3 DEF Decide, P
    <2>2. /\ on("send", "ensure") \in PCs /\ on("send", "ensure").at = "send"
          /\ on("send", "ensure").job = "ensure" /\ on("send", "ensure").seq = lk.ant.seq
      BY Fresh, Lists DEF At, PCs, Places, Jobs
    <2>3. /\ on("confirm", "none") \in PCs /\ on("confirm", "none").at = "confirm"
          /\ on("confirm", "none").job = "none" /\ on("confirm", "none").seq = lk.ant.seq
      BY Fresh, Lists DEF At, PCs, Places, Jobs
    <2>4. l.ant = lk.ant
      BY <1>p DEF Rechecked, LkStates
    <2>5. \/ to = Idle
          \/ to = on("send", "ensure") /\ Ensures /\ l.pending /\ l.sent = "no"
          \/ to = on("confirm", "none") /\ Ensures /\ ~P.was.offline /\ Finished(P.was, l)
      OBVIOUS
    <2> HIDE DEF to, on, l
    <2>6. to \in PCs
      BY <2>2, <2>3, <2>5, Fresh
    <2>7. P' = to /\ \A h \in Goroutines \ {"poll"} : pc'[h] = pc[h]
      BY <1>p, <2>1, <2>6, Moves DEF P
    <2>8. lk'.ant = lk.ant /\ UNCHANGED <<ant, st, due, file, dev, past>>
      BY <1>3, <2>1, <2>4 DEF Decide
    <2> QED
      BY <1>3, <2>1, <2>2, <2>3, <2>5, <2>7, <2>8 DEF l
  <1>4. CASE Confirm \/ Mark
    <2>1. lk'.ant = lk.ant
      BY <1>4, <1>p DEF Confirm, Mark, LkStates
    <2>2. Go("poll", Idle) /\ UNCHANGED <<ant, st, due, file, dev, past>>
      BY <1>4 DEF Confirm, Mark
    <2>3. P' = Idle /\ \A h \in Goroutines \ {"poll"} : pc'[h] = pc[h]
      BY <1>p, <2>2, Fresh, Moves DEF P
    <2>4. (Confirm => P.at = "confirm") /\ (Mark => P.at = "mark")
      BY DEF Confirm, Mark, P
    <2> QED
      BY <1>4, <2>1, <2>2, <2>3, <2>4
  <1> QED
    BY <1>1, <1>2, <1>3, <1>4 DEF Poll

LEMMA RecheckedFrom ==
    ASSUME TypeOK, NEW s \in States
    PROVE  LET l == Rechecked(s)
           IN /\ l.ant = lk.ant /\ (l.done => lk.done)
              /\ l.sent = IF s.retracted THEN lk.sent ELSE "no"
  BY DEF Rechecked, TypeOK, LockOK, LkStates, States

\* A finished retract, and one that was sent.
LEMMA ConfirmFrom ==
    ASSUME TypeOK, Confirm
    PROVE  /\ lk'.done => lk.done \/ (lk.sent # "no" /\ lk.ant.locked /\ lk.ant.seq = P.seq)
           /\ lk'.sent = lk.sent \/ lk'.sent = "no"
  BY Numbers DEF Confirm, P, TypeOK, LockOK, LkStates

LEMMA MarkFrom ==
    ASSUME TypeOK, Mark
    PROVE  /\ lk'.done = lk.done
           /\ \/ lk'.sent = lk.sent
              \/ lk'.sent = "sent" /\ lk.ant.locked /\ lk.ant.seq = P.seq
  BY Numbers DEF Mark, P, TypeOK, LockOK, LkStates

LEMMA PollBook ==
    ASSUME TypeOK, TypeOK', BookInv, Poll
    PROVE  BookInv'
  <1>1. /\ UNCHANGED ant /\ lk'.ant = lk.ant
        /\ \A h \in Goroutines \ {"poll"} : pc'[h] = pc[h]
    BY PollSteps
  <1>i. Idle.at = "idle" /\ Idle.job = "none"
    BY DEF Idle, At
  <1>2. Promise'
    BY <1>1 DEF BookInv, Promise
  <1>3. PollJobs'
    BY <1>i, PollSteps DEF BookInv, PollJobs
  <1>s. P.was \in States
    BY Numbers DEF PCs
  <1>4. Dated'
    <2>1. CASE Decide /\ Ensures /\ P'.seq = lk.ant.seq
      BY <1>1, <2>1, Numbers DEF BookInv, Dated, Promise, Ensures
    <2>2. CASE P'.job # "ensure" /\ P'.at # "confirm"
      BY <2>2 DEF Dated
    <2> QED
      BY <1>i, <2>1, <2>2, PollSteps DEF BookInv, PollJobs
  <1>5. /\ lk'.done => lk.done \/ (P.at = "confirm" /\ lk.ant.locked /\ lk.ant.seq = P.seq)
        /\ lk'.sent \in {lk.sent, "no", "sent"}
        /\ lk'.sent # lk.sent /\ lk'.sent # "no" => P' = Idle
        /\ P'.job = "ensure" => lk'.sent = "no" /\ ~lk'.done
        /\ lk'.done /\ ~lk.done => P' = Idle
    <2>1. CASE lk' = lk /\ P'.job # "ensure"
      BY <2>1
    <2>2. CASE Decide
      <3>1. lk' = lk \/ lk' = Rechecked(P.was)
        BY <2>2 DEF Decide, P
      <3>2. (lk'.done => lk.done) /\ lk'.sent \in {lk.sent, "no"}
        BY <1>s, <3>1, RecheckedFrom
      <3>3. P'.job = "ensure" => lk'.sent = "no" /\ lk'.pending
        <4>1. P'.job = "ensure" => P.at # "idle" /\ P.at # "ensure" /\ P' # Idle
          BY <1>i, PollSteps DEF BookInv, PollJobs
        <4>2. P'.job = "ensure" => P'.at # "confirm" \/ P'.job = "none"
          BY <1>i, PollSteps
        <4> QED
          BY <4>1, <4>2, PollSteps
      <3>4. lk'.pending => ~lk'.done
        BY DEF TypeOK, LockOK
      <3> QED
        BY <3>2, <3>3, <3>4
    <2>3. CASE Confirm /\ P.at = "confirm" /\ P' = Idle
      BY <1>i, <2>3, ConfirmFrom
    <2>4. CASE Mark /\ P.at = "mark" /\ P' = Idle
      BY <1>i, <2>4, MarkFrom
    <2> QED
      BY <1>i, <2>1, <2>2, <2>3, <2>4, PollSteps DEF BookInv, PollJobs
  <1>6. Unsent'
    <2>1. P'.at \notin {"unlatch", "resave"}
      BY <1>i, PollSteps
    <2>2. lk'.done => Ensures'
      BY <1>1, <1>5 DEF BookInv, Unsent, Dated, Ensures
    <2>3. lk'.sent = "settled" => lk.sent = "settled"
      BY <1>5
    <2>4. Nobody({"unlatch"}) => Nobody({"unlatch"})'
      BY <1>1, <2>1 DEF Nobody, P
    <2> QED
      BY <1>5, <2>1, <2>2, <2>3, <2>4 DEF BookInv, Unsent
  <1> QED
    BY <1>2, <1>3, <1>4, <1>6 DEF BookInv

LEMMA BookStep == TypeOK /\ TypeOK' /\ BookInv /\ [Next]_vars => BookInv'
  <1> SUFFICES ASSUME TypeOK, TypeOK', BookInv, [Next]_vars PROVE BookInv'
    OBVIOUS
  <1>1. CASE Publish
    BY <1>1, PublishBook
  <1>2. CASE ApplyAntMode
    BY <1>2, ApplyBook
  <1>3. CASE MotorsStart \/ MotorsStop \/ LinkFails \/ LinkReturns \/ UNCHANGED vars
    <2>1. UNCHANGED <<ant, lk, pc>> /\ P' = P
      BY <1>3 DEF MotorsStart, MotorsStop, LinkFails, LinkReturns, vars, P
    <2> QED
      BY <2>1, BookKept DEF BookInv, Unsent
  <1>4. CASE HoldEnds
    <2>1. /\ UNCHANGED <<ant, pc>> /\ P' = P
          /\ lk'.ant = lk.ant /\ lk'.sent = lk.sent /\ lk'.done = lk.done
      BY <1>4 DEF HoldEnds, P, TypeOK, LockOK, LkStates
    <2> QED
      BY <2>1 DEF BookInv, Promise, PollJobs, Unsent, Dated, Ensures, Nobody
  <1>5. CASE Settle
    <2>1. /\ UNCHANGED <<ant, pc>> /\ P' = P
          /\ lk'.ant = lk.ant /\ lk.sent = "sent" /\ lk'.done = lk.done
      BY <1>5 DEF Settle, P, TypeOK, LockOK, LkStates
    <2>2. Nobody({"unlatch"})
      BY <1>5 DEF Settle, Settled, Nobody
    <2> QED
      BY <2>1, <2>2 DEF BookInv, Promise, PollJobs, Unsent, Dated, Ensures, Nobody
  <1>6. CASE Crash
    <2>1. lk' = NewLock /\ P' = Idle
      BY <1>6, Constants DEF Crash, P
    <2> QED
      BY <2>1 DEF NewLock, Unlocked, Idle, At, BookInv, Promise, PollJobs, Unsent, Dated
  <1>7. CASE Poll
    BY <1>7, PollBook
  <1>8. CASE \E g \in Clients : Command(g) \/ Band(g)
    <2>1. PICK g \in Clients : Command(g) \/ Band(g)
      BY <1>8
    <2>2. \A h \in Goroutines : pc'[h].at = "unlatch" => pc[h].at = "unlatch"
      BY <2>1, ClientGoes
    <2> QED
      BY <2>1, <2>2, ClientGoes, BookKept DEF BookInv, Unsent
  <1>9. CASE \E g \in Goroutines : Runs(g)
    BY <1>9, RunBook
  <1> QED
    BY <1>1, <1>2, <1>3, <1>4, <1>5, <1>6, <1>7, <1>8, <1>9 DEF Next, World
-----------------------------------------------------------------------------
(* Then what is known of the device.  Known: no outage is unhandled, nor about to seem so. *)

Sound == past = "sound"

Known ==
    /\ dev.link # "off" /\ Nobody({"rearm"})
    /\ ~st.offline \/ \E g \in Goroutines : pc[g].at = "set" /\ ~pc[g].was.offline

In     == dev.goal = "in"
AtRest == In /\ dev.motors = "rest"

\* A command that was answered and is not yet in the latch is the last the device executed.
LatchIsLast ==
    past # "doubt" => \A g \in Goroutines : InLatch(g) => dev.goal = Drives(pc[g].job)

ThisLock  == lk.ant.locked /\ lk.ant.seq = P.seq
LatchTold == st.retracted /\ Nobody({"unlatch"})
Settling  == lk.sent = "settled" /\ Ensures

Sent == {"latch", "save", "refresh", "set", "rearm", "unlatch", "resave", "mark"}

\* The stations of a retract: it was answered, it is marked as sent, its motors have settled
\* and the latch was read, it is about to be confirmed.
Sending    == P.job = "ensure" /\ P.at \in Sent /\ ThisLock /\ LatchTold
Telling    == lk.sent # "no" /\ Ensures /\ LatchTold
Deciding   == Settling /\ P.at = "decide" /\ P.was.retracted
Confirming == P.at = "confirm" /\ lk.sent # "no" /\ ThisLock

\* Somebody has read that the motors are still.
ReadsRest ==
    \/ \E g \in Goroutines : pc[g].at = "set" /\ ~pc[g].was.moving
    \/ P.at = "ensure" /\ ~st.moving /\ ~st.offline
    \/ P.at = "decide" /\ ~P.was.moving /\ ~P.was.offline

StillAt ==
    /\ lk.done \/ Confirming => AtRest
    /\ Sending \/ Telling \/ Deciding => In
    /\ Settling /\ In => dev.motors # "starting" /\ (ReadsRest => AtRest)

Still == Known /\ Sound => StillAt

SureInv == BookInv /\ LatchIsLast /\ Still

LEMMA SureInit == Init => SureInv
  <1> SUFFICES ASSUME Init PROVE SureInv
    OBVIOUS
  <1>1. P = Idle /\ lk = NewLock /\ \A g \in Goroutines : pc[g].at = "idle"
    BY Fresh, Constants DEF Init, P
  <1>2. lk.sent = "no" /\ ~lk.done /\ P.at = "idle"
    BY <1>1, Fresh DEF NewLock
  <1>3. Still
    BY <1>2 DEF Still, StillAt, Confirming, Sending, Sent, Telling, Deciding, Settling
  <1>4. LatchIsLast
    BY <1>1 DEF LatchIsLast, InLatch
  <1> QED
    BY <1>3, <1>4, BookInit DEF SureInv

\* At rest and in, there is nothing to fear; with no retract asked for neither.
LEMMA RestIsStill == AtRest => StillAt
  BY DEF StillAt, AtRest

LEMMA NotAskedIsStill == BookInv' /\ ~Ensures' => StillAt'
  BY DEF BookInv, Unsent, Dated, StillAt, Confirming, Sending, Telling, Deciding, Settling,
         ThisLock, Ensures

\* A step that leaves the device at least as still, and gets no retract any further.
LEMMA StillKept ==
    ASSUME Still, Known' /\ Sound' => Known /\ Sound,
           In' <=> In, AtRest => AtRest',
           In /\ dev'.motors = "starting" => dev.motors = "starting",
           Known /\ Sound =>
              /\ lk'.done \/ Confirming' => lk.done \/ Confirming \/ AtRest
              /\ Sending' \/ Telling' \/ Deciding' => Sending \/ Telling \/ Deciding \/ In
              /\ Settling' => Settling
              /\ Settling /\ In /\ ReadsRest' => ReadsRest \/ AtRest
    PROVE  Still'
  BY DEF Still, StillAt

\* The same of a step that leaves the lock and the device alone.
LEMMA StillPassed ==
    ASSUME Still, UNCHANGED <<lk, dev, past>>, Known' => Known,
           Known /\ Sound => (LatchTold' => LatchTold \/ In),
           P'.at \in {"confirm", "decide"} => P' = P,
           P'.job = "ensure" /\ P'.at \in Sent =>
               P.job = "ensure" /\ P.at \in Sent /\ P'.seq = P.seq,
           Known /\ Sound /\ Settling /\ In /\ ReadsRest' => ReadsRest \/ AtRest
    PROVE  Still'
  <1>1. (In' <=> In) /\ (AtRest' <=> AtRest) /\ (Sound' <=> Sound) /\ (Ensures' <=> Ensures)
    BY DEF In, AtRest, Sound, Ensures
  <1>2. Confirming' => Confirming
    BY DEF Confirming, ThisLock
  <1>3. Known /\ Sound /\ (Sending' \/ Telling' \/ Deciding')
           => Sending \/ Telling \/ Deciding \/ In
    BY <1>1 DEF Sending, Telling, Deciding, Settling, ThisLock
  <1>4. Settling' => Settling
    BY <1>1 DEF Settling
  <1> QED
    BY <1>1, <1>2, <1>3, <1>4, StillKept
\* What the device does by itself.
LEMMA DeviceStill ==
    ASSUME TypeOK, BookInv, Still, MotorsStart \/ MotorsStop \/ LinkFails \/ LinkReturns
    PROVE  Still'
  <1>1. UNCHANGED <<lk, st, pc>> /\ P' = P
    BY DEF MotorsStart, MotorsStop, LinkFails, LinkReturns, P
  <1>2. /\ LatchTold' = LatchTold /\ Ensures' = Ensures /\ ThisLock' = ThisLock
        /\ ReadsRest' = ReadsRest /\ Settling' = Settling
    BY <1>1 DEF LatchTold, Ensures, ThisLock, ReadsRest, Settling, Nobody
  <1>3. /\ Confirming' = Confirming /\ Sending' = Sending
        /\ Telling' = Telling /\ Deciding' = Deciding
    BY <1>1, <1>2 DEF Confirming, Sending, Telling, Deciding
  <1>d. dev \in [link : {"on"} \cup Faults, goal : {"in", "out"},
                 motors : {"rest", "starting", "running"}]
    BY DEF TypeOK
  <1>4. CASE MotorsStart \/ (MotorsStop /\ past' = past)
    <2>1. /\ past' = past /\ dev'.goal = dev.goal /\ dev'.link = dev.link
          /\ dev'.motors # "starting" /\ dev'.motors \in {"running", "rest"}
          /\ dev'.motors = "running" => dev.motors = "starting"
      BY <1>4, <1>d DEF MotorsStart, MotorsStop
    <2>2. Known' = Known /\ Sound' = Sound
      BY <1>1, <2>1 DEF Known, Sound, Nobody
    <2>3. (In' <=> In) /\ (AtRest => AtRest')
      BY <2>1 DEF In, AtRest
    <2> QED
      BY <1>1, <1>2, <1>3, <2>1, <2>2, <2>3, StillKept
  <1>5. CASE MotorsStop /\ past' # past
    <2>1. AtRest'
      BY <1>5, <1>d DEF MotorsStop, AtRest, In
    <2>2. StillAt'
      BY <2>1, RestIsStill DEF StillAt, AtRest
    <2> QED
      BY <2>2 DEF Still
  <1>6. CASE LinkReturns /\ dev.link = "off"
    <2>1. st.offline /\ Settled
      BY <1>6 DEF LinkReturns
    <2>2. ~Known'
      BY <1>1, <2>1 DEF Known, Settled
    <2> QED
      BY <2>2 DEF Still
  <1>7. CASE LinkFails \/ (LinkReturns /\ dev.link # "off")
    <2>1. /\ past' = past /\ dev'.goal = dev.goal /\ dev'.motors = dev.motors
          /\ dev.link # "off"
      BY <1>7, <1>d DEF LinkFails, LinkReturns
    <2>2. (Known' => Known) /\ Sound' = Sound /\ (In' <=> In) /\ (AtRest' <=> AtRest)
      BY <1>1, <2>1 DEF Known, Sound, In, AtRest, Nobody
    <2> QED
      BY <1>1, <1>2, <1>3, <2>1, <2>2, StillKept
  <1> QED
    BY <1>4, <1>5, <1>6, <1>7

\* What comes of antmode, and the clock.
LEMMA LockStill ==
    ASSUME TypeOK, BookInv, Still, Publish \/ HoldEnds \/ ApplyAntMode \/ Settle
    PROVE  Still'
  <1>1. UNCHANGED <<st, pc, dev, past>> /\ P' = P
    BY DEF Publish, HoldEnds, ApplyAntMode, Settle, P
  <1>2. /\ LatchTold' = LatchTold /\ ReadsRest' = ReadsRest /\ Known' = Known
        /\ Sound' = Sound /\ In' = In /\ AtRest' = AtRest
    BY <1>1 DEF LatchTold, ReadsRest, Known, Sound, In, AtRest, Nobody
  <1>3. CASE Publish \/ HoldEnds
    <2>1. lk'.ant = lk.ant /\ lk'.sent = lk.sent /\ lk'.done = lk.done
      BY <1>3 DEF Publish, HoldEnds, TypeOK, LockOK, LkStates
    <2>2. /\ Confirming' = Confirming /\ Sending' = Sending /\ Settling' = Settling
          /\ Telling' = Telling /\ Deciding' = Deciding
      BY <1>1, <1>2, <2>1 DEF Confirming, Sending, Settling, Telling, Deciding, ThisLock, Ensures
    <2> QED
      BY <1>1, <1>2, <2>1, <2>2, StillKept
  <1>4. CASE ApplyAntMode
    <2>1. /\ lk'.ant.locked => lk'.ant = ant /\ ant.locked
          /\ lk'.sent = lk.sent \/ lk'.sent = "no"
          /\ lk'.done => lk.done /\ Ensures'
          /\ lk'.sent # "no" => /\ lk.ant.locked /\ lk'.ant.locked
                                /\ Ensures' => Ensures
      BY <1>4, AppliedFrom DEF BookInv
    <2>2. P.job = "ensure" \/ P.at = "confirm" => (ThisLock' => ThisLock)
      <3> SUFFICES ASSUME P.job = "ensure" \/ P.at = "confirm", ThisLock' PROVE ThisLock
        OBVIOUS
      <3>1. ant.locked /\ ant.seq = P.seq
        BY <1>1, <2>1 DEF ThisLock
      <3>2. lk.ant.locked /\ P.seq <= lk.ant.seq /\ lk.ant.seq <= ant.seq
        BY <3>1, Numbers DEF BookInv, Dated, Promise
      <3> QED
        BY <3>1, <3>2, Numbers DEF ThisLock
    <2>3. lk'.sent # "no" => lk'.sent = lk.sent /\ (Ensures' => Ensures)
      BY <2>1
    <2>4. Confirming' => Confirming
      BY <1>1, <2>2, <2>3 DEF Confirming
    <2>5. Sending' => Sending
      BY <1>1, <1>2, <2>2 DEF Sending
    <2>6. Settling' => Settling
      BY <2>3 DEF Settling
    <2>7. (Telling' => Telling) /\ (Deciding' => Deciding)
      BY <1>1, <1>2, <2>3, <2>6 DEF Telling, Deciding
    <2> QED
      BY <1>1, <1>2, <2>1, <2>4, <2>5, <2>6, <2>7, StillKept
  <1>5. CASE Settle
    <2>1. /\ lk.sent = "sent" /\ lk'.sent = "settled"
          /\ lk'.ant = lk.ant /\ lk'.done = lk.done
      BY <1>5 DEF Settle, TypeOK, LockOK, LkStates
    <2>2. dev.motors # "starting" /\ Settled
      BY <1>5 DEF Settle
    <2>3. P.at \notin {"ensure", "decide", "confirm"} /\ ~ReadsRest
      BY <2>2, Constants DEF Settled, P, ReadsRest
    <2>4. /\ (Sending' => Sending) /\ (Telling' => Telling)
          /\ ~Deciding' /\ ~Confirming'
      BY <1>1, <1>2, <2>1, <2>3 DEF Sending, Telling, Deciding, Confirming, ThisLock, Ensures
    <2>5. ASSUME StillAt PROVE StillAt'
      <3>1. lk'.done \/ Confirming' => AtRest'
        BY <1>2, <2>1, <2>4, <2>5 DEF StillAt
      <3>2. Sending' \/ Telling' \/ Deciding' => In'
        BY <1>2, <2>4, <2>5 DEF StillAt
      <3>3. dev'.motors # "starting" /\ ~ReadsRest'
        BY <1>1, <1>2, <2>2, <2>3
      <3> QED
        BY <3>1, <3>2, <3>3 DEF StillAt
    <2> QED
      BY <1>2, <2>5 DEF Still
  <1> QED
    BY <1>3, <1>4, <1>5

LEMMA CrashStill ==
    ASSUME Crash
    PROVE  Still'
  <1>1. lk' = NewLock /\ P' = Idle
    BY Constants DEF Crash, P
  <1>2. lk'.sent = "no" /\ ~lk'.done /\ P'.at = "idle"
    BY <1>1, Fresh DEF NewLock
  <1> QED
    BY <1>2 DEF Still, StillAt, Confirming, Sending, Sent, Telling, Deciding, Settling

LEMMA ClientStill ==
    ASSUME TypeOK, Still, NEW g \in Clients, Command(g) \/ Band(g)
    PROVE  Still'
  <1>1. /\ P' = P /\ \A h \in Goroutines \ {g} : pc'[h] = pc[h]
        /\ pc'[g].at \in {"idle", "send", "band"} /\ pc[g].at \in {"idle", "band"}
        /\ UNCHANGED <<ant, lk, st, dev, past>>
    BY ClientGoes
  <1>2. \A h \in Goroutines : \A place \in {"set", "rearm", "unlatch"} :
           pc[h].at = place \/ pc'[h].at = place => pc'[h] = pc[h]
    BY <1>1
  <1>3. Known' = Known /\ LatchTold' = LatchTold /\ ReadsRest' = ReadsRest
    BY <1>1, <1>2 DEF Known, LatchTold, ReadsRest, Nobody
  <1> QED
    BY <1>1, <1>3, StillPassed

LEMMA PollStill ==
    ASSUME TypeOK, BookInv, Still, Poll
    PROVE  Still'
  <1>1. /\ \A h \in Goroutines \ {"poll"} : pc'[h] = pc[h]
        /\ UNCHANGED <<st, dev, past>> /\ lk'.ant = lk.ant
    BY PollSteps
  <1>i. Idle.at = "idle" /\ Idle.job = "none"
    BY DEF Idle, At
  <1>p. "poll" \in Goroutines /\ P.was \in States /\ P.job \in {"none", "look", "motor", "ensure"}
    BY Numbers, Constants DEF PCs, BookInv, PollJobs
  <1>2. /\ P'.at \notin {"set", "rearm", "unlatch", "latch"}
        /\ P.at \in {"idle", "ensure", "decide", "confirm", "mark"}
    BY <1>i, PollSteps
  <1>3. /\ Known' = Known /\ LatchTold' = LatchTold /\ Sound' = Sound /\ In' = In
        /\ AtRest' = AtRest /\ Ensures' = Ensures
    BY <1>1, <1>2 DEF Known, LatchTold, Sound, In, AtRest, Ensures, Nobody, P
  <1>4. \A h \in Goroutines : pc'[h].at = "set" => pc'[h] = pc[h]
    BY <1>1, <1>2 DEF P
  <1>5. CASE Wake /\ P'.at = "refresh" /\ P'.job = "look" /\ lk' = lk
    <2>1. ReadsRest' => ReadsRest
      BY <1>1, <1>4, <1>5 DEF ReadsRest
    <2> QED
      BY <1>1, <1>3, <1>5, <2>1, StillPassed
  <1>6. CASE Ensure /\ P.at = "ensure" /\ P'.at = "decide" /\ P'.job = P.job /\ P'.was = st /\ lk' = lk
    <2>1. Settling /\ st.retracted => Telling
      BY DEF Settling, Telling, LatchTold, BookInv, Unsent
    <2>2. Deciding' => Telling
      BY <1>3, <1>6, <2>1 DEF Deciding, Settling
    <2>3. ReadsRest' => ReadsRest
      BY <1>1, <1>4, <1>6 DEF ReadsRest
    <2>4. ~Confirming' /\ ~Sending' /\ (Telling' => Telling) /\ (Settling' => Settling)
      BY <1>3, <1>6 DEF Confirming, Sending, Sent, Telling, Settling
    <2> QED
      BY <1>1, <1>3, <1>6, <2>2, <2>3, <2>4, StillKept
  <1>7. CASE P' = Idle
    <2>1. ~Confirming' /\ ~Deciding' /\ ~Sending'
      BY <1>i, <1>7 DEF Confirming, Deciding, Sending, Sent
    <2>2. ReadsRest' => ReadsRest
      BY <1>1, <1>4, <1>i, <1>7 DEF ReadsRest
    <2>3. CASE Decide
      <3>1. lk' = lk \/ lk' = Rechecked(P.was)
        BY <2>3 DEF Decide, P
      <3>2. (lk'.done => lk.done) /\ lk'.sent \in {lk.sent, "no"}
        BY <1>p, <3>1, RecheckedFrom
      <3>3. (Telling' => Telling) /\ (Settling' => Settling)
        BY <1>3, <3>2 DEF Telling, Settling
      <3> QED
        BY <1>1, <1>3, <2>1, <2>2, <3>2, <3>3, StillKept
    <2>4. CASE Confirm /\ P.at = "confirm"
      <3>1. (lk'.done => lk.done \/ Confirming) /\ lk'.sent \in {lk.sent, "no"}
        BY <2>4, ConfirmFrom DEF Confirming, ThisLock
      <3>2. (Telling' => Telling) /\ (Settling' => Settling)
        BY <1>3, <3>1 DEF Telling, Settling
      <3> QED
        BY <1>1, <1>3, <2>1, <2>2, <3>1, <3>2, StillKept
    <2>5. CASE Mark /\ P.at = "mark"
      <3>1. P.job = "ensure"
        BY <2>5 DEF BookInv, PollJobs
      <3>2. /\ lk'.done = lk.done
            /\ lk'.sent = lk.sent \/ (lk'.sent = "sent" /\ ThisLock)
        BY <2>5, MarkFrom DEF ThisLock
      <3>3. (Telling' => Telling \/ Sending) /\ (Settling' => Settling)
        BY <1>3, <2>5, <3>1, <3>2 DEF Telling, Settling, Sending, Sent
      <3> QED
        BY <1>1, <1>3, <2>1, <2>2, <3>2, <3>3, StillKept
    <2>6. Decide \/ (Confirm /\ P.at = "confirm") \/ (Mark /\ P.at = "mark")
      BY <1>i, <1>7, PollSteps
    <2> QED
      BY <2>3, <2>4, <2>5, <2>6
  <1>8. CASE P'.at = "send" /\ lk' = Rechecked(P.was) /\ lk'.sent = "no"
    <2>1. lk'.done => lk.done
      BY <1>p, <1>8, RecheckedFrom
    <2>2. ~Confirming' /\ ~Deciding' /\ ~Sending' /\ ~Telling' /\ ~Settling'
      BY <1>8 DEF Confirming, Deciding, Sending, Sent, Telling, Settling
    <2>3. ReadsRest' => ReadsRest
      BY <1>1, <1>4, <1>8 DEF ReadsRest
    <2> QED
      BY <1>1, <1>3, <2>1, <2>2, <2>3, StillKept
  <1>9. CASE /\ P.at = "decide" /\ Ensures /\ P'.at = "confirm"
             /\ lk' = Rechecked(P.was) /\ ~P.was.offline /\ Finished(P.was, lk')
    <2>1. P.was.retracted /\ ~P.was.moving /\ lk'.sent = "settled"
      BY <1>9 DEF Finished
    <2>2. (lk'.done => lk.done) /\ lk'.sent = lk.sent
      BY <1>p, <1>9, <2>1, RecheckedFrom
    <2>3. Settling /\ Deciding /\ ReadsRest
      BY <1>9, <2>1, <2>2 DEF Settling, Deciding, ReadsRest
    <2>4. Known /\ Sound => AtRest
      BY <2>3 DEF Still, StillAt
    <2>5. (Telling' => Telling) /\ ~Deciding' /\ ~Sending'
      BY <1>3, <1>9, <2>2 DEF Telling, Deciding, Sending, Sent
    <2> QED
      BY <1>1, <1>3, <2>2, <2>3, <2>4, <2>5, StillKept DEF AtRest
  <1> QED
    BY <1>5, <1>6, <1>7, <1>8, <1>9, PollSteps

(* The steps of a goroutine that commands or polls. *)

LEMMA KnownKept ==
    ASSUME NEW g \in Goroutines, Goes(g), pc[g].at # "rearm", pc'[g].at # "set",
           dev'.link = dev.link, st'.offline = st.offline \/ st'.offline, Known'
    PROVE  Known
  <1>1. \A h \in Goroutines \ {g} : pc'[h] = pc[h]
    BY DEF Goes
  <1>2. dev.link # "off" /\ Nobody({"rearm"})
    BY <1>1 DEF Known, Nobody
  <1>3. ~st.offline \/ \E h \in Goroutines : pc[h].at = "set" /\ ~pc[h].was.offline
    BY <1>1 DEF Known
  <1> QED
    BY <1>2, <1>3 DEF Known

LEMMA ToldKept ==
    ASSUME NEW g \in Goroutines, Goes(g), pc[g].at # "unlatch",
           st'.retracted => st.retracted, LatchTold'
    PROVE  LatchTold
  BY DEF LatchTold, Nobody, Goes

\* The poll loop does not learn that the motors are still but from an answer.
LEMMA ReadsKept ==
    ASSUME NEW g \in Goroutines, Goes(g), pc'[g].at # "set",
           st'.offline \/ UNCHANGED <<st.offline, st.moving>>,
           P'.at = "ensure" => P.at = "ensure" \/ st'.offline,
           P'.at = "decide" => P' = P,
           ReadsRest'
    PROVE  ReadsRest
  BY DEF ReadsRest, Goes

LEMMA RunPoll ==
    ASSUME TypeOK, BookInv, NEW g \in Goroutines, Goes(g)
    PROVE  /\ P'.at \in {"confirm", "decide"} => P' = P
           /\ P'.job = "ensure" /\ P'.at \in Sent =>
                /\ P.job = "ensure" /\ P'.seq = P.seq
                /\ P.at \in Sent \/ (g = "poll" /\ P.at = "send" /\ P'.at = "latch")
           /\ g # "poll" => P' = P
  <1>1. CASE g # "poll"
    BY <1>1, Constants DEF Goes, P
  <1>2. CASE g = "poll"
    <2>1. /\ P'.at # "confirm" /\ P'.at # "decide"
          /\ P'.job = "ensure" => P.job = "ensure" /\ P'.seq = P.seq
      BY <1>2, PollGoes
    <2>2. ASSUME P'.job = "ensure", P'.at \in Sent
          PROVE  P.at \in Sent \/ (P.at = "send" /\ P'.at = "latch")
      <3>1. P.job = "ensure" /\ P.at # "motor" /\ P \in PCs
        BY <2>1, <2>2, Numbers DEF BookInv, PollJobs
      <3>2. Failed(P) = Idle
        BY <3>1 DEF Failed
      <3>3. P' # Idle
        BY <2>2 DEF Idle, At
      <3> QED
        BY <1>2, <2>2, <3>1, <3>2, <3>3 DEF Goes, P, Sent
    <2> QED
      BY <1>2, <2>1, <2>2
  <1> QED
    BY <1>1, <1>2

\* A step of theirs that leaves the lock and the device alone.
LEMMA RunPassed ==
    ASSUME TypeOK, BookInv, Still, NEW g \in Goroutines, Goes(g),
           UNCHANGED <<lk, dev, past>>, pc'[g].at # "latch",
           Known' => Known,
           Known /\ Sound => (LatchTold' => LatchTold \/ In),
           Known /\ Sound /\ Settling /\ In /\ ReadsRest' => ReadsRest \/ AtRest
    PROVE  Still'
  <1>1. P'.at \in {"confirm", "decide"} => P' = P
    BY RunPoll
  <1>2. P'.job = "ensure" /\ P'.at \in Sent =>
           P.job = "ensure" /\ P.at \in Sent /\ P'.seq = P.seq
    BY RunPoll DEF P
  <1> QED
    BY <1>1, <1>2, StillPassed

LEMMA RearmStill ==
    ASSUME TypeOK, BookInv, BookInv', Still, NEW g \in Goroutines, Rearm(g)
    PROVE  Still'
  <1>1. CASE Ensures
    <2>1. lk'.sent = "no" /\ ~lk'.done /\ pc'[g].at = "unlatch"
      BY <1>1, RearmBook
    <2>2. ~LatchTold'
      BY <2>1 DEF LatchTold, Nobody
    <2>3. Goes(g)
      BY RunGoes DEF Runs
    <2>4. P'.at \notin {"confirm", "decide"} \/ P' = P
      BY <2>3, RunPoll
    <2>5. ~Confirming' /\ ~Settling'
      BY <2>1 DEF Confirming, Settling
    <2> QED
      BY <2>1, <2>2, <2>5 DEF Still, StillAt, Sending, Telling, Deciding
  <1>2. CASE ~Ensures
    <2>1. ~Ensures'
      BY <1>2 DEF Rearm, Ensures
    <2> QED
      BY <2>1, NotAskedIsStill DEF Still
  <1> QED
    BY <1>1, <1>2

LEMMA LatchStill ==
    ASSUME TypeOK, BookInv, LatchIsLast, Still, NEW g \in Goroutines, Latch(g)
    PROVE  Still'
  <1> DEFINE in == Drives(pc[g].job) = "in"
  <1>1. /\ pc[g].at = "latch" /\ st' = [st EXCEPT !.retracted = in]
        /\ \E place \in {"save", "refresh"} : Step(g, place)
        /\ UNCHANGED <<lk, dev, past>>
    BY DEF Latch
  <1>2. Goes(g) /\ pc'[g].at \in {"save", "refresh"}
    BY <1>1, RunGoes, Steps DEF Runs, Places
  <1>3. UNCHANGED <<st.offline, st.moving>> /\ st'.retracted = in
    BY <1>1 DEF TypeOK, States
  <1>4. Known' => Known
    BY <1>1, <1>2, <1>3, KnownKept
  <1>5. Known /\ Sound => (LatchTold' => LatchTold \/ In)
    BY <1>1, <1>3 DEF LatchIsLast, InLatch, Sound, LatchTold, In
  <1>6. ReadsRest' => ReadsRest
    <2>1. P'.at = "ensure" => P.at = "ensure"
      BY <1>2, RunPoll DEF P
    <2> QED
      BY <1>2, <1>3, <2>1, RunPoll, ReadsKept
  <1> QED
    BY <1>1, <1>2, <1>4, <1>5, <1>6, RunPassed

LEMMA SaveStill ==
    ASSUME TypeOK, BookInv, Still, NEW g \in Goroutines, Save(g)
    PROVE  Still'
  <1>1. /\ pc[g].at \in {"save", "resave"} /\ UNCHANGED <<lk, st, dev, past>>
        /\ Goes(g)
    BY RunGoes DEF Runs, Save
  <1>2. pc[g] \in PCs
    BY DEF TypeOK
  <1>3. pc'[g].at \notin {"set", "latch"}
    <2>1. After(pc[g]).at \notin {"set", "latch"}
      BY <1>2 DEF After, Idle, At, PCs
    <2> QED
      BY <1>1, <2>1 DEF Goes
  <1>4. Known' => Known
    BY <1>1, <1>3, KnownKept
  <1>5. LatchTold' => LatchTold
    BY <1>1, ToldKept
  <1>6. Settling /\ ReadsRest' => ReadsRest
    <2>1. Settling /\ P'.at = "ensure" => P.at = "ensure"
      <3>1. CASE g = "poll" /\ pc[g].at = "resave"
        BY <3>1 DEF BookInv, Unsent, Settling, P
      <3>2. CASE g = "poll" /\ pc[g].at = "save"
        BY <1>1, <3>2 DEF Goes, P
      <3>3. CASE g # "poll"
        BY <1>1, <3>3, RunPoll
      <3> QED
        BY <1>1, <3>1, <3>2, <3>3
    <2> QED
      BY <1>1, <1>3, <2>1, RunPoll, ReadsKept
  <1> QED
    BY <1>1, <1>3, <1>4, <1>5, <1>6, RunPassed

\* Nothing was heard of the device.
LEMMA LoseStill ==
    ASSUME TypeOK, BookInv, Still, NEW g \in Goroutines, Runs(g), Lose(g),
           UNCHANGED <<lk, st, dev, past>>, pc[g].at \in {"send", "refresh", "motor"}
    PROVE  Still'
  <1>1. Goes(g) /\ pc'[g].at = "offline"
    BY RunGoes, Loses
  <1>2. (Known' => Known) /\ (LatchTold' => LatchTold)
    BY <1>1, KnownKept, ToldKept
  <1>3. P'.at = "ensure" => P.at = "ensure"
    BY <1>1, RunPoll DEF P
  <1>4. ReadsRest' => ReadsRest
    BY <1>1, <1>3, RunPoll, ReadsKept
  <1> QED
    BY <1>1, <1>2, <1>4, RunPassed

LEMMA AskStill ==
    ASSUME TypeOK, BookInv, Still, "busy" \notin Faults, NEW g \in Goroutines, Ask(g)
    PROVE  Still'
  <1> DEFINE to == [pc[g] EXCEPT !.at = "set", !.was.moving = Moving,
                                 !.was.offline = st.offline]
  <1>1. /\ pc[g].at \in {"refresh", "motor"} /\ UNCHANGED <<lk, st, dev, past>>
        /\ Go(g, to) \/ Lose(g)
    <2>1. dev.link # "busy"
      BY Constants DEF TypeOK
    <2>2. Answers \subseteq {"ok", "unheard", "silent"}
      BY <2>1, Constants DEF Answers, TypeOK
    <2> QED
      BY <2>2 DEF Ask
  <1>2. Goes(g)
    BY RunGoes DEF Runs
  <1>3. CASE Lose(g)
    BY <1>1, <1>3, LoseStill DEF Runs
  <1>4. CASE Go(g, to)
    <2>p. /\ pc[g] \in PCs /\ pc[g].was \in States
          /\ Moving \in BOOLEAN /\ st.offline \in BOOLEAN
      BY DEF TypeOK, PCs, States, Moving
    <2>1. /\ to \in PCs /\ to.at = "set" /\ to.was.moving = Moving
          /\ to.was.offline = st.offline
      BY <2>p DEF PCs, States, Places
    <2> HIDE DEF to
    <2>2. pc'[g] = to /\ \A h \in Goroutines \ {g} : pc'[h] = pc[h]
      BY <1>4, <2>1, Moves
    <2>3. Known' => Known
      BY <1>1, <2>1, <2>2 DEF Known, Nobody
    <2>4. LatchTold' => LatchTold
      BY <1>1, <1>2, ToldKept
    <2>5. (P'.at = "ensure" => P.at = "ensure") /\ (P'.at = "decide" => P' = P)
      BY <1>2, <2>1, <2>2, RunPoll DEF P
    <2>6. Known /\ Sound /\ Settling /\ In /\ ReadsRest' => ReadsRest \/ AtRest
      <3> SUFFICES ASSUME Known, Sound, Settling, In, ReadsRest', ~ReadsRest PROVE AtRest
        OBVIOUS
      <3>1. dev.motors # "starting"
        BY DEF Still, StillAt
      <3>2. pc'[g].at = "set" /\ ~pc'[g].was.moving
        BY <1>1, <2>2, <2>5 DEF ReadsRest
      <3>3. dev.motors # "running"
        BY <2>1, <2>2, <3>2 DEF Moving
      <3> QED
        BY <3>1, <3>3 DEF AtRest, TypeOK
    <2> QED
      BY <1>1, <1>2, <2>1, <2>2, <2>3, <2>4, <2>6, RunPassed
  <1> QED
    BY <1>1, <1>3, <1>4

LEMMA SetStill ==
    ASSUME TypeOK, BookInv, Still, NEW g \in Goroutines, Set(g)
    PROVE  Still'
  <1>1. /\ pc[g].at = "set" /\ UNCHANGED <<lk, dev, past>> /\ Goes(g)
        /\ Put([pc[g].was EXCEPT !.offline = FALSE])
        /\ IF pc[g].was.offline THEN Step(g, "rearm") ELSE Go(g, After(pc[g]))
    BY RunGoes DEF Runs, Set
  <1>2. pc[g] \in PCs /\ pc[g].was \in States
    BY DEF TypeOK, PCs
  <1>3. st'.moving = pc[g].was.moving /\ ~st'.offline /\ st'.retracted = st.retracted
    BY <1>1, <1>2 DEF Put, States, TypeOK
  <1>4. CASE pc[g].was.offline
    <2>1. pc'[g].at = "rearm"
      BY <1>1, <1>4, Steps DEF Places
    <2> QED
      BY <2>1 DEF Still, Known, Nobody
  <1>5. CASE ~pc[g].was.offline
    <2>1. pc'[g] = After(pc[g])
      BY <1>1, <1>2, <1>5, Onward, Moves
    <2>2. pc'[g].at \notin {"set", "latch", "rearm", "decide"}
      BY <1>2, <2>1 DEF After, Idle, At, PCs
    <2>3. Known' => Known
      BY <1>1, <1>5 DEF Known, Nobody, Goes
    <2>4. LatchTold' => LatchTold
      BY <1>1, <1>3, ToldKept
    <2>5. ReadsRest' => ReadsRest
      <3>1. CASE \E h \in Goroutines : pc'[h].at = "set" /\ ~pc'[h].was.moving
        BY <1>1, <2>2, <3>1 DEF ReadsRest, Goes
      <3>2. CASE P'.at = "ensure" /\ ~st'.moving
        BY <1>1, <1>3, <3>2 DEF ReadsRest
      <3>3. CASE P'.at = "decide" /\ ~P'.was.moving /\ ~P'.was.offline
        BY <1>1, <3>3, RunPoll DEF ReadsRest
      <3> QED
        BY <3>1, <3>2, <3>3 DEF ReadsRest
    <2> QED
      BY <1>1, <2>2, <2>3, <2>4, <2>5, RunPassed
  <1> QED
    BY <1>4, <1>5

LEMMA OfflineStill ==
    ASSUME TypeOK, BookInv, Still, NEW g \in Goroutines, Offline(g)
    PROVE  Still'
  <1>1. /\ pc[g].at = "offline" /\ UNCHANGED <<lk, dev, past>> /\ Goes(g)
        /\ Put([pc[g].was EXCEPT !.offline = TRUE]) /\ Go(g, Failed(pc[g]))
    BY RunGoes DEF Runs, Offline
  <1>2. pc[g] \in PCs /\ pc[g].was \in States
    BY DEF TypeOK, PCs
  <1>3. st'.offline /\ st'.retracted = st.retracted
    BY <1>1, <1>2 DEF Put, States, TypeOK
  <1>4. pc'[g].at \notin {"set", "latch"}
    <2>1. pc'[g] = Failed(pc[g])
      BY <1>1, <1>2, Onward, Moves
    <2> QED
      BY <1>2, <2>1 DEF Failed, After, Idle, At, PCs
  <1>5. (Known' => Known) /\ (LatchTold' => LatchTold)
    BY <1>1, <1>3, <1>4, KnownKept, ToldKept
  <1>6. ReadsRest' => ReadsRest
    BY <1>1, <1>3, <1>4, RunPoll, ReadsKept
  <1> QED
    BY <1>1, <1>4, <1>5, <1>6, RunPassed

LEMMA UnlatchStill ==
    ASSUME TypeOK, BookInv, Still, NEW g \in Goroutines, Unlatch(g)
    PROVE  Still'
  <1>1. /\ pc[g].at = "unlatch" /\ UNCHANGED <<lk, dev, past>> /\ Goes(g)
        /\ st' = [st EXCEPT !.retracted = FALSE]
        /\ Step(g, "resave") \/ Go(g, After(pc[g]))
    BY RunGoes DEF Runs, Unlatch
  <1>2. UNCHANGED <<st.offline, st.moving>> /\ ~st'.retracted
    BY <1>1 DEF TypeOK, States
  <1>3. pc'[g].at \notin {"set", "latch"}
    <2>1. After(pc[g]) \in PCs /\ After(pc[g]).at \notin {"set", "latch"}
      <3>1. pc[g] \in PCs
        BY DEF TypeOK
      <3> QED
        BY <1>1, <3>1, Onward DEF After, Idle, At, PCs
    <2>2. CASE Step(g, "resave")
      BY <2>2, Steps DEF Places
    <2>3. CASE Go(g, After(pc[g]))
      BY <2>1, <2>3, Moves
    <2> QED
      BY <1>1, <2>2, <2>3
  <1>4. (Known' => Known) /\ ~LatchTold'
    BY <1>1, <1>2, <1>3, KnownKept DEF LatchTold
  <1>5. Settling /\ ReadsRest' => ReadsRest
    <2>1. Settling /\ P'.at = "ensure" => P.at = "ensure"
      <3>1. CASE g = "poll"
        BY <1>1, <3>1 DEF BookInv, Unsent, Settling, P
      <3>2. CASE g # "poll"
        BY <1>1, <3>2, RunPoll
      <3> QED
        BY <3>1, <3>2
    <2> QED
      BY <1>1, <1>2, <1>3, <2>1, RunPoll, ReadsKept
  <1> QED
    BY <1>1, <1>3, <1>4, <1>5, RunPassed

\* The answers of a controller that is not busy.
LEMMA SendFrom ==
    ASSUME TypeOK, "busy" \notin Faults, NEW g \in Goroutines, Send(g)
    PROVE  /\ pc[g].at = "send" /\ UNCHANGED <<ant, lk, st>>
           /\ \/ Execute(g, "ok") /\ Step(g, "latch")
              \/ past' = "doubt" /\ Lose(g)
              \/ UNCHANGED <<dev, past>> /\ Lose(g)
  <1>1. dev.link # "busy"
    BY Constants DEF TypeOK
  <1>2. Answers \subseteq {"ok", "unheard", "silent"}
    BY <1>1, Constants DEF Answers, TypeOK
  <1>3. PICK a \in Answers :
           /\ IF Executed(a) THEN Execute(g, a) ELSE UNCHANGED <<dev, past>>
           /\ CASE a = "ok"      -> Step(g, "latch")
                [] a = "refused" -> Go(g, Failed(pc[g]))
                [] OTHER         -> Lose(g)
    BY DEF Send
  <1>4. Execute(g, "unheard") => past' = "doubt"
    BY DEF Execute
  <1> QED
    BY <1>2, <1>3, <1>4 DEF Send, Executed

\* A command that was answered, and was alone with the device.
LEMMA ExecuteFrom ==
    ASSUME TypeOK, NEW g \in Goroutines, Execute(g, "ok"), past' # "doubt"
    PROVE  /\ past # "doubt" /\ \A h \in Goroutines \ {g} : pc[h].at # "latch"
           /\ dev'.goal = Drives(pc[g].job) /\ dev'.link = dev.link
           /\ past' = "sound" =>
                /\ past = "sound"
                /\ g # "poll" /\ lk.ant.locked => dev'.goal = dev.goal /\ (In => dev' = dev)
  <1> DEFINE to == Drives(pc[g].job)
             runs == IF to = "in" /\ dev.goal = "in" THEN dev.motors ELSE "starting"
  <1>d. dev \in [link : {"on"} \cup Faults, goal : {"in", "out"},
                 motors : {"rest", "starting", "running"}]
    BY DEF TypeOK
  <1>1. dev' = [dev EXCEPT !.goal = to, !.motors = runs]
    BY DEF Execute
  <1>2. past' = IF past = "doubt" \/ Unlatched(Goroutines \ {g}) THEN "doubt"
                ELSE IF g # "poll" /\ dev'.goal # dev.goal /\ lk.ant.locked THEN "late"
                ELSE past
    BY DEF Execute
  <1> HIDE DEF to
  <1>3. dev'.goal = to /\ dev'.link = dev.link
    BY <1>1, <1>d
  <1>4. dev'.goal = dev.goal /\ In => dev' = dev
    <2> SUFFICES ASSUME dev'.goal = dev.goal, In PROVE dev' = dev
      OBVIOUS
    <2>1. to = "in" /\ dev.goal = "in" /\ runs = dev.motors
      BY <1>3 DEF In
    <2> HIDE DEF runs
    <2> QED
      BY <1>1, <1>d, <2>1
  <1>5. past # "doubt" /\ \A h \in Goroutines \ {g} : pc[h].at # "latch"
    BY <1>2 DEF Unlatched
  <1> QED
    BY <1>2, <1>3, <1>4, <1>5 DEF to

LEMMA SendStill ==
    ASSUME TypeOK, BookInv, BookInv', Still, "busy" \notin Faults,
           NEW g \in Goroutines, Send(g)
    PROVE  Still'
  <1>1. /\ Goes(g) /\ pc[g].at = "send" /\ UNCHANGED <<ant, lk, st>>
    BY RunGoes, SendFrom DEF Runs
  <1>2. CASE past' = "doubt"
    BY <1>2 DEF Still, Sound
  <1>3. CASE UNCHANGED <<dev, past>> /\ Lose(g)
    BY <1>1, <1>3, LoseStill DEF Runs
  <1>4. CASE Execute(g, "ok") /\ Step(g, "latch") /\ past' = "late"
    BY <1>4 DEF Still, Sound
  <1>5. CASE Execute(g, "ok") /\ Step(g, "latch") /\ past' = "sound"
    <2>1. /\ past = "sound" /\ dev'.goal = Drives(pc[g].job) /\ dev'.link = dev.link
          /\ g # "poll" /\ lk.ant.locked => dev'.goal = dev.goal /\ (In => dev' = dev)
      BY <1>5, ExecuteFrom
    <2>2. pc'[g].at = "latch"
      BY <1>5, Steps DEF Places
    <2>3. CASE g = "poll"
      <3>1. P.job = "ensure" /\ P'.at = "latch"
        BY <1>1, <2>2, <2>3 DEF BookInv, PollJobs, P
      <3>2. lk'.sent = "no" /\ ~lk'.done
        BY <1>1, <3>1 DEF BookInv, Unsent
      <3>3. In'
        BY <2>1, <2>3, <3>1 DEF In, Drives, P
      <3>4. ~Confirming' /\ ~Settling'
        BY <3>2 DEF Confirming, Settling
      <3> QED
        BY <3>2, <3>3, <3>4 DEF Still, StillAt
    <2>4. CASE g # "poll" /\ ~Ensures
      <3>1. ~Ensures'
        BY <1>1, <2>4 DEF Ensures
      <3> QED
        BY <3>1, NotAskedIsStill DEF Still
    <2>5. CASE g # "poll" /\ Ensures
      <3>1. dev'.goal = dev.goal /\ (In => dev' = dev)
        BY <2>1, <2>5 DEF Ensures
      <3>2. (In' <=> In) /\ (AtRest => AtRest')
        BY <3>1 DEF In, AtRest
      <3>3. Known' /\ Sound' => Known /\ Sound
        BY <1>1, <2>1, <2>2, KnownKept DEF Sound
      <3>4. P' = P /\ (LatchTold' => LatchTold)
        BY <1>1, <2>5, RunPoll, ToldKept
      <3>5. ReadsRest' => ReadsRest
        BY <1>1, <2>2, <3>4, ReadsKept
      <3>6. /\ Confirming' => Confirming
            /\ Sending' => Sending
            /\ Settling' => Settling
            /\ Telling' => Telling
            /\ Deciding' => Deciding
        BY <1>1, <3>4 DEF Confirming, Sending, Settling, Telling, Deciding, ThisLock, Ensures
      <3> QED
        BY <1>1, <3>1, <3>2, <3>3, <3>5, <3>6, StillKept DEF In
    <2> QED
      BY <2>3, <2>4, <2>5
  <1>6. past' \in {"sound", "late", "doubt"} \/ (UNCHANGED <<dev, past>> /\ Lose(g))
    BY SendFrom DEF TypeOK, Execute
  <1> QED
    BY <1>2, <1>3, <1>4, <1>5, <1>6, SendFrom

LEMMA RunStill ==
    ASSUME TypeOK, SureInv, BookInv', "busy" \notin Faults, NEW g \in Goroutines, Runs(g)
    PROVE  Still'
  BY SendStill, LatchStill, SaveStill, AskStill, SetStill, OfflineStill, RearmStill,
     UnlatchStill DEF Runs, SureInv

\* What enters the latch is the last command, and leaves it with the answer.
LEMMA LastKept ==
    ASSUME LatchIsLast, past' = past \/ past # "doubt", dev'.goal = dev.goal,
           \A g \in Goroutines :
              pc'[g].at = "latch" => pc[g].at = "latch" /\ pc'[g].job = pc[g].job
    PROVE  LatchIsLast'
  BY DEF LatchIsLast, InLatch, Drives

LEMMA LastWorld ==
    ASSUME TypeOK, LatchIsLast, World \/ ApplyAntMode \/ Settle
    PROVE  LatchIsLast'
  <1>1. CASE Publish \/ LinkFails \/ HoldEnds \/ ApplyAntMode \/ Settle
    <2>1. UNCHANGED <<pc, past>> /\ dev'.goal = dev.goal
      BY <1>1 DEF Publish, LinkFails, HoldEnds, ApplyAntMode, Settle, TypeOK
    <2> QED
      BY <2>1, LastKept
  <1>2. CASE MotorsStart \/ MotorsStop
    <2>1. UNCHANGED pc /\ dev'.goal = dev.goal /\ (past' = past \/ past # "doubt")
      BY <1>2 DEF MotorsStart, MotorsStop, TypeOK
    <2> QED
      BY <2>1, LastKept
  <1>3. CASE LinkReturns
    <2>1. UNCHANGED <<pc, past>> /\ (dev.link = "off" => Settled)
          /\ (dev.link # "off" => dev'.goal = dev.goal)
      BY <1>3 DEF LinkReturns
    <2>2. CASE dev.link = "off"
      BY <2>1, <2>2 DEF Settled, LatchIsLast, InLatch
    <2>3. CASE dev.link # "off"
      BY <2>1, <2>3, LastKept
    <2> QED
      BY <2>2, <2>3
  <1>4. CASE Crash
    <2>1. \A g \in Goroutines : pc'[g].at # "latch"
      BY <1>4, Fresh DEF Crash
    <2> QED
      BY <2>1 DEF LatchIsLast, InLatch
  <1> QED
    BY <1>1, <1>2, <1>3, <1>4 DEF World

LEMMA LastRuns ==
    ASSUME TypeOK, LatchIsLast, "busy" \notin Faults, NEW g \in Goroutines, Runs(g)
    PROVE  LatchIsLast'
  <1>1. Goes(g) /\ \A h \in Goroutines \ {g} : pc'[h] = pc[h]
    BY RunGoes DEF Goes
  <1>2. CASE ~Send(g)
    <2>1. UNCHANGED <<dev, past>> /\ pc[g].at # "send"
      BY <1>2 DEF Runs, Latch, Save, Ask, Set, Offline, Rearm, Unlatch
    <2>2. pc'[g].at # "latch"
      <3>1. After(pc[g]).at # "latch" /\ Failed(pc[g]).at # "latch"
        BY Onward DEF TypeOK
      <3> QED
        BY <1>1, <2>1, <3>1 DEF Goes
    <2> QED
      BY <1>1, <2>1, <2>2, LastKept
  <1>3. CASE Send(g) /\ past' = "doubt"
    BY <1>3 DEF LatchIsLast
  <1>4. CASE Send(g) /\ UNCHANGED <<dev, past>> /\ Lose(g)
    <2>1. pc'[g].at # "latch"
      BY <1>4, Loses
    <2> QED
      BY <1>1, <1>4, <2>1, LastKept
  <1>5. CASE Execute(g, "ok") /\ Step(g, "latch") /\ past' # "doubt"
    <2>1. \A h \in Goroutines \ {g} : pc'[h].at # "latch"
      BY <1>1, <1>5, ExecuteFrom
    <2>2. pc'[g].job = pc[g].job /\ dev'.goal = Drives(pc[g].job)
      BY <1>5, ExecuteFrom, Steps DEF Places
    <2> QED
      BY <2>1, <2>2 DEF LatchIsLast, InLatch
  <1> QED
    BY <1>2, <1>3, <1>4, <1>5, SendFrom

LEMMA SureStep ==
    ASSUME "busy" \notin Faults
    PROVE  TypeOK /\ TypeOK' /\ SureInv /\ [Next]_vars => SureInv'
  <1> SUFFICES ASSUME TypeOK, TypeOK', SureInv, [Next]_vars PROVE SureInv'
    OBVIOUS
  <1>1. BookInv'
    BY BookStep DEF SureInv
  <1>2. LatchIsLast /\ Still /\ BookInv
    BY DEF SureInv
  <1>3. CASE World \/ ApplyAntMode \/ Settle
    <2>1. LatchIsLast'
      BY <1>2, <1>3, LastWorld
    <2>2. Still'
      BY <1>2, <1>3, DeviceStill, LockStill, CrashStill DEF World
    <2> QED
      BY <1>1, <2>1, <2>2 DEF SureInv
  <1>4. CASE Poll
    <2>1. /\ UNCHANGED <<dev, past>> /\ \A g \in Goroutines \ {"poll"} : pc'[g] = pc[g]
          /\ P'.at # "latch"
      BY <1>4, PollSteps DEF Idle, At
    <2>2. LatchIsLast'
      BY <1>2, <2>1, LastKept DEF P
    <2> QED
      BY <1>1, <1>2, <1>4, <2>2, PollStill DEF SureInv
  <1>5. CASE \E g \in Clients : Command(g) \/ Band(g)
    <2>1. PICK g \in Clients : Command(g) \/ Band(g)
      BY <1>5
    <2>2. /\ UNCHANGED <<dev, past>> /\ \A h \in Goroutines \ {g} : pc'[h] = pc[h]
          /\ pc'[g].at # "latch"
      BY <2>1, ClientGoes
    <2>3. LatchIsLast'
      BY <1>2, <2>2, LastKept
    <2> QED
      BY <1>1, <1>2, <2>1, <2>3, ClientStill DEF SureInv
  <1>6. CASE \E g \in Goroutines : Runs(g)
    BY <1>1, <1>2, <1>6, RunStill, LastRuns DEF SureInv
  <1>7. CASE UNCHANGED vars
    <2>1. UNCHANGED <<lk, st, pc, dev, past>> /\ P' = P
      BY <1>7 DEF vars, P
    <2>2. LatchIsLast'
      BY <1>2, <2>1, LastKept
    <2>3. /\ Known' = Known /\ LatchTold' = LatchTold /\ ReadsRest' = ReadsRest
      BY <2>1 DEF Known, LatchTold, ReadsRest, Nobody
    <2> QED
      BY <1>1, <1>2, <2>1, <2>2, <2>3, StillPassed DEF SureInv
  <1> QED
    BY <1>3, <1>4, <1>5, <1>6, <1>7 DEF Next

\* retract_seq means that the elements are in and at rest, however many clients, seqs and
\* crashes, with a link that is lost or drops answers (EnsureRetract, ApplyAntMode,
\* deviceBackOnline).  Not with an RCU-06 that answers it is busy: EnsureRetract also runs
\* after a refresh that was turned down, and may confirm on what was read before the motors
\* started.
THEOREM ConfirmedMeansIn ==
    ASSUME "busy" \notin Faults
    PROVE  Spec => []ConfirmedIn
  <1>1. SureInv => ConfirmedIn
    BY DEF SureInv, Still, StillAt, Known, Sound, AtRest, In, BackKnown, ConfirmedIn
  <1> QED
    BY <1>1, InitTypes, StepTypes, SureInit, SureStep, PTL DEF Spec
=============================================================================
