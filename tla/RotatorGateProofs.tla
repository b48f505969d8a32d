-------------------------- MODULE RotatorGateProofs --------------------------
(***************************************************************************)
(* Proofs about RotatorGate, for every number of clients and seqs.         *)
(***************************************************************************)
EXTENDS RotatorGate, TLAPS

LEMMA Constants ==
    /\ "loop" \in Threads /\ "reader" \in Threads /\ Clients \subseteq Threads
    /\ "loop" \notin Clients /\ "reader" \notin Clients /\ "free" \notin Clients
    /\ MaxSeq \in Nat /\ 0 \in Seqs /\ NoAz \in Azs /\ NoAz \notin ParkAzs
  <1>1. /\ "loop" \in Threads /\ "reader" \in Threads /\ Clients \subseteq Threads
        /\ "loop" \notin Clients /\ "reader" \notin Clients /\ "free" \notin Clients
    BY GateAssumption DEF Threads
  <1>2. MaxSeq \in Nat /\ 0 \in Seqs
    BY GateAssumption DEF Seqs
  <1>3. NoAz \in Azs /\ NoAz \notin ParkAzs
    BY GateAssumption DEF Azs
  <1> QED
    BY <1>1, <1>2, <1>3

LEMMA RecordTypes ==
    NormalState \in States /\ NoRecord \in Records /\ Fresh(0, NoAz) \in Parks /\ Idle \in PCs
  <1>1. NormalState \in States /\ NoRecord \in Records
    BY Constants DEF NormalState, States, Modes, NoRecord, Records, Outcomes
  <1>2. Fresh(0, NoAz) \in Parks
    BY Constants DEF Fresh, Parks
  <1>3. Idle \in PCs
    BY Constants DEF Idle, At, PCs, Places, Saving
  <1> QED
    BY <1>1, <1>2, <1>3

\* A goroutine that goes on is somewhere.
LEMMA PlaceTypes ==
    ASSUME TypeOK, NEW t \in Threads, NEW place \in Places
    PROVE  /\ Goto(t, place) \/ Enter(t, place) \/ Leave(t) => pc' \in [Threads -> PCs]
           /\ Goto(t, place) => pc'[t].at = place
  <1>1. pc \in [Threads -> PCs] /\ park.seq \in Seqs
    BY DEF TypeOK, Parks
  <1>2. Goto(t, place) => pc' \in [Threads -> PCs] /\ pc'[t].at = place
    BY <1>1 DEF Goto, PCs
  <1>3. Enter(t, place) => pc' \in [Threads -> PCs]
    BY <1>1 DEF Enter, PCs, At
  <1>4. Leave(t) => pc' \in [Threads -> PCs]
    BY <1>1, RecordTypes DEF Leave
  <1> QED
    BY <1>2, <1>3, <1>4

LEMMA FinishTypes ==
    ASSUME TypeOK, NEW p \in Parks, NEW o \in Outcomes, Finish(p, o),
           p.az = NoAz => o = "nudged"
    PROVE  park' \in Parks /\ finished' \in Records /\ dirty' \in BOOLEAN
  <1>1. park' \in Parks
    BY DEF Finish, Parks
  <1>2. st.mode \in Modes /\ p.seq \in Seqs /\ p.az \in Azs
    BY DEF TypeOK, States, Parks
  <1>3. finished' \in Records
    BY <1>2 DEF Finish, Records
  <1> QED
    BY <1>1, <1>3 DEF Finish

LEMMA SavedTypes ==
    ASSUME TypeOK, NEW t \in Threads, Saved(t)
    PROVE  pc' \in [Threads -> PCs] /\ moveMu' \in Threads \cup {"free"}
  <1>1. "nudge" \in Places
    BY DEF Places
  <1>2. pc' \in [Threads -> PCs]
    BY <1>1, PlaceTypes DEF Saved
  <1> QED
    BY <1>2 DEF Saved, TypeOK

LEMMA TypeInit == Init => TypeOK
  <1> SUFFICES ASSUME Init PROVE TypeOK
    OBVIOUS
  <1>1. /\ retained \in States /\ lastSeq \in Seqs /\ st \in States /\ park \in Parks
        /\ finished \in Records /\ file \in Records
    BY RecordTypes, Constants DEF Init
  <1>2. pc \in [Threads -> PCs] /\ writing \in [Threads -> Records]
    BY RecordTypes DEF Init
  <1>3. wire \in Wires /\ nudged \subseteq Seqs /\ warned \subseteq {"record", "stop"}
    BY Constants DEF Init, Told, Wires
  <1>4. /\ seen \in BOOLEAN /\ window \in {"before", "open", "over"} /\ online \in BOOLEAN
        /\ az \in Readbacks \cup {0} /\ stableAz \in Readbacks \cup {NoAz} /\ steady \in BOOLEAN
        /\ dirty \in BOOLEAN /\ moveMu \in Threads \cup {"free"}
    BY DEF Init
  <1> QED
    BY <1>1, <1>2, <1>3, <1>4 DEF TypeOK

LEMMA TypeStep == TypeOK /\ [Next]_vars => TypeOK'
  <1> SUFFICES ASSUME TypeOK, [Next]_vars PROVE TypeOK'
    OBVIOUS
  <1> USE DEF antmode, lock, device, books, threads, outside
  <1>1. CASE UNCHANGED vars
    BY <1>1 DEF vars, TypeOK
  <1>2. ASSUME NEW m \in Modes \ {"normal"}, NewSeq(m) PROVE TypeOK'
    <2>1. retained' \in States /\ lastSeq' \in Seqs
      BY <1>2, Constants DEF NewSeq, States, Seqs, TypeOK
    <2> QED
      BY <1>2, <2>1 DEF NewSeq, TypeOK
  <1>3. ASSUME NEW a \in ParkAzs, PublishTarget(a) PROVE TypeOK'
    <2>1. retained' \in States
      BY <1>3 DEF PublishTarget, States, Azs, TypeOK
    <2> QED
      BY <1>3, <2>1 DEF PublishTarget, TypeOK
  <1>4. CASE Unlock
    BY <1>4, RecordTypes DEF Unlock, TypeOK
  <1>5. CASE StartHold
    BY <1>5 DEF StartHold, TypeOK
  <1>6. CASE HoldEnds
    BY <1>6 DEF HoldEnds, TypeOK
  <1>7. CASE Apply
    <2>1. retained.seq \in Seqs /\ retained.az \in Azs
      BY DEF TypeOK, States
    <2>2. Matches(finished, retained) \in BOOLEAN
      BY DEF Matches
    <2>3. Matches(finished, retained) => retained.az # NoAz
      BY DEF Matches
    <2>4. [Fresh(retained.seq, retained.az) EXCEPT !.sent = Matches(finished, retained),
                                                   !.done = Matches(finished, retained)] \in Parks
      BY <2>1, <2>2, <2>3 DEF Fresh, Parks
    <2>5. park' \in Parks
      BY <1>7, <2>4, RecordTypes DEF Apply, TypeOK
    <2> QED
      BY <1>7, <2>5 DEF Apply, TypeOK
  <1>8. ASSUME NEW a \in Readbacks, NEW m \in BOOLEAN, Observe(a, m) PROVE TypeOK'
    <2>0. \/ stableAz' = NoAz /\ steady' = FALSE
          \/ stableAz' = a /\ steady' = FALSE
          \/ stableAz' = stableAz /\ steady' = steady
      <3> DEFINE Moved == ~online \/ stableAz = NoAz \/ ~Near(a, stableAz, StableBand)
      <3>1. IF m THEN stableAz' = NoAz /\ steady' = FALSE
            ELSE IF Moved THEN stableAz' = a /\ steady' = FALSE
            ELSE UNCHANGED <<stableAz, steady>>
        BY <1>8, Zenon DEF Observe
      <3> HIDE DEF Moved
      <3>2. CASE m
        BY <3>1, <3>2
      <3>3. CASE ~m /\ Moved
        BY <3>1, <3>3
      <3>4. CASE ~m /\ ~Moved
        <4>1. UNCHANGED <<stableAz, steady>>
          BY <3>1, <3>4, Zenon
        <4> QED
          BY <4>1
      <3> QED
        BY <3>2, <3>3, <3>4
    <2>1. stableAz' \in Readbacks \cup {NoAz} /\ steady' \in BOOLEAN
      BY <2>0 DEF TypeOK
    <2>2. \/ UNCHANGED <<books, pc>>
          \/ Finish(park, "arrived") /\ Goto("reader", "save") /\ park.az # NoAz
      BY <1>8, Zenon DEF Observe
    <2>3. "arrived" \in Outcomes /\ "save" \in Places
      BY DEF Outcomes, Places, Saving
    <2>4. /\ park' \in Parks /\ finished' \in Records /\ dirty' \in BOOLEAN
          /\ pc' \in [Threads -> PCs]
      BY <2>2, <2>3, FinishTypes, PlaceTypes, Constants DEF TypeOK
    <2> QED
      BY <1>8, <2>1, <2>4 DEF Observe, TypeOK
  <1>9. CASE Offline
    <2>1. park' \in Parks
      BY <1>9 DEF Offline, TypeOK, Parks
    <2> QED
      BY <1>9, <2>1 DEF Offline, TypeOK
  <1>10. CASE Steady
    BY <1>10 DEF Steady, TypeOK
  <1>11. CASE Decide
    <2>1. [park EXCEPT !.sent = TRUE] \in Parks /\ [park EXCEPT !.sent = TRUE].az # NoAz
      BY <1>11 DEF Decide, Ready, TypeOK, Parks
    <2>2. "arrived" \in Outcomes /\ "save" \in Places /\ "park" \in Places
      BY DEF Outcomes, Places, Saving
    <2>3. CASE Near(az, park.az, ArriveTol)
      <3>1. Finish([park EXCEPT !.sent = TRUE], "arrived") /\ Goto("loop", "save")
        BY <1>11, <2>3 DEF Decide
      <3>2. park' \in Parks /\ finished' \in Records /\ dirty' \in BOOLEAN
        BY <2>1, <2>2, <3>1, FinishTypes
      <3>3. pc' \in [Threads -> PCs]
        BY <2>2, <3>1, PlaceTypes, Constants
      <3> QED
        BY <1>11, <3>2, <3>3, Constants DEF Decide, TypeOK
    <2>4. CASE ~Near(az, park.az, ArriveTol)
      <3>1. pc' \in [Threads -> PCs]
        BY <1>11, <2>2, <2>4, PlaceTypes, Constants DEF Decide
      <3> QED
        BY <1>11, <2>1, <2>4, <3>1, Constants DEF Decide, TypeOK
    <2> QED
      BY <2>3, <2>4
  <1>12. CASE ParkWritten
    <2>1. pc["loop"].seq \in Seqs /\ "check" \in Places
      BY Constants DEF TypeOK, PCs, Places
    <2>2. wire' \in Wires
      BY <1>12, <2>1 DEF ParkWritten, Park, Wires
    <2>3. pc' \in [Threads -> PCs]
      BY <1>12, <2>1, PlaceTypes, Constants DEF ParkWritten
    <2> QED
      BY <1>12, <2>2, <2>3 DEF ParkWritten, TypeOK
  <1>13. CASE ParkFailed
    <2>1. park' \in Parks
      BY <1>13 DEF ParkFailed, Unsent, TypeOK, Parks
    <2>2. pc' \in [Threads -> PCs]
      BY <1>13, PlaceTypes, Constants DEF ParkFailed, Places
    <2> QED
      BY <1>13, <2>1, <2>2 DEF ParkFailed, TypeOK
  <1>14. CASE Check
    <2>1. pc' \in [Threads -> PCs]
      BY <1>14, PlaceTypes, Constants DEF Check, Places
    <2> QED
      BY <1>14, <2>1 DEF Check, TypeOK
  <1>15. StopDevice => wire' \in Wires /\ warned' \subseteq {"record", "stop"}
    <2>1. Told("stop") \in Wires
      BY Constants DEF Told, Wires
    <2> QED
      BY <2>1 DEF StopDevice, TypeOK
  <1>16. CASE Restop
    <2>1. pc' \in [Threads -> PCs]
      BY <1>16, PlaceTypes, Constants DEF Restop, Places
    <2> QED
      BY <1>15, <1>16, <2>1 DEF Restop, TypeOK
  <1>17. ASSUME NEW c \in Clients, Move(c) PROVE TypeOK'
    <2>1. pc' \in [Threads -> PCs]
      BY <1>17, PlaceTypes, Constants DEF Move, Places
    <2> QED
      BY <1>17, <2>1 DEF Move, TypeOK
  <1>18. ASSUME NEW c \in Clients, MoveWritten(c) PROVE TypeOK'
    <2>1. pc' \in [Threads -> PCs]
      BY <1>18, PlaceTypes, Constants DEF MoveWritten, Places
    <2>2. wire' \in Wires
      BY <1>18, Constants DEF MoveWritten, Told, Wires, TypeOK
    <2> QED
      BY <1>18, <2>1, <2>2 DEF MoveWritten, TypeOK
  <1>19. ASSUME NEW c \in Clients, NEW a \in Targets, Nudge(c, a) PROVE TypeOK'
    <2>1. "nudged" \in Outcomes /\ "nudgeSave" \in Places /\ "again" \in Places
      BY DEF Outcomes, Places, Saving
    <2>2. pc' \in [Threads -> PCs]
      BY <1>19, <2>1, PlaceTypes, Constants DEF Nudge
    <2>3. park' \in Parks /\ finished' \in Records /\ dirty' \in BOOLEAN
      <3>1. CASE park.done
        BY <1>19, <3>1 DEF Nudge, TypeOK
      <3>2. CASE ~park.done
        <4> DEFINE p == [park EXCEPT !.sent = TRUE]
        <4>1. park' = [p EXCEPT !.done = TRUE]
          BY <1>19, <3>2 DEF Nudge, Finish
        <4>2. park' \in Parks
          BY <4>1 DEF TypeOK, Parks
        <4>3. /\ finished' = [mode |-> st.mode, seq |-> park.seq, az |-> park.az, outcome |-> "nudged"]
              /\ dirty' = TRUE
          BY <1>19, <3>2 DEF Nudge, Finish, TypeOK, Parks
        <4>4. finished' \in Records
          BY <2>1, <4>3 DEF Records, TypeOK, Parks, States
        <4> QED
          BY <4>2, <4>3, <4>4
      <3> QED
        BY <3>1, <3>2
    <2> QED
      BY <1>19, <2>2, <2>3, Constants DEF Nudge, TypeOK
  <1>20. ASSUME NEW c \in Clients, NudgeWritten(c) PROVE TypeOK'
    <2>1. pc' \in [Threads -> PCs]
      BY <1>20, PlaceTypes, Constants DEF NudgeWritten, Places
    <2>2. pc[c].seq \in Seqs
      BY Constants DEF TypeOK, PCs
    <2>3. wire' \in Wires /\ nudged' \subseteq Seqs
      BY <1>20, <2>2, Constants DEF NudgeWritten, Told, Wires, TypeOK
    <2> QED
      BY <1>20, <2>1, <2>3 DEF NudgeWritten, TypeOK
  <1>21. ASSUME NEW c \in Clients, Stop(c) PROVE TypeOK'
    <2>1. "cancelled" \in Outcomes /\ "cancel" \in Places /\ "stop" \in Places
      BY DEF Outcomes, Places, Saving
    <2>2. pc' \in [Threads -> PCs]
      BY <1>21, <2>1, PlaceTypes, Constants DEF Stop
    <2>3. park' \in Parks /\ finished' \in Records /\ dirty' \in BOOLEAN
      <3>1. CASE Locked(st) /\ Underway
        <4>1. [park EXCEPT !.cancelled = TRUE] \in Parks /\ [park EXCEPT !.cancelled = TRUE].az # NoAz
          BY <3>1 DEF Underway, TypeOK, Parks
        <4> QED
          BY <1>21, <2>1, <3>1, <4>1, FinishTypes DEF Stop
      <3>2. CASE ~(Locked(st) /\ Underway)
        BY <1>21, <3>2 DEF Stop, TypeOK
      <3> QED
        BY <3>1, <3>2
    <2> QED
      BY <1>21, <2>2, <2>3 DEF Stop, TypeOK
  <1>22. ASSUME NEW c \in Clients, StopWritten(c) PROVE TypeOK'
    <2>1. pc' \in [Threads -> PCs]
      BY <1>22, PlaceTypes, Constants DEF StopWritten, Places, Saving
    <2> QED
      BY <1>15, <1>22, <2>1 DEF StopWritten, TypeOK
  <1>23. ASSUME NEW t \in Threads, SaveTake(t) PROVE TypeOK'
    <2>1. writing' \in [Threads -> Records]
      BY <1>23 DEF SaveTake, TypeOK
    <2>2. pc' \in [Threads -> PCs] /\ moveMu' \in Threads \cup {"free"}
      BY <1>23, SavedTypes DEF SaveTake, TypeOK
    <2> QED
      BY <1>23, <2>1, <2>2 DEF SaveTake, TypeOK
  <1>24. ASSUME NEW t \in Threads, SaveWrite(t) PROVE TypeOK'
    <2>1. /\ writing' \in [Threads -> Records] /\ file' \in Records
          /\ warned' \subseteq {"record", "stop"}
      BY <1>24, RecordTypes DEF SaveWrite, TypeOK
    <2>2. pc' \in [Threads -> PCs] /\ moveMu' \in Threads \cup {"free"}
      BY <1>24, SavedTypes DEF SaveWrite
    <2> QED
      BY <1>24, <2>1, <2>2 DEF SaveWrite, TypeOK
  <1>25. CASE Restart
    BY <1>25, RecordTypes, Constants DEF Restart, TypeOK
  <1> QED
    BY <1>1, <1>2, <1>3, <1>4, <1>5, <1>6, <1>7, <1>8, <1>9, <1>10, <1>11, <1>12, <1>13,
       <1>14, <1>16, <1>17, <1>18, <1>19, <1>20, <1>21, <1>22, <1>23, <1>24, <1>25
       DEF Next, Antmode, Loop, Client

\* The type invariant of the gate; a park without park_az is never sent or cancelled.
THEOREM TypeCorrect == Spec => []TypeOK
  BY TypeInit, TypeStep, PTL DEF Spec
-----------------------------------------------------------------------------
(* moveMu. *)

Holding == {"nudgeSave", "nudge", "again"}

\* Who holds moveMu: the loop between its decision and the end of its write, a client
\* from the acceptance of its nudge to the end of its write; nobody else.
Discipline ==
    /\ moveMu = "loop" <=> pc["loop"].at # "idle"
    /\ \A c \in Clients : moveMu = c <=> pc[c].at \in Holding
    /\ moveMu # "reader"
    /\ pc["loop"].at \in {"idle", "park", "check", "restop", "save"}
    /\ pc["reader"].at \in {"idle", "save"}

LEMMA DisciplineInit == Init => Discipline
  BY Constants DEF Init, Discipline, Holding, Idle, At

\* What a goroutine's own move does to the places of all.
LEMMA OwnPlace ==
    ASSUME TypeOK, NEW t \in Threads, NEW place
    PROVE  /\ Goto(t, place) => /\ pc'[t].at = place
                                /\ \A u \in Threads : u # t => pc'[u] = pc[u]
           /\ Enter(t, place) => /\ pc'[t].at = place
                                 /\ \A u \in Threads : u # t => pc'[u] = pc[u]
           /\ Leave(t) => /\ pc'[t].at = "idle"
                          /\ \A u \in Threads : u # t => pc'[u] = pc[u]
  BY DEF TypeOK, PCs, Goto, Enter, Leave, At, Idle

LEMMA DisciplineStep == TypeOK /\ Discipline /\ [Next]_vars => Discipline'
  <1> SUFFICES ASSUME TypeOK, Discipline, [Next]_vars PROVE Discipline'
    OBVIOUS
  <1> USE DEF threads, Holding
  <1>1. ASSUME UNCHANGED threads PROVE Discipline'
    BY <1>1 DEF Discipline
  <1>2. CASE UNCHANGED vars \/ Antmode \/ StartHold \/ HoldEnds \/ Apply \/ Offline \/ Steady
    BY <1>1, <1>2 DEF vars, Antmode, NewSeq, PublishTarget, Unlock, StartHold, HoldEnds, Apply,
                      Offline, Steady
  <1>3. ASSUME NEW a \in Readbacks, NEW m \in BOOLEAN, Observe(a, m) PROVE Discipline'
    <2>1. moveMu' = moveMu
      BY <1>3 DEF Observe
    <2>2. UNCHANGED pc \/ Goto("reader", "save")
      BY <1>3, Zenon DEF Observe
    <2>3. CASE UNCHANGED pc
      BY <2>1, <2>3 DEF Discipline
    <2>4. CASE Goto("reader", "save")
      BY <2>1, <2>4, OwnPlace, Constants DEF Discipline
    <2> QED
      BY <2>2, <2>3, <2>4
  <1>4. CASE Decide
    <2>1. moveMu = "free" /\ moveMu' = "loop" /\ pc["loop"].at = "idle"
      BY <1>4 DEF Decide, MoveFree
    <2>2. Goto("loop", "save") \/ Enter("loop", "park")
      BY <1>4 DEF Decide
    <2> QED
      BY <2>1, <2>2, OwnPlace, Constants DEF Discipline
  <1>5. CASE ParkWritten
    BY <1>5, OwnPlace, Constants DEF ParkWritten, Discipline
  <1>6. CASE ParkFailed \/ Restop
    BY <1>6, OwnPlace, Constants DEF ParkFailed, Restop, Discipline
  <1>7. CASE Check
    <2>1. pc["loop"].at = "check"
      BY <1>7 DEF Check
    <2>2. \/ Goto("loop", "restop") /\ moveMu' = moveMu
          \/ Leave("loop") /\ moveMu' = "free"
      BY <1>7 DEF Check
    <2> QED
      BY <2>1, <2>2, OwnPlace, Constants DEF Discipline
  <1>8. ASSUME NEW c \in Clients, Move(c) PROVE Discipline'
    BY <1>8, OwnPlace, Constants DEF Move, Discipline
  <1>9. ASSUME NEW c \in Clients, MoveWritten(c) PROVE Discipline'
    BY <1>9, OwnPlace, Constants DEF MoveWritten, Discipline
  <1>10. ASSUME NEW c \in Clients, NEW a \in Targets, Nudge(c, a) PROVE Discipline'
    <2>1. moveMu = "free" /\ moveMu' = c
      BY <1>10 DEF Nudge, MoveFree
    <2>2. Enter(c, "nudgeSave") \/ Enter(c, "again")
      BY <1>10 DEF Nudge
    <2> QED
      BY <2>1, <2>2, OwnPlace, Constants DEF Discipline
  <1>11. ASSUME NEW c \in Clients, NudgeWritten(c) PROVE Discipline'
    BY <1>11, OwnPlace, Constants DEF NudgeWritten, Discipline
  <1>12. ASSUME NEW c \in Clients, Stop(c) PROVE Discipline'
    <2>1. moveMu' = moveMu /\ pc[c].at = "idle"
      BY <1>12 DEF Stop
    <2>2. Goto(c, "cancel") \/ Goto(c, "stop")
      BY <1>12 DEF Stop
    <2> QED
      BY <2>1, <2>2, OwnPlace, Constants DEF Discipline
  <1>13. ASSUME NEW c \in Clients, StopWritten(c) PROVE Discipline'
    <2>1. moveMu' = moveMu /\ pc[c].at \in {"stop", "cancel"}
      BY <1>13 DEF StopWritten
    <2>2. Goto(c, "cancelSave") \/ Leave(c)
      BY <1>13 DEF StopWritten
    <2> QED
      BY <2>1, <2>2, OwnPlace, Constants DEF Discipline
  <1>14. ASSUME NEW t \in Threads, pc[t].at \in Saving, Saved(t) PROVE Discipline'
    <2>1. moveMu' = IF t = "loop" THEN "free" ELSE moveMu
      BY <1>14 DEF Saved
    <2>2. CASE pc[t].at = "nudgeSave"
      <3>0. t # "loop" /\ t # "reader" /\ t \in Clients
        BY <2>2 DEF Discipline, Threads
      <3>1. Goto(t, "nudge") /\ t \in Clients
        BY <1>14, <2>2, <3>0, Zenon DEF Saved
      <3> QED
        BY <2>1, <2>2, <3>1, OwnPlace, Constants DEF Discipline
    <2>3. CASE pc[t].at # "nudgeSave"
      <3>1. Leave(t)
        BY <1>14, <2>3 DEF Saved
      <3>2. t \in Clients => pc[t].at \notin Holding
        BY <1>14, <2>3 DEF Saving
      <3>3. pc'[t].at = "idle" /\ \A u \in Threads : u # t => pc'[u] = pc[u]
        BY <3>1, OwnPlace
      <3>4. CASE t = "loop"
        <4>1. moveMu = "loop"
          BY <1>14, <3>4 DEF Discipline, Saving
        <4> QED
          BY <2>1, <3>3, <3>4, <4>1, Constants DEF Discipline
      <3>5. CASE t # "loop"
        BY <2>1, <3>2, <3>3, <3>5, Constants DEF Discipline
      <3> QED
        BY <3>4, <3>5
    <2> QED
      BY <2>2, <2>3
  <1>15. ASSUME NEW t \in Threads, SaveTake(t) PROVE Discipline'
    <2>1. UNCHANGED <<pc, moveMu>> \/ Saved(t)
      BY <1>15 DEF SaveTake
    <2>2. CASE UNCHANGED <<pc, moveMu>>
      BY <2>2 DEF Discipline
    <2> QED
      BY <1>14, <1>15, <2>1, <2>2 DEF SaveTake
  <1>16. ASSUME NEW t \in Threads, SaveWrite(t) PROVE Discipline'
    BY <1>14, <1>16 DEF SaveWrite
  <1>17. CASE Restart
    BY <1>17, Constants DEF Restart, Discipline, Idle, At
  <1> QED
    BY <1>2, <1>3, <1>4, <1>5, <1>6, <1>7, <1>8, <1>9, <1>10, <1>11, <1>12, <1>13, <1>15,
       <1>16, <1>17 DEF Next, Loop, Client

LEMMA NothingPasses ==
    TypeOK /\ Discipline /\ [Next]_vars =>
      (pc["loop"].at = "park" => wire' \in {wire, Park(pc["loop"].seq), Told("stop")})
  <1> SUFFICES ASSUME TypeOK, Discipline, [Next]_vars, pc["loop"].at = "park"
               PROVE  wire' \in {wire, Park(pc["loop"].seq), Told("stop")}
    OBVIOUS
  <1> USE DEF outside
  <1>1. moveMu = "loop"
    BY DEF Discipline
  <1>2. ASSUME UNCHANGED wire PROVE wire' \in {wire, Park(pc["loop"].seq), Told("stop")}
    BY <1>2
  <1>3. CASE UNCHANGED vars \/ Antmode \/ StartHold \/ HoldEnds \/ Apply \/ Offline \/ Steady
              \/ Decide \/ ParkFailed \/ Check \/ Restart
    BY <1>2, <1>3 DEF vars, Antmode, NewSeq, PublishTarget, Unlock, StartHold, HoldEnds, Apply,
                      Offline, Steady, Decide, ParkFailed, Check, Restart
  <1>4. CASE \E a \in Readbacks, m \in BOOLEAN : Observe(a, m)
    BY <1>2, <1>4 DEF Observe
  <1>5. CASE ParkWritten
    BY <1>5 DEF ParkWritten
  <1>6. CASE Restop
    BY <1>6 DEF Restop
  <1>7. ASSUME NEW c \in Clients, Client(c)
        PROVE  wire' \in {wire, Park(pc["loop"].seq), Told("stop")}
    <2>1. ~MoveWritten(c)
      BY <1>1 DEF MoveWritten, MoveFree
    <2>2. ~NudgeWritten(c)
      BY <1>1, Constants DEF NudgeWritten, Discipline, Holding
    <2>3. CASE Move(c) \/ (\E a \in Targets : Nudge(c, a)) \/ Stop(c)
      BY <1>2, <2>3 DEF Move, Nudge, Stop
    <2>4. CASE StopWritten(c)
      BY <2>4 DEF StopWritten, StopDevice
    <2> QED
      BY <1>7, <2>1, <2>2, <2>3, <2>4 DEF Client
  <1>8. CASE \E t \in Threads : SaveTake(t) \/ SaveWrite(t)
    BY <1>2, <1>8 DEF SaveTake, SaveWrite
  <1> QED
    BY <1>3, <1>4, <1>5, <1>6, <1>7, <1>8 DEF Next, Loop

\* No move lands between the decision to park and the park's write.
THEOREM ParkFirst == Spec => ParkLandsFirst
  <1>1. Init => TypeOK /\ Discipline
    BY TypeInit, DisciplineInit
  <1>2. TypeOK /\ Discipline /\ [Next]_vars => (TypeOK /\ Discipline)'
    BY TypeStep, DisciplineStep
  <1>3. TypeOK /\ Discipline /\ [Next]_vars =>
          [pc["loop"].at = "park" =>
             wire' \in {wire, Park(pc["loop"].seq), Told("stop")}]_vars
    BY NothingPasses
  <1> QED
    BY <1>1, <1>2, <1>3, PTL DEF Spec, ParkLandsFirst
-----------------------------------------------------------------------------
(* Stops. *)

\* While a cancelled park is the last command, a stop is still to come.
StopDue == \/ \E c \in Clients : pc[c].at = "cancel"
           \/ pc["loop"].at = "restop"
           \/ pc["loop"].at = "check" /\ pc["loop"].seq = park.seq

StopInv == park.cancelled /\ "stop" \notin warned /\ wire = Park(park.seq) => StopDue

LEMMA StopInit == Init => StopInv
  BY DEF Init, StopInv, Fresh

\* The step of a goroutine that is not about to stop the device leaves StopDue alone.
LEMMA StopKept ==
    ASSUME TypeOK, StopDue, park'.seq = park.seq, NEW t \in Threads,
           pc[t].at \notin {"cancel", "restop", "check"},
           \A u \in Threads : u # t => pc'[u] = pc[u]
    PROVE  StopDue'
  BY Constants DEF StopDue

LEMMA StopStep == TypeOK /\ StopInv /\ [Next]_vars => StopInv'
  <1> SUFFICES ASSUME TypeOK, StopInv, [Next]_vars,
                      park'.cancelled, "stop" \notin warned', wire' = Park(park'.seq)
               PROVE  StopDue'
    BY DEF StopInv
  <1> USE DEF books, threads, outside
  <1>1. \A n : Park(n) # Told("stop") /\ Park(n) # Told("move")
    BY DEF Park, Told
  <1>2. ASSUME park'.cancelled = park.cancelled, park'.seq = park.seq, UNCHANGED <<warned, wire>>
        PROVE  StopDue
    BY <1>2 DEF StopInv
  <1>3. CASE UNCHANGED vars \/ Antmode \/ StartHold \/ HoldEnds \/ Steady
    <2>1. UNCHANGED <<park, warned, wire, pc>>
      BY <1>3 DEF vars, Antmode, NewSeq, PublishTarget, Unlock, StartHold, HoldEnds, Steady
    <2> QED
      BY <1>2, <2>1 DEF StopDue
  <1>4. CASE Apply
    <2>1. Fresh(0, NoAz).cancelled = FALSE
      BY DEF Fresh
    <2>2. [Fresh(retained.seq, retained.az) EXCEPT !.sent = Matches(finished, retained),
                                                   !.done = Matches(finished, retained)].cancelled = FALSE
      BY DEF Fresh
    <2>3. park' = park
      BY <1>4, <2>1, <2>2 DEF Apply
    <2> QED
      BY <1>2, <1>4, <2>3 DEF Apply, StopDue
  <1>5. ASSUME NEW a \in Readbacks, NEW m \in BOOLEAN, Observe(a, m) PROVE StopDue'
    <2>1. UNCHANGED <<books, pc>> \/ (Finish(park, "arrived") /\ Goto("reader", "save"))
      BY <1>5, Zenon DEF Observe
    <2>2. park'.cancelled = park.cancelled /\ park'.seq = park.seq
      BY <2>1 DEF Finish, TypeOK, Parks
    <2>3. pc["reader"].at = "idle" /\ UNCHANGED <<wire, warned>>
      BY <1>5 DEF Observe
    <2>4. \A u \in Threads : u # "reader" => pc'[u] = pc[u]
      BY <2>1, OwnPlace, Constants
    <2> QED
      BY <1>2, <2>2, <2>3, <2>4, StopKept, Constants
  <1>6. CASE Offline
    <2>1. park'.cancelled = park.cancelled /\ park'.seq = park.seq
      BY <1>6 DEF Offline, TypeOK, Parks
    <2> QED
      BY <1>2, <1>6, <2>1 DEF Offline, StopDue
  <1>7. CASE Decide
    <2>1. \/ Finish([park EXCEPT !.sent = TRUE], "arrived") /\ Goto("loop", "save")
          \/ park' = [park EXCEPT !.sent = TRUE] /\ Enter("loop", "park")
      BY <1>7 DEF Decide
    <2>2. park'.cancelled = park.cancelled /\ park'.seq = park.seq
      BY <2>1 DEF Finish, TypeOK, Parks
    <2>3. pc["loop"].at = "idle" /\ UNCHANGED <<wire, warned>>
      BY <1>7 DEF Decide
    <2>4. \A u \in Threads : u # "loop" => pc'[u] = pc[u]
      BY <2>1, OwnPlace, Constants
    <2> QED
      BY <1>2, <2>2, <2>3, <2>4, StopKept, Constants
  <1>8. CASE ParkWritten
    <2>1. pc["loop"].seq = park.seq /\ UNCHANGED park
      BY <1>8 DEF ParkWritten, Park
    <2>2. pc'["loop"].at = "check" /\ pc'["loop"].seq = pc["loop"].seq
      BY <1>8, Constants DEF ParkWritten, Goto, TypeOK, PCs
    <2> QED
      BY <2>1, <2>2 DEF StopDue
  <1>9. CASE ParkFailed
    <2>1. park'.cancelled = park.cancelled /\ park'.seq = park.seq
      BY <1>9 DEF ParkFailed, Unsent, TypeOK, Parks
    <2>2. pc["loop"].at = "park" /\ UNCHANGED <<wire, warned>>
      BY <1>9 DEF ParkFailed
    <2>3. \A u \in Threads : u # "loop" => pc'[u] = pc[u]
      BY <1>9, OwnPlace, Constants DEF ParkFailed
    <2> QED
      BY <1>2, <2>1, <2>2, <2>3, StopKept, Constants
  <1>10. CASE Check
    <2>1. UNCHANGED <<park, wire, warned>> /\ StopDue
      BY <1>2, <1>10 DEF Check
    <2>2. CASE Overtaken
      <3>1. pc'["loop"].at = "restop"
        BY <1>10, <2>2, OwnPlace, Constants DEF Check
      <3> QED
        BY <3>1 DEF StopDue
    <2>3. CASE ~Overtaken
      <3>1. pc["loop"].seq # park.seq
        BY <2>1, <2>3 DEF Overtaken
      <3>2. PICK c \in Clients : pc[c].at = "cancel"
        BY <1>10, <2>1, <3>1 DEF StopDue, Check
      <3>3. pc'[c] = pc[c]
        BY <1>10, <2>3, OwnPlace, Constants DEF Check
      <3> QED
        BY <3>2, <3>3 DEF StopDue
    <2> QED
      BY <2>2, <2>3
  <1>11. StopDevice => FALSE
    BY <1>1 DEF StopDevice
  <1>12. CASE Restop
    BY <1>11, <1>12 DEF Restop
  <1>13. ASSUME NEW c \in Clients, Move(c) PROVE StopDue'
    <2>1. pc[c].at = "idle" /\ UNCHANGED <<park, wire, warned>>
      BY <1>13 DEF Move
    <2>2. \A u \in Threads : u # c => pc'[u] = pc[u]
      BY <1>13, OwnPlace, Constants DEF Move
    <2> QED
      BY <1>2, <2>1, <2>2, StopKept, Constants
  <1>14. ASSUME NEW c \in Clients, MoveWritten(c) PROVE StopDue'
    <2>1. pc[c].at = "move" /\ UNCHANGED <<park, wire, warned>>
      BY <1>1, <1>14 DEF MoveWritten
    <2>2. \A u \in Threads : u # c => pc'[u] = pc[u]
      BY <1>14, OwnPlace, Constants DEF MoveWritten
    <2> QED
      BY <1>2, <2>1, <2>2, StopKept, Constants
  <1>15. ASSUME NEW c \in Clients, NEW a \in Targets, Nudge(c, a) PROVE StopDue'
    <2>1. \/ Finish([park EXCEPT !.sent = TRUE], "nudged") /\ Enter(c, "nudgeSave")
          \/ UNCHANGED books /\ Enter(c, "again")
      BY <1>15 DEF Nudge
    <2>2. park'.cancelled = park.cancelled /\ park'.seq = park.seq
      BY <2>1 DEF Finish, TypeOK, Parks
    <2>3. pc[c].at = "idle" /\ UNCHANGED <<wire, warned>>
      BY <1>15 DEF Nudge
    <2>4. \A u \in Threads : u # c => pc'[u] = pc[u]
      BY <2>1, OwnPlace, Constants
    <2> QED
      BY <1>2, <2>2, <2>3, <2>4, StopKept, Constants
  <1>16. ASSUME NEW c \in Clients, NudgeWritten(c) PROVE StopDue'
    <2>1. pc[c].at \in {"nudge", "again"} /\ UNCHANGED <<park, wire, warned>>
      BY <1>1, <1>16 DEF NudgeWritten
    <2>2. \A u \in Threads : u # c => pc'[u] = pc[u]
      BY <1>16, OwnPlace, Constants DEF NudgeWritten
    <2> QED
      BY <1>2, <2>1, <2>2, StopKept, Constants
  <1>17. ASSUME NEW c \in Clients, Stop(c) PROVE StopDue'
    <2>1. CASE Locked(st) /\ Underway
      <3>1. pc'[c].at = "cancel"
        BY <1>17, <2>1, OwnPlace, Constants DEF Stop
      <3> QED
        BY <3>1 DEF StopDue
    <2>2. CASE ~(Locked(st) /\ Underway)
      <3>1. pc[c].at = "idle" /\ UNCHANGED <<park, wire, warned>> /\ Goto(c, "stop")
        BY <1>17, <2>2 DEF Stop
      <3>2. \A u \in Threads : u # c => pc'[u] = pc[u]
        BY <3>1, OwnPlace, Constants
      <3> QED
        BY <1>2, <3>1, <3>2, StopKept, Constants
    <2> QED
      BY <2>1, <2>2
  <1>18. ASSUME NEW c \in Clients, StopWritten(c) PROVE StopDue'
    BY <1>11, <1>18 DEF StopWritten
  <1>19. ASSUME NEW t \in Threads, SaveTake(t) \/ SaveWrite(t) PROVE StopDue'
    <2>1. pc[t].at \notin {"cancel", "restop", "check"}
      BY <1>19 DEF SaveTake, SaveWrite, Saving
    <2>2. UNCHANGED <<park, wire>> /\ "stop" \notin warned
      BY <1>19 DEF SaveTake, SaveWrite
    <2>3. UNCHANGED pc \/ Goto(t, "nudge") \/ Leave(t)
      BY <1>19 DEF SaveTake, SaveWrite, Saved
    <2>4. \A u \in Threads : u # t => pc'[u] = pc[u]
      BY <2>3, OwnPlace
    <2>5. StopDue
      BY <2>2 DEF StopInv
    <2> QED
      BY <2>1, <2>2, <2>4, <2>5, StopKept
  <1>20. CASE Restart
    BY <1>20 DEF Restart, Fresh
  <1> QED
    BY <1>3, <1>4, <1>5, <1>6, <1>7, <1>8, <1>9, <1>10, <1>12, <1>13, <1>14, <1>15, <1>16,
       <1>17, <1>18, <1>19, <1>20 DEF Next, Loop, Client

\* A stop that cancelled the current park wins the race with the park's write.
THEOREM StopsWin == Spec => []StopWins
  <1>1. Init => TypeOK /\ StopInv
    BY TypeInit, StopInit
  <1>2. TypeOK /\ StopInv /\ [Next]_vars => (TypeOK /\ StopInv)'
    BY TypeStep, StopStep
  <1>3. StopInv => StopWins
    BY DEF StopInv, StopWins, StopDue
  <1> QED
    BY <1>1, <1>2, <1>3, PTL DEF Spec
-----------------------------------------------------------------------------
(* The records of finished parks: park.json never goes back, and what it      *)
(* finishes is not sent again.                                                 *)

\* antmode's seq is the newest, and a lock is known by its seq.
LockInv ==
    /\ Locked(retained) => retained.seq = lastSeq
    /\ Locked(st) => park.seq = st.seq /\ st.seq <= lastSeq
    /\ ~Locked(st) => park = Fresh(0, NoAz)

\* No record, wherever it is, is newer than the lock that is in force.
BoundInv ==
    \A n \in {lastSeq} \cup (IF Locked(st) THEN {st.seq} ELSE {}) :
        file.seq <= n /\ finished.seq <= n /\ \A t \in Threads : writing[t].seq <= n

\* What will be written is not older than what is written.
OrderInv ==
    /\ dirty => file.seq <= finished.seq /\ \A t \in Threads : writing[t].seq <= finished.seq
    /\ \A t \in Threads : writing[t] # NoRecord =>
         /\ file.seq <= writing[t].seq
         /\ \A u \in Threads \ {t} : writing[u] = NoRecord

RecordInv == LockInv /\ BoundInv /\ OrderInv

LEMMA SeqTypes ==
    ASSUME TypeOK
    PROVE  /\ lastSeq \in Int /\ st.seq \in Int /\ retained.seq \in Int /\ park.seq \in Int
           /\ file.seq \in Int /\ finished.seq \in Int
           /\ \A t \in Threads : writing[t].seq \in Int /\ writing[t].seq >= 0
           /\ lastSeq >= 0 /\ file.seq >= 0 /\ finished.seq >= 0 /\ st.seq >= 0
  <1>1. \A n \in Seqs : n \in Int /\ n >= 0
    BY Constants DEF Seqs
  <1>2. /\ lastSeq \in Seqs /\ st.seq \in Seqs /\ retained.seq \in Seqs /\ park.seq \in Seqs
        /\ file.seq \in Seqs /\ finished.seq \in Seqs
        /\ \A t \in Threads : writing[t].seq \in Seqs
    BY DEF TypeOK, States, Parks, Records
  <1> QED
    BY <1>1, <1>2

\* BoundInv for the two bounds.
LEMMA Bounds ==
    BoundInv <=>
      /\ file.seq <= lastSeq /\ finished.seq <= lastSeq /\ \A t \in Threads : writing[t].seq <= lastSeq
      /\ Locked(st) => /\ file.seq <= st.seq /\ finished.seq <= st.seq
                       /\ \A t \in Threads : writing[t].seq <= st.seq
  BY DEF BoundInv

LEMMA RecordInit == Init => RecordInv
  <1> SUFFICES ASSUME Init PROVE RecordInv
    OBVIOUS
  <1>1. ~Locked(retained) /\ ~Locked(st)
    BY DEF Init, Locked, NormalState
  <1>2. NoRecord.seq = 0 /\ \A t \in Threads : writing[t] = NoRecord
    BY DEF Init, NoRecord
  <1>3. LockInv
    BY <1>1 DEF Init, LockInv
  <1>4. BoundInv
    BY <1>1, <1>2, Bounds DEF Init
  <1>5. OrderInv
    BY <1>2 DEF Init, OrderInv
  <1> QED
    BY <1>3, <1>4, <1>5 DEF RecordInv

\* A step that at most marks the park as sent or not.
LEMMA Marked ==
    ASSUME RecordInv, park'.seq = park.seq, ~Locked(st) => park' = park,
           UNCHANGED <<retained, lastSeq, st, finished, dirty, file, writing>>
    PROVE  RecordInv'
  <1>1. LockInv'
    BY DEF RecordInv, LockInv, Locked
  <1>2. BoundInv'
    BY DEF RecordInv, BoundInv, Locked
  <1>3. OrderInv'
    BY DEF RecordInv, OrderInv
  <1> QED
    BY <1>1, <1>2, <1>3 DEF RecordInv

\* A park is finished under a lock.
LEMMA Finished ==
    ASSUME TypeOK, RecordInv, Locked(st), NEW p \in Parks, p.seq = park.seq, NEW o, Finish(p, o),
           UNCHANGED <<retained, lastSeq, st, file, writing>>
    PROVE  RecordInv'
  <1>1. finished'.seq = st.seq /\ park'.seq = park.seq /\ Locked(st)' /\ st' = st
    BY DEF Finish, Parks, RecordInv, LockInv, Locked
  <1>2. LockInv'
    BY <1>1 DEF RecordInv, LockInv, Locked
  <1>3. /\ file.seq <= st.seq /\ st.seq <= lastSeq
        /\ \A t \in Threads : writing[t].seq <= st.seq
    BY Bounds DEF RecordInv, LockInv
  <1>4. \A n \in {lastSeq, st.seq} :
           file.seq <= n /\ finished'.seq <= n /\ \A t \in Threads : writing[t].seq <= n
    BY <1>1, <1>3, SeqTypes, Bounds DEF RecordInv
  <1>5. BoundInv'
    BY <1>1, <1>4 DEF BoundInv
  <1>6. OrderInv'
    BY <1>1, <1>3 DEF RecordInv, OrderInv
  <1> QED
    BY <1>2, <1>5, <1>6 DEF RecordInv

\* A park that is underway is that of a lock.
LEMMA UnderLock ==
    ASSUME RecordInv, Underway PROVE Locked(st)
  BY DEF RecordInv, LockInv, Underway, Fresh

LEMMA RecordStep == TypeOK /\ RecordInv /\ [Next]_vars => RecordInv'
  <1> SUFFICES ASSUME TypeOK, RecordInv, [Next]_vars PROVE RecordInv'
    OBVIOUS
  <1> USE DEF antmode, lock, books, threads, outside
  <1>1. CASE UNCHANGED vars \/ StartHold \/ HoldEnds \/ Steady
    BY <1>1, Marked DEF vars, StartHold, HoldEnds, Steady
  <1>2. ASSUME retained' = NormalState \/ (retained' = [retained EXCEPT !.az = retained'.az]
                                           /\ Locked(retained)),
               UNCHANGED <<lastSeq, st, park, finished, dirty, file, writing>>
        PROVE  RecordInv'
    <2>1. Locked(retained') => retained'.seq = lastSeq
      BY <1>2 DEF RecordInv, LockInv, Locked, NormalState, TypeOK, States
    <2>2. LockInv'
      BY <1>2, <2>1 DEF RecordInv, LockInv, Locked
    <2>3. BoundInv' /\ OrderInv'
      BY <1>2 DEF RecordInv, BoundInv, OrderInv, Locked
    <2> QED
      BY <2>2, <2>3 DEF RecordInv
  <1>3. CASE Unlock \/ \E a \in ParkAzs : PublishTarget(a)
    <2>1. CASE Unlock
      BY <1>2, <2>1 DEF Unlock
    <2>2. ASSUME NEW a \in ParkAzs, PublishTarget(a) PROVE RecordInv'
      <3>1. retained' = [retained EXCEPT !.az = retained'.az] /\ Locked(retained)
        BY <2>2 DEF PublishTarget, TypeOK, States
      <3> QED
        BY <1>2, <2>2, <3>1 DEF PublishTarget
    <2> QED
      BY <1>3, <2>1, <2>2
  <1>4. ASSUME NEW m \in Modes \ {"normal"}, NewSeq(m) PROVE RecordInv'
    <2>1. /\ retained'.seq = lastSeq' /\ lastSeq' = lastSeq + 1
          /\ UNCHANGED <<st, park, finished, dirty, file, writing>>
      BY <1>4 DEF NewSeq
    <2>2. LockInv'
      BY <2>1, SeqTypes DEF RecordInv, LockInv, Locked
    <2>3. BoundInv'
      <3>1. \A n \in Int : n <= lastSeq => n <= lastSeq'
        BY <2>1, SeqTypes
      <3>2. file.seq <= lastSeq' /\ finished.seq <= lastSeq' /\ \A t \in Threads : writing[t].seq <= lastSeq'
        BY <3>1, SeqTypes, Bounds DEF RecordInv
      <3> QED
        BY <2>1, <3>2, Bounds DEF RecordInv, BoundInv, Locked
    <2>4. OrderInv'
      BY <2>1 DEF RecordInv, OrderInv
    <2> QED
      BY <2>2, <2>3, <2>4 DEF RecordInv
  <1>5. CASE Apply
    <2>1. st' = retained /\ UNCHANGED <<retained, lastSeq, finished, dirty, file, writing>>
      BY <1>5 DEF Apply
    <2>2. Locked(retained) => park'.seq = retained.seq
      BY <1>5 DEF Apply, Fresh
    <2>3. ~Locked(retained) => park' = Fresh(0, NoAz)
      BY <1>5 DEF Apply
    <2>4. LockInv'
      BY <2>1, <2>2, <2>3, SeqTypes DEF RecordInv, LockInv, Locked
    <2>5. Locked(retained) => retained.seq = lastSeq
      BY DEF RecordInv, LockInv
    <2>6. BoundInv'
      BY <2>1, <2>5 DEF RecordInv, BoundInv, Locked
    <2>7. OrderInv'
      BY <2>1 DEF RecordInv, OrderInv
    <2> QED
      BY <2>4, <2>6, <2>7 DEF RecordInv
  <1>6. ASSUME NEW a \in Readbacks, NEW m \in BOOLEAN, Observe(a, m) PROVE RecordInv'
    <2>1. UNCHANGED books \/ (Finish(park, "arrived") /\ Underway)
      BY <1>6, Zenon DEF Observe
    <2>2. UNCHANGED <<retained, lastSeq, st, file, writing>>
      BY <1>6 DEF Observe
    <2>3. CASE UNCHANGED books
      BY <2>2, <2>3, Marked
    <2>4. CASE Finish(park, "arrived") /\ Underway
      BY <2>2, <2>4, UnderLock, Finished DEF TypeOK
    <2> QED
      BY <2>1, <2>3, <2>4
  <1>7. CASE Offline
    <2>1. park'.seq = park.seq /\ (~Underway => park' = park)
      BY <1>7 DEF Offline, TypeOK, Parks
    <2>2. UNCHANGED <<retained, lastSeq, st, finished, dirty, file, writing>>
      BY <1>7 DEF Offline
    <2> QED
      BY <2>1, <2>2, UnderLock, Marked
  <1>8. CASE Decide
    <2>1. /\ Locked(st) /\ UNCHANGED <<retained, lastSeq, st, file, writing>>
          /\ [park EXCEPT !.sent = TRUE] \in Parks /\ [park EXCEPT !.sent = TRUE].seq = park.seq
      BY <1>8 DEF Decide, Ready, TypeOK, Parks
    <2>2. CASE Near(az, park.az, ArriveTol)
      BY <1>8, <2>1, <2>2, Finished DEF Decide
    <2>3. CASE ~Near(az, park.az, ArriveTol)
      BY <1>8, <2>1, <2>3, Marked DEF Decide
    <2> QED
      BY <2>2, <2>3
  <1>9. CASE ParkFailed
    <2>1. park'.seq = park.seq /\ (park = Fresh(0, NoAz) => park' = park)
      BY <1>9 DEF ParkFailed, Unsent, TypeOK, Parks, Fresh
    <2>2. UNCHANGED <<retained, lastSeq, st, finished, dirty, file, writing>>
      BY <1>9 DEF ParkFailed
    <2> QED
      BY <2>1, <2>2, Marked DEF RecordInv, LockInv
  <1>10. CASE ParkWritten \/ Check \/ Restop
    BY <1>10, Marked DEF ParkWritten, Check, Restop
  <1>11. ASSUME NEW c \in Clients, Move(c) \/ MoveWritten(c) \/ NudgeWritten(c) \/ StopWritten(c)
         PROVE  RecordInv'
    BY <1>11, Marked DEF Move, MoveWritten, NudgeWritten, StopWritten
  <1>12. ASSUME NEW c \in Clients, NEW a \in Targets, Nudge(c, a) PROVE RecordInv'
    <2>1. Locked(st) /\ UNCHANGED <<retained, lastSeq, st, file, writing>>
      BY <1>12 DEF Nudge, Locked
    <2>2. CASE park.done
      BY <1>12, <2>1, <2>2, Marked DEF Nudge
    <2>3. CASE ~park.done
      <3> DEFINE p == [park EXCEPT !.sent = TRUE, !.done = TRUE]
      <3>1. p \in Parks /\ p.seq = park.seq
        BY DEF TypeOK, Parks
      <3>2. Finish(p, "nudged")
        BY <1>12, <2>3 DEF Nudge, Finish, TypeOK, Parks
      <3> QED
        BY <2>1, <3>1, <3>2, Finished
    <2> QED
      BY <2>2, <2>3
  <1>13. ASSUME NEW c \in Clients, Stop(c) PROVE RecordInv'
    <2>1. UNCHANGED <<retained, lastSeq, st, file, writing>>
      BY <1>13 DEF Stop
    <2>2. CASE Locked(st) /\ Underway
      <3>1. [park EXCEPT !.cancelled = TRUE] \in Parks /\ [park EXCEPT !.cancelled = TRUE].seq = park.seq
        BY <2>2 DEF TypeOK, Parks, Underway
      <3> QED
        BY <1>13, <2>1, <2>2, <3>1, Finished DEF Stop
    <2>3. CASE ~(Locked(st) /\ Underway)
      BY <1>13, <2>1, <2>3, Marked DEF Stop
    <2> QED
      BY <2>2, <2>3
  <1>14. ASSUME NEW t \in Threads, SaveTake(t) PROVE RecordInv'
    <2>1. UNCHANGED <<retained, lastSeq, st, park, finished, file>> /\ dirty' = FALSE
      BY <1>14 DEF SaveTake
    <2>2. CASE ~dirty
      <3>1. writing' = writing
        BY <1>14, <2>2 DEF SaveTake
      <3>2. LockInv' /\ BoundInv'
        BY <2>1, <3>1 DEF RecordInv, LockInv, BoundInv, Locked
      <3>3. OrderInv'
        BY <2>1, <3>1 DEF RecordInv, OrderInv
      <3> QED
        BY <3>2, <3>3 DEF RecordInv
    <2>3. CASE dirty
      <3>1. /\ writing' = [writing EXCEPT ![t] = finished]
            /\ \A u \in Threads : writing[u] = NoRecord
            /\ file.seq <= finished.seq
        BY <1>14, <2>3 DEF SaveTake, SaveFree, RecordInv, OrderInv
      <3>2. writing'[t] = finished /\ \A u \in Threads \ {t} : writing'[u] = writing[u]
        BY <3>1 DEF TypeOK
      <3>3. LockInv'
        BY <2>1 DEF RecordInv, LockInv, Locked
      <3>4. BoundInv'
        BY <2>1, <3>2 DEF RecordInv, BoundInv, Locked
      <3>5. OrderInv'
        BY <2>1, <3>1, <3>2 DEF OrderInv
      <3> QED
        BY <3>3, <3>4, <3>5 DEF RecordInv
    <2> QED
      BY <2>2, <2>3
  <1>15. ASSUME NEW t \in Threads, SaveWrite(t) PROVE RecordInv'
    <2>1. /\ UNCHANGED <<retained, lastSeq, st, park, finished, dirty>>
          /\ file' \in {file, writing[t]} /\ writing[t] # NoRecord
      BY <1>15 DEF SaveWrite
    <2>2. writing'[t] = NoRecord /\ \A u \in Threads \ {t} : writing'[u] = NoRecord
      BY <1>15 DEF SaveWrite, TypeOK, RecordInv, OrderInv
    <2>3. NoRecord.seq = 0
      BY DEF NoRecord
    <2>4. LockInv'
      BY <2>1 DEF RecordInv, LockInv, Locked
    <2>5. BoundInv'
      <3>1. file'.seq <= lastSeq /\ finished.seq <= lastSeq /\ 0 <= lastSeq
        BY <2>1, SeqTypes, Bounds DEF RecordInv
      <3>2. Locked(st) => file'.seq <= st.seq /\ finished.seq <= st.seq /\ 0 <= st.seq
        BY <2>1, SeqTypes, Bounds DEF RecordInv
      <3> QED
        BY <2>1, <2>2, <2>3, <3>1, <3>2 DEF BoundInv, Locked
    <2>6. OrderInv'
      <3>1. dirty => file'.seq <= finished.seq /\ 0 <= finished.seq
        BY <2>1, SeqTypes DEF RecordInv, OrderInv
      <3> QED
        BY <2>1, <2>2, <2>3, <3>1 DEF OrderInv
    <2> QED
      BY <2>4, <2>5, <2>6 DEF RecordInv
  <1>16. CASE Restart
    <2>1. /\ UNCHANGED <<retained, lastSeq, file>> /\ ~Locked(st)' /\ ~dirty'
          /\ park' = Fresh(0, NoAz)
          /\ finished' \in {file, NoRecord} /\ \A t \in Threads : writing'[t] = NoRecord
      BY <1>16 DEF Restart, Locked, NormalState
    <2>2. NoRecord.seq = 0
      BY DEF NoRecord
    <2>3. LockInv'
      BY <2>1 DEF RecordInv, LockInv, Locked
    <2>4. BoundInv'
      <3>1. finished'.seq <= lastSeq /\ file.seq <= lastSeq /\ 0 <= lastSeq
        BY <2>1, <2>2, SeqTypes, Bounds DEF RecordInv
      <3> QED
        BY <2>1, <2>2, <3>1 DEF BoundInv
    <2>5. OrderInv'
      BY <2>1 DEF OrderInv
    <2> QED
      BY <2>3, <2>4, <2>5 DEF RecordInv
  <1> QED
    BY <1>1, <1>3, <1>4, <1>5, <1>6, <1>7, <1>8, <1>9, <1>10, <1>11, <1>12, <1>13, <1>14,
       <1>15, <1>16 DEF Next, Antmode, Loop, Client

\* A file write never replaces a newer record.
LEMMA FileStep == TypeOK /\ RecordInv /\ [Next]_vars => file'.seq >= file.seq
  <1> SUFFICES ASSUME TypeOK, RecordInv, [Next]_vars PROVE file'.seq >= file.seq
    OBVIOUS
  <1> USE DEF outside
  <1>1. ASSUME NEW t \in Threads, SaveWrite(t) PROVE file'.seq >= file.seq
    <2>1. file' \in {file, writing[t]} /\ writing[t] # NoRecord
      BY <1>1 DEF SaveWrite
    <2>2. file.seq <= writing[t].seq
      BY <2>1 DEF RecordInv, OrderInv
    <2> QED
      BY <2>1, <2>2, SeqTypes
  <1>2. ASSUME file' = file PROVE file'.seq >= file.seq
    BY <1>2, SeqTypes
  <1>3. CASE UNCHANGED vars \/ Antmode \/ StartHold \/ HoldEnds \/ Apply \/ Offline \/ Steady
              \/ Restart
    BY <1>2, <1>3 DEF vars, Antmode, NewSeq, PublishTarget, Unlock, StartHold, HoldEnds, Apply,
                      Offline, Steady, Restart
  <1>4. CASE \E a \in Readbacks, m \in BOOLEAN : Observe(a, m)
    BY <1>2, <1>4 DEF Observe
  <1>5. CASE Loop
    BY <1>2, <1>5 DEF Loop, Decide, ParkWritten, ParkFailed, Check, Restop
  <1>6. CASE \E c \in Clients : Client(c)
    BY <1>2, <1>6 DEF Client, Move, MoveWritten, Nudge, NudgeWritten, Stop, StopWritten
  <1>7. CASE \E t \in Threads : SaveTake(t)
    BY <1>2, <1>7 DEF SaveTake
  <1> QED
    BY <1>1, <1>3, <1>4, <1>5, <1>6, <1>7 DEF Next

\* park.json never goes back to the record of an earlier seq.
THEOREM NeverOlder == Spec => RecordsInOrder
  <1>1. Init => TypeOK /\ RecordInv
    BY TypeInit, RecordInit
  <1>2. TypeOK /\ RecordInv /\ [Next]_vars => (TypeOK /\ RecordInv)'
    BY TypeStep, RecordStep
  <1>3. TypeOK /\ RecordInv /\ [Next]_vars => [file'.seq >= file.seq]_file
    BY FileStep
  <1> QED
    BY <1>1, <1>2, <1>3, PTL DEF Spec, RecordsInOrder
-----------------------------------------------------------------------------
(* What is finished is not sent again. *)

\* The park is that of the lock in force, which is antmode's, or was.
AimInv ==
    /\ Locked(st) => park.az = st.az
    /\ Locked(retained) => lastSeq > 0
    /\ Locked(st) /\ Locked(retained) /\ st.seq = lastSeq =>
         st.mode = retained.mode /\ st.az \in {NoAz, retained.az}

\* Only a goroutine that saves has a record to write.
SavingInv == \A t \in Threads : writing[t] # NoRecord => pc[t].at \in Saving

\* What the gate remembers is the newest record there is.
Newest == file.seq <= finished.seq /\ \A t \in Threads : writing[t].seq <= finished.seq

\* A record of antmode's present lock finishes the park of that lock, aimed or still to be.
Fits(r) ==
    Locked(retained) /\ r.seq = lastSeq =>
      /\ r.mode = retained.mode
      /\ r.outcome = "nudged" \/ (r.az # NoAz /\ r.az = retained.az)

Fit == Fits(finished) /\ Fits(file) /\ \A t \in Threads : Fits(writing[t])

\* A park that is to be sent has no record.
Undone == park.az # NoAz /\ ~park.done => finished.seq # park.seq

\* The record of a nudge is on disk before the nudge goes out.
NudgeSaved ==
    /\ ~dirty => \/ finished.seq <= file.seq
                 \/ \E t \in Threads : writing[t] # NoRecord /\ finished.seq <= writing[t].seq
    /\ \A t \in Threads :
         /\ pc[t].at = "nudgeSave" =>
              pc[t].seq <= finished.seq /\ (writing[t] # NoRecord => pc[t].seq <= writing[t].seq)
         /\ pc[t].at = "nudge" => pc[t].seq <= file.seq
    /\ \A n \in nudged : n <= file.seq

Recorded == "record" \notin warned => Newest /\ Fit /\ Undone /\ NudgeSaved

OnceInv == AimInv /\ SavingInv /\ Recorded

\* Where the goroutines go in a step that saves nothing.
Moves ==
    \A t \in Threads :
       \/ pc'[t] = pc[t]
       \/ /\ pc[t].at \notin Saving /\ pc'[t].at # "nudge"
          /\ pc'[t].at = "nudgeSave" => pc'[t].seq = finished'.seq

\* The steps that finish a park, and those that leave the records alone.
Finishes ==
    /\ Locked(st) /\ UNCHANGED <<retained, lastSeq, st, file, writing, nudged, warned>> /\ Moves
    /\ \E p \in Parks, o \in Outcomes :
         /\ p.seq = park.seq /\ p.az = park.az /\ (p.az = NoAz => o = "nudged")
         /\ o # "none" /\ Finish(p, o)

Leaves ==
    /\ UNCHANGED <<retained, lastSeq, st, finished, dirty, file, writing>> /\ Moves
    /\ park'.seq = park.seq /\ park'.az = park.az /\ park'.done = park.done
    /\ "record" \in warned' <=> "record" \in warned
    /\ \A n \in nudged' : n \in nudged \/ \E t \in Threads : pc[t].at = "nudge" /\ n = pc[t].seq

LEMMA Movings ==
    ASSUME TypeOK, NEW t \in Threads, pc[t].at \notin Saving, NEW place,
           place \notin {"nudge", "nudgeSave"}, Goto(t, place) \/ Enter(t, place) \/ Leave(t)
    PROVE  Moves
  <1>1. pc'[t].at \in {place, "idle"}
    BY OwnPlace
  <1>2. \A u \in Threads \ {t} : pc'[u] = pc[u]
    BY OwnPlace
  <1> QED
    BY <1>1, <1>2 DEF Moves

\* Every step is of one of these kinds.
LEMMA Kinds ==
    ASSUME TypeOK, RecordInv, [Next]_vars
    PROVE  \/ Antmode \/ Apply \/ Restart \/ Finishes \/ Leaves
           \/ \E t \in Threads : SaveTake(t) \/ SaveWrite(t)
  <1> USE DEF antmode, lock, books, threads, outside
  <1>1. park \in Parks
    BY DEF TypeOK
  <1>2. ASSUME UNCHANGED <<retained, lastSeq, st, park, finished, dirty, file, writing, nudged>>,
               "record" \in warned' <=> "record" \in warned, Moves
        PROVE  Leaves
    BY <1>2 DEF Leaves
  <1>3. pc' = pc => Moves
    BY DEF Moves
  <1>4. CASE UNCHANGED vars \/ StartHold \/ HoldEnds \/ Steady
    BY <1>2, <1>3, <1>4 DEF vars, StartHold, HoldEnds, Steady
  <1>5. ASSUME NEW a \in Readbacks, NEW m \in BOOLEAN, Observe(a, m) PROVE Finishes \/ Leaves
    <2>1. /\ UNCHANGED <<retained, lastSeq, st, file, writing, nudged, warned>>
          /\ pc["reader"].at = "idle"
      BY <1>5 DEF Observe
    <2>2. CASE UNCHANGED <<books, pc>>
      BY <1>2, <1>3, <2>1, <2>2
    <2>3. CASE /\ Finish(park, "arrived") /\ Goto("reader", "save")
               /\ Underway /\ park.az # NoAz
      <3>1. Moves
        BY <2>1, <2>3, Constants, Movings DEF Saving
      <3>2. Locked(st)
        BY <2>3, UnderLock
      <3> QED
        BY <1>1, <2>1, <2>3, <3>1, <3>2 DEF Finishes, Outcomes
    <2> QED
      BY <1>5, <2>2, <2>3, Zenon DEF Observe
  <1>6. CASE Offline
    <2>1. park'.seq = park.seq /\ park'.az = park.az /\ park'.done = park.done
      BY <1>1, <1>6 DEF Offline, Parks
    <2> QED
      BY <1>3, <1>6, <2>1 DEF Offline, Leaves
  <1>7. CASE Decide
    <2> DEFINE p == [park EXCEPT !.sent = TRUE]
    <2>1. /\ UNCHANGED <<retained, lastSeq, st, file, writing, nudged, warned>>
          /\ pc["loop"].at = "idle" /\ Locked(st) /\ park.az # NoAz
      BY <1>7 DEF Decide, Ready
    <2>2. p.seq = park.seq /\ p.az = park.az /\ p.done = park.done /\ p \in Parks
      BY <1>1, <1>7 DEF Parks, Decide, Ready
    <2>3. Moves
      BY <1>7, <2>1, Constants, Movings DEF Decide, Saving
    <2>4. CASE Near(az, park.az, ArriveTol)
      <3>1. Finish(p, "arrived")
        BY <1>7, <2>4 DEF Decide
      <3> HIDE DEF p
      <3> QED
        BY <2>1, <2>2, <2>3, <3>1 DEF Finishes, Outcomes
    <2>5. CASE ~Near(az, park.az, ArriveTol)
      <3>1. park' = p /\ UNCHANGED <<finished, dirty>>
        BY <1>7, <2>5 DEF Decide
      <3> HIDE DEF p
      <3> QED
        BY <2>1, <2>2, <2>3, <3>1 DEF Leaves
    <2> QED
      BY <2>4, <2>5
  <1>8. CASE ParkFailed
    <2>1. park'.seq = park.seq /\ park'.az = park.az /\ park'.done = park.done
      BY <1>1, <1>8 DEF ParkFailed, Unsent, Parks
    <2>2. Moves
      BY <1>8, Constants, Movings DEF ParkFailed, Saving
    <2> QED
      BY <1>8, <2>1, <2>2 DEF ParkFailed, Leaves
  <1>9. CASE ParkWritten \/ Check \/ Restop
    <2>1. Moves
      BY <1>3, <1>9, Constants, Movings DEF ParkWritten, Check, Restop, Saving
    <2>2. "record" \in warned' <=> "record" \in warned
      BY <1>9 DEF ParkWritten, Check, Restop, StopDevice
    <2> QED
      BY <1>2, <1>9, <2>1, <2>2 DEF ParkWritten, Check, Restop
  <1>10. ASSUME NEW c \in Clients, Move(c) \/ MoveWritten(c) PROVE Leaves
    <2>1. Moves
      BY <1>10, Constants, Movings DEF Move, MoveWritten, Saving
    <2> QED
      BY <1>2, <1>10, <2>1 DEF Move, MoveWritten
  <1>11. ASSUME NEW c \in Clients, NudgeWritten(c) PROVE Leaves
    <2>1. Moves
      BY <1>11, Constants, Movings DEF NudgeWritten, Saving
    <2>2. \A n \in nudged' : n \in nudged \/ \E t \in Threads : pc[t].at = "nudge" /\ n = pc[t].seq
      BY <1>11, Constants DEF NudgeWritten
    <2> QED
      BY <1>11, <2>1, <2>2 DEF NudgeWritten, Leaves
  <1>12. ASSUME NEW c \in Clients, StopWritten(c) PROVE Leaves
    <2>1. Moves
      BY <1>12, Constants, Movings DEF StopWritten, Saving
    <2>2. "record" \in warned' <=> "record" \in warned
      BY <1>12 DEF StopWritten, StopDevice
    <2> QED
      BY <1>2, <1>12, <2>1, <2>2 DEF StopWritten
  <1>13. ASSUME NEW c \in Clients, NEW a \in Targets, Nudge(c, a) PROVE Finishes \/ Leaves
    <2> DEFINE p == [park EXCEPT !.sent = TRUE, !.done = TRUE]
    <2>1. /\ UNCHANGED <<retained, lastSeq, st, file, writing, nudged, warned>>
          /\ pc[c].at = "idle" /\ Locked(st)
      BY <1>13 DEF Nudge, Locked
    <2>2. CASE park.done
      <3>1. Moves
        BY <1>13, <2>1, <2>2, Constants, Movings DEF Nudge, Saving
      <3> QED
        BY <1>2, <1>13, <2>1, <2>2, <3>1 DEF Nudge
    <2>3. CASE ~park.done
      <3>1. p \in Parks /\ p.seq = park.seq /\ p.az = park.az
        BY <1>1 DEF Parks
      <3>2. Finish(p, "nudged") /\ Enter(c, "nudgeSave")
        BY <1>1, <1>13, <2>3 DEF Nudge, Finish, Parks
      <3>3. finished'.seq = park.seq
        BY <3>1, <3>2 DEF Finish
      <3>4. pc'[c] = At("nudgeSave", park.seq) /\ \A u \in Threads \ {c} : pc'[u] = pc[u]
        BY <3>2, Constants DEF Enter, TypeOK
      <3>5. Moves
        BY <2>1, <3>3, <3>4 DEF Moves, At, Saving
      <3> HIDE DEF p
      <3> QED
        BY <2>1, <3>1, <3>2, <3>5 DEF Finishes, Outcomes
    <2> QED
      BY <2>2, <2>3
  <1>14. ASSUME NEW c \in Clients, Stop(c) PROVE Finishes \/ Leaves
    <2> DEFINE p == [park EXCEPT !.cancelled = TRUE]
    <2>1. /\ UNCHANGED <<retained, lastSeq, st, file, writing, nudged, warned>>
          /\ pc[c].at = "idle"
      BY <1>14 DEF Stop
    <2>2. Moves
      BY <1>14, <2>1, Constants, Movings DEF Stop, Saving
    <2>3. CASE Locked(st) /\ Underway
      <3>1. p \in Parks /\ p.seq = park.seq /\ p.az = park.az /\ p.az # NoAz
        BY <1>1, <2>3 DEF Parks, Underway
      <3>2. Finish(p, "cancelled")
        BY <1>14, <2>3 DEF Stop
      <3> HIDE DEF p
      <3> QED
        BY <2>1, <2>2, <2>3, <3>1, <3>2 DEF Finishes, Outcomes
    <2>4. CASE ~(Locked(st) /\ Underway)
      BY <1>2, <1>14, <2>1, <2>2, <2>4 DEF Stop
    <2> QED
      BY <2>3, <2>4
  <1> QED
    BY <1>4, <1>5, <1>6, <1>7, <1>8, <1>9, <1>10, <1>11, <1>12, <1>13, <1>14 DEF Next, Loop, Client

LEMMA OnceInit == Init => OnceInv
  <1> SUFFICES ASSUME Init PROVE OnceInv
    OBVIOUS
  <1>1. ~Locked(retained) /\ ~Locked(st) /\ park.az = NoAz
    BY DEF Init, Locked, NormalState, Fresh
  <1>2. \A t \in Threads : writing[t] = NoRecord /\ pc[t].at = "idle"
    BY DEF Init, Idle, At
  <1>3. AimInv /\ SavingInv
    BY <1>1, <1>2 DEF AimInv, SavingInv
  <1>4. file.seq = 0 /\ finished.seq = 0 /\ \A t \in Threads : writing[t].seq = 0
    BY <1>2 DEF Init, NoRecord
  <1>5. Newest /\ Fit /\ Undone
    BY <1>1, <1>4 DEF Newest, Fit, Fits, Undone
  <1>6. NudgeSaved
    BY <1>2, <1>4 DEF NudgeSaved, Init
  <1> QED
    BY <1>3, <1>5, <1>6 DEF OnceInv, Recorded

\* A record of antmode's lock stays so as long as nothing else is published.
LEMMA FitsKept ==
    ASSUME NEW r, Fits(r), UNCHANGED <<retained, lastSeq>> PROVE Fits(r)'
  BY DEF Fits, Locked

LEMMA AntmodeOnce == TypeOK /\ RecordInv /\ OnceInv /\ Antmode => OnceInv'
  <1> SUFFICES ASSUME TypeOK, RecordInv, OnceInv, Antmode PROVE OnceInv'
    OBVIOUS
  <1> USE DEF lock, books, threads, outside
  <1>1. UNCHANGED <<st, park, finished, dirty, file, writing, pc, nudged, warned>>
    BY DEF Antmode, Unlock, NewSeq, PublishTarget
  <1>2. SavingInv'
    BY <1>1 DEF OnceInv, SavingInv
  <1>3. Newest /\ Undone /\ NudgeSaved => (Newest /\ Undone /\ NudgeSaved)'
    BY <1>1 DEF Newest, Undone, NudgeSaved
  <1>4. CASE Unlock
    <2>1. ~Locked(retained')
      BY <1>4 DEF Unlock, Locked, NormalState
    <2> QED
      BY <1>1, <1>2, <1>3, <2>1 DEF OnceInv, Recorded, AimInv, Fit, Fits, Locked
  <1>5. ASSUME NEW m \in Modes \ {"normal"}, NewSeq(m) PROVE OnceInv'
    <2>1. lastSeq' = lastSeq + 1 /\ lastSeq \in Int /\ lastSeq >= 0
      BY <1>5, SeqTypes DEF NewSeq
    <2>2. \A n \in Int : n <= lastSeq => n # lastSeq'
      BY <2>1
    <2>3. Locked(st) => st.seq # lastSeq'
      BY <2>2, SeqTypes DEF RecordInv, LockInv
    <2>4. lastSeq' > 0
      BY <2>1
    <2>5. AimInv'
      BY <1>1, <2>3, <2>4 DEF OnceInv, AimInv, Locked
    <2>6. file.seq # lastSeq' /\ finished.seq # lastSeq' /\ \A t \in Threads : writing[t].seq # lastSeq'
      BY <2>2, SeqTypes, Bounds DEF RecordInv
    <2>7. Fit'
      BY <1>1, <2>6 DEF Fit, Fits
    <2> QED
      BY <1>1, <1>2, <1>3, <2>5, <2>7 DEF OnceInv, Recorded
  <1>6. ASSUME NEW a \in ParkAzs, PublishTarget(a) PROVE OnceInv'
    <2>1. /\ Locked(retained) /\ retained.az = NoAz /\ lastSeq' = lastSeq
          /\ retained'.mode = retained.mode /\ Locked(retained)'
      BY <1>6 DEF PublishTarget, TypeOK, States, Locked
    <2>2. AimInv'
      BY <1>1, <2>1 DEF OnceInv, AimInv, Locked
    <2>3. \A r : Fits(r) => Fits(r)'
      BY <2>1 DEF Fits
    <2>4. Fit => Fit'
      BY <1>1, <2>3 DEF Fit, Fits
    <2> QED
      BY <1>1, <1>2, <1>3, <2>2, <2>4 DEF OnceInv, Recorded
  <1> QED
    BY <1>4, <1>5, <1>6 DEF Antmode

LEMMA ApplyOnce == TypeOK /\ RecordInv /\ OnceInv /\ Apply => OnceInv'
  <1> SUFFICES ASSUME TypeOK, RecordInv, OnceInv, Apply PROVE OnceInv'
    OBVIOUS
  <1> USE DEF antmode, threads, outside
  <1>1. /\ UNCHANGED <<retained, lastSeq, finished, dirty, file, writing, pc, nudged, warned>>
        /\ st' = retained
    BY DEF Apply
  <1>2. /\ ~Locked(retained) => park' = Fresh(0, NoAz)
        /\ Locked(retained) =>
             \/ retained.seq = park.seq /\ retained.az = park.az /\ park' = park
             \/ /\ park'.seq = retained.seq /\ park'.az = retained.az
                /\ park'.done = Matches(finished, retained)
    BY DEF Apply, Fresh
  <1>3. AimInv'
    BY <1>1, <1>2 DEF OnceInv, AimInv, Locked
  <1>4. SavingInv'
    BY <1>1 DEF OnceInv, SavingInv
  <1>5. Newest /\ Fit /\ NudgeSaved => (Newest /\ Fit /\ NudgeSaved)'
    BY <1>1 DEF Newest, Fit, Fits, NudgeSaved, Locked
  <1>6. ASSUME Fit, Undone PROVE Undone'
    <2>1. CASE ~Locked(retained)
      BY <1>2, <2>1 DEF Undone, Fresh
    <2>2. CASE Locked(retained) /\ park' = park
      BY <1>1, <1>6, <2>2 DEF Undone
    <2>3. CASE /\ Locked(retained) /\ park'.seq = retained.seq /\ park'.az = retained.az
               /\ park'.done = Matches(finished, retained)
      BY <1>1, <1>6, <2>3 DEF Undone, Matches, Fit, Fits, RecordInv, LockInv
    <2> QED
      BY <1>2, <2>1, <2>2, <2>3
  <1> QED
    BY <1>1, <1>3, <1>4, <1>5, <1>6 DEF OnceInv, Recorded

LEMMA FinishesOnce == TypeOK /\ RecordInv /\ OnceInv /\ Finishes => OnceInv'
  <1> SUFFICES ASSUME TypeOK, RecordInv, OnceInv, Finishes PROVE OnceInv'
    OBVIOUS
  <1>1. /\ UNCHANGED <<retained, lastSeq, st, file, writing, nudged, warned>>
        /\ Locked(st) /\ Moves
    BY DEF Finishes
  <1>2. PICK p \in Parks, o \in Outcomes :
            /\ p.seq = park.seq /\ p.az = park.az /\ (p.az = NoAz => o = "nudged")
            /\ o # "none" /\ Finish(p, o)
    BY DEF Finishes
  <1>3. /\ park'.seq = park.seq /\ park'.az = park.az /\ park'.done
        /\ finished' = [mode |-> st.mode, seq |-> st.seq, az |-> st.az, outcome |-> o]
        /\ dirty'
    BY <1>1, <1>2 DEF Finish, Parks, RecordInv, LockInv, OnceInv, AimInv
  <1>4. finished'.seq = st.seq
    BY <1>3
  <1>5. AimInv'
    BY <1>1, <1>3 DEF OnceInv, AimInv, Locked
  <1>6. SavingInv'
    BY <1>1 DEF OnceInv, SavingInv, Moves
  <1>7. file.seq <= st.seq /\ finished.seq <= st.seq /\ \A t \in Threads : writing[t].seq <= st.seq
    BY <1>1, Bounds DEF RecordInv
  <1>8. Newest'
    BY <1>1, <1>4, <1>7 DEF Newest
  <1>9. ASSUME Fit PROVE Fit'
    <2>1. Fits(finished)'
      BY <1>1, <1>2, <1>3 DEF Fits, OnceInv, AimInv, Locked
    <2> QED
      BY <1>1, <1>9, <2>1 DEF Fit, Fits, Locked
  <1>10. Undone'
    BY <1>3 DEF Undone
  <1>11. ASSUME NudgeSaved PROVE NudgeSaved'
    <2>1. ASSUME NEW t \in Threads, pc'[t].at = "nudgeSave"
          PROVE  /\ pc'[t].seq <= finished'.seq
                 /\ writing[t] # NoRecord => pc'[t].seq <= writing[t].seq
      <3>1. CASE pc'[t] = pc[t]
        <4>1. pc[t].seq <= finished.seq /\ (writing[t] # NoRecord => pc[t].seq <= writing[t].seq)
          BY <1>11, <2>1, <3>1 DEF NudgeSaved
        <4>2. pc[t].seq \in Int
          BY DEF TypeOK, PCs, Seqs
        <4> QED
          BY <1>4, <1>7, <3>1, <4>1, <4>2, SeqTypes
      <3>2. CASE pc[t].at \notin Saving /\ pc'[t].seq = finished'.seq
        BY <1>4, <3>2, SeqTypes DEF OnceInv, SavingInv
      <3> QED
        BY <1>1, <2>1, <3>1, <3>2 DEF Moves
    <2>2. ASSUME NEW t \in Threads, pc'[t].at = "nudge" PROVE pc'[t].seq <= file.seq
      BY <1>1, <1>11, <2>2 DEF Moves, NudgeSaved
    <2> QED
      BY <1>1, <1>3, <1>11, <2>1, <2>2 DEF NudgeSaved
  <1> QED
    BY <1>1, <1>5, <1>6, <1>8, <1>9, <1>10, <1>11 DEF OnceInv, Recorded

LEMMA LeavesOnce == TypeOK /\ RecordInv /\ OnceInv /\ Leaves => OnceInv'
  <1> SUFFICES ASSUME TypeOK, RecordInv, OnceInv, Leaves PROVE OnceInv'
    OBVIOUS
  <1>1. UNCHANGED <<retained, lastSeq, st, finished, dirty, file, writing>> /\ Moves
    BY DEF Leaves
  <1>2. park'.seq = park.seq /\ park'.az = park.az /\ park'.done = park.done
    BY DEF Leaves
  <1>3. AimInv' /\ SavingInv'
    BY <1>1, <1>2 DEF OnceInv, AimInv, SavingInv, Locked, Moves
  <1>4. Newest /\ Fit /\ Undone => (Newest /\ Fit /\ Undone)'
    BY <1>1, <1>2 DEF Newest, Fit, Fits, Undone, Locked
  <1>5. ASSUME NudgeSaved PROVE NudgeSaved'
    <2>1. ASSUME NEW t \in Threads, pc'[t].at = "nudgeSave"
          PROVE  /\ pc'[t].seq <= finished.seq
                 /\ writing[t] # NoRecord => pc'[t].seq <= writing[t].seq
      BY <1>1, <1>5, <2>1, SeqTypes DEF Moves, NudgeSaved, OnceInv, SavingInv
    <2>2. ASSUME NEW t \in Threads, pc'[t].at = "nudge" PROVE pc'[t].seq <= file.seq
      BY <1>1, <1>5, <2>2 DEF Moves, NudgeSaved
    <2>3. \A n \in nudged' : n <= file.seq
      BY <1>5 DEF Leaves, NudgeSaved
    <2> QED
      BY <1>1, <1>5, <2>1, <2>2, <2>3 DEF NudgeSaved
  <1> QED
    BY <1>3, <1>4, <1>5 DEF OnceInv, Recorded, Leaves

LEMMA RestartOnce == TypeOK /\ RecordInv /\ OnceInv /\ Restart => OnceInv'
  <1> SUFFICES ASSUME TypeOK, RecordInv, OnceInv, Restart PROVE OnceInv'
    OBVIOUS
  <1> USE DEF antmode
  <1>1. /\ UNCHANGED <<retained, lastSeq, file, nudged>> /\ ~Locked(st)' /\ park'.az = NoAz
        /\ \A t \in Threads : writing'[t] = NoRecord /\ pc'[t].at = "idle"
    BY DEF Restart, Locked, NormalState, Fresh, Idle, At
  <1>2. "record" \in warned' \/ (finished' = file /\ warned' = warned)
    BY DEF Restart
  <1>3. AimInv' /\ SavingInv'
    BY <1>1 DEF OnceInv, AimInv, SavingInv, Locked
  <1>4. ASSUME Recorded, finished' = file, "record" \notin warned
        PROVE  (Newest /\ Fit /\ Undone /\ NudgeSaved)'
    <2>1. NoRecord.seq = 0 /\ file.seq >= 0
      BY SeqTypes DEF NoRecord
    <2>2. Newest'
      BY <1>1, <1>4, <2>1, SeqTypes DEF Newest
    <2>3. Fits(NoRecord)'
      BY <1>3, <2>1 DEF AimInv, Fits
    <2>4. Fit'
      BY <1>1, <1>4, <2>3 DEF Recorded, Fit, Fits, Locked
    <2>5. Undone'
      BY <1>1 DEF Undone
    <2>6. NudgeSaved'
      BY <1>1, <1>4, SeqTypes DEF Recorded, NudgeSaved
    <2> QED
      BY <2>2, <2>4, <2>5, <2>6
  <1> QED
    BY <1>2, <1>3, <1>4 DEF OnceInv, Recorded

\* A goroutine that has saved, and the others.
LEMMA SavedMoves ==
    ASSUME TypeOK, NEW t \in Threads, Saved(t)
    PROVE  /\ \A u \in Threads \ {t} : pc'[u] = pc[u]
           /\ pc'[t].at # "nudgeSave"
           /\ pc'[t].at = "nudge" => pc[t].at = "nudgeSave" /\ pc'[t].seq = pc[t].seq
  BY DEF Saved, Goto, Leave, TypeOK, PCs, Idle, At

LEMMA SaveTakeOnce ==
    ASSUME TypeOK, RecordInv, OnceInv, NEW t \in Threads, SaveTake(t)
    PROVE  OnceInv'
  <1> USE DEF antmode, lock, outside
  <1>1. /\ UNCHANGED <<retained, lastSeq, st, park, finished, file, nudged, warned>>
        /\ pc[t].at \in Saving /\ \A u \in Threads : writing[u] = NoRecord
    BY DEF SaveTake, SaveFree
  <1>2. AimInv'
    BY <1>1 DEF OnceInv, AimInv, Locked
  <1>3. Undone => Undone'
    BY <1>1 DEF Undone
  <1>4. CASE ~dirty
    <2>1. writing' = writing /\ Saved(t) /\ ~dirty'
      BY <1>4 DEF SaveTake
    <2>2. SavingInv'
      BY <1>1, <2>1 DEF SavingInv
    <2>3. Newest /\ Fit => (Newest /\ Fit)'
      BY <1>1, <2>1 DEF Newest, Fit, Fits, Locked
    <2>4. ASSUME Newest, NudgeSaved PROVE NudgeSaved'
      <3>1. finished.seq <= file.seq
        BY <1>1, <1>4, <2>4 DEF NudgeSaved
      <3>2. ASSUME NEW u \in Threads
            PROVE  /\ pc'[u].at = "nudgeSave" => pc'[u].seq <= finished.seq
                   /\ pc'[u].at = "nudge" => pc'[u].seq <= file.seq
        <4>1. CASE u = t
          <5>1. pc[t].at = "nudgeSave" => pc[t].seq <= finished.seq
            BY <2>4 DEF NudgeSaved
          <5>2. pc[t].seq \in Int
            BY DEF TypeOK, PCs, Seqs
          <5> QED
            BY <2>1, <3>1, <4>1, <5>1, <5>2, SavedMoves, SeqTypes
        <4>2. CASE u # t
          BY <2>1, <2>4, <4>2, SavedMoves DEF NudgeSaved
        <4> QED
          BY <4>1, <4>2
      <3> QED
        BY <1>1, <2>1, <2>4, <3>1, <3>2 DEF NudgeSaved
    <2> QED
      BY <1>1, <1>2, <1>3, <2>2, <2>3, <2>4 DEF OnceInv, Recorded
  <1>5. CASE dirty
    <2>1. /\ writing' = [writing EXCEPT ![t] = finished] /\ pc' = pc
      BY <1>5 DEF SaveTake
    <2>2. writing'[t] = finished /\ \A u \in Threads \ {t} : writing'[u] = NoRecord
      BY <1>1, <2>1 DEF TypeOK
    <2>3. SavingInv'
      BY <1>1, <2>1, <2>2 DEF SavingInv
    <2>4. Newest => Newest'
      BY <1>1, <2>2, SeqTypes DEF Newest, NoRecord
    <2>5. Fit => Fit'
      <3>1. Fits(NoRecord)
        BY SeqTypes DEF Fits, NoRecord, OnceInv, AimInv
      <3>2. \A r : Fits(r) => Fits(r)'
        BY <1>1 DEF Fits, Locked
      <3> QED
        BY <1>1, <2>2, <3>1, <3>2 DEF Fit, Fits
    <2>6. ASSUME Newest, NudgeSaved PROVE NudgeSaved'
      <3>1. finished.seq <= file.seq \/ finished # NoRecord
        BY SeqTypes DEF NoRecord
      <3>2. \/ finished.seq <= file.seq
            \/ writing'[t] # NoRecord /\ finished.seq <= writing'[t].seq
        BY <2>2, <3>1, SeqTypes
      <3>3. \A u \in Threads :
               /\ pc[u].at = "nudgeSave" =>
                    pc[u].seq <= finished.seq /\ (writing'[u] # NoRecord => pc[u].seq <= writing'[u].seq)
               /\ pc[u].at = "nudge" => pc[u].seq <= file.seq
        BY <2>2, <2>6 DEF NudgeSaved
      <3>4. /\ \/ finished'.seq <= file'.seq
               \/ \E u \in Threads : writing'[u] # NoRecord /\ finished'.seq <= writing'[u].seq
            /\ \A n \in nudged' : n <= file'.seq
        BY <1>1, <2>6, <3>2 DEF NudgeSaved
      <3> QED
        BY <1>1, <2>1, <3>3, <3>4 DEF NudgeSaved
    <2> QED
      BY <1>1, <1>2, <1>3, <2>3, <2>4, <2>5, <2>6 DEF OnceInv, Recorded
  <1> QED
    BY <1>4, <1>5

LEMMA SaveWriteOnce ==
    ASSUME TypeOK, RecordInv, OnceInv, NEW t \in Threads, SaveWrite(t)
    PROVE  OnceInv'
  <1> USE DEF antmode, lock, books
  <1>1. /\ UNCHANGED <<retained, lastSeq, st, park, finished, dirty, nudged>>
        /\ writing[t] # NoRecord /\ Saved(t)
        /\ writing' = [writing EXCEPT ![t] = NoRecord]
    BY DEF SaveWrite
  <1>2. (file' = writing[t] /\ warned' = warned) \/ "record" \in warned'
    BY DEF SaveWrite
  <1>3. \A u \in Threads : writing'[u] = NoRecord
    BY <1>1 DEF TypeOK, RecordInv, OrderInv
  <1>4. AimInv'
    BY <1>1 DEF OnceInv, AimInv, Locked
  <1>5. SavingInv'
    BY <1>3 DEF SavingInv
  <1>6. ASSUME file' = writing[t], Newest, Fit, Undone, NudgeSaved
        PROVE  (Newest /\ Fit /\ Undone /\ NudgeSaved)'
    <2>1. NoRecord.seq = 0 /\ finished.seq >= 0
      BY SeqTypes DEF NoRecord
    <2>2. Newest'
      BY <1>1, <1>3, <1>6, <2>1 DEF Newest
    <2>3. Fits(NoRecord)'
      BY <1>4, <2>1 DEF AimInv, Fits
    <2>4. Fit'
      BY <1>1, <1>3, <1>6, <2>3 DEF Fit, Fits, Locked
    <2>5. Undone'
      BY <1>1, <1>6 DEF Undone
    <2>6. file.seq <= file'.seq /\ \A u \in Threads \ {t} : writing[u] = NoRecord
      BY <1>1, <1>6 DEF RecordInv, OrderInv
    <2>7. file.seq \in Int /\ file'.seq \in Int /\ finished.seq \in Int
      BY <1>6, SeqTypes
    <2>8. ~dirty => finished.seq <= file'.seq
      BY <1>1, <1>6, <2>6, <2>7 DEF NudgeSaved
    <2>9. ASSUME NEW u \in Threads
          PROVE  /\ pc'[u].at = "nudgeSave" => pc'[u].seq <= finished.seq
                 /\ pc'[u].at = "nudge" => pc'[u].seq <= file'.seq
      <3>1. CASE u = t
        <4>1. pc[t].at = "nudgeSave" => pc[t].seq <= file'.seq
          BY <1>1, <1>6 DEF NudgeSaved
        <4> QED
          BY <1>1, <3>1, <4>1, SavedMoves
      <3>2. CASE u # t
        <4>1. pc'[u] = pc[u] /\ pc[u].seq \in Int
          BY <1>1, <3>2, SavedMoves DEF TypeOK, PCs, Seqs
        <4>2. /\ pc[u].at = "nudgeSave" => pc[u].seq <= finished.seq
              /\ pc[u].at = "nudge" => pc[u].seq <= file.seq
          BY <1>6 DEF NudgeSaved
        <4> QED
          BY <2>6, <2>7, <4>1, <4>2
      <3> QED
        BY <3>1, <3>2
    <2>10. \A n \in nudged : n <= file'.seq
      <3>1. \A n \in nudged : n \in Int /\ n <= file.seq
        BY <1>6 DEF TypeOK, Seqs, NudgeSaved
      <3> QED
        BY <2>6, <2>7, <3>1
    <2>11. NudgeSaved'
      BY <1>1, <1>3, <2>8, <2>9, <2>10 DEF NudgeSaved
    <2> QED
      BY <2>2, <2>4, <2>5, <2>11
  <1> QED
    BY <1>2, <1>4, <1>5, <1>6 DEF OnceInv, Recorded

LEMMA OnceStep == TypeOK /\ RecordInv /\ OnceInv /\ [Next]_vars => OnceInv'
  BY Kinds, AntmodeOnce, ApplyOnce, RestartOnce, FinishesOnce, LeavesOnce, SaveTakeOnce,
     SaveWriteOnce

\* The lock the park belongs to bounds the records, the newest of which is in memory.
LEMMA NothingToSend ==
    ASSUME TypeOK, RecordInv, OnceInv, "record" \notin warned, park.az # NoAz, ~park.done
    PROVE  Locked(st) /\ file.seq < park.seq
  <1>1. Locked(st)
    BY DEF RecordInv, LockInv, Fresh
  <1>2. finished.seq <= park.seq /\ finished.seq # park.seq /\ file.seq <= finished.seq
    BY <1>1, Bounds DEF RecordInv, LockInv, OnceInv, Recorded, Undone, Newest
  <1> QED
    BY <1>1, <1>2, SeqTypes

LEMMA Together == Spec => [](TypeOK /\ RecordInv /\ OnceInv)
  BY TypeInit, RecordInit, OnceInit, TypeStep, RecordStep, OnceStep, PTL DEF Spec

\* A park whose record is on disk is not sent again: not after a restart, a reconnect or an
\* aim that comes late (PersistTo, matches, Apply).
THEOREM OnceOnly == Spec => []ParkOnce
  <1>1. TypeOK /\ RecordInv /\ OnceInv => ParkOnce
    <2> SUFFICES ASSUME TypeOK, RecordInv, OnceInv, park.seq = file.seq, park.az # NoAz,
                        ~park.done, "record" \notin warned
                 PROVE  FALSE
      BY DEF ParkOnce
    <2> QED
      BY NothingToSend, SeqTypes
  <1> QED
    BY <1>1, Together, PTL
-----------------------------------------------------------------------------
(* A nudge is not undone. *)

LEMMA NudgeStep ==
    TypeOK /\ RecordInv /\ OnceInv /\ Discipline /\ NudgeNotUndone /\ [Next]_vars => NudgeNotUndone'
  <1> SUFFICES ASSUME TypeOK, RecordInv, OnceInv, Discipline, NudgeNotUndone, [Next]_vars,
                      pc'["loop"].at = "park", pc'["loop"].seq \in nudged', "record" \notin warned'
               PROVE  FALSE
    BY DEF NudgeNotUndone
  <1> USE DEF antmode, lock, books, threads, outside
  <1>1. ASSUME pc'["loop"] = pc["loop"], nudged' = nudged, "record" \in warned => "record" \in warned'
        PROVE  FALSE
    BY <1>1 DEF NudgeNotUndone
  <1>2. CASE UNCHANGED vars \/ Antmode \/ StartHold \/ HoldEnds \/ Apply \/ Offline \/ Steady
    BY <1>1, <1>2 DEF vars, Antmode, Unlock, NewSeq, PublishTarget, StartHold, HoldEnds, Apply,
                      Offline, Steady
  <1>3. ASSUME NEW a \in Readbacks, NEW m \in BOOLEAN, Observe(a, m) PROVE FALSE
    <2>1. pc' = pc \/ Goto("reader", "save")
      BY <1>3 DEF Observe
    <2>2. pc'["loop"] = pc["loop"]
      BY <2>1, Constants, OwnPlace
    <2> QED
      BY <1>1, <1>3, <2>2 DEF Observe
  <1>4. CASE Decide
    <2>1. /\ park.az # NoAz /\ ~park.done /\ nudged' = nudged /\ warned' = warned
          /\ Goto("loop", "save") \/ Enter("loop", "park")
      BY <1>4 DEF Decide, Ready
    <2>2. pc'["loop"].seq = park.seq
      <3>1. ~Goto("loop", "save")
        BY Constants, OwnPlace
      <3> QED
        BY <2>1, <3>1, Constants DEF Enter, At, TypeOK
    <2>3. park.seq <= file.seq
      BY <2>1, <2>2 DEF OnceInv, Recorded, NudgeSaved
    <2> QED
      BY <2>1, <2>3, NothingToSend, SeqTypes
  <1>5. CASE ParkWritten \/ ParkFailed \/ Check \/ Restop
    <2>1. \/ Goto("loop", "check") \/ Goto("loop", "restop") \/ Leave("loop")
      BY <1>5 DEF ParkWritten, ParkFailed, Check, Restop
    <2> QED
      BY <2>1, Constants, OwnPlace
  <1>6. ASSUME NEW c \in Clients, NudgeWritten(c) PROVE FALSE
    <2>1. pc["loop"].at = "idle"
      BY <1>6, Constants DEF NudgeWritten, Discipline, Holding
    <2>2. pc'["loop"] = pc["loop"]
      BY <1>6, Constants, OwnPlace DEF NudgeWritten
    <2> QED
      BY <2>1, <2>2
  <1>7. ASSUME NEW c \in Clients, NEW a \in Targets, Nudge(c, a) PROVE FALSE
    <2>1. Enter(c, "nudgeSave") \/ Enter(c, "again")
      BY <1>7 DEF Nudge
    <2>2. pc'["loop"] = pc["loop"]
      BY <2>1, Constants, OwnPlace
    <2> QED
      BY <1>1, <1>7, <2>2 DEF Nudge
  <1>8. ASSUME NEW c \in Clients, Move(c) \/ MoveWritten(c) \/ Stop(c) \/ StopWritten(c)
        PROVE  FALSE
    <2>1. \E place : Goto(c, place) \/ Leave(c)
      BY <1>8 DEF Move, MoveWritten, Stop, StopWritten
    <2>2. pc'["loop"] = pc["loop"]
      BY <2>1, Constants, OwnPlace
    <2>3. nudged' = nudged /\ warned \subseteq warned'
      BY <1>8 DEF Move, MoveWritten, Stop, StopWritten, StopDevice
    <2> QED
      BY <1>1, <2>2, <2>3
  <1>9. ASSUME NEW t \in Threads, SaveTake(t) \/ SaveWrite(t) PROVE FALSE
    <2>1. nudged' = nudged /\ warned \subseteq warned' /\ pc[t].at \in Saving
      BY <1>9 DEF SaveTake, SaveWrite
    <2>2. pc' = pc \/ Saved(t)
      BY <1>9 DEF SaveTake, SaveWrite
    <2>3. pc'["loop"] = pc["loop"] \/ pc'["loop"].at # "park"
      BY <2>2, Constants, OwnPlace DEF Saved
    <2> QED
      BY <1>1, <2>1, <2>3
  <1>10. CASE Restart
    BY <1>10, Constants DEF Restart, Idle, At
  <1> QED
    BY <1>2, <1>3, <1>4, <1>5, <1>6, <1>7, <1>8, <1>9, <1>10 DEF Next, Loop, Client

\* A park that a nudge ended is not sent when its target comes, after a reconnect or a
\* restart, unless its record could not be saved or read (SetAzOverride, save, Step).
THEOREM NudgeStays == Spec => []NudgeNotUndone
  <1>1. Init => NudgeNotUndone
    BY DEF Init, NudgeNotUndone
  <1>2. Spec => []Discipline
    BY TypeInit, TypeStep, DisciplineInit, DisciplineStep, PTL DEF Spec
  <1> QED
    BY <1>1, <1>2, Together, NudgeStep, PTL DEF Spec
=============================================================================
