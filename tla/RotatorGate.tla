---------------------------- MODULE RotatorGate -----------------------------
(***************************************************************************)
(* The antenna-mode lock of the rotator bridge (internal/lock/gate.go):    *)
(* one gate in front of the device, called by the command sources, the     *)
(* device's read loop and the lock loop.                                   *)
(*                                                                         *)
(* The grain: what runs under g.mu is one step; a device write, a file     *)
(* write and the wait for moveMu or saveMu are steps of their own.  A move *)
(* waits for moveMu, writes and releases it in one step, as nobody sees    *)
(* moveMu taken in between; a nudge and the park hold it over several.     *)
(***************************************************************************)
EXTENDS Integers, FiniteSets

CONSTANTS
    Clients,    \* goroutines of the command sources: /cmd worker, GS-232, PstRotator
    Readbacks,  \* azimuths the device may report
    Targets,    \* azimuths a command may ask for
    ParkAzs,    \* azimuths antmode may park at
    StableBand, ArriveTol, NudgeMax, MinAz, MaxAz,
    HoldFor,    \* there is a startup hold
    Crashes,    \* the process may restart
    MaxSeq,     \* bound on the lock sequence numbers antmode uses
    NoAz        \* park_az not published; readback not still

ASSUME GateAssumption ==
    /\ Readbacks \subseteq Int /\ Targets \subseteq Int /\ ParkAzs \subseteq Int
    /\ StableBand \in Int /\ ArriveTol \in Int /\ NudgeMax \in Int
    /\ MinAz \in Int /\ MaxAz \in Int
    /\ HoldFor \in BOOLEAN /\ Crashes \in BOOLEAN
    /\ MaxSeq \in Nat
    /\ NoAz \notin Int
    /\ "loop" \notin Clients /\ "reader" \notin Clients /\ "free" \notin Clients

VARIABLES
    retained,   \* antmode's retained state, the next one the gate is given
    lastSeq,    \* antmode's persisted seq
    st, seen, window,                       \* last state applied; startup hold
    online, az, stableAz, steady,           \* device observation; StableFor has passed
    park, finished, dirty,                  \* bookkeeping of the current seq
    file,                                   \* park.json
    moveMu,                                 \* who holds it
    pc, writing,                            \* per goroutine: position and the seq it acts
                                            \* for, record it writes under saveMu
    wire,                                   \* last command that reached the WRC
    nudged,                                 \* history: seqs ended by a nudge that reached the WRC
    warned                                  \* history: failures that were only logged

antmode  == <<retained, lastSeq>>
lock     == <<st, seen, window>>
device   == <<online, az, stableAz, steady>>
books    == <<park, finished, dirty>>
threads  == <<moveMu, pc, writing>>
outside  == <<file, wire, nudged, warned>>
vars     == <<antmode, lock, device, books, threads, outside>>

Threads == {"loop", "reader"} \cup Clients
Modes   == {"normal", "storm", "maintenance"}
Seqs    == 0..MaxSeq
Azs     == ParkAzs \cup {NoAz}

\* A lock as published; NormalState.
States == [mode : Modes, seq : Seqs, az : Azs, nudge : BOOLEAN]
NormalState == [mode |-> "normal", seq |-> 0, az |-> NoAz, nudge |-> FALSE]
Locked(s) == s.mode # "normal"

\* Without park_az there is nothing to send; only a nudge ends such a park.
Parks == {p \in [seq : Seqs, az : Azs, sent : BOOLEAN, cancelled : BOOLEAN, done : BOOLEAN] :
             p.az = NoAz /\ p.sent => p.done}
Fresh(n, a) == [seq |-> n, az |-> a, sent |-> FALSE, cancelled |-> FALSE, done |-> FALSE]

Outcomes == {"none", "arrived", "cancelled", "nudged"}
Records  == {r \in [mode : Modes, seq : Seqs, az : Azs, outcome : Outcomes] :
                r.az = NoAz => r.outcome \in {"none", "nudged"}}
NoRecord == [mode |-> "normal", seq |-> 0, az |-> NoAz, outcome |-> "none"]

\* What the WRC was last told: the park of a seq, a move (or nudge), a stop.
Wires == [what : {"none", "park", "move", "stop"}, seq : Seqs]
Park(n) == [what |-> "park", seq |-> n]
Told(w) == [what |-> w, seq |-> 0]

\* Where a goroutine may be: waiting to write the device, or to save a record.
Saving == {"save", "cancelSave", "nudgeSave"}
Places == Saving \cup {"idle", "park", "check", "restop", "move", "nudge", "again",
                     "stop", "cancel"}
PCs    == [at : Places, seq : Seqs]
At(place, n) == [at |-> place, seq |-> n]
Idle   == At("idle", 0)

Near(a, b, d) == a - b <= d /\ b - a <= d
-----------------------------------------------------------------------------
(* The records of finished parks. *)

\* Mutant: a nudge before park_az, too, has to match it.
MatchesAz(r, l) == r.seq = l.seq /\ r.mode = l.mode /\ l.az # NoAz /\ r.az = l.az

\* matches(): the record finishes the park of the lock.
Matches(r, l) ==
    /\ r.seq = l.seq /\ r.mode = l.mode /\ l.az # NoAz
    /\ r.outcome = "nudged" \/ r.az = l.az

\* finishLocked(): the park p is done, and recorded.
Finish(p, outcome) ==
    /\ park' = [p EXCEPT !.done = TRUE]
    /\ finished' = [mode |-> st.mode, seq |-> p.seq, az |-> p.az, outcome |-> outcome]
    /\ dirty' = TRUE

\* Mutant: a park that was not sent counts as underway.
NotDone == ~park.done

Underway == park.sent /\ ~park.done

Goto(t, place) == pc' = [pc EXCEPT ![t].at = place]
Enter(t, place) == pc' = [pc EXCEPT ![t] = At(place, park.seq)]
Leave(t) == pc' = [pc EXCEPT ![t] = Idle]

\* Mutant: file writes are not ordered.
SaveUnordered == TRUE

SaveFree == \A t \in Threads : writing[t] = NoRecord

\* Where a goroutine goes on after save().
Saved(t) ==
    /\ IF pc[t].at = "nudgeSave" THEN Goto(t, "nudge") ELSE Leave(t)
    /\ moveMu' = IF t = "loop" THEN "free" ELSE moveMu

\* save(): take the record if it changed, ...
SaveTake(t) ==
    /\ pc[t].at \in Saving /\ writing[t] = NoRecord /\ SaveFree
    /\ dirty' = FALSE
    /\ IF dirty THEN writing' = [writing EXCEPT ![t] = finished] /\ UNCHANGED <<pc, moveMu>>
                ELSE Saved(t) /\ UNCHANGED writing
    /\ UNCHANGED <<antmode, lock, device, park, finished, outside>>

\* ... and write it; a failure is logged.
SaveWrite(t) ==
    /\ pc[t].at \in Saving /\ writing[t] # NoRecord
    /\ \/ file' = writing[t] /\ UNCHANGED warned
       \/ warned' = warned \cup {"record"} /\ UNCHANGED file
    /\ writing' = [writing EXCEPT ![t] = NoRecord]
    /\ Saved(t)
    /\ UNCHANGED <<antmode, lock, device, books, wire, nudged>>
-----------------------------------------------------------------------------
(* antmode publishes. *)

\* A mode is entered, or the same park is asked for again: a new seq.
NewSeq(m) ==
    /\ lastSeq < MaxSeq
    /\ lastSeq' = lastSeq + 1
    /\ retained' = [mode |-> m, seq |-> lastSeq + 1, az |-> NoAz, nudge |-> m = "maintenance"]
    /\ UNCHANGED <<lock, device, books, threads, outside>>

\* The gear is grounded and retracted: park_az, once per seq.
PublishTarget(a) ==
    /\ Locked(retained) /\ retained.az = NoAz
    /\ retained' = [retained EXCEPT !.az = a]
    /\ UNCHANGED <<lastSeq, lock, device, books, threads, outside>>

Unlock ==
    /\ Locked(retained)
    /\ retained' = NormalState
    /\ UNCHANGED <<lastSeq, lock, device, books, threads, outside>>

Antmode == Unlock \/ (\E m \in Modes \ {"normal"} : NewSeq(m))
                  \/ (\E a \in ParkAzs : PublishTarget(a))
-----------------------------------------------------------------------------
(* The mqtt callbacks. *)

StartHold ==
    /\ ~seen /\ HoldFor
    /\ window' = "open"
    /\ UNCHANGED <<antmode, st, seen, device, books, threads, outside>>

HoldEnds ==
    /\ window = "open"
    /\ window' = "over"
    /\ UNCHANGED <<antmode, st, seen, device, books, threads, outside>>

\* Apply(): a malformed payload changes nothing and is no action.
Apply ==
    /\ st' = retained /\ seen' = TRUE
    /\ park' = CASE ~Locked(retained) -> Fresh(0, NoAz)
                 [] Locked(retained) /\ retained.seq = park.seq /\ retained.az = park.az -> park
                 [] OTHER -> [Fresh(retained.seq, retained.az) EXCEPT
                                !.sent = Matches(finished, retained),
                                !.done = Matches(finished, retained)]
    /\ window' = "over" \* plays no part any more
    /\ UNCHANGED <<antmode, device, finished, dirty, threads, outside>>
-----------------------------------------------------------------------------
(* The read loop of the device: Observe. *)

Observe(a, moving) ==
    /\ pc["reader"].at = "idle"
    /\ online' = TRUE /\ az' = a
    /\ IF moving THEN stableAz' = NoAz /\ steady' = FALSE
       ELSE IF ~online \/ stableAz = NoAz \/ ~Near(a, stableAz, StableBand)
       THEN stableAz' = a /\ steady' = FALSE
       ELSE UNCHANGED <<stableAz, steady>>
    /\ IF Underway /\ park.az # NoAz /\ ~moving /\ Near(a, park.az, ArriveTol)
       THEN Finish(park, "arrived") /\ Goto("reader", "save")
       ELSE UNCHANGED <<books, pc>>
    /\ UNCHANGED <<antmode, lock, moveMu, writing, outside>>

\* The connection is gone: a park underway is sent again later.
Offline ==
    /\ pc["reader"].at = "idle"
    /\ park' = IF online /\ Underway THEN [park EXCEPT !.sent = FALSE] ELSE park
    /\ online' = FALSE /\ stableAz' = NoAz /\ steady' = FALSE
    /\ UNCHANGED <<antmode, lock, az, finished, dirty, threads, outside>>

\* StableFor passes.
Steady ==
    /\ stableAz # NoAz /\ ~steady
    /\ steady' = TRUE
    /\ UNCHANGED <<antmode, lock, online, az, stableAz, books, threads, outside>>
-----------------------------------------------------------------------------
(* The lock loop: Step. *)

\* Mutant: the park does not wait for the moves passed through.
MoveUnordered == TRUE

MoveFree == moveMu = "free"

Ready == /\ Locked(st) /\ park.az # NoAz /\ ~park.sent /\ ~park.done
         /\ online /\ stableAz # NoAz /\ steady

\* The park is due: either it is there, or it is going to be written.
Decide ==
    /\ pc["loop"].at = "idle" /\ MoveFree /\ Ready
    /\ moveMu' = "loop"
    /\ IF Near(az, park.az, ArriveTol)
       THEN Finish([park EXCEPT !.sent = TRUE], "arrived") /\ Goto("loop", "save")
       ELSE /\ park' = [park EXCEPT !.sent = TRUE]
            /\ Enter("loop", "park")
            /\ UNCHANGED <<finished, dirty>>
    /\ UNCHANGED <<antmode, lock, device, writing, outside>>

ParkWritten ==
    /\ pc["loop"].at = "park"
    /\ wire' = Park(pc["loop"].seq)
    /\ Goto("loop", "check")
    /\ UNCHANGED <<antmode, lock, device, books, moveMu, writing, file, nudged, warned>>

\* Mutant: a failed write leaves the park underway.
KeepSent == park

\* The write failed: the park is due again, if it is still the same.
Unsent == IF park.seq = pc["loop"].seq THEN [park EXCEPT !.sent = FALSE] ELSE park

ParkFailed ==
    /\ pc["loop"].at = "park"
    /\ park' = Unsent
    /\ Leave("loop") /\ moveMu' = "free"
    /\ UNCHANGED <<antmode, lock, device, finished, dirty, writing, outside>>

\* Mutant: a stop is not repeated.
NeverAgain == FALSE

Overtaken == park.seq = pc["loop"].seq /\ park.cancelled

\* A stop that raced the write must win.
Check ==
    /\ pc["loop"].at = "check"
    /\ IF Overtaken THEN Goto("loop", "restop") /\ UNCHANGED moveMu
                    ELSE Leave("loop") /\ moveMu' = "free"
    /\ UNCHANGED <<antmode, lock, device, books, writing, outside>>

\* A stop reaches the WRC, or fails with an error.
StopDevice == \/ wire' = Told("stop") /\ UNCHANGED warned
              \/ warned' = warned \cup {"stop"} /\ UNCHANGED wire

Restop ==
    /\ pc["loop"].at = "restop"
    /\ StopDevice
    /\ Leave("loop") /\ moveMu' = "free"
    /\ UNCHANGED <<antmode, lock, device, books, writing, file, nudged>>
-----------------------------------------------------------------------------
(* The command sources. *)

Refused == (~seen /\ HoldFor /\ window # "over") \/ Locked(st)

\* SetAz, Jog, and an override that is no nudge: the check, ...
Move(c) ==
    /\ pc[c].at = "idle" /\ ~Refused
    /\ Goto(c, "move")
    /\ UNCHANGED <<antmode, lock, device, books, moveMu, writing, outside>>

\* ... and, after the wait for moveMu, the write.
MoveWritten(c) ==
    /\ pc[c].at = "move" /\ MoveFree
    /\ wire' \in {wire, Told("move")}
    /\ Leave(c)
    /\ UNCHANGED <<antmode, lock, device, books, moveMu, writing, file, nudged, warned>>

\* SetAzOverride: an accepted nudge ends the park, sent or not, and keeps moveMu.
\* (A refused one changes nothing.)
Nudge(c, a) ==
    /\ pc[c].at = "idle" /\ MoveFree
    /\ st.mode = "maintenance" /\ st.nudge
    /\ online /\ MinAz <= a /\ a <= MaxAz /\ Near(a, az, NudgeMax)
    /\ IF ~park.done
       THEN Finish([park EXCEPT !.sent = TRUE], "nudged") /\ Enter(c, "nudgeSave")
       ELSE UNCHANGED books /\ Enter(c, "again")
    /\ moveMu' = c
    /\ UNCHANGED <<antmode, lock, device, writing, outside>>

NudgeWritten(c) ==
    /\ pc[c].at \in {"nudge", "again"}
    /\ \/ /\ wire' = Told("move")
          /\ nudged' = IF pc[c].at = "nudge" THEN nudged \cup {pc[c].seq} ELSE nudged
       \/ UNCHANGED <<wire, nudged>>
    /\ Leave(c) /\ moveMu' = "free"
    /\ UNCHANGED <<antmode, lock, device, books, writing, file, warned>>

\* Stop: never refused, never waits for moveMu.
Stop(c) ==
    /\ pc[c].at = "idle"
    /\ IF Locked(st) /\ Underway
       THEN Finish([park EXCEPT !.cancelled = TRUE], "cancelled") /\ Goto(c, "cancel")
       ELSE UNCHANGED books /\ Goto(c, "stop")
    /\ UNCHANGED <<antmode, lock, device, moveMu, writing, outside>>

StopWritten(c) ==
    /\ pc[c].at \in {"stop", "cancel"}
    /\ StopDevice
    /\ IF pc[c].at = "cancel" THEN Goto(c, "cancelSave") ELSE Leave(c)
    /\ UNCHANGED <<antmode, lock, device, books, moveMu, writing, file, nudged>>
-----------------------------------------------------------------------------
(* The process. *)

\* A restart at any time: New() and PersistTo().  An unreadable record is ignored.
Restart ==
    /\ Crashes
    /\ st' = NormalState /\ seen' = FALSE /\ window' = "before"
    /\ online' = FALSE /\ az' = 0 /\ stableAz' = NoAz /\ steady' = FALSE
    /\ park' = Fresh(0, NoAz) /\ dirty' = FALSE
    /\ \/ finished' = file /\ UNCHANGED warned
       \/ finished' = NoRecord /\ file # NoRecord /\ warned' = warned \cup {"record"}
    /\ moveMu' = "free"
    /\ pc' = [t \in Threads |-> Idle]
    /\ writing' = [t \in Threads |-> NoRecord]
    /\ UNCHANGED <<antmode, file, wire, nudged>>

Init ==
    /\ retained = NormalState /\ lastSeq = 0
    /\ st = NormalState /\ seen = FALSE /\ window = "before"
    /\ online = FALSE /\ az = 0 /\ stableAz = NoAz /\ steady = FALSE
    /\ park = Fresh(0, NoAz) /\ finished = NoRecord /\ dirty = FALSE /\ file = NoRecord
    /\ moveMu = "free"
    /\ pc = [t \in Threads |-> Idle]
    /\ writing = [t \in Threads |-> NoRecord]
    /\ wire = Told("none") /\ nudged = {} /\ warned = {}

Loop   == Decide \/ ParkWritten \/ ParkFailed \/ Check \/ Restop
Client(c) == Move(c) \/ MoveWritten(c) \/ (\E a \in Targets : Nudge(c, a))
             \/ NudgeWritten(c) \/ Stop(c) \/ StopWritten(c)

Next == \/ Antmode \/ StartHold \/ HoldEnds \/ Apply
        \/ (\E a \in Readbacks, m \in BOOLEAN : Observe(a, m)) \/ Offline \/ Steady
        \/ Loop
        \/ \E c \in Clients : Client(c)
        \/ \E t \in Threads : SaveTake(t) \/ SaveWrite(t)
        \/ Restart

Spec == Init /\ [][Next]_vars

\* The loop's ticker goes on, a write ends (in at most 3 s for the device), Go's
\* mutexes starve nobody, and a device that is tried again and again takes a command.
FairSpec ==
    /\ Spec
    /\ WF_vars(Loop) /\ SF_vars(ParkWritten)
    /\ \A c \in Clients : WF_vars(NudgeWritten(c))
    /\ \A t \in Threads : WF_vars(SaveTake(t) \/ SaveWrite(t))
-----------------------------------------------------------------------------
TypeOK ==
    /\ retained \in States /\ lastSeq \in Seqs
    /\ st \in States /\ seen \in BOOLEAN /\ window \in {"before", "open", "over"}
    /\ online \in BOOLEAN /\ az \in Readbacks \cup {0} /\ stableAz \in Readbacks \cup {NoAz}
    /\ steady \in BOOLEAN
    /\ park \in Parks /\ finished \in Records /\ dirty \in BOOLEAN /\ file \in Records
    /\ moveMu \in Threads \cup {"free"}
    /\ pc \in [Threads -> PCs] /\ writing \in [Threads -> Records]
    /\ wire \in Wires
    /\ nudged \subseteq Seqs /\ warned \subseteq {"record", "stop"}

\* A park write in flight never lands after a move that was passed through: between
\* the decision to park and its write nothing but a stop reaches the WRC (moveMu).
ParkLandsFirst ==
    [][pc["loop"].at = "park" =>
         wire' \in {wire, Park(pc["loop"].seq), Told("stop")}]_vars

\* A nudge that ended a park is not undone: no later target, reconnect or restart turns
\* the rotator to the preset of that seq, unless the record could not be saved or read.
NudgeNotUndone ==
    pc["loop"].at = "park" /\ pc["loop"].seq \in nudged => "record" \in warned

\* Park once means once: there is nothing to send for a seq that is finished on disk.
ParkOnce ==
    park.seq = file.seq /\ park.az # NoAz => park.done \/ "record" \in warned

\* park.json never goes back to the record of an earlier seq (saveMu).
RecordsInOrder == [][file'.seq >= file.seq]_file

\* A stop that cancelled the park wins the race with the park's write: when both are
\* through, the last command the WRC has is not that park.
StopWins ==
    /\ park.cancelled /\ pc["loop"].at = "idle" /\ \A c \in Clients : pc[c].at # "cancel"
    /\ "stop" \notin warned
    => wire # Park(park.seq)

\* A park that is due goes out, as long as the readback holds still.
ParkGoesOut ==
    \A n \in Seqs : Ready /\ park.seq = n
        ~> park.seq # n \/ park.done \/ ~steady \/ wire = Park(n)
=============================================================================
