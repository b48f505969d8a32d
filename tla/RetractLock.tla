----------------------------- MODULE RetractLock ----------------------------
(***************************************************************************)
(* ultrabridge: the lock of the Ultrabeam's elements                       *)
(* (internal/ub/service: controller.go, lock.go, persist.go) between the   *)
(* poll loop, the /cmd worker and the web handlers, each a goroutine, and  *)
(* the lock antmode publishes, which moves as ParkLock says.               *)
(*                                                                         *)
(* A step is what a goroutine does under one mutex, or one exchange with   *)
(* the RCU-06 (under the mutex of the port).  Frequencies are abstracted   *)
(* to whether the deadband swallows them; publishing is left out.          *)
(***************************************************************************)
EXTENDS Integers

CONSTANTS
    Clients,    \* goroutines that issue commands: the /cmd worker, web handlers
    MaxSeq,     \* bound on antmode's seq
    Faults,     \* what may be wrong with the link and the RCU-06: off, deaf, busy
    Crashes     \* the bridge may crash

ASSUME RetractAssumption ==
    /\ "poll" \notin Clients /\ MaxSeq \in Nat
    /\ Faults \subseteq {"off", "deaf", "busy"} /\ Crashes \in BOOLEAN

VARIABLES
    ant,    \* antmode's retained lock
    lk,     \* lockState
    st,     \* the device state, with the retract latch
    due,    \* extendDue
    file,   \* retract.json
    pc,     \* per goroutine: where it is and what it has read
    dev,    \* the RCU-06: its link, where the elements are driven to, the motors
    past    \* history for the properties

vars == <<ant, lk, st, due, file, pc, dev, past>>

Goroutines == {"poll"} \cup Clients

Unlocked == [locked |-> FALSE, seq |-> 0, retract |-> FALSE]
Locks    == [locked : BOOLEAN, seq : 0..MaxSeq, retract : BOOLEAN]

\* The promise of antmode, for which the park azimuth does not matter here.
Ant == INSTANCE ParkLock
          WITH mode <- IF ant.locked THEN "storm" ELSE "normal", seq <- ant.seq,
               retract <- ant.retract, park <- "none", Unaimed <- "none"

\* lockState after a start.  open: the startup hold is over, a state has been seen or its
\* time is up.  haveSeq, seq, retract say what ant does; a retract that was sent is settled
\* when retractSettle has passed.
NewLock == [ant |-> Unlocked, open |-> FALSE, pending |-> FALSE, sent |-> "no", done |-> FALSE]

\* What a goroutine is at, the job that took it there, what it has read of the state and
\* of the lock.
Blank == [retracted |-> FALSE, offline |-> FALSE, moving |-> FALSE]
At(place, job) == [at |-> place, job |-> job, was |-> Blank, seq |-> 0]
Idle == At("idle", "none")

\* The latch and extendDue of a file (PersistTo).
LatchOf(f) == [Blank EXCEPT !.retracted = f.retracted]
DueOf(f)   == f.due \/ f.retracted

Init ==
    /\ ant = Unlocked
    /\ file = [retracted |-> FALSE, due |-> FALSE]
    /\ lk = NewLock /\ st = LatchOf(file) /\ due = DueOf(file)
    /\ pc = [g \in Goroutines |-> Idle]
    /\ dev = [link |-> "on", goal |-> "out", motors |-> "rest"]
    /\ past = "sound"
-----------------------------------------------------------------------------
(* The RCU-06. *)

Moving == dev.motors = "running"

\* The answers to an exchange: heard; executed but not heard; turned down; none.
Answers == CASE dev.link = "on"    -> {"ok"}
             [] dev.link = "deaf"  -> {"ok", "unheard"}
             [] dev.link = "busy"  -> {"ok", "refused"}
             [] dev.link = "off"   -> {"silent"}

Executed(a) == a \in {"ok", "unheard"}

Drives(job) == IF job \in {"retract", "ensure"} THEN "in" ELSE "out"

\* Past a command that was answered, but not yet in the latch.
Unlatched(G) == \E g \in G : pc[g].at = "latch"

\* A retract or an extend reaches the device.  Its answer is lost, or another command is
\* answered and not yet in the latch: doubt, for good.  A client moves the elements under the
\* lock: late, until they are in.
Execute(g, a) ==
    LET to == Drives(pc[g].job)
    IN /\ dev' = [dev EXCEPT !.goal = to,
                              !.motors = IF to = "in" /\ dev.goal = "in" THEN @ ELSE "starting"]
       /\ past' = IF past = "doubt" \/ a # "ok" \/ Unlatched(Goroutines \ {g}) THEN "doubt"
                   ELSE IF g # "poll" /\ dev'.goal # dev.goal /\ lk.ant.locked THEN "late"
                   ELSE past

MotorsStart == /\ dev.motors = "starting" /\ dev' = [dev EXCEPT !.motors = "running"]
               /\ UNCHANGED <<ant, lk, st, due, file, pc, past>>

MotorsStop == /\ Moving /\ dev' = [dev EXCEPT !.motors = "rest"]
              /\ past' = IF past = "late" /\ dev.goal = "in" THEN "sound" ELSE past
              /\ UNCHANGED <<ant, lk, st, due, file, pc>>

\* A goroutine acts on an answer faster than anything outside changes.
Settled == \A g \in Goroutines : pc[g].at \in {"idle", "send", "refresh", "motor", "band"}

\* It makes no difference before the next exchange.
LinkFails ==
    /\ dev.link = "on" /\ \E g \in Goroutines : pc[g].at \in {"send", "refresh", "motor"}
    /\ \E f \in Faults : dev' = [dev EXCEPT !.link = f]
    /\ UNCHANGED <<ant, lk, st, due, file, pc, past>>

\* An outage is as long as it takes to be noticed; the power cycle may drive the elements
\* out.
LinkReturns ==
    /\ dev.link # "on"
    /\ dev.link = "off" => st.offline /\ Settled
    /\ \E to \in {dev.goal} \cup (IF dev.link = "off" THEN {"out"} ELSE {}) :
          dev' = [link |-> "on", goal |-> to,
                  motors |-> IF to = dev.goal THEN dev.motors ELSE "starting"]
    /\ UNCHANGED <<ant, lk, st, due, file, pc, past>>
-----------------------------------------------------------------------------
(* The lock. *)

\* ApplyAntMode() of a state s.
Applied(s) ==
    LET new   == ~lk.ant.locked \/ s.seq # lk.ant.seq
        rearm == s.retract /\ (new \/ ~lk.ant.retract)
    IN IF ~s.locked
       THEN [NewLock EXCEPT !.open = TRUE]
       ELSE [lk EXCEPT !.ant = s, !.open = TRUE, !.pending = @ \/ rearm,
                       !.sent = IF rearm THEN "no" ELSE @,
                       !.done = @ /\ ~new /\ s.retract /\ ~rearm]

\* antmode publishes.
Publish ==
    /\ ant' \in Locks \ {ant} /\ Ant!Next
    /\ UNCHANGED <<lk, st, due, file, pc, dev, past>>

\* The retained state arrives, for the first time or again.
ApplyAntMode ==
    /\ lk' = Applied(ant)
    /\ UNCHANGED <<ant, st, due, file, pc, dev, past>>

\* The startup hold ends.
HoldEnds ==
    /\ ~lk.open
    /\ lk' = [lk EXCEPT !.open = TRUE]
    /\ UNCHANGED <<ant, st, due, file, pc, dev, past>>

\* retractSettle passes: the motors have started by then.
Settle ==
    /\ lk.sent = "sent" /\ dev.motors # "starting" /\ Settled
    /\ lk' = [lk EXCEPT !.sent = "settled"]
    /\ UNCHANGED <<ant, st, due, file, pc, dev, past>>

\* checkExtend()
Refuses == ~lk.open \/ lk.ant.locked

Ensures == lk.ant.locked /\ lk.ant.retract
-----------------------------------------------------------------------------
(* Goroutines. *)

Go(g, to) == pc' = [pc EXCEPT ![g] = to]

\* On to the next step of the same job.
Step(g, place) == Go(g, [pc[g] EXCEPT !.at = place, !.was = Blank])

\* Where a goroutine goes on after the refresh or the motor poll of its job.
After(p) == CASE p.job = "look"   -> At("motor", "motor")
              [] p.job = "motor"  -> At("ensure", "none")
              [] p.job = "ensure" -> [p EXCEPT !.at = "mark", !.was = Blank]
              [] OTHER            -> Idle

\* The same after an error.
Failed(p) == IF p.job \in {"look", "motor"} THEN After(p) ELSE Idle

\* A command of the operator; an extend passes the gate first.
Command(g) ==
    /\ pc[g] = Idle
    /\ \/ Go(g, At("send", "retract"))
       \/ ~Refuses /\ Go(g, At("band", "tune"))
    /\ UNCHANGED <<ant, lk, st, due, file, dev, past>>

\* A re-tune within the deadband is swallowed, unless the elements may be in.  SetMode() and
\* a frequency beyond it go through.
Band(g) ==
    /\ pc[g].at = "band"
    /\ \/ Step(g, "send")
       \/ ~st.retracted /\ ~due /\ Go(g, Idle)
    /\ UNCHANGED <<ant, lk, st, due, file, dev, past>>

\* setOffline() reads the state before it replaces it.
Lose(g) == Go(g, [pc[g] EXCEPT !.at = "offline", !.was.moving = st.moving])

\* The exchange of Retract() and sendFrequency().
Send(g) ==
    /\ pc[g].at = "send"
    /\ \E a \in Answers :
          /\ IF Executed(a) THEN Execute(g, a) ELSE UNCHANGED <<dev, past>>
          /\ CASE a = "ok"      -> Step(g, "latch")
               [] a = "refused" -> Go(g, Failed(pc[g]))
               [] OTHER         -> Lose(g)
    /\ UNCHANGED <<ant, lk, st, due, file>>

\* updateLatch() of a command.
Latch(g) ==
    /\ pc[g].at = "latch"
    /\ LET in == Drives(pc[g].job) = "in"
       IN /\ st' = [st EXCEPT !.retracted = in] /\ due' = in
          /\ Step(g, IF st.retracted # in \/ due # in THEN "save" ELSE "refresh")
    /\ UNCHANGED <<ant, lk, file, dev, past>>

\* saveLatch()
Save(g) ==
    /\ pc[g].at \in {"save", "resave"}
    /\ file' = [retracted |-> st.retracted, due |-> due]
    /\ IF pc[g].at = "save" THEN Step(g, "refresh") ELSE Go(g, After(pc[g]))
    /\ UNCHANGED <<ant, lk, st, due, dev, past>>

\* The exchanges of Refresh() and PollMotorStatus(), which then read the state.
Ask(g) ==
    /\ pc[g].at \in {"refresh", "motor"}
    /\ \E a \in Answers :
          CASE a = "ok"      -> Go(g, [pc[g] EXCEPT !.at = "set", !.was.moving = Moving,
                                                    !.was.offline = st.offline])
            [] a = "refused" -> Go(g, Failed(pc[g]))
            [] OTHER         -> Lose(g)
    /\ UNCHANGED <<ant, lk, st, due, file, dev, past>>

\* setState(): never the latch.
Put(s) == st' = [s EXCEPT !.retracted = st.retracted]

Set(g) ==
    /\ pc[g].at = "set"
    /\ Put([pc[g].was EXCEPT !.offline = FALSE])
    /\ IF pc[g].was.offline THEN Step(g, "rearm") ELSE Go(g, After(pc[g]))
    /\ UNCHANGED <<ant, lk, due, file, dev, past>>

\* The same of setOffline().
Offline(g) ==
    /\ pc[g].at = "offline"
    /\ Put([pc[g].was EXCEPT !.offline = TRUE])
    /\ Go(g, Failed(pc[g]))
    /\ UNCHANGED <<ant, lk, due, file, dev, past>>

\* Mutant: retract_seq is not withdrawn.
RearmDone(g) ==
    /\ pc[g].at = "rearm"
    /\ IF Ensures
       THEN lk' = [lk EXCEPT !.pending = TRUE, !.sent = "no"] /\ Step(g, "unlatch")
       ELSE Go(g, After(pc[g])) /\ UNCHANGED lk
    /\ UNCHANGED <<ant, st, due, file, dev, past>>

\* deviceBackOnline(): first the lock, then the latch.
Rearm(g) ==
    /\ pc[g].at = "rearm"
    /\ IF Ensures
       THEN /\ lk' = [lk EXCEPT !.pending = TRUE, !.sent = "no", !.done = FALSE]
            /\ Step(g, "unlatch")
       ELSE Go(g, After(pc[g])) /\ UNCHANGED lk
    /\ UNCHANGED <<ant, st, due, file, dev, past>>

\* Mutant: the deadband is armed again with the latch.
UnlatchDue(g) ==
    /\ pc[g].at = "unlatch"
    /\ st' = [st EXCEPT !.retracted = FALSE] /\ due' = FALSE
    /\ IF st.retracted THEN Step(g, "resave") ELSE Go(g, After(pc[g]))
    /\ UNCHANGED <<ant, lk, file, dev, past>>

Unlatch(g) ==
    /\ pc[g].at = "unlatch"
    /\ st' = [st EXCEPT !.retracted = FALSE]
    /\ IF st.retracted THEN Step(g, "resave") ELSE Go(g, After(pc[g]))
    /\ UNCHANGED <<ant, lk, due, file, dev, past>>
-----------------------------------------------------------------------------
(* The poll loop. *)

Wake ==
    /\ pc["poll"] = Idle
    /\ Go("poll", At("refresh", "look"))
    /\ UNCHANGED <<ant, lk, st, due, file, dev, past>>

\* EnsureRetract() reads the state first,
Ensure ==
    /\ pc["poll"].at = "ensure"
    /\ Go("poll", [pc["poll"] EXCEPT !.at = "decide", !.was = st])
    /\ UNCHANGED <<ant, lk, st, due, file, dev, past>>

\* Mutant: an extend that cleared the latch goes unnoticed.
RecheckedNot(s) == lk

\* then the lock.  s is the state that was read.
Rechecked(s) ==
    LET again == ~s.retracted /\ ~s.offline /\ ~lk.pending
    IN [lk EXCEPT !.pending = @ \/ again, !.done = @ /\ ~again,
                  !.sent = IF s.retracted THEN @ ELSE "no"]

\* Mutant: confirmed on the latch alone.
FinishedAtOnce(s, l) == s.retracted /\ ~s.moving /\ l.sent # "no"

Finished(s, l) == s.retracted /\ ~s.moving /\ l.sent = "settled"

Decide ==
    /\ pc["poll"].at = "decide"
    /\ LET s == pc["poll"].was
           l == Rechecked(s)
           on(place, job) == [At(place, job) EXCEPT !.seq = lk.ant.seq]
       IN /\ lk' = IF Ensures THEN l ELSE lk
          /\ Go("poll", IF ~Ensures \/ ~l.pending \/ s.offline THEN Idle
                        ELSE IF l.sent = "no"  THEN on("send", "ensure")
                        ELSE IF Finished(s, l) THEN on("confirm", "none")
                        ELSE Idle)
    /\ UNCHANGED <<ant, st, due, file, dev, past>>

\* A finished retract is that of the seq it was begun for.
Confirm ==
    /\ pc["poll"].at = "confirm"
    /\ lk' = IF lk.pending /\ lk.sent # "no" /\ lk.ant.seq = pc["poll"].seq
             THEN [lk EXCEPT !.pending = FALSE, !.sent = "no", !.done = TRUE] ELSE lk
    /\ Go("poll", Idle)
    /\ UNCHANGED <<ant, st, due, file, dev, past>>

Mark ==
    /\ pc["poll"].at = "mark"
    /\ lk' = IF lk.pending /\ lk.ant.seq = pc["poll"].seq
             THEN [lk EXCEPT !.sent = "sent"] ELSE lk
    /\ Go("poll", Idle)
    /\ UNCHANGED <<ant, st, due, file, dev, past>>
-----------------------------------------------------------------------------
\* The bridge crashes and starts again; a command is lost, and what it did to the latch
\* may be.
Crash ==
    /\ Crashes
    /\ lk' = NewLock /\ st' = LatchOf(file) /\ due' = DueOf(file)
    /\ pc' = [g \in Goroutines |-> Idle]
    /\ past' = IF \E g \in Goroutines : pc[g].at \in {"latch", "save"} THEN "doubt" ELSE past
    /\ UNCHANGED <<ant, file, dev>>

\* The steps of a goroutine that issues commands or polls.
Runs(g) == \/ Send(g) \/ Latch(g) \/ Save(g) \/ Ask(g) \/ Set(g)
           \/ Offline(g) \/ Rearm(g) \/ Unlatch(g)

Poll == Wake \/ Ensure \/ Decide \/ Confirm \/ Mark

World == Publish \/ MotorsStart \/ MotorsStop \/ LinkFails \/ LinkReturns \/ HoldEnds \/ Crash

Next == \/ World \/ ApplyAntMode \/ Settle \/ Poll
        \/ \E g \in Clients : Command(g) \/ Band(g)
        \/ \E g \in Goroutines : Runs(g)

\* Fair: the goroutines once they have begun, the poll's ticker, the motors, the clock,
\* and the delivery of the retained lock.
Fairness ==
    /\ WF_vars(Poll) /\ \A g \in Goroutines : WF_vars(Runs(g))
    /\ \A g \in Clients : WF_vars(Band(g))
    /\ WF_vars(MotorsStart) /\ WF_vars(MotorsStop) /\ SF_vars(Settle)
    /\ WF_vars(ApplyAntMode)

Spec == Init /\ [][Next]_vars /\ Fairness
=============================================================================
