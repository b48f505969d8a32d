----------------------------- MODULE RetractSafe ----------------------------
(***************************************************************************)
(* What the station takes from ultrabridge: that retract_seq means the     *)
(* elements are in, that they come out again, and that the lock gets its   *)
(* retract.                                                                *)
(***************************************************************************)
EXTENDS RetractLock

States  == [retracted : BOOLEAN, offline : BOOLEAN, moving : BOOLEAN]
LkStates == [ant : Locks, open : BOOLEAN, pending : BOOLEAN,
             sent : {"no", "sent", "settled"}, done : BOOLEAN]
Places == {"idle", "send", "refresh", "motor", "band", "offline", "latch",
           "save", "resave", "set", "rearm", "unlatch", "ensure", "decide", "confirm",
           "mark"}
Jobs   == {"none", "retract", "tune", "look", "motor", "ensure"}

PCs == [at : Places, job : Jobs, was : States, seq : 0..MaxSeq]

\* A lock in force ends the startup hold; only a lock has a retract pending or done, one that
\* was sent is pending, and one that is done is not.
LockOK(l) ==
    /\ l \in LkStates
    /\ l.ant.locked => l.open
    /\ l.sent # "no" => l.pending
    /\ l.pending \/ l.done => l.ant.locked
    /\ ~(l.pending /\ l.done)

\* The variables have the types of the Go fields they stand for, and the fields of lockState
\* fit together.
TypeOK ==
    /\ ant \in Locks /\ LockOK(lk) /\ st \in States /\ due \in BOOLEAN
    /\ file \in [retracted : BOOLEAN, due : BOOLEAN]
    /\ pc \in [Goroutines -> PCs]
    /\ dev \in [link : {"on"} \cup Faults, goal : {"in", "out"},
                motors : {"rest", "starting", "running"}]
    /\ past \in {"sound", "late", "doubt"}

Nobody(places) == \A g \in Goroutines : pc[g].at \notin places

\* The bridge has handled the return of the RCU-06.
BackKnown == dev.link # "off" /\ ~st.offline /\ Nobody({"rearm"})

\* A finished retract is what retract_seq says it is: the elements are in and at rest, unless
\* a command let through before the lock, or an operator's retract, moves them after it, the
\* answer to a command was lost, or the outage that may have moved them is not noticed yet.
ConfirmedIn ==
    lk.done /\ BackKnown /\ past = "sound"
        => dev.goal = "in" /\ dev.motors = "rest"

\* With the elements in the deadband never swallows the re-tune that takes them out: not after
\* a power cycle that cleared the latch, and not after a restart on the file (updateLatch,
\* saveLatch, deviceBackOnline).
RetuneGetsThrough ==
    dev.goal = "in" /\ past # "doubt" /\ Nobody({"latch"})
        => due /\ (Nobody({"save"}) => DueOf(file))

Undisturbed ==
    /\ lk.open /\ ant.locked /\ ant.retract /\ dev.link = "on"
    /\ \A g \in Clients : pc[g] = Idle

\* A lock that asks for the retract gets it: with the device reachable and no more commands
\* retract_seq is published in the end and stays, for the seq of the lock.
Confirms == <>[]Undisturbed => <>[](lk.done /\ lk.ant = ant)
=============================================================================
