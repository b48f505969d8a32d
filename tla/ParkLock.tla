------------------------------ MODULE ParkLock ------------------------------
(***************************************************************************)
(* What antmode promises the bridges that enforce its lock: within one seq *)
(* the lock is only ever built up, retract before park, and the boom is    *)
(* aimed once; a lock after an unlock, a repark and a change of the mode   *)
(* have a seq no bridge has seen.                                          *)
(***************************************************************************)
EXTENDS Integers

CONSTANT Unaimed        \* no park azimuth yet

VARIABLES mode, seq, retract, park

lock == <<mode, seq, retract, park>>

Init == mode = "normal" /\ seq = 0 /\ ~retract /\ park = Unaimed

Ordered == park' # Unaimed => retract'

Unlock == mode' = "normal" /\ seq' >= seq /\ ~retract' /\ park' = Unaimed

\* The lock is entered or run again.
Enter == mode' # "normal" /\ seq' > seq /\ Ordered

\* The elements are told to go in, the boom is aimed.
Build ==
    /\ mode # "normal" /\ UNCHANGED <<mode, seq>>
    /\ retract => retract'
    /\ park # Unaimed => park' = park
    /\ Ordered

Next == Unlock \/ Enter \/ Build

Spec == Init /\ [][Next]_lock
=============================================================================
