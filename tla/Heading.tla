------------------------------- MODULE Heading ------------------------------
(***************************************************************************)
(* antmode's storm heading (internal/heading): the boom is parked          *)
(* broadside to the wind, at the candidate the rotator reaches by the      *)
(* shorter way.                                                            *)
(***************************************************************************)
EXTENDS Integers, FiniteSets

CONSTANTS MaxAz, FallbackAz

ASSUME HeadingAssumption == MaxAz \in 360..450 /\ FallbackAz \in 0..MaxAz

NoAz == -1      \* unknown azimuth, no azimuth yet, stale wind

\* Norm()
Norm(d) == d % 360

\* wind +- 90, and the overlap of the rotator.
Broadside(wind) ==
    LET two == {Norm(wind + 90), Norm(wind + 270)}
    IN two \cup {c \in {d + 360 : d \in two} : c <= MaxAz}

Away(a, b) == IF a < b THEN b - a ELSE a - b

\* Storm(): nearest by plain distance, the lower one of two; the lowest one when the
\* azimuth is unknown; the fallback when the wind is stale.
Storm(wind, az) ==
    IF wind = NoAz THEN FallbackAz
    ELSE CHOOSE c \in Broadside(wind) : \A d \in Broadside(wind) \ {c} :
            IF az = NoAz THEN c < d
            ELSE Away(c, az) < Away(d, az) \/ (Away(c, az) = Away(d, az) /\ c < d)
=============================================================================
