----------------------------- MODULE Reconcile ------------------------------
(***************************************************************************)
(* antennaselect's decision (internal/reconcile): which port the antenna   *)
(* switch should be at, on whose authority, and what follows the radio.    *)
(* Pure: every operator is a function of the inputs.                       *)
(*                                                                         *)
(* A frequency is a VFO position, 0 is none; its band is what flexbridge   *)
(* publishes with it.                                                      *)
(***************************************************************************)
EXTENDS Integers

CONSTANTS
    BandOf,     \* the band of each frequency
    Policy,     \* band_policy through the wiring: the port of each band it names
    Fallback,   \* the port of band_policy.fallback
    FollowPort, \* the port of band_follow.resource, or "" if nothing follows
    TunerPort,  \* the port of tuner_follow.resource, or ""
    AtuBands,   \* tuner_follow.atu_bands
    PAFollow    \* pa_follow.enabled

ASSUME ReconcileAssumption ==
    /\ 0 \notin DOMAIN BandOf /\ PAFollow \in BOOLEAN
    /\ "" \notin {Fallback} \cup {Policy[b] : b \in DOMAIN Policy}

Freqs == DOMAIN BandOf
Band(f) == IF f = 0 THEN "unknown" ELSE BandOf[f]
Ports == {"off", Fallback} \cup {Policy[b] : b \in DOMAIN Policy} \cup ({FollowPort, TunerPort} \ {""})

\* holdActive(), an empty request being a release.
HoldActive(request) == request # "auto"

\* portForBand()
PortForBand(b) == IF b \in DOMAIN Policy THEN Policy[b] ELSE Fallback

\* knownBand()
KnownBand(b) == b \notin {"", "unknown"}

\* Resolve(): the ladder lock, manual stand-down, idle, operator hold, band policy.  No
\* target: the last selection is held.
Resolve(in) ==
    LET To(target, source) ==
            [mode |-> IF HoldActive(in.request) THEN "manual" ELSE "auto",
             target |-> target, source |-> source]
    IN IF in.locked                        THEN To(IF in.ground THEN "off" ELSE "", "lock")
       ELSE IF in.request = "manual"       THEN To("", "operator")
       ELSE IF in.activity = "inactive"    THEN To("off", "idle")
       ELSE IF HoldActive(in.request)      THEN To(in.request, "operator")
       ELSE IF in.online /\ KnownBand(Band(in.freq))
                                           THEN To(PortForBand(Band(in.freq)), "auto")
       ELSE To("", "auto")

\* Next(): what to emit.  "", 0 and "none" are nothing.
Actions(in) ==
    LET d       == Resolve(in)
        manual  == in.request = "manual"
        known   == in.online /\ KnownBand(Band(in.freq))
        atu     == d.target = TunerPort /\ Band(in.freq) \in AtuBands
    IN [select |-> IF d.target \notin {"", in.selected} /\ in.tx # "tx" THEN d.target ELSE "",
        freq   |-> IF /\ ~manual /\ ~in.locked /\ in.online
                      /\ FollowPort # "" /\ d.target = FollowPort THEN in.freq ELSE 0,
        band   |-> IF ~manual /\ PAFollow /\ known /\ Band(in.freq) # "gen"
                   THEN Band(in.freq) ELSE "",
        inline |-> IF ~manual /\ ~in.locked /\ TunerPort # "" /\ known
                   THEN IF atu THEN "in" ELSE "bypass" ELSE "none"]
=============================================================================
