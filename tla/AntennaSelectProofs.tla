------------------------- MODULE AntennaSelectProofs ------------------------
(***************************************************************************)
(* The type invariant of antennaselect, that only presence wakes the       *)
(* station, that the switch ends up where the ladder wants it and that the *)
(* elements are out again after a lock, for every wiring, band policy and  *)
(* set of scenarios.                                                       *)
(***************************************************************************)
EXTENDS AntennaSelectSafe, TLAPS

\* What TypeOK says of the client.
Sound(c) ==
    /\ c \in Selectors
    /\ c.redo.stall # "no" =>
          c.redo.pending /\ ~c.locked /\ c.last.freq # 0 /\ c.redo.retracted
    /\ c.activity = "active" => c.idle.seen /\ (c.idle.over => ~HoldLive(c))

-----------------------------------------------------------------------------
(* The decision. *)

\* "" is no port, and every target is one or none (Resolve).
LEMMA PortNames == "" \notin Ports /\ "off" \in Ports /\ Fallback \in Ports
  BY ReconcileAssumption DEF Ports

LEMMA BandPorts == ASSUME NEW b PROVE PortForBand(b) \in Ports
  BY DEF PortForBand, Ports

LEMMA Targets ==
  ASSUME NEW c \in Selectors
  PROVE  Resolve(Inputs(c)).target \in Ports \cup {""}
<1>1. c.request \in Ports \cup {"auto", "manual"}
  BY DEF Selectors
<1> QED
  BY <1>1, PortNames, BandPorts DEF Resolve, Inputs, HoldActive

\* What is emitted is of the type of what is remembered of it (Next, update).
Emissions == [select : Ports \cup {""}, freq : Freqs \cup {0},
              band : {Band(f) : f \in Freqs} \cup {""}, inline : {"none", "in", "bypass"}]

LEMMA Emission ==
  ASSUME NEW s \in Ports \cup {""}, NEW f \in Freqs \cup {0},
         NEW b \in {Band(g) : g \in Freqs} \cup {""}, NEW i \in {"none", "in", "bypass"}
  PROVE  [select |-> s, freq |-> f, band |-> b, inline |-> i] \in Emissions
  BY DEF Emissions

LEMMA ActionTypes ==
  ASSUME NEW c \in Selectors
  PROVE  Actions(Inputs(c)) \in Emissions
<1> DEFINE in == Inputs(c)
           d == Resolve(in)
           manual == in.request = "manual"
           known == in.online /\ KnownBand(Band(in.freq))
           atu == d.target = TunerPort /\ Band(in.freq) \in AtuBands
           select == IF d.target \notin {"", in.selected} /\ in.tx # "tx" THEN d.target ELSE ""
           freq == IF /\ ~manual /\ ~in.locked /\ in.online
                      /\ FollowPort # "" /\ d.target = FollowPort THEN in.freq ELSE 0
           band == IF ~manual /\ PAFollow /\ known /\ Band(in.freq) # "gen"
                   THEN Band(in.freq) ELSE ""
           inline == IF ~manual /\ ~in.locked /\ TunerPort # "" /\ known
                     THEN IF atu THEN "in" ELSE "bypass" ELSE "none"
<1>1. Actions(in) = [select |-> select, freq |-> freq, band |-> band, inline |-> inline]
  BY DEF Actions
<1>2. in.freq \in Freqs \cup {0}
  BY DEF Selectors, Inputs
<1>3. select \in Ports \cup {""}
  <2>1. d.target \in Ports \cup {""}
    BY Targets
  <2> QED
    BY <2>1
<1>4. freq \in Freqs \cup {0}
  BY <1>2
<1>5. band \in {Band(f) : f \in Freqs} \cup {""}
  <2>1. in.freq \in Freqs \/ Band(in.freq) = "unknown"
    BY <1>2 DEF Band
  <2>2. known => in.freq \in Freqs
    BY <2>1 DEF KnownBand
  <2> HIDE DEF known, in, manual
  <2> QED
    BY <2>2
<1>6. inline \in {"none", "in", "bypass"}
  OBVIOUS
<1> HIDE DEF select, freq, band, inline, in
<1>7. Actions(in) \in Emissions
  BY <1>1, <1>3, <1>4, <1>5, <1>6, Emission
<1> QED
  BY <1>7 DEF in

LEMMA EmitTypes == ASSUME NEW c \in Selectors PROVE Emits(c) \in Emissions
<1> DEFINE a == Actions(Inputs(c))
<1>1. a \in Emissions
  BY ActionTypes
<1> HIDE DEF a
<1>2. Emits(c) = [a EXCEPT !.select = IF c.selected = "" /\ @ = c.last.select THEN "" ELSE @,
                 !.freq   = IF @ = c.last.freq THEN 0 ELSE @,
                 !.band   = IF @ = c.last.band THEN "" ELSE @,
                 !.inline = IF @ = c.last.inline THEN "none" ELSE @]
  BY DEF Emits, a
<1> QED
  BY <1>1, <1>2 DEF Emissions

\* update() leaves the client as it is, but for what was last sent.
LEMMA SentKeeps ==
  ASSUME NEW c \in Selectors
  PROVE  \E l \in Emissions : /\ Sent(c) = [c EXCEPT !.last = l]
                              /\ c.last.freq # 0 => l.freq # 0
<1> DEFINE e == Emits(c)
           l == [select |-> IF e.select = "" THEN c.last.select ELSE e.select,
                 freq   |-> IF e.freq = 0 THEN c.last.freq ELSE e.freq,
                 band   |-> IF e.band = "" THEN c.last.band ELSE e.band,
                 inline |-> IF e.inline = "none" THEN c.last.inline ELSE e.inline]
<1>1. e \in Emissions /\ c.last \in Emissions
  BY EmitTypes DEF Selectors, Emissions
<1>2. Sent(c) = [c EXCEPT !.last = l]
  BY DEF Sent, Record, Selectors
<1> HIDE DEF e
<1>3. l \in Emissions /\ (c.last.freq # 0 => l.freq # 0)
  BY <1>1 DEF Emissions
<1> QED
  BY <1>2, <1>3

LEMMA LastTypes ==
  ASSUME NEW c \in Selectors, NEW l \in Emissions
  PROVE  [c EXCEPT !.last = l] \in Selectors
  BY DEF Selectors, Emissions

LEMMA SentSound == ASSUME NEW c, Sound(c) PROVE Sound(Sent(c))
<1>1. c \in Selectors
  BY DEF Sound
<1>2. PICK l \in Emissions : Sent(c) = [c EXCEPT !.last = l] /\ (c.last.freq # 0 => l.freq # 0)
  BY <1>1, SentKeeps
<1>3. Sent(c) \in Selectors
  BY <1>1, <1>2, LastTypes
<1>4. /\ Sent(c).redo = c.redo /\ Sent(c).locked = c.locked /\ Sent(c).activity = c.activity
      /\ Sent(c).idle = c.idle /\ Sent(c).hold = c.hold /\ Sent(c).last = l
  BY <1>1, <1>2 DEF Selectors
<1> QED
  BY <1>2, <1>3, <1>4 DEF Sound, HoldLive
-----------------------------------------------------------------------------
(* The handlers leave the client sound. *)

Owed(c) == /\ c.redo.pending /\ ~c.locked /\ c.last.freq # 0
           /\ c.redo.dev = "on" /\ c.redo.retracted /\ ~c.redo.lock

\* What the re-extend never touches.
Rests(c, d) ==
    /\ d.activity = c.activity /\ d.idle = c.idle /\ d.hold = c.hold
    /\ d.base = c.base /\ d.tx = c.tx

Untouched(c, d) == Rests(c, d) /\ d.locked = c.locked

Redos == [pending : BOOLEAN, dev : {"unseen", "off", "on"}, retracted : BOOLEAN,
          lock : BOOLEAN, stall : {"no", "running", "over"}, retried : BOOLEAN]

LEMMA Redone ==
  ASSUME NEW c \in Selectors, NEW r \in Redos
  PROVE  LET d == [c EXCEPT !.redo = r]
         IN d \in Selectors /\ d.redo = r /\ d.last = c.last /\ Untouched(c, d)
  BY DEF Selectors, Redos, Untouched, Rests

LEMMA Relasted ==
  ASSUME NEW c \in Selectors, NEW l \in Emissions
  PROVE  LET d == [c EXCEPT !.last = l]
         IN d \in Selectors /\ d.last = l /\ d.redo = c.redo /\ Untouched(c, d)
  BY ZenonT(60) DEF Selectors, Emissions, Untouched, Rests

LEMMA Parts ==
  ASSUME NEW c \in Selectors
  PROVE  c.redo \in Redos /\ c.last \in Emissions
  BY DEF Selectors, Redos, Emissions

\* Sound, but for the stall.
Founded(c) ==
    /\ c \in Selectors
    /\ c.activity = "active" => c.idle.seen /\ (c.idle.over => ~HoldLive(c))

LEMMA NewSound == Sound(NewSelector)
  BY DEF NewSelector, Sound, Selectors, HoldLive

\* Whatever a handler did before, checkReextendStall() puts the stall right.
LEMMA CheckSound ==
  ASSUME NEW c, Founded(c), NEW fire \in BOOLEAN
  PROVE  /\ Sound(CheckReextendStall(c, fire))
         /\ Untouched(c, CheckReextendStall(c, fire))
<1> DEFINE d == CheckReextendStall(c, fire)
<1>1. c \in Selectors
  BY DEF Founded
<1>2. CASE ~Owed(c)
  <2> DEFINE r == [c.redo EXCEPT !.stall = "no"]
  <2>1. d = [c EXCEPT !.redo = r]
    BY <1>1, <1>2 DEF CheckReextendStall, Owed, Selectors
  <2>2. r \in Redos /\ r.stall = "no"
    BY <1>1, Parts DEF Redos
  <2> HIDE DEF d, r
  <2> QED
    BY <1>1, <2>1, <2>2, Redone DEF Founded, Sound, HoldLive, Untouched, Rests, d
<1>3. CASE Owed(c) /\ c.redo.stall = "no"
  <2> DEFINE r == [c.redo EXCEPT !.stall = "running"]
  <2>1. d = [c EXCEPT !.redo = r]
    BY <1>1, <1>3 DEF CheckReextendStall, Owed, Selectors
  <2>2. r \in Redos /\ r.pending = c.redo.pending /\ r.retracted = c.redo.retracted
    BY <1>1, Parts DEF Redos
  <2> HIDE DEF d, r
  <2>3. d \in Selectors /\ d.redo = r /\ d.last = c.last /\ Untouched(c, d)
    BY <1>1, <2>1, <2>2, Redone
  <2> QED
    BY <1>3, <2>2, <2>3 DEF Founded, Sound, HoldLive, Untouched, Rests, Owed, d
<1>4. CASE Owed(c) /\ c.redo.stall # "no" /\ fire /\ c.redo.stall = "over" /\ ~c.redo.retried
  <2> DEFINE r == [c.redo EXCEPT !.stall = "no", !.retried = TRUE]
             l == [c.last EXCEPT !.freq = 0]
             k == [c EXCEPT !.redo = r]
  <2>1. d = [k EXCEPT !.last = l]
    <3>1. d = [c EXCEPT !.redo.stall = "no", !.redo.retried = TRUE, !.last.freq = 0]
      BY <1>4 DEF CheckReextendStall, Owed
    <3>2. [c EXCEPT !.redo.stall = "no", !.redo.retried = TRUE] = k
      BY <1>1 DEF Selectors
    <3>3. [[c EXCEPT !.redo.stall = "no", !.redo.retried = TRUE] EXCEPT !.last.freq = 0]
              = [k EXCEPT !.last = l]
      BY <1>1, <3>2 DEF Selectors
    <3> QED
      BY <3>1, <3>3
  <2>2. r \in Redos /\ r.stall = "no"
    BY <1>1, Parts DEF Redos
  <2>3. l \in Emissions
    BY <1>1, Parts DEF Emissions
  <2> HIDE DEF d, r, l
  <2>4. k \in Selectors /\ k.redo = r /\ Untouched(c, k)
    BY <1>1, <2>2, Redone
  <2> HIDE DEF k
  <2>5. d \in Selectors /\ d.redo = r /\ Untouched(k, d)
    BY <2>1, <2>3, <2>4, Relasted
  <2> QED
    BY <1>1, <2>2, <2>4, <2>5 DEF Founded, Sound, HoldLive, Untouched, Rests, d
<1>5. CASE /\ Owed(c) /\ c.redo.stall # "no"
           /\ ~(fire /\ c.redo.stall = "over" /\ ~c.redo.retried)
  <2>1. d = c
    BY <1>5 DEF CheckReextendStall, Owed
  <2> HIDE DEF d
  <2> QED
    BY <1>1, <1>5, <2>1 DEF d, Founded, Sound, Owed, Untouched, Rests
<1> QED
  BY <1>2, <1>3, <1>4, <1>5

\* What a handler that wakes the station leaves, and what it keeps.
Woken(d) == d.activity = "active" /\ d.idle = [over |-> FALSE, seen |-> TRUE]

Kept(c, d) ==
    /\ d.redo = c.redo /\ d.locked = c.locked /\ d.last = c.last
    /\ d.base = c.base /\ d.hold = c.hold /\ d.tx = c.tx

LEMMA ActiveSound ==
  ASSUME NEW c \in Selectors
  PROVE  /\ MarkActive(c) \in Selectors
         /\ Woken(MarkActive(c)) /\ Kept(c, MarkActive(c))
         /\ Sound(c) => Sound(MarkActive(c))
<1> DEFINE d == MarkActive(c)
<1>1. d \in Selectors /\ Woken(d) /\ Kept(c, d)
  BY DEF MarkActive, Selectors, Woken, Kept
<1> HIDE DEF d
<1>2. Sound(c) => Sound(d)
  BY <1>1 DEF Sound, Woken, Kept
<1> QED
  BY <1>1, <1>2 DEF d

LEMMA LockHandled ==
  ASSUME NEW c, Sound(c), NEW lock \in BOOLEAN, NEW ground \in BOOLEAN
  PROVE  Sound(ApplyAntMode(c, lock, ground)) /\ Rests(c, ApplyAntMode(c, lock, ground))
<1> DEFINE d == [c EXCEPT !.locked = lock, !.ground = ground]
           l == [c.last EXCEPT !.freq = 0, !.select = "", !.inline = "none"]
           r == [c.redo EXCEPT !.pending = TRUE, !.retried = FALSE]
           owes == [d EXCEPT !.last = l, !.redo = r]
<1>1. c \in Selectors
  BY DEF Sound
<1>2. d \in Selectors /\ Rests(c, d) /\ d.last = c.last /\ d.redo = c.redo
  BY <1>1, ZenonT(60) DEF Selectors, Rests
<1>3. l \in Emissions /\ r \in Redos
  BY <1>1, Parts DEF Emissions, Redos
<1>4. ApplyAntMode(c, lock, ground)
          = CheckReextendStall(IF c.locked /\ ~lock THEN owes ELSE d, FALSE)
  BY <1>2 DEF ApplyAntMode
<1> HIDE DEF d, l, r
<1>5. [d EXCEPT !.last = l] \in Selectors /\ Rests(d, [d EXCEPT !.last = l])
  BY <1>2, <1>3, Relasted DEF Untouched
<1>6. owes \in Selectors /\ Rests(d, owes)
  BY <1>3, <1>5, Redone DEF Untouched, Rests
<1> HIDE DEF owes
<1>7. Founded(d) /\ Founded(owes)
  BY <1>2, <1>6 DEF Sound, Founded, Rests, HoldLive
<1> DEFINE x == IF c.locked /\ ~lock THEN owes ELSE d
<1>8. Founded(x) /\ Rests(c, x)
  BY <1>2, <1>6, <1>7 DEF Rests
<1>9. ApplyAntMode(c, lock, ground) = CheckReextendStall(x, FALSE)
  BY <1>4
<1> HIDE DEF x
<1>10. Sound(CheckReextendStall(x, FALSE)) /\ Untouched(x, CheckReextendStall(x, FALSE))
  BY <1>8, CheckSound
<1> QED
  BY <1>8, <1>9, <1>10 DEF Untouched, Rests

LEMMA FollowHandled ==
  ASSUME NEW c, Sound(c), NEW on \in BOOLEAN, NEW retracted \in BOOLEAN, NEW lock \in BOOLEAN
  PROVE  /\ Sound(ApplyFollowState(c, on, retracted, lock))
         /\ Rests(c, ApplyFollowState(c, on, retracted, lock))
<1> DEFINE back == c.redo.dev = "off" /\ on
           owed == c.redo.pending /\ ~c.locked
           r == [c.redo EXCEPT !.dev = IF on THEN "on" ELSE "off",
                               !.retracted = retracted, !.lock = lock]
           d == [c EXCEPT !.redo = r]
           out == [d EXCEPT !.redo.pending = FALSE]
           lost == [d EXCEPT !.last.freq = 0]
<1>1. c \in Selectors
  BY DEF Sound
<1>2. r \in Redos
  BY <1>1, Parts DEF Redos
<1>3. d \in Selectors /\ Rests(c, d)
  BY <1>1, <1>2, Redone DEF Untouched
<1>4. ApplyFollowState(c, on, retracted, lock)
          = CheckReextendStall(IF owed /\ on /\ ~retracted THEN out
                               ELSE IF owed /\ back /\ retracted THEN lost ELSE d, FALSE)
  BY <1>1 DEF ApplyFollowState, Selectors
<1> HIDE DEF d, r
<1>5. out \in Selectors /\ Rests(d, out)
  <2>1. [d.redo EXCEPT !.pending = FALSE] \in Redos
    BY <1>3, Parts DEF Redos
  <2>2. out = [d EXCEPT !.redo = [d.redo EXCEPT !.pending = FALSE]]
    BY <1>3 DEF Selectors
  <2> QED
    BY <1>3, <2>1, <2>2, Redone DEF Untouched
<1>6. lost \in Selectors /\ Rests(d, lost)
  <2>1. [d.last EXCEPT !.freq = 0] \in Emissions
    BY <1>3, Parts DEF Emissions
  <2>2. lost = [d EXCEPT !.last = [d.last EXCEPT !.freq = 0]]
    BY <1>3 DEF Selectors
  <2> QED
    BY <1>3, <2>1, <2>2, Relasted DEF Untouched
<1> HIDE DEF out, lost
<1>7. Founded(d) /\ Founded(out) /\ Founded(lost)
  BY <1>3, <1>5, <1>6 DEF Sound, Founded, Rests, HoldLive
<1> DEFINE x == IF owed /\ on /\ ~retracted THEN out
                ELSE IF owed /\ back /\ retracted THEN lost ELSE d
<1>8. Founded(x) /\ Rests(c, x)
  BY <1>3, <1>5, <1>6, <1>7 DEF Rests
<1>9. ApplyFollowState(c, on, retracted, lock) = CheckReextendStall(x, FALSE)
  BY <1>4
<1> HIDE DEF x
<1>10. Sound(CheckReextendStall(x, FALSE)) /\ Untouched(x, CheckReextendStall(x, FALSE))
  BY <1>8, CheckSound
<1> QED
  BY <1>8, <1>9, <1>10 DEF Untouched, Rests

\* A handler that assigns none of what Sound speaks of leaves the client sound.
LEMMA StaysSound ==
  ASSUME NEW c, Sound(c), NEW d \in Selectors,
         d.redo = c.redo, d.last = c.last, d.locked = c.locked,
         d.activity = c.activity, d.idle = c.idle, d.hold = c.hold
  PROVE  Sound(d)
  BY DEF Sound, HoldLive

Samples == [bridge : BOOLEAN, up : BOOLEAN, freq : Freqs \cup {0}, tx : {"rx", "tx"}]

Sample(c, up, freq, tx, b) == [c EXCEPT !.dev = up, !.freq = freq, !.tx = tx, !.base = b]

IsSample(c, d, tx, b) ==
    /\ d \in Selectors /\ d.redo = c.redo /\ d.last = c.last /\ d.locked = c.locked
    /\ d.activity = c.activity /\ d.idle = c.idle /\ d.hold = c.hold
    /\ d.base = b /\ d.tx = tx

LEMMA Sampled ==
  ASSUME NEW c \in Selectors, NEW up \in BOOLEAN, NEW freq \in Freqs \cup {0},
         NEW tx \in {"rx", "tx"}, NEW b \in [seen : BOOLEAN, freq : Freqs \cup {0}]
  PROVE  IsSample(c, Sample(c, up, freq, tx, b), tx, b)
<1> DEFINE d == Sample(c, up, freq, tx, b)
<1>1. d \in Selectors
  BY ZenonT(60) DEF Sample, Selectors
<1>2. /\ d.redo = c.redo /\ d.last = c.last /\ d.locked = c.locked
      /\ d.activity = c.activity /\ d.idle = c.idle /\ d.hold = c.hold
      /\ d.base = b /\ d.tx = tx
  BY DEF Sample, Selectors
<1> HIDE DEF d
<1>3. IsSample(c, d, tx, b)
  BY <1>1, <1>2 DEF IsSample
<1> QED
  BY <1>3 DEF d

LEMMA RadioHandled ==
  ASSUME NEW c, Sound(c), NEW r \in Samples
  PROVE  LET d == OnRadioState(c, r)
         IN /\ Sound(d) /\ d.tx = r.tx /\ d.hold = c.hold
            /\ d.base.freq = IF (r.up /\ r.freq # 0) \/ r.freq = 0 THEN r.freq ELSE c.base.freq
            /\ \/ d.activity = c.activity /\ d.idle = c.idle
               \/ r.tx = "tx"
               \/ r.up /\ r.freq # 0 /\ c.base.freq # 0 /\ r.freq # c.base.freq
<1> DEFINE live == r.up /\ r.freq # 0
           vfo == live /\ c.base.freq # 0 /\ r.freq # c.base.freq
           tx == c.base.seen /\ r.up /\ r.tx = "tx"
           m == IF vfo \/ tx THEN MarkActive(c) ELSE c
           at == IF live \/ r.freq = 0 THEN r.freq ELSE c.base.freq
           b == [seen |-> TRUE, freq |-> at]
           d == Sample(m, r.up, r.freq, r.tx, b)
<1>1. c \in Selectors
  BY DEF Sound
<1>2. Sound(m) /\ m.base = c.base /\ m.hold = c.hold
  <2> HIDE DEF vfo, tx
  <2> QED
    BY <1>1, ActiveSound DEF Kept
<1>3. m = c \/ vfo \/ r.tx = "tx"
  OBVIOUS
<1>4. OnRadioState(c, r) = [m EXCEPT !.dev = r.up, !.freq = r.freq, !.tx = r.tx,
          !.base = [seen |-> TRUE, freq |-> IF live \/ r.freq = 0 THEN r.freq ELSE @.freq]]
  BY DEF OnRadioState
<1> HIDE DEF m
<1>5. m \in Selectors
  BY <1>2 DEF Sound
<1>6. OnRadioState(c, r) = d
  BY <1>2, <1>4, <1>5 DEF Sample, Selectors
<1>7. b \in [seen : BOOLEAN, freq : Freqs \cup {0}]
  BY <1>1 DEF Selectors, Samples
<1>8. b.freq = at
  OBVIOUS
<1> HIDE DEF b
<1>9. /\ d \in Selectors /\ d.redo = m.redo /\ d.last = m.last /\ d.locked = m.locked
      /\ d.activity = m.activity /\ d.idle = m.idle /\ d.hold = m.hold
      /\ d.base = b /\ d.tx = r.tx
  <2>1. r.up \in BOOLEAN /\ r.freq \in Freqs \cup {0} /\ r.tx \in {"rx", "tx"}
    BY DEF Samples
  <2>2. IsSample(m, d, r.tx, b)
    <3> HIDE DEF live, vfo, tx, at
    <3> QED
      BY <1>5, <1>7, <2>1, Sampled
  <2> QED
    BY <2>2 DEF IsSample
<1> HIDE DEF d
<1>10. Sound(d)
  BY <1>2, <1>9, StaysSound
<1> QED
  BY <1>2, <1>3, <1>6, <1>8, <1>9, <1>10

LEMMA StatusHandled ==
  ASSUME NEW c, Sound(c), NEW on \in BOOLEAN
  PROVE  Sound(OnRadioStatus(c, on)) /\ Rests(c, OnRadioStatus(c, on))
<1> DEFINE d == OnRadioStatus(c, on)
<1>1. c \in Selectors
  BY DEF Sound
<1>2. d \in Selectors /\ Rests(c, d) /\ Kept(c, d)
  BY <1>1 DEF OnRadioStatus, Selectors, Rests, Kept
<1> HIDE DEF d
<1>3. Sound(d) /\ Rests(c, d)
  BY <1>2, StaysSound DEF Rests, Kept
<1> QED
  BY <1>3 DEF d

LEMMA SwitchHandled ==
  ASSUME NEW c, Sound(c), NEW p \in Ports
  PROVE  Sound(OnAntSwitchState(c, p)) /\ Rests(c, OnAntSwitchState(c, p))
<1> DEFINE d == OnAntSwitchState(c, p)
<1>1. c \in Selectors
  BY DEF Sound
<1>2. d \in Selectors /\ Rests(c, d) /\ Kept(c, d)
  BY <1>1 DEF OnAntSwitchState, Selectors, Rests, Kept
<1> HIDE DEF d
<1>3. Sound(d) /\ Rests(c, d)
  BY <1>2, StaysSound DEF Rests, Kept
<1> QED
  BY <1>3 DEF d

LEMMA OperatorHandled ==
  ASSUME NEW c, Sound(c), NEW req \in Ports \cup {"auto", "manual"}
  PROVE  LET d == OnOperatorCmd(c, req)
         IN /\ Sound(d) /\ d.base = c.base /\ d.hold = c.hold /\ d.tx = c.tx
            /\ ~HoldActive(req) => Rests(c, d)
<1> DEFINE d == [c EXCEPT !.request = req]
<1>1. c \in Selectors
  BY DEF Sound
<1>2. d \in Selectors /\ Rests(c, d) /\ Kept(c, d)
  BY <1>1, ZenonT(60) DEF Selectors, Rests, Kept
<1>3. OnOperatorCmd(c, req) = IF HoldActive(req) THEN MarkActive(d) ELSE d
  BY DEF OnOperatorCmd
<1> HIDE DEF d
<1>4. Sound(d)
  BY <1>2, StaysSound DEF Rests, Kept
<1>5. Sound(MarkActive(d)) /\ Kept(d, MarkActive(d))
  BY <1>2, <1>4, ActiveSound
<1> QED
  BY <1>2, <1>3, <1>4, <1>5 DEF Kept

\* A hold wakes the station only while it is live.
HoldWakes(c, d) == (d.activity = c.activity /\ d.idle = c.idle) \/ HoldLive(d)

LEMMA HoldsApplied ==
  ASSUME NEW c \in Selectors,
         c.redo.stall # "no" =>
            c.redo.pending /\ ~c.locked /\ c.last.freq # 0 /\ c.redo.retracted,
         HoldLive(c) \/ Sound(c)
  PROVE  LET d == ApplyHolds(c)
         IN /\ Sound(d) /\ d.base = c.base /\ d.hold = c.hold /\ d.tx = c.tx
            /\ HoldWakes(c, d) /\ (HoldLive(d) => Woken(d))
<1>1. CASE HoldLive(c)
  <2>1. ApplyHolds(c) = MarkActive(c)
    BY <1>1 DEF ApplyHolds
  <2> DEFINE d == MarkActive(c)
  <2>2. d \in Selectors /\ Woken(d) /\ d.base = c.base /\ d.hold = c.hold /\ d.tx = c.tx
        /\ d.redo = c.redo /\ d.last = c.last /\ d.locked = c.locked
    BY ActiveSound DEF Kept
  <2> HIDE DEF d
  <2>3. Sound(d) /\ HoldLive(d)
    BY <1>1, <2>2 DEF Sound, Woken, HoldLive
  <2> QED
    BY <2>1, <2>2, <2>3 DEF HoldWakes, d
<1>2. CASE ~HoldLive(c)
  BY <1>2 DEF ApplyHolds, HoldWakes
<1> QED
  BY <1>1, <1>2

Holds == [online : BOOLEAN, held : {"no", "live", "stale"}]

LEMMA HoldHandled ==
  ASSUME NEW c, Sound(c), NEW d,
         \/ \E on \in BOOLEAN : d = OnHoldStatus(c, on)
         \/ \E h \in {"no", "live", "stale"} : d = OnHoldState(c, h)
  PROVE  Sound(d) /\ d.base = c.base /\ d.tx = c.tx /\ HoldWakes(c, d)
<1>1. ASSUME NEW h \in Holds,
             d = ApplyHolds([c EXCEPT !.hold = h])
      PROVE  Sound(d) /\ d.base = c.base /\ d.tx = c.tx /\ HoldWakes(c, d)
  <2> DEFINE k == [c EXCEPT !.hold = h]
  <2>1. k \in Selectors /\ k.redo = c.redo /\ k.last = c.last /\ k.locked = c.locked
        /\ k.activity = c.activity /\ k.idle = c.idle /\ k.base = c.base /\ k.tx = c.tx
    <3>1. c \in Selectors
      BY DEF Sound
    <3> QED
      BY <3>1 DEF Selectors, Holds
  <2> HIDE DEF k
  <2>2. HoldLive(k) \/ Sound(k)
    BY <2>1 DEF Sound
  <2> QED
    BY <1>1, <2>1, <2>2, HoldsApplied DEF Sound, HoldWakes, k
<1>2. \E x \in Holds : d = ApplyHolds([c EXCEPT !.hold = x])
  <2>1. c.hold \in Holds /\ c \in Selectors
    BY DEF Sound, Selectors, Holds
  <2>2. ASSUME NEW on \in BOOLEAN, d = OnHoldStatus(c, on)
        PROVE  \E x \in Holds : d = ApplyHolds([c EXCEPT !.hold = x])
    <3>1. [c EXCEPT !.hold.online = on] = [c EXCEPT !.hold = [c.hold EXCEPT !.online = on]]
      BY <2>1 DEF Selectors
    <3>2. [c.hold EXCEPT !.online = on] \in Holds
      BY <2>1 DEF Holds
    <3> QED
      BY <2>2, <3>1, <3>2 DEF OnHoldStatus
  <2>3. ASSUME NEW h \in {"no", "live", "stale"}, d = OnHoldState(c, h)
        PROVE  \E x \in Holds : d = ApplyHolds([c EXCEPT !.hold = x])
    <3>1. [c EXCEPT !.hold.held = h] = [c EXCEPT !.hold = [c.hold EXCEPT !.held = h]]
      BY <2>1 DEF Selectors
    <3>2. [c.hold EXCEPT !.held = h] \in Holds
      BY <2>1 DEF Holds
    <3> QED
      BY <2>3, <3>1, <3>2 DEF OnHoldState
  <2> QED
    BY <2>2, <2>3
<1> QED
  BY <1>1, <1>2

LEMMA Idled ==
  ASSUME NEW c \in Selectors
  PROVE  LET d == [c EXCEPT !.activity = "inactive"]
         IN /\ d \in Selectors /\ d.base = c.base /\ d.hold = c.hold /\ d.tx = c.tx
            /\ d.idle = c.idle /\ d.activity = "inactive"
            /\ d.redo = c.redo /\ d.last = c.last /\ d.locked = c.locked
  BY DEF Selectors

LEMMA TickHandled ==
  ASSUME NEW c, Sound(c)
  PROVE  LET d == CheckIdle(c)
         IN /\ Sound(d) /\ d.base = c.base /\ d.tx = c.tx /\ d.hold = c.hold
            /\ (d.activity = "active" => HoldWakes(c, d))
<1> DEFINE h == ApplyHolds(c)
           k == IF h.idle.over THEN [h EXCEPT !.activity = "inactive"] ELSE h
           d == CheckReextendStall(k, TRUE)
<1>1. c \in Selectors
  BY DEF Sound
<1>2. Sound(h) /\ h.base = c.base /\ h.hold = c.hold /\ h.tx = c.tx /\ HoldWakes(c, h)
  BY <1>1, HoldsApplied DEF Sound
<1> HIDE DEF h
<1>3. h \in Selectors
  BY <1>2 DEF Sound
<1>4. /\ k \in Selectors /\ k.base = h.base /\ k.hold = h.hold /\ k.tx = h.tx /\ k.idle = h.idle
      /\ (k.activity = h.activity \/ k.activity = "inactive")
      /\ k.redo = h.redo /\ k.last = h.last /\ k.locked = h.locked
  BY <1>3, Idled
<1> HIDE DEF k
<1>5. Founded(k)
  BY <1>2, <1>4 DEF Founded, Sound, HoldLive
<1>6. CheckIdle(c) = d
  BY DEF CheckIdle, h, k
<1>7. Sound(d) /\ Untouched(k, d)
  BY <1>5, CheckSound
<1> HIDE DEF d
<1> QED
  BY <1>2, <1>4, <1>6, <1>7 DEF HoldWakes, Untouched, Rests, HoldLive
-----------------------------------------------------------------------------
(* The type invariant. *)

Nets == [link : BOOLEAN, subs : 0..8, due : SUBSET Topics]
Pasts == [touched : SUBSET Topics, forgot : BOOLEAN, misled : BOOLEAN]
Ctls  == [dev : BOOLEAN, out : BOOLEAN, retracted : BOOLEAN, locked : BOOLEAN, cmd : BOOLEAN]

\* The neighbours, the link and the history.  A due move has a target.
WorldOK ==
    /\ radio \in Samples /\ locked \in BOOLEAN
    /\ switch \in [selected : Ports, cmd : Ports \cup {""}, due : BOOLEAN]
    /\ switch.due => switch.cmd # ""
    /\ ctl \in Ctls
    /\ operator \in Requests \cup {"auto"} /\ hold \in Holds
    /\ net \in Nets /\ past \in Pasts

TypeInv == Sound(client) /\ WorldOK

LEMMA TopicNames ==
  Topics = {"lock", "radio", "bridge", "switch", "follow", "holdStatus", "hold", "cmd"}
<1>1. DOMAIN Subscriptions = 1..8
  BY DEF Subscriptions
<1> QED
  BY <1>1 DEF Topics, Subscriptions

LEMMA TypeInvTypes == TypeInv => TypeOK
  BY DEF TypeInv, WorldOK, Sound, TypeOK, Nets

\* Every handler leaves the client sound.
LEMMA Handles ==
  ASSUME TypeInv, NEW topic \in Topics
  PROVE  Sound(Handled(topic))
<1>1. Sound(client) /\ locked \in BOOLEAN /\ radio \in Samples /\ radio.bridge \in BOOLEAN
  BY DEF TypeInv, WorldOK, Samples
<1>2. /\ switch.selected \in Ports /\ hold.online \in BOOLEAN /\ hold.held \in {"no", "live", "stale"}
      /\ operator \in Ports \cup {"auto", "manual"}
  BY AntennaSelectAssumption DEF TypeInv, WorldOK, Holds
<1>3. ctl.dev \in BOOLEAN /\ ctl.retracted \in BOOLEAN /\ ctl.locked \in BOOLEAN
  BY DEF TypeInv, WorldOK, Ctls
<1>4. CASE topic = "lock"
  BY <1>1, <1>4, LockHandled DEF Handled
<1>5. CASE topic = "radio"
  BY <1>1, <1>5, RadioHandled DEF Handled
<1>6. CASE topic = "bridge"
  BY <1>1, <1>6, StatusHandled DEF Handled
<1>7. CASE topic = "switch"
  BY <1>1, <1>2, <1>7, SwitchHandled DEF Handled
<1>8. CASE topic = "follow"
  BY <1>1, <1>3, <1>8, FollowHandled DEF Handled
<1>9. CASE topic = "holdStatus"
  BY <1>1, <1>2, <1>9, HoldHandled DEF Handled
<1>10. CASE topic = "hold"
  BY <1>1, <1>2, <1>10, HoldHandled DEF Handled
<1>11. CASE topic = "cmd"
  BY <1>1, <1>2, <1>11, OperatorHandled DEF Handled
<1> QED
  BY <1>4, <1>5, <1>6, <1>7, <1>8, <1>9, <1>10, <1>11, TopicNames

LEMMA UpdateTypes ==
  ASSUME TypeInv, NEW c, Sound(c), NEW n \in Nets, NEW touched \in SUBSET Topics,
         Update(c, n, touched)
  PROVE  TypeInv'
<1> DEFINE e == Emits(c)
           s == Sent(c)
<1>1. /\ UNCHANGED <<radio, locked, operator, hold>>
      /\ client' = s
  BY DEF Update, Sent
<1>2. Sound(s)
  BY SentSound
<1>3. e.select \in Ports \cup {""}
  BY EmitTypes DEF Sound, Emissions
<1> DEFINE ks == IF ~net.link THEN {0} ELSE IF "link" \in happens THEN 0..2 ELSE {2}
<1>4. PICK k \in ks :
             /\ switch' = IF k >= 1 /\ e.select # ""
                          THEN [switch EXCEPT !.cmd = e.select, !.due = TRUE] ELSE switch
             /\ ctl' = IF k = 2 /\ e.freq # 0 THEN [ctl EXCEPT !.cmd = TRUE] ELSE ctl
             /\ net' = IF k = 2 THEN n ELSE Disconnected
             /\ past' = [touched |-> touched,
                         forgot |-> \/ SpentRedo(s) /\ "follow" \notin Subscribed'
                                    \/ past.forgot /\ ~Unlocks(c),
                         misled |-> \/ Misled(c)
                                    \/ past.misled /\ ~Unlocks(c)]
  BY DEF Update, Sent
<1> HIDE DEF e, s, ks
<1>5. /\ switch' \in [selected : Ports, cmd : Ports \cup {""}, due : BOOLEAN]
      /\ switch'.due => switch'.cmd # ""
  BY <1>3, <1>4, PortNames DEF TypeInv, WorldOK
<1>6. ctl' \in Ctls
  BY <1>4 DEF TypeInv, WorldOK, Ctls
<1>7. net' \in Nets
  <2>1. net' = n \/ net' = Disconnected
    BY <1>4
  <2>2. Disconnected \in Nets
    BY DEF Disconnected, Nets
  <2> QED
    BY <2>1, <2>2
<1>8. past' \in Pasts
  BY <1>4 DEF Pasts
<1>9. Sound(client')
  BY <1>1, <1>2
<1> QED
  BY <1>1, <1>5, <1>6, <1>7, <1>8, <1>9 DEF TypeInv, WorldOK

LEMMA LinkTypes == Connected \in Nets /\ Disconnected \in Nets /\ (net \in Nets => \A T : Publish(T) => net' \in Nets)
<1>1. Connected \in Nets /\ Disconnected \in Nets
  BY DEF Connected, Disconnected, Nets
<1>2. ASSUME net \in Nets, NEW T, Publish(T) PROVE net' \in Nets
  <2>1. Subscribed \subseteq Topics
    <3>1. DOMAIN Subscriptions = 1..8
      BY DEF Subscriptions
    <3>2. net.subs \in 0..8
      BY <1>2 DEF Nets
    <3> QED
      BY <3>1, <3>2 DEF Subscribed, Topics
  <2>2. net' = [net EXCEPT !.due = net.due \cup (T \cap Subscribed)]
    BY <1>2 DEF Publish
  <2> QED
    BY <1>2, <2>1, <2>2 DEF Nets
<1> QED
  BY <1>1, <1>2

\* A step of the client keeps the types.
LEMMA ClientTypes ==
  ASSUME TypeInv,
         \/ \E topic \in Topics : Receive(topic)
         \/ Subscribe \/ Tick \/ IdleElapses \/ StallElapses \/ HoldExpires \/ Restart
  PROVE  TypeInv'
<1>1. ASSUME NEW topic \in Topics, Receive(topic) PROVE TypeInv'
  <2>1. Update(Handled(topic), [net EXCEPT !.due = @ \ {topic}], past.touched \ {topic})
    BY <1>1 DEF Receive
  <2>2. [net EXCEPT !.due = @ \ {topic}] \in Nets /\ past.touched \ {topic} \in SUBSET Topics
    BY DEF TypeInv, WorldOK, Nets, Pasts
  <2> QED
    BY <2>1, <2>2, Handles, UpdateTypes
<1>2. CASE Subscribe
  <2> DEFINE topic == Subscriptions[net.subs + 1]
  <2>1. net \in Nets /\ past.touched \ {topic} \in SUBSET Topics
    BY DEF TypeInv, WorldOK, Pasts
  <2>2. net.subs + 1 \in 1..8 /\ DOMAIN Subscriptions = 1..8 /\ net.subs \in 0..8
    <3>1. Len(Subscriptions) = 8 /\ DOMAIN Subscriptions = 1..8
      BY DEF Subscriptions
    <3> QED
      BY <1>2, <2>1, <3>1 DEF Subscribe, Nets
  <2>3. topic \in Topics
    BY <2>2 DEF Topics
  <2>4. [net EXCEPT !.subs = @ + 1] \in Nets
    BY <2>1, <2>2 DEF Nets
  <2>5. Update(Handled(topic), [net EXCEPT !.subs = @ + 1], past.touched \ {topic})
    BY <1>2 DEF Subscribe
  <2> HIDE DEF topic
  <2> QED
    BY <2>1, <2>3, <2>4, <2>5, Handles, UpdateTypes
<1>3. CASE Tick
  <2>1. Sound(CheckIdle(client)) /\ net \in Nets /\ past.touched \in SUBSET Topics
    BY TickHandled DEF TypeInv, WorldOK, Pasts
  <2> QED
    BY <1>3, <2>1, UpdateTypes DEF Tick
<1>4. CASE IdleElapses
  <2> DEFINE i == [client.idle EXCEPT !.over = TRUE]
  <2>1. client \in Selectors
    BY DEF TypeInv, Sound
  <2>2. client' = [client EXCEPT !.idle = i] /\ ~HoldLive(client)
    BY <1>4, <2>1 DEF IdleElapses, Selectors
  <2>3. i \in [over : BOOLEAN, seen : BOOLEAN] /\ i.seen = client.idle.seen
    BY <2>1 DEF Selectors
  <2> HIDE DEF i
  <2>4. client' \in Selectors
    BY <2>1, <2>2, <2>3 DEF Selectors
  <2>5. Kept(client, client') /\ client'.activity = client.activity /\ client'.idle = i
    BY <2>1, <2>2 DEF Selectors, Kept
  <2>6. Sound(client')
    BY <2>2, <2>3, <2>4, <2>5 DEF TypeInv, Sound, Kept, HoldLive
  <2> QED
    BY <1>4, <2>6 DEF IdleElapses, TypeInv, WorldOK
<1>5. CASE StallElapses
  <2> DEFINE r == [client.redo EXCEPT !.stall = "over"]
  <2>1. client \in Selectors
    BY DEF TypeInv, Sound
  <2>2. client' = [client EXCEPT !.redo = r] /\ client.redo.stall = "running"
    BY <1>5, <2>1 DEF StallElapses, Selectors
  <2>3. r \in Redos /\ r.pending = client.redo.pending /\ r.retracted = client.redo.retracted
    BY <2>1, Parts DEF Redos
  <2> HIDE DEF r
  <2>4. client' \in Selectors /\ client'.redo = r /\ client'.last = client.last
        /\ Untouched(client, client')
    BY <2>1, <2>2, <2>3, Redone
  <2>5. Sound(client')
    BY <2>2, <2>3, <2>4 DEF TypeInv, Sound, Untouched, Rests, HoldLive
  <2> QED
    BY <1>5, <2>5 DEF StallElapses, TypeInv, WorldOK
<1>6. CASE HoldExpires
  <2> DEFINE h == [client.hold EXCEPT !.held = "stale"]
  <2>1. client \in Selectors /\ hold \in Holds
    BY DEF TypeInv, Sound, WorldOK
  <2>2. hold' \in Holds
    <3>1. hold' = hold \/ hold' = [hold EXCEPT !.held = "stale"]
      BY <1>6 DEF HoldExpires
    <3> QED
      BY <2>1, <3>1 DEF Holds
  <2>3. client' = client \/ client' = [client EXCEPT !.hold = h]
    BY <1>6, <2>1 DEF HoldExpires, Selectors
  <2>4. h \in Holds /\ h.held = "stale"
    BY <2>1 DEF Selectors, Holds
  <2> HIDE DEF h
  <2>5. ASSUME client' = [client EXCEPT !.hold = h] PROVE Sound(client')
    <3>1. client' \in Selectors
      BY <2>1, <2>4, <2>5 DEF Selectors, Holds
    <3>2. /\ client'.redo = client.redo /\ client'.last = client.last
          /\ client'.locked = client.locked /\ client'.activity = client.activity
          /\ client'.idle = client.idle /\ client'.hold = h
      BY <2>1, <2>5 DEF Selectors
    <3> QED
      BY <2>4, <3>1, <3>2 DEF TypeInv, Sound, HoldLive
  <2>6. Sound(client')
    BY <2>3, <2>5 DEF TypeInv
  <2> QED
    BY <1>6, <2>2, <2>6 DEF HoldExpires, TypeInv, WorldOK
<1>7. CASE Restart
  <2>1. past' \in Pasts
    BY <1>7 DEF Restart, TypeInv, WorldOK, Pasts
  <2> QED
    BY <1>7, <2>1, NewSound, LinkTypes DEF Restart, TypeInv, WorldOK
<1> QED
  BY <1>1, <1>2, <1>3, <1>4, <1>5, <1>6, <1>7

\* What the neighbours and the link do.
Surroundings ==
    \/ LinkDown \/ LinkUp
    \/ Tune \/ Key \/ Slice \/ RadioLink \/ Bridge \/ Request \/ HoldStatus \/ HoldState
    \/ Lock \/ Unlock
    \/ SwitchMoves \/ SwitchReboots \/ SwitchByHand
    \/ CtlHears \/ CtlRetract \/ CtlTune \/ CtlDevGone \/ CtlDevBack \/ CtlRepublishes

LEMMA SurroundingTypes ==
  ASSUME TypeInv, Surroundings
  PROVE  TypeInv'
<1> USE DEF TypeInv
<1>1. CASE LinkDown
  BY <1>1, LinkTypes DEF LinkDown, WorldOK, Pasts
<1>2. CASE LinkUp
  BY <1>2, LinkTypes, TopicNames DEF LinkUp, WorldOK, Pasts
<1>3. ASSUME NEW what, NEW r \in Samples, RadioSays(what, r), past' \in Pasts PROVE TypeInv'
  BY <1>3, LinkTypes DEF RadioSays, WorldOK
<1>4. ASSUME NEW topic \in Topics, Touched(topic) PROVE past' \in Pasts
  BY <1>4 DEF Touched, WorldOK, Pasts
<1>5. CASE Tune
  <2>1. PICK f \in Freqs : RadioSays("tune", [radio EXCEPT !.freq = f]) /\ Touched("radio")
    BY <1>5 DEF Tune
  <2>2. [radio EXCEPT !.freq = f] \in Samples
    BY DEF WorldOK, Samples
  <2> QED
    BY <1>3, <1>4, <2>1, <2>2, TopicNames
<1>6. CASE Key
  <2>1. PICK tx \in {"rx", "tx"} : RadioSays("key", [radio EXCEPT !.tx = tx])
    BY <1>6 DEF Key
  <2>2. [radio EXCEPT !.tx = tx] \in Samples
    BY DEF WorldOK, Samples
  <2> QED
    BY <1>3, <1>4, <1>6, <2>1, <2>2, TopicNames DEF Key
<1>7. CASE Slice
  <2>1. PICK f \in Freqs \cup {0} : RadioSays("slice", [radio EXCEPT !.freq = f]) /\ UNCHANGED past
    BY <1>7 DEF Slice
  <2>2. [radio EXCEPT !.freq = f] \in Samples /\ past \in Pasts
    BY DEF WorldOK, Samples
  <2> QED
    BY <1>3, <2>1, <2>2
<1>8. CASE RadioLink
  <2>1. RadioSays("radio", [radio EXCEPT !.up = ~@, !.freq = 0, !.tx = "rx"]) /\ UNCHANGED past
    BY <1>8 DEF RadioLink
  <2>2. [radio EXCEPT !.up = ~@, !.freq = 0, !.tx = "rx"] \in Samples /\ past \in Pasts
    BY DEF WorldOK, Samples
  <2> QED
    BY <1>3, <2>1, <2>2
<1>9. CASE Bridge
  <2>1. radio' \in Samples
    <3>1. \/ radio' = [radio EXCEPT !.bridge = FALSE]
          \/ radio' = [bridge |-> TRUE, up |-> FALSE, freq |-> 0, tx |-> "rx"]
      BY <1>9 DEF Bridge
    <3>2. [radio EXCEPT !.bridge = FALSE] \in Samples
      BY DEF WorldOK, Samples
    <3>3. [bridge |-> TRUE, up |-> FALSE, freq |-> 0, tx |-> "rx"] \in Samples
      BY DEF Samples
    <3> QED
      BY <3>1, <3>2, <3>3
  <2>2. net' \in Nets
    BY <1>9, LinkTypes DEF Bridge, WorldOK
  <2> QED
    BY <1>9, <2>1, <2>2 DEF Bridge, WorldOK
<1>10. CASE Request
  <2>1. past' \in Pasts
    BY <1>4, <1>10, TopicNames DEF Request, WorldOK
  <2> QED
    BY <1>10, <2>1, LinkTypes DEF Request, WorldOK
<1>11. CASE HoldStatus
  <2>1. hold' \in Holds
    BY <1>11 DEF HoldStatus, WorldOK, Holds
  <2> QED
    BY <1>11, <2>1, LinkTypes DEF HoldStatus, WorldOK
<1>12. CASE HoldState
  <2>1. hold' \in Holds
    BY <1>12 DEF HoldState, WorldOK, Holds
  <2> QED
    BY <1>12, <2>1, LinkTypes DEF HoldState, WorldOK
<1>13. CASE Lock
  BY <1>13, LinkTypes DEF Lock, WorldOK
<1>14. CASE Unlock
  <2>1. past' \in Pasts
    BY <1>14 DEF Unlock, WorldOK, Pasts
  <2> QED
    BY <1>14, <2>1, LinkTypes DEF Unlock, WorldOK
<1> DEFINE SwitchTypes == [selected : Ports, cmd : Ports \cup {""}, due : BOOLEAN]
<1>15. ASSUME NEW s \in SwitchTypes, s.due => s.cmd # "", SwitchSays(s) PROVE TypeInv'
  BY <1>15, LinkTypes DEF SwitchSays, WorldOK
<1>16. CASE SwitchMoves
  <2> DEFINE s == [switch EXCEPT !.selected = switch.cmd, !.due = FALSE]
  <2>1. s \in SwitchTypes /\ ~s.due
    BY <1>16 DEF SwitchMoves, WorldOK
  <2>2. SwitchSays(s)
    BY <1>16 DEF SwitchMoves
  <2> HIDE DEF s
  <2> QED
    BY <1>15, <2>1, <2>2
<1>17. CASE SwitchReboots
  <2> DEFINE s == [switch EXCEPT !.selected = "off", !.due = switch.cmd # ""]
  <2>1. s \in SwitchTypes /\ (s.due => s.cmd # "")
    BY <1>17, PortNames DEF WorldOK
  <2>2. SwitchSays(s)
    BY <1>17 DEF SwitchReboots
  <2> HIDE DEF s
  <2> QED
    BY <1>15, <2>1, <2>2
<1>18. CASE SwitchByHand
  <2>1. PICK p \in Ports : switch' = [switch EXCEPT !.cmd = p, !.due = TRUE]
    BY <1>18 DEF SwitchByHand
  <2>2. switch' \in SwitchTypes /\ switch'.cmd # ""
    BY <2>1, PortNames DEF WorldOK
  <2> QED
    BY <1>18, <2>2 DEF SwitchByHand, WorldOK
<1>19. ASSUME NEW c \in Ctls, CtlSays(c) PROVE TypeInv'
  <2>1. net' \in Nets
    BY <1>19, LinkTypes DEF CtlSays, WorldOK
  <2> QED
    BY <1>19, <2>1 DEF CtlSays, WorldOK
<1>20. CASE CtlHears
  <2>1. CtlSays([ctl EXCEPT !.locked = locked]) /\ [ctl EXCEPT !.locked = locked] \in Ctls
    BY <1>20 DEF CtlHears, WorldOK, Ctls
  <2> QED
    BY <1>19, <2>1
<1>21. CASE CtlRetract
  <2> DEFINE c == [ctl EXCEPT !.out = FALSE, !.retracted = TRUE]
  <2>1. CtlSays(c) /\ c \in Ctls
    BY <1>21 DEF CtlRetract, WorldOK, Ctls
  <2> HIDE DEF c
  <2> QED
    BY <1>19, <2>1
<1>22. CASE CtlTune
  <2> DEFINE c == IF ~ctl.locked /\ ctl.dev
                  THEN [ctl EXCEPT !.cmd = FALSE, !.out = TRUE, !.retracted = FALSE]
                  ELSE [ctl EXCEPT !.cmd = FALSE]
  <2>1. CtlSays(c)
    BY <1>22 DEF CtlTune
  <2>2. c \in Ctls
    BY DEF WorldOK, Ctls
  <2> HIDE DEF c
  <2> QED
    BY <1>19, <2>1, <2>2
<1>23. CASE CtlDevGone
  <2>1. CtlSays([ctl EXCEPT !.dev = FALSE]) /\ [ctl EXCEPT !.dev = FALSE] \in Ctls
    BY <1>23 DEF CtlDevGone, WorldOK, Ctls
  <2> QED
    BY <1>19, <2>1
<1>24. CASE CtlDevBack
  <2> DEFINE c(out) == [ctl EXCEPT !.dev = TRUE, !.out = out, !.retracted = @ /\ ~ctl.locked]
  <2>1. PICK out \in {ctl.out, TRUE} : CtlSays(c(out))
    BY <1>24 DEF CtlDevBack
  <2>2. c(out) \in Ctls
    BY DEF WorldOK, Ctls
  <2> HIDE DEF c
  <2> QED
    BY <1>19, <2>1, <2>2
<1>25. CASE CtlRepublishes
  BY <1>25, LinkTypes DEF CtlRepublishes, WorldOK
<1> QED
  BY <1>1, <1>2, <1>5, <1>6, <1>7, <1>8, <1>9, <1>10, <1>11, <1>12, <1>13, <1>14, <1>16,
     <1>17, <1>18, <1>20, <1>21, <1>22, <1>23, <1>24, <1>25 DEF Surroundings

LEMMA InitTypes == Init => TypeInv
<1> SUFFICES ASSUME Init PROVE TypeInv
  OBVIOUS
<1>1. radio \in Samples
  <2>1. PICK f \in Freqs : radio = [bridge |-> TRUE, up |-> TRUE, freq |-> f, tx |-> "rx"]
    BY DEF Init
  <2> QED
    BY <2>1 DEF Samples
<1>2. past \in Pasts /\ hold \in Holds
  BY DEF Init, Pasts, Holds
<1> QED
  BY <1>1, <1>2, NewSound, PortNames, LinkTypes DEF Init, TypeInv, WorldOK, Ctls

LEMMA StepTypes == TypeInv /\ [Next]_vars => TypeInv'
<1> SUFFICES ASSUME TypeInv, [Next]_vars PROVE TypeInv'
  OBVIOUS
<1>1. CASE UNCHANGED vars
  BY <1>1 DEF vars, TypeInv, WorldOK
<1>2. CASE Next
  BY <1>2, ClientTypes, SurroundingTypes DEF Next, Surroundings
<1> QED
  BY <1>1, <1>2

\* What antennaselect remembers keeps its shape; a stall only runs while a re-extend is
\* owed, and an active station was seen so (checkReextendStall, markActive, applyHolds).
THEOREM TypeCorrect == Spec => []TypeOK
<1>1. Spec => []TypeInv
  BY InitTypes, StepTypes, PTL DEF Spec
<1> QED
  BY <1>1, TypeInvTypes, PTL
-----------------------------------------------------------------------------
(* Presence.  A message that could be taken for it, a frequency off the     *)
(* baseline or an operator's hold, comes of someone at the radio or the     *)
(* console, or of an outage.                                                *)

FreqFounded ==
    net.link /\ client.base.freq # 0 /\ radio.freq # client.base.freq
        => "radio" \in past.touched \/ (radio.freq = 0 /\ "radio" \in net.due)

BaseFounded ==
    net.link /\ "radio" \notin Subscribed => client.base.freq = 0 \/ "radio" \in past.touched

HoldFounded ==
    net.link /\ "cmd" \in net.due /\ HoldActive(operator) => "cmd" \in past.touched

LinkOK ==
    /\ ~net.link => net.due = {} /\ net.subs = 0
    /\ net.due \subseteq Subscribed

Grounds ==
    /\ LinkOK /\ (radio.freq # 0 => radio.up)
    /\ FreqFounded /\ BaseFounded /\ HoldFounded

Presence == TypeInv /\ Grounds

\* A subscription adds its topic to those subscribed.
LEMMA NextSubscribed ==
  ASSUME NEW n \in 0..7
  PROVE  LET First(k) == {Subscriptions[i] : i \in 1..k}
         IN First(n + 1) = First(n) \cup {Subscriptions[n + 1]} /\ Subscriptions[n + 1] \notin First(n)
<1>1. DOMAIN Subscriptions = 1..8
  BY DEF Subscriptions
<1>2. \A i, j \in 1..8 : Subscriptions[i] = Subscriptions[j] => i = j
  BY DEF Subscriptions
<1>3. 1..(n + 1) = 1..n \cup {n + 1} /\ n + 1 \in 1..8 /\ n + 1 \notin 1..n /\ 1..n \subseteq 1..8
  OBVIOUS
<1> HIDE DEF Subscriptions
<1> QED
  BY <1>2, <1>3

\* What the handler of a topic does to the baseline, and what it takes for presence.
LEMMA Effects ==
  ASSUME TypeInv, radio.freq # 0 => radio.up, NEW topic \in Topics
  PROVE  LET c == Handled(topic)
         IN /\ c.base.freq = IF topic = "radio" THEN radio.freq ELSE client.base.freq
            /\ \/ c.activity = client.activity /\ c.idle = client.idle
               \/ c.tx = "tx" \/ HoldLive(c)
               \/ /\ topic = "radio" /\ radio.freq # 0
                  /\ client.base.freq # 0 /\ radio.freq # client.base.freq
               \/ topic = "cmd" /\ HoldActive(operator)
<1> DEFINE c == Handled(topic)
           goal == /\ c.base.freq = IF topic = "radio" THEN radio.freq ELSE client.base.freq
                   /\ \/ c.activity = client.activity /\ c.idle = client.idle
                      \/ c.tx = "tx" \/ HoldLive(c)
                      \/ /\ topic = "radio" /\ radio.freq # 0
                         /\ client.base.freq # 0 /\ radio.freq # client.base.freq
                      \/ topic = "cmd" /\ HoldActive(operator)
<1> SUFFICES goal
  OBVIOUS
<1>1. Sound(client) /\ locked \in BOOLEAN /\ radio \in Samples /\ radio.bridge \in BOOLEAN
  BY DEF TypeInv, WorldOK, Samples
<1>2. /\ switch.selected \in Ports /\ hold.online \in BOOLEAN /\ hold.held \in {"no", "live", "stale"}
      /\ operator \in Ports \cup {"auto", "manual"}
  BY AntennaSelectAssumption DEF TypeInv, WorldOK, Holds
<1>3. ctl.dev \in BOOLEAN /\ ctl.retracted \in BOOLEAN /\ ctl.locked \in BOOLEAN
  BY DEF TypeInv, WorldOK, Ctls
<1>4. ASSUME topic # "radio", Rests(client, c) PROVE goal
  BY <1>4 DEF Rests
<1>5. CASE topic = "radio"
  <2>1. c = OnRadioState(client, radio)
    BY <1>5 DEF Handled
  <2> HIDE DEF c
  <2>2. /\ c.base.freq = IF (radio.up /\ radio.freq # 0) \/ radio.freq = 0
                         THEN radio.freq ELSE client.base.freq
        /\ c.tx = radio.tx
        /\ \/ c.activity = client.activity /\ c.idle = client.idle
           \/ radio.tx = "tx"
           \/ radio.up /\ radio.freq # 0 /\ client.base.freq # 0 /\ radio.freq # client.base.freq
    BY <1>1, <2>1, RadioHandled
  <2> QED
    BY <1>5, <2>2
<1>6. ASSUME topic # "radio", c.base = client.base, HoldWakes(client, c) PROVE goal
  BY <1>6 DEF HoldWakes
<1>7. CASE topic = "lock"
  <2>1. c = ApplyAntMode(client, locked, locked)
    BY <1>7 DEF Handled
  <2> QED
    BY <1>1, <1>4, <1>7, <2>1, LockHandled
<1>8. CASE topic = "bridge"
  <2>1. c = OnRadioStatus(client, radio.bridge)
    BY <1>8 DEF Handled
  <2> QED
    BY <1>1, <1>4, <1>8, <2>1, StatusHandled
<1>9. CASE topic = "switch"
  <2>1. c = OnAntSwitchState(client, switch.selected)
    BY <1>9 DEF Handled
  <2> QED
    BY <1>1, <1>2, <1>4, <1>9, <2>1, SwitchHandled
<1>10. CASE topic = "follow"
  <2>1. c = ApplyFollowState(client, ctl.dev, ctl.retracted, ctl.locked)
    BY <1>10 DEF Handled
  <2> QED
    BY <1>1, <1>3, <1>4, <1>10, <2>1, FollowHandled
<1>11. CASE topic = "holdStatus"
  <2>1. c = OnHoldStatus(client, hold.online)
    BY <1>11 DEF Handled
  <2> QED
    BY <1>1, <1>2, <1>6, <1>11, <2>1, HoldHandled
<1>12. CASE topic = "hold"
  <2>1. c = OnHoldState(client, hold.held)
    BY <1>12 DEF Handled
  <2> QED
    BY <1>1, <1>2, <1>6, <1>12, <2>1, HoldHandled
<1>13. CASE topic = "cmd"
  <2>1. c = OnOperatorCmd(client, operator)
    BY <1>13 DEF Handled
  <2> HIDE DEF c
  <2>2. c.base = client.base /\ (~HoldActive(operator) => Rests(client, c))
    BY <1>1, <1>2, <2>1, OperatorHandled
  <2>3. HoldActive(operator) \/ (c.activity = client.activity /\ c.idle = client.idle)
    BY <2>2 DEF Rests
  <2> QED
    BY <1>13, <2>2, <2>3
<1> QED
  BY <1>5, <1>7, <1>8, <1>9, <1>10, <1>11, <1>12, <1>13, TopicNames

\* update() publishes or loses the link with it; what the handler made of presence stays.
LEMMA Updated ==
  ASSUME TypeInv, NEW c, Sound(c), NEW n, NEW touched, Update(c, n, touched)
  PROVE  /\ client'.base = c.base /\ client'.activity = c.activity /\ client'.idle = c.idle
         /\ client'.tx = c.tx /\ client'.hold = c.hold
         /\ UNCHANGED <<radio, operator>> /\ past'.touched = touched
         /\ net' = Disconnected \/ (net.link /\ net' = n)
<1>1. client' = Sent(c) /\ UNCHANGED <<radio, operator>>
  BY DEF Update, Sent
<1>2. c \in Selectors
  BY DEF Sound
<1>3. PICK l \in Emissions : client' = [c EXCEPT !.last = l]
  BY <1>1, <1>2, SentKeeps
<1>4. Untouched(c, client')
  BY <1>2, <1>3, Relasted
<1>5. past'.touched = touched /\ (net' = Disconnected \/ (net.link /\ net' = n))
  <2> DEFINE ks == IF ~net.link THEN {0} ELSE IF "link" \in happens THEN 0..2 ELSE {2}
             forgot(a) == \/ SpentRedo(Sent(c)) /\ a
                          \/ past.forgot /\ ~Unlocks(c)
             misled == Misled(c) \/ (past.misled /\ ~Unlocks(c))
  <2>1. PICK k \in ks :
            /\ net' = IF k = 2 THEN n ELSE Disconnected
            /\ past' = [touched |-> touched, forgot |-> forgot("follow" \notin Subscribed'),
                        misled |-> misled]
    BY DEF Update, Sent
  <2> QED
    BY <2>1
<1> QED
  BY <1>1, <1>4, <1>5 DEF Untouched, Rests

\* Without a link nothing is on its way.
LEMMA Cut ==
  ASSUME net' = Disconnected, radio'.freq # 0 => radio'.up
  PROVE  Grounds'
<1>1. ~net'.link /\ net'.due = {} /\ net'.subs = 0
  BY DEF Disconnected
<1> QED
  BY <1>1 DEF Grounds, LinkOK, FreqFounded, BaseFounded, HoldFounded

LEMMA ClientGrounds ==
  ASSUME Presence,
         \/ \E topic \in Topics : Receive(topic)
         \/ Subscribe \/ Tick \/ IdleElapses \/ StallElapses \/ HoldExpires \/ Restart
  PROVE  Grounds'
<1> USE DEF Presence
<1>1. client \in Selectors /\ net \in Nets /\ past \in Pasts /\ (radio.freq # 0 => radio.up)
  BY DEF TypeInv, WorldOK, Sound, Grounds
<1>2. ASSUME NEW topic \in Topics, Receive(topic) PROVE Grounds'
  <2> DEFINE n == [net EXCEPT !.due = @ \ {topic}]
  <2>1. Update(Handled(topic), n, past.touched \ {topic}) /\ topic \in net.due
    BY <1>2 DEF Receive
  <2>2. /\ client'.base = Handled(topic).base /\ UNCHANGED <<radio, operator>>
        /\ past'.touched = past.touched \ {topic}
        /\ net' = Disconnected \/ (net.link /\ net' = n)
    BY <2>1, Handles, Updated
  <2>3. client'.base.freq = IF topic = "radio" THEN radio.freq ELSE client.base.freq
    BY <1>1, <2>2, Effects
  <2>4. CASE net' = Disconnected
    BY <1>1, <2>2, <2>4, Cut
  <2>5. CASE net.link /\ net' = n
    <3>1. net'.link /\ net'.subs = net.subs /\ net'.due = net.due \ {topic}
      BY <1>1, <2>5 DEF Nets
    <3>2. Subscribed' = Subscribed /\ topic \in Subscribed
      BY <2>1, <3>1 DEF Subscribed, Grounds, LinkOK
    <3>3. LinkOK'
      BY <3>1, <3>2 DEF LinkOK, Grounds
    <3>4. FreqFounded'
      BY <2>2, <2>3, <2>5, <3>1 DEF FreqFounded, Grounds
    <3>5. BaseFounded' /\ HoldFounded'
      BY <2>2, <2>3, <2>5, <3>1, <3>2 DEF BaseFounded, HoldFounded, Grounds
    <3> QED
      BY <1>1, <2>2, <3>3, <3>4, <3>5 DEF Grounds
  <2> QED
    BY <2>2, <2>4, <2>5
<1>3. CASE Subscribe
  <2> DEFINE topic == Subscriptions[net.subs + 1]
             n == [net EXCEPT !.subs = @ + 1]
  <2>1. net.subs \in 0..7
    <3>1. Len(Subscriptions) = 8
      BY DEF Subscriptions
    <3> QED
      BY <1>1, <1>3, <3>1 DEF Subscribe, Nets
  <2>2. topic \in Topics
    <3>1. DOMAIN Subscriptions = 1..8
      BY DEF Subscriptions
    <3> QED
      BY <2>1, <3>1 DEF Topics
  <2>3. Update(Handled(topic), n, past.touched \ {topic})
    BY <1>3 DEF Subscribe
  <2>4. n.link = net.link /\ n.subs = net.subs + 1 /\ n.due = net.due
    BY <1>1 DEF Nets
  <2>5. /\ {Subscriptions[i] : i \in 1..(net.subs + 1)} = Subscribed \cup {topic}
        /\ topic \notin Subscribed
    BY <2>1, NextSubscribed DEF Subscribed
  <2> HIDE DEF topic, n
  <2>6. /\ client'.base = Handled(topic).base /\ UNCHANGED <<radio, operator>>
        /\ past'.touched = past.touched \ {topic}
        /\ net' = Disconnected \/ (net.link /\ net' = n)
    BY <2>2, <2>3, Handles, Updated
  <2>7. client'.base.freq = IF topic = "radio" THEN radio.freq ELSE client.base.freq
    BY <1>1, <2>2, <2>6, Effects
  <2>8. CASE net' = Disconnected
    BY <1>1, <2>6, <2>8, Cut
  <2>9. CASE net.link /\ net' = n
    <3>1. net'.link /\ net'.due = net.due
      BY <2>4, <2>9
    <3>2. Subscribed' = Subscribed \cup {topic}
      BY <2>4, <2>5, <2>9 DEF Subscribed
    <3>3. topic \notin net.due
      BY <2>5 DEF Grounds, LinkOK
    <3>4. LinkOK'
      BY <3>1, <3>2 DEF LinkOK, Grounds
    <3>5. FreqFounded'
      BY <2>6, <2>7, <2>9, <3>1 DEF FreqFounded, Grounds
    <3>6. BaseFounded'
      BY <2>6, <2>7, <2>9, <3>2 DEF BaseFounded, Grounds
    <3>7. HoldFounded'
      BY <2>6, <2>9, <3>1, <3>2, <3>3 DEF HoldFounded, Grounds
    <3> QED
      BY <1>1, <2>6, <3>4, <3>5, <3>6, <3>7 DEF Grounds
  <2> QED
    BY <2>6, <2>8, <2>9
\* A step that leaves the baseline and the neighbours as they are.
<1>4. ASSUME client'.base = client.base, UNCHANGED <<radio, operator, net>>,
             past'.touched = past.touched
      PROVE  Grounds'
  <2>1. Subscribed' = Subscribed
    BY <1>4 DEF Subscribed
  <2> QED
    BY <1>4, <2>1 DEF Grounds, LinkOK, FreqFounded, BaseFounded, HoldFounded
<1>5. CASE Tick
  <2>1. Sound(CheckIdle(client)) /\ CheckIdle(client).base = client.base
    BY TickHandled DEF TypeInv
  <2>2. /\ client'.base = client.base /\ UNCHANGED <<radio, operator>>
        /\ past'.touched = past.touched
        /\ net' = Disconnected \/ net' = net
    BY <1>5, <2>1, Updated DEF Tick
  <2> QED
    BY <1>1, <1>4, <2>2, Cut
<1>6. CASE IdleElapses
  <2>1. client'.base = client.base
    BY <1>1, <1>6 DEF IdleElapses, Selectors
  <2> QED
    BY <1>4, <1>6, <2>1 DEF IdleElapses
<1>7. CASE StallElapses
  <2>1. client'.base = client.base
    BY <1>1, <1>7 DEF StallElapses, Selectors
  <2> QED
    BY <1>4, <1>7, <2>1 DEF StallElapses
<1>8. CASE HoldExpires
  <2>1. client'.base = client.base
    BY <1>1, <1>8 DEF HoldExpires, Selectors
  <2> QED
    BY <1>4, <1>8, <2>1 DEF HoldExpires
<1>9. CASE Restart
  <2>1. /\ client'.base.freq = 0 /\ UNCHANGED <<radio, operator>>
        /\ net'.due = {} /\ net'.subs = 0
    BY <1>9 DEF Restart, NewSelector, Connected
  <2> QED
    BY <1>1, <2>1 DEF Grounds, LinkOK, FreqFounded, BaseFounded, HoldFounded
<1> QED
  BY <1>2, <1>3, <1>5, <1>6, <1>7, <1>8, <1>9

LEMMA Published ==
  ASSUME net \in Nets, LinkOK, NEW T, Publish(T)
  PROVE  /\ LinkOK' /\ Subscribed' = Subscribed /\ net'.link = net.link
         /\ net'.due = net.due \cup (T \cap Subscribed)
<1>1. /\ net'.link = net.link /\ net'.subs = net.subs
      /\ net'.due = net.due \cup (T \cap Subscribed)
  BY DEF Publish, Nets
<1>2. Subscribed' = Subscribed
  BY <1>1 DEF Subscribed
<1>3. net.subs = 0 => Subscribed = {}
  BY DEF Subscribed
<1> QED
  BY <1>1, <1>2, <1>3 DEF LinkOK

\* A neighbour that is neither the radio nor the operator.
LEMMA Bystander ==
  ASSUME Presence, UNCHANGED <<client, radio, operator>>, past'.touched = past.touched,
         UNCHANGED net \/ \E T : Publish(T) /\ "cmd" \notin T
  PROVE  Grounds'
<1> USE DEF Presence
<1>1. net \in Nets /\ LinkOK
  BY DEF TypeInv, WorldOK, Grounds
<1>2. /\ LinkOK' /\ Subscribed' = Subscribed /\ net'.link = net.link
      /\ net.due \subseteq net'.due /\ ("cmd" \in net'.due => "cmd" \in net.due)
  <2>1. CASE UNCHANGED net
    BY <1>1, <2>1 DEF LinkOK, Subscribed
  <2>2. ASSUME NEW T, Publish(T), "cmd" \notin T PROVE <1>2!:
    BY <1>1, <2>2, Published
  <2> QED
    BY <2>1, <2>2
<1> QED
  BY <1>2 DEF Grounds, FreqFounded, BaseFounded, HoldFounded

\* The radio says what nobody did: it is lost, or found where it was not heard of.
LEMMA RadioMoves ==
  ASSUME Presence, NEW T, Publish(T), "cmd" \notin T, UNCHANGED <<client, operator>>,
         radio'.freq # 0 => radio'.up,
         \/ "radio" \in past'.touched /\ past.touched \subseteq past'.touched
         \/ /\ past'.touched = past.touched
            /\ \/ radio'.freq = 0 /\ "radio" \in T
               \/ radio'.freq = radio.freq
               \/ radio.freq = 0 /\ "radio" \notin net.due
  PROVE  Grounds'
<1> USE DEF Presence
<1>1. net \in Nets /\ LinkOK
  BY DEF TypeInv, WorldOK, Grounds
<1>2. /\ LinkOK' /\ Subscribed' = Subscribed /\ net'.link = net.link
      /\ net'.due = net.due \cup (T \cap Subscribed)
  BY <1>1, Published
<1>3. HoldFounded'
  BY <1>2 DEF Grounds, HoldFounded
<1>4. BaseFounded'
  BY <1>2 DEF Grounds, BaseFounded
<1>5. FreqFounded'
  <2>1. CASE "radio" \in past'.touched
    BY <2>1 DEF FreqFounded
  <2>2. CASE past'.touched = past.touched /\ radio'.freq = 0 /\ "radio" \in T
    BY <1>2, <2>2 DEF Grounds, BaseFounded, FreqFounded
  <2>3. CASE past'.touched = past.touched /\ radio'.freq = radio.freq
    BY <1>2, <2>3 DEF Grounds, FreqFounded
  <2>4. CASE past'.touched = past.touched /\ radio.freq = 0 /\ "radio" \notin net.due
    BY <1>2, <2>4 DEF Grounds, FreqFounded
  <2> QED
    BY <2>1, <2>2, <2>3, <2>4
<1> QED
  BY <1>2, <1>3, <1>4, <1>5 DEF Grounds

LEMMA SurroundingGrounds ==
  ASSUME Presence, Surroundings
  PROVE  Grounds'
<1> USE DEF Presence
<1>1. /\ past \in Pasts /\ radio \in Samples /\ net \in Nets
      /\ (radio.freq # 0 => radio.up)
  BY DEF TypeInv, WorldOK, Grounds
<1>2. ASSUME NEW topic \in Topics, Touched(topic)
      PROVE  topic \in past'.touched /\ past.touched \subseteq past'.touched
  BY <1>1, <1>2 DEF Touched, Pasts
<1>3. CASE LinkDown
  BY <1>1, <1>3, Cut DEF LinkDown
<1>4. CASE LinkUp
  <2>1. /\ UNCHANGED <<client, radio, operator>> /\ net'.due = {} /\ net'.subs = 0 /\ net'.link
        /\ "radio" \in past'.touched
    BY <1>1, <1>4 DEF LinkUp, Connected, Pasts
  <2> QED
    BY <1>1, <2>1 DEF Grounds, LinkOK, FreqFounded, BaseFounded, HoldFounded
<1>5. CASE Tune
  <2>1. PICK f \in Freqs : /\ RadioSays("tune", [radio EXCEPT !.freq = f]) /\ Touched("radio")
                           /\ radio.up
    BY <1>5 DEF Tune, Live
  <2>2. Publish({"radio"}) /\ UNCHANGED <<client, operator>> /\ radio'.up
    BY <1>1, <2>1 DEF RadioSays, Samples
  <2> QED
    BY <1>2, <2>1, <2>2, RadioMoves, TopicNames
<1>6. CASE Key
  <2>1. PICK tx \in {"rx", "tx"} : RadioSays("key", [radio EXCEPT !.tx = tx])
    BY <1>6 DEF Key
  <2>2. /\ Publish({"radio"}) /\ UNCHANGED <<client, operator>>
        /\ radio'.up = radio.up /\ radio'.freq = radio.freq
    BY <1>1, <2>1 DEF RadioSays, Samples
  <2>3. Touched("radio")
    BY <1>6 DEF Key
  <2> QED
    BY <1>1, <1>2, <2>2, <2>3, RadioMoves, TopicNames
<1>7. CASE Slice
  <2>1. PICK f \in IF radio.freq = 0 THEN Freqs ELSE {0} :
            RadioSays("slice", [radio EXCEPT !.freq = f]) /\ UNCHANGED past
    BY <1>7 DEF Slice
  <2>2. radio'.freq = 0 \/ radio.freq = 0
    BY <1>1, <2>1 DEF RadioSays, Samples
  <2>3. /\ Publish({"radio"}) /\ UNCHANGED <<client, operator>> /\ "radio" \notin net.due
        /\ radio'.up /\ past'.touched = past.touched
    BY <1>1, <1>7, <2>1 DEF RadioSays, Samples, Ready, Slice, Live
  <2> QED
    BY <2>2, <2>3, RadioMoves
<1>8. CASE RadioLink
  <2>1. RadioSays("radio", [radio EXCEPT !.up = ~@, !.freq = 0, !.tx = "rx"]) /\ UNCHANGED past
    BY <1>8 DEF RadioLink
  <2>2. /\ Publish({"radio"}) /\ UNCHANGED <<client, operator>> /\ radio'.freq = 0
        /\ past'.touched = past.touched
    BY <1>1, <2>1 DEF RadioSays, Samples
  <2> QED
    BY <2>2, RadioMoves
<1>9. CASE Bridge
  <2>1. UNCHANGED <<client, operator>> /\ past'.touched = past.touched
    BY <1>9 DEF Bridge
  <2>2. CASE radio.bridge
    <3>1. /\ Publish({"bridge"}) /\ radio'.freq = radio.freq /\ radio'.up = radio.up
      BY <1>1, <1>9, <2>2 DEF Bridge, Samples
    <3> QED
      BY <1>1, <2>1, <3>1, RadioMoves
  <2>3. CASE ~radio.bridge
    <3>1. Publish({"bridge", "radio"}) /\ radio'.freq = 0
      BY <1>9, <2>3 DEF Bridge
    <3> QED
      BY <2>1, <3>1, RadioMoves
  <2> QED
    BY <2>2, <2>3
<1>10. CASE Request
  <2>1. /\ LinkOK' /\ Subscribed' = Subscribed /\ net'.link = net.link
        /\ net'.due = net.due \cup ({"cmd"} \cap Subscribed)
    BY <1>1, <1>10, Published DEF Request, Grounds
  <2>2. /\ UNCHANGED <<client, radio>> /\ past.touched \subseteq past'.touched
        /\ (HoldActive(operator') => "cmd" \in past'.touched)
    BY <1>2, <1>10, TopicNames DEF Request
  <2> QED
    BY <2>1, <2>2 DEF Grounds, FreqFounded, BaseFounded, HoldFounded
<1>11. CASE HoldStatus
  BY <1>11, Bystander DEF HoldStatus
<1>12. CASE HoldState
  BY <1>12, Bystander DEF HoldState
<1>13. CASE Lock
  BY <1>13, Bystander DEF Lock
<1>14. CASE Unlock
  <2>1. past'.touched = past.touched
    BY <1>1, <1>14 DEF Unlock, Pasts
  <2> QED
    BY <1>14, <2>1, Bystander DEF Unlock
<1>15. ASSUME NEW s, SwitchSays(s) PROVE Grounds'
  BY <1>15, Bystander DEF SwitchSays
<1>16. CASE SwitchMoves \/ SwitchReboots
  BY <1>15, <1>16 DEF SwitchMoves, SwitchReboots
<1>17. CASE SwitchByHand
  BY <1>17, Bystander DEF SwitchByHand
<1>18. ASSUME NEW c, CtlSays(c) PROVE Grounds'
  BY <1>18, Bystander DEF CtlSays
<1>19. CASE CtlHears \/ CtlRetract \/ CtlTune \/ CtlDevGone \/ CtlDevBack
  BY <1>18, <1>19 DEF CtlHears, CtlRetract, CtlTune, CtlDevGone, CtlDevBack
<1>20. CASE CtlRepublishes
  BY <1>20, Bystander DEF CtlRepublishes
<1> QED
  BY <1>3, <1>4, <1>5, <1>6, <1>7, <1>8, <1>9, <1>10, <1>11, <1>12, <1>13, <1>14, <1>16,
     <1>17, <1>19, <1>20 DEF Surroundings

LEMMA InitPresence == Init => Presence
<1> SUFFICES ASSUME Init PROVE Presence
  OBVIOUS
<1>1. net.due = {} /\ net.subs = 0 /\ ~HoldActive(operator)
  BY DEF Init, Connected, HoldActive
<1>2. (radio.freq # 0 => radio.up) /\ client.base.freq = 0
  <2>1. PICK f \in Freqs : radio = [bridge |-> TRUE, up |-> TRUE, freq |-> f, tx |-> "rx"]
    BY DEF Init
  <2>2. client.base.freq = 0
    BY DEF Init, NewSelector
  <2> QED
    BY <2>1, <2>2
<1> QED
  BY <1>1, <1>2, InitTypes
     DEF Presence, Grounds, LinkOK, FreqFounded, BaseFounded, HoldFounded

LEMMA StepPresence == Presence /\ [Next]_vars => Presence'
<1> SUFFICES ASSUME Presence, [Next]_vars PROVE Grounds'
  BY StepTypes DEF Presence
<1>1. CASE UNCHANGED vars
  <2>1. Subscribed' = Subscribed
    BY <1>1 DEF vars, Subscribed
  <2> QED
    BY <1>1, <2>1
       DEF vars, Presence, Grounds, LinkOK, FreqFounded, BaseFounded, HoldFounded
<1>2. CASE Next
  BY <1>2, ClientGrounds, SurroundingGrounds DEF Next, Surroundings
<1> QED
  BY <1>1, <1>2

\* A client that handles a message takes only presence for presence.
LEMMA WakesFounded ==
  ASSUME Presence, NEW topic \in Topics, NEW n,
         Update(Handled(topic), n, past.touched \ {topic}),
         net.link /\ (topic \in net.due \/ topic \notin Subscribed),
         Woke
  PROVE  \/ past.touched # {} \/ client'.tx = "tx" \/ HoldLive(client')
         \/ topic = "cmd" /\ topic \notin Subscribed /\ HoldActive(operator)
<1> DEFINE c == Handled(topic)
<1>1. Sound(c)
  BY Handles DEF Presence
<1>2. /\ client'.activity = c.activity /\ client'.idle = c.idle
      /\ client'.tx = c.tx /\ client'.hold = c.hold
  BY <1>1, Updated DEF Presence
<1>3. ~(c.activity = client.activity /\ c.idle = client.idle)
  BY <1>2 DEF Woke
<1>4. \/ c.tx = "tx" \/ HoldLive(c)
      \/ radio.freq # 0 /\ client.base.freq # 0 /\ radio.freq # client.base.freq
      \/ topic = "cmd" /\ HoldActive(operator)
  BY <1>3, Effects DEF Presence, Grounds
<1> QED
  BY <1>2, <1>4 DEF Presence, Grounds, FreqFounded, HoldFounded, HoldLive

\* Nothing but a hand at the radio or the console, a transmission or a live hold is taken
\* for presence, whatever is lost or restarted; but for a radio that may have been moved in an
\* outage and the replay of an operator's hold (onRadioState, applyOperatorHold, applyHolds).
THEOREM PresenceOnly == Spec => OnlyPresenceWakes
<1>1. Presence /\ [Next]_vars
          => [Woke => \/ past.touched # {} \/ client'.tx = "tx" \/ HoldLive(client')
                      \/ Replays("cmd") /\ HoldActive(operator)]_vars
  <2> SUFFICES ASSUME Presence, Next, Woke
               PROVE  \/ past.touched # {} \/ client'.tx = "tx" \/ HoldLive(client')
                      \/ Replays("cmd") /\ HoldActive(operator)
    OBVIOUS
  <2>1. client \in Selectors /\ net \in Nets /\ LinkOK
    BY DEF Presence, Grounds, TypeInv, Sound, WorldOK
  <2>2. ASSUME NEW topic \in Topics, Receive(topic)
        PROVE  past.touched # {} \/ client'.tx = "tx" \/ HoldLive(client')
    BY <2>1, <2>2, WakesFounded DEF Receive, LinkOK
  <2>3. CASE Subscribe
    <3> DEFINE topic == Subscriptions[net.subs + 1]
    <3>1. Len(Subscriptions) = 8 /\ DOMAIN Subscriptions = 1..8
      BY DEF Subscriptions
    <3>2. net.subs \in 0..7
      BY <2>1, <2>3, <3>1 DEF Subscribe, Nets
    <3>3. topic \in Topics
      BY <3>1, <3>2 DEF Topics
    <3>4. topic \notin Subscribed
      BY <3>2, NextSubscribed DEF Subscribed
    <3>5. Update(Handled(topic), [net EXCEPT !.subs = @ + 1], past.touched \ {topic}) /\ net.link
      BY <2>3 DEF Subscribe
    <3>6. topic = "cmd" => Replays("cmd")
      BY <2>3 DEF Replays
    <3> HIDE DEF topic
    <3> QED
      BY <3>3, <3>4, <3>5, <3>6, WakesFounded
  <2>4. CASE Tick
    <3> DEFINE d == CheckIdle(client)
    <3>1. /\ Sound(d) /\ (d.activity = "active" => HoldWakes(client, d))
      BY TickHandled DEF Presence, TypeInv
    <3>2. /\ client'.activity = d.activity /\ client'.idle = d.idle /\ client'.hold = d.hold
      BY <2>4, <3>1, Updated DEF Tick, Presence
    <3> HIDE DEF d
    <3> QED
      BY <3>1, <3>2 DEF Woke, HoldWakes, HoldLive
  <2>5. CASE IdleElapses
    <3>1. client'.activity = client.activity /\ client'.idle.over /\ client'.idle.seen = client.idle.seen
      BY <2>1, <2>5 DEF IdleElapses, Selectors
    <3> QED
      BY <3>1 DEF Woke
  <2>6. CASE StallElapses
    <3>1. client'.activity = client.activity /\ client'.idle = client.idle
      BY <2>1, <2>6 DEF StallElapses, Selectors
    <3> QED
      BY <3>1 DEF Woke
  <2>7. CASE HoldExpires
    <3>1. client'.activity = client.activity /\ client'.idle = client.idle
      BY <2>1, <2>7 DEF HoldExpires, Selectors
    <3> QED
      BY <3>1 DEF Woke
  <2>8. CASE Restart
    BY <2>8 DEF Restart, NewSelector, Woke
  <2>9. CASE Surroundings
    <3>1. client' = client
      BY <2>9 DEF Surroundings, LinkDown, LinkUp, Tune, Key, Slice, RadioLink, Bridge, Request,
           HoldStatus, HoldState, Lock, Unlock, SwitchMoves, SwitchReboots, SwitchByHand,
           CtlHears, CtlRetract, CtlTune, CtlDevGone, CtlDevBack, CtlRepublishes, RadioSays,
           SwitchSays, CtlSays
    <3> QED
      BY <3>1 DEF Woke
  <2> QED
    BY <2>2, <2>3, <2>4, <2>5, <2>6, <2>7, <2>8, <2>9 DEF Next, Surroundings
<1>2. Spec => []Presence
  BY InitPresence, StepPresence, PTL DEF Spec
<1> QED
  BY <1>1, <1>2, PTL DEF Spec, OnlyPresenceWakes

-----------------------------------------------------------------------------
(* What a handler makes of the inputs of the decision.                      *)

\* What the decision looks at, but for the activity.
SameView(c, d) ==
    /\ d.bridge = c.bridge /\ d.dev = c.dev /\ d.freq = c.freq /\ d.tx = c.tx
    /\ d.request = c.request /\ d.selected = c.selected
    /\ d.locked = c.locked /\ d.ground = c.ground

LEMMA RedoView ==
  ASSUME NEW c \in Selectors, NEW r \in Redos
  PROVE  [c EXCEPT !.redo = r] \in Selectors /\ SameView(c, [c EXCEPT !.redo = r])
<1>1. [c EXCEPT !.redo = r] \in Selectors
  BY Redone
<1>2. SameView(c, [c EXCEPT !.redo = r])
  BY DEF Selectors, SameView
<1> QED
  BY <1>1, <1>2

LEMMA LastView ==
  ASSUME NEW c \in Selectors, NEW l \in Emissions
  PROVE  [c EXCEPT !.last = l] \in Selectors /\ SameView(c, [c EXCEPT !.last = l])
<1>1. [c EXCEPT !.last = l] \in Selectors
  BY Relasted
<1>2. SameView(c, [c EXCEPT !.last = l])
  BY DEF Selectors, SameView
<1> QED
  BY <1>1, <1>2

LEMMA CheckView ==
  ASSUME NEW c \in Selectors, NEW fire \in BOOLEAN
  PROVE  SameView(c, CheckReextendStall(c, fire))
<1>1. \/ CheckReextendStall(c, fire) = c
      \/ CheckReextendStall(c, fire) = [c EXCEPT !.redo.stall = "no"]
      \/ CheckReextendStall(c, fire) = [c EXCEPT !.redo.stall = "running"]
      \/ CheckReextendStall(c, fire)
            = [c EXCEPT !.redo.stall = "no", !.redo.retried = TRUE, !.last.freq = 0]
  BY DEF CheckReextendStall
<1>2. SameView(c, [c EXCEPT !.redo.stall = "no"]) /\ SameView(c, [c EXCEPT !.redo.stall = "running"])
  BY DEF Selectors, SameView
<1>3. SameView(c, [c EXCEPT !.redo.stall = "no", !.redo.retried = TRUE, !.last.freq = 0])
  BY DEF Selectors, SameView
<1>4. SameView(c, c)
  BY DEF SameView
<1> QED
  BY <1>1, <1>2, <1>3, <1>4

LEMMA ActiveView ==
  ASSUME NEW c \in Selectors
  PROVE  MarkActive(c) \in Selectors /\ SameView(c, MarkActive(c))
<1>1. SameView(c, MarkActive(c))
  BY DEF MarkActive, Selectors, SameView
<1> QED
  BY <1>1, ActiveSound

\* What a handler of topic makes of the view, and nothing else of it.
Heard(topic, d) ==
    /\ d.locked = (IF topic = "lock" THEN locked ELSE client.locked)
    /\ d.ground = (IF topic = "lock" THEN locked ELSE client.ground)
    /\ d.dev = (IF topic = "radio" THEN radio.up ELSE client.dev)
    /\ d.freq = (IF topic = "radio" THEN radio.freq ELSE client.freq)
    /\ d.tx = (IF topic = "radio" THEN radio.tx ELSE client.tx)
    /\ d.bridge = (IF topic = "bridge" THEN radio.bridge ELSE client.bridge)
    /\ d.selected = (IF topic = "switch" THEN switch.selected ELSE client.selected)
    /\ d.request = (IF topic = "cmd" THEN operator ELSE client.request)

LEMMA LockView ==
  ASSUME TypeInv
  PROVE  Heard("lock", ApplyAntMode(client, locked, locked))
<1> DEFINE d == [client EXCEPT !.locked = locked, !.ground = locked]
           l == [client.last EXCEPT !.freq = 0, !.select = "", !.inline = "none"]
           r == [client.redo EXCEPT !.pending = TRUE, !.retried = FALSE]
           owes == [d EXCEPT !.last = l, !.redo = r]
           x == IF client.locked /\ ~locked THEN owes ELSE d
<1>1. client \in Selectors /\ locked \in BOOLEAN
  BY DEF TypeInv, Sound, WorldOK
<1>2. d \in Selectors /\ d.last = client.last /\ d.redo = client.redo /\ Heard("lock", d)
  BY <1>1 DEF Selectors, Heard
<1>3. l \in Emissions /\ r \in Redos
  BY <1>1, Parts DEF Emissions, Redos
<1>4. ApplyAntMode(client, locked, locked)
          = CheckReextendStall(IF client.locked /\ ~locked THEN owes ELSE d, FALSE)
  BY <1>2 DEF ApplyAntMode
<1> HIDE DEF d, l, r
<1>5. owes \in Selectors /\ SameView(d, owes)
  <2>1. [d EXCEPT !.last = l] \in Selectors /\ SameView(d, [d EXCEPT !.last = l])
    BY <1>2, <1>3, LastView
  <2> QED
    BY <1>3, <2>1, RedoView DEF SameView
<1> HIDE DEF owes
<1>6. x \in Selectors /\ Heard("lock", x)
  BY <1>2, <1>5 DEF SameView, Heard
<1> HIDE DEF x
<1>7. ApplyAntMode(client, locked, locked) = CheckReextendStall(x, FALSE)
  BY <1>4 DEF x
<1>8. SameView(x, CheckReextendStall(x, FALSE))
  BY <1>6, CheckView
<1> QED
  BY <1>6, <1>7, <1>8 DEF SameView, Heard

LEMMA FollowView ==
  ASSUME NEW c \in Selectors, NEW on \in BOOLEAN, NEW retracted \in BOOLEAN, NEW lock \in BOOLEAN
  PROVE  SameView(c, ApplyFollowState(c, on, retracted, lock))
<1> DEFINE back == c.redo.dev = "off" /\ on
           owed == c.redo.pending /\ ~c.locked
           r == [c.redo EXCEPT !.dev = IF on THEN "on" ELSE "off",
                               !.retracted = retracted, !.lock = lock]
           d == [c EXCEPT !.redo = r]
           out == [d EXCEPT !.redo.pending = FALSE]
           lost == [d EXCEPT !.last.freq = 0]
           x == IF owed /\ on /\ ~retracted THEN out
                ELSE IF owed /\ back /\ retracted THEN lost ELSE d
<1>1. r \in Redos
  BY Parts DEF Redos
<1>2. ApplyFollowState(c, on, retracted, lock)
          = CheckReextendStall(IF owed /\ on /\ ~retracted THEN out
                               ELSE IF owed /\ back /\ retracted THEN lost ELSE d, FALSE)
  BY DEF ApplyFollowState, Selectors
<1> HIDE DEF r
<1>3. d \in Selectors /\ SameView(c, d)
  BY <1>1, RedoView
<1> HIDE DEF d
<1>4. out \in Selectors /\ SameView(d, out)
  <2>1. [d.redo EXCEPT !.pending = FALSE] \in Redos
    BY <1>3, Parts DEF Redos
  <2>2. out = [d EXCEPT !.redo = [d.redo EXCEPT !.pending = FALSE]]
    BY <1>3 DEF Selectors
  <2> HIDE DEF out
  <2> QED
    BY <1>3, <2>1, <2>2, RedoView
<1>5. lost \in Selectors /\ SameView(d, lost)
  <2>1. [d.last EXCEPT !.freq = 0] \in Emissions
    BY <1>3, Parts DEF Emissions
  <2>2. lost = [d EXCEPT !.last = [d.last EXCEPT !.freq = 0]]
    BY <1>3 DEF Selectors
  <2> HIDE DEF lost
  <2> QED
    BY <1>3, <2>1, <2>2, LastView
<1> HIDE DEF out, lost
<1>6. x \in Selectors /\ SameView(c, x)
  BY <1>3, <1>4, <1>5 DEF SameView
<1> HIDE DEF x
<1>7. ApplyFollowState(c, on, retracted, lock) = CheckReextendStall(x, FALSE)
  BY <1>2 DEF x
<1>8. SameView(x, CheckReextendStall(x, FALSE))
  BY <1>6, CheckView
<1> QED
  BY <1>6, <1>7, <1>8 DEF SameView

LEMMA HoldsView ==
  ASSUME NEW c \in Selectors
  PROVE  ApplyHolds(c) \in Selectors /\ SameView(c, ApplyHolds(c))
<1>1. SameView(c, c)
  BY DEF SameView
<1> QED
  BY <1>1, ActiveView DEF ApplyHolds

LEMMA HoldView ==
  ASSUME NEW c \in Selectors, NEW on \in BOOLEAN, NEW h \in {"no", "live", "stale"}
  PROVE  SameView(c, OnHoldStatus(c, on)) /\ SameView(c, OnHoldState(c, h))
<1>1. [c EXCEPT !.hold.online = on] \in Selectors /\ SameView(c, [c EXCEPT !.hold.online = on])
  BY DEF Selectors, SameView
<1>2. [c EXCEPT !.hold.held = h] \in Selectors /\ SameView(c, [c EXCEPT !.hold.held = h])
  BY DEF Selectors, SameView
<1>3. SameView([c EXCEPT !.hold.online = on], OnHoldStatus(c, on))
  BY <1>1, HoldsView DEF OnHoldStatus
<1>4. SameView([c EXCEPT !.hold.held = h], OnHoldState(c, h))
  BY <1>2, HoldsView DEF OnHoldState
<1> QED
  BY <1>1, <1>2, <1>3, <1>4 DEF SameView

LEMMA TickView == ASSUME NEW c \in Selectors PROVE SameView(c, CheckIdle(c))
<1> DEFINE h == ApplyHolds(c)
           k == IF h.idle.over THEN [h EXCEPT !.activity = "inactive"] ELSE h
<1>1. h \in Selectors /\ SameView(c, h)
  BY HoldsView
<1> HIDE DEF h
<1>2. [h EXCEPT !.activity = "inactive"] \in Selectors
  BY <1>1, Idled
<1>6. SameView(h, [h EXCEPT !.activity = "inactive"])
  BY <1>1 DEF Selectors, SameView
<1>3. k \in Selectors /\ SameView(c, k)
  BY <1>1, <1>2, <1>6 DEF SameView
<1>4. CheckIdle(c) = CheckReextendStall(k, TRUE)
  BY DEF CheckIdle, h
<1> HIDE DEF k
<1>5. SameView(k, CheckReextendStall(k, TRUE))
  BY <1>3, CheckView
<1> QED
  BY <1>3, <1>4, <1>5 DEF SameView

LEMMA SentView == ASSUME NEW c \in Selectors PROVE SameView(c, Sent(c)) /\ Sent(c).activity = c.activity
<1>1. PICK l \in Emissions : Sent(c) = [c EXCEPT !.last = l]
  BY SentKeeps
<1> QED
  BY <1>1, LastView, Relasted DEF Untouched, Rests

LEMMA RadioView ==
  ASSUME TypeInv
  PROVE  Heard("radio", OnRadioState(client, radio))
<1> DEFINE live == radio.up /\ radio.freq # 0
           vfo == live /\ client.base.freq # 0 /\ radio.freq # client.base.freq
           tx == client.base.seen /\ radio.up /\ radio.tx = "tx"
           m == IF vfo \/ tx THEN MarkActive(client) ELSE client
           d == [m EXCEPT !.dev = radio.up, !.freq = radio.freq, !.tx = radio.tx,
                          !.base = [seen |-> TRUE,
                                    freq |-> IF live \/ radio.freq = 0 THEN radio.freq ELSE @.freq]]
<1>1. client \in Selectors
  BY DEF TypeInv, Sound
<1>2. m \in Selectors /\ SameView(client, m)
  <2>1. SameView(client, client)
    BY DEF SameView
  <2> HIDE DEF vfo, tx
  <2> QED
    BY <1>1, <2>1, ActiveView
<1>3. OnRadioState(client, radio) = d
  BY DEF OnRadioState
<1> HIDE DEF m
<1>4. /\ d.dev = radio.up /\ d.freq = radio.freq /\ d.tx = radio.tx /\ d.bridge = m.bridge
      /\ d.request = m.request /\ d.selected = m.selected
      /\ d.locked = m.locked /\ d.ground = m.ground
  BY <1>2 DEF Selectors
<1> HIDE DEF d
<1> QED
  BY <1>2, <1>3, <1>4 DEF SameView, Heard

LEMMA OperatorView ==
  ASSUME TypeInv
  PROVE  Heard("cmd", OnOperatorCmd(client, operator))
<1> DEFINE d == [client EXCEPT !.request = operator]
<1>1. client \in Selectors /\ operator \in Ports \cup {"auto", "manual"}
  BY AntennaSelectAssumption DEF TypeInv, Sound, WorldOK
<1>2. d \in Selectors
  BY <1>1 DEF Selectors
<1>3. Heard("cmd", d)
  BY <1>1 DEF Selectors, Heard
<1>4. OnOperatorCmd(client, operator) = IF HoldActive(operator) THEN MarkActive(d) ELSE d
  BY DEF OnOperatorCmd
<1> HIDE DEF d
<1>5. SameView(d, MarkActive(d))
  BY <1>2, ActiveView
<1> QED
  BY <1>3, <1>4, <1>5 DEF SameView, Heard

\* Topics that say nothing the decision looks at.
Silent == {"follow", "holdStatus", "hold", "none"}

LEMMA Unheard ==
  ASSUME NEW topic \in Silent, NEW d, SameView(client, d)
  PROVE  Heard(topic, d)
  BY DEF Silent, SameView, Heard

\* A message changes the inputs it reports, to what is retained, and no other.
LEMMA HandledView ==
  ASSUME TypeInv, NEW topic \in Topics
  PROVE  Heard(topic, Handled(topic))
<1>1. client \in Selectors /\ hold.online \in BOOLEAN /\ hold.held \in {"no", "live", "stale"}
  BY DEF TypeInv, Sound, WorldOK, Holds
<1>2. ctl.dev \in BOOLEAN /\ ctl.retracted \in BOOLEAN /\ ctl.locked \in BOOLEAN
  BY DEF TypeInv, WorldOK, Ctls
<1>3. CASE topic = "lock"
  BY <1>3, LockView DEF Handled
<1>4. CASE topic = "radio"
  BY <1>4, RadioView DEF Handled
<1>5. CASE topic = "bridge"
  <2>1. Heard("bridge", OnRadioStatus(client, radio.bridge))
    BY <1>1 DEF OnRadioStatus, Selectors, Heard
  <2> QED
    BY <1>5, <2>1 DEF Handled
<1>6. CASE topic = "switch"
  <2>1. Heard("switch", OnAntSwitchState(client, switch.selected))
    BY <1>1 DEF OnAntSwitchState, Selectors, Heard
  <2> QED
    BY <1>6, <2>1 DEF Handled
<1>7. CASE topic = "follow"
  <2>1. SameView(client, ApplyFollowState(client, ctl.dev, ctl.retracted, ctl.locked))
    BY <1>1, <1>2, FollowView
  <2>2. Handled(topic) = ApplyFollowState(client, ctl.dev, ctl.retracted, ctl.locked)
    BY <1>7 DEF Handled
  <2> QED
    BY <1>7, <2>1, <2>2, Unheard DEF Silent
<1>8. CASE topic = "holdStatus"
  <2>1. SameView(client, OnHoldStatus(client, hold.online))
    BY <1>1, HoldView
  <2>2. Handled(topic) = OnHoldStatus(client, hold.online)
    BY <1>8 DEF Handled
  <2> QED
    BY <1>8, <2>1, <2>2, Unheard DEF Silent
<1>9. CASE topic = "hold"
  <2>1. SameView(client, OnHoldState(client, hold.held))
    BY <1>1, HoldView
  <2>2. Handled(topic) = OnHoldState(client, hold.held)
    BY <1>9 DEF Handled
  <2> QED
    BY <1>9, <2>1, <2>2, Unheard DEF Silent
<1>10. CASE topic = "cmd"
  BY <1>10, OperatorView DEF Handled
<1> QED
  BY <1>3, <1>4, <1>5, <1>6, <1>7, <1>8, <1>9, <1>10, TopicNames

\* The decision looks at nothing else.
LEMMA ViewDecides ==
  ASSUME NEW c, NEW d, SameView(c, d), d.activity = c.activity
  PROVE  Inputs(d) = Inputs(c)
  BY DEF SameView, Inputs
-----------------------------------------------------------------------------
(* The inductive invariant: what the client knows of a neighbour is what it  *)
(* last heard of it, and a select it owes is on its way.                     *)

Seen(topic) == topic \in Subscribed /\ topic \notin net.due

ViewsOK ==
    /\ Seen("lock") => client.locked = locked /\ client.ground = locked
    /\ Seen("radio") => /\ client.dev = radio.up /\ client.freq = radio.freq
                        /\ client.tx = radio.tx
    /\ Seen("bridge") => client.bridge = radio.bridge
    /\ Seen("switch") => client.selected = switch.selected
    /\ Seen("cmd") => client.request = operator

\* Once the switch has been heard of, a position it should leave is one it is told to
\* leave, or its next report is due, after which it is told again.
SelectOwed ==
    "switch" \in Subscribed =>
        /\ client.selected # ""
        /\ Actions(Inputs(client)).select # "" => switch.due \/ "switch" \in net.due

Follow == ViewsOK /\ SelectOwed

Followed == TypeInv /\ Follow

\* A step that leaves the inputs as they are, publishes what it says and tells the switch
\* nothing it does not report.
LEMMA Kinds ==
  ASSUME Follow, Inputs(client') = Inputs(client), SameView(client, client'),
         \A t : t \in Subscribed' => t \in Subscribed,
         \A t : Seen(t)' => Seen(t),
         Seen("lock")' => locked' = locked,
         Seen("radio")' => radio'.up = radio.up /\ radio'.freq = radio.freq /\ radio'.tx = radio.tx,
         Seen("bridge")' => radio'.bridge = radio.bridge,
         Seen("switch")' => switch'.selected = switch.selected,
         Seen("cmd")' => operator' = operator,
         "switch" \in Subscribed' /\ (switch.due \/ "switch" \in net.due)
             => switch'.due \/ "switch" \in net'.due
  PROVE  Follow'
<1>1. ViewsOK'
  BY DEF Follow, ViewsOK, SameView
<1>2. SelectOwed'
  BY DEF Follow, SelectOwed, SameView
<1> QED
  BY <1>1, <1>2 DEF Follow

\* update(), after a message of a topic or none.
LEMMA UpdateFollows ==
  ASSUME TypeInv, Follow, NEW topic, NEW c, Sound(c), Heard(topic, c),
         NEW n \in Nets, NEW touched, Update(c, n, touched),
         \A t : t \in Subscribed' => t \in Subscribed \/ t = topic,
         \A t : Seen(t)' => Seen(t) \/ t = topic
  PROVE  Follow'
<1> DEFINE e == Emits(c)
           ks == IF ~net.link THEN {0} ELSE IF "link" \in happens THEN 0..2 ELSE {2}
<1>1. /\ UNCHANGED <<radio, locked, operator>>
      /\ client' = Sent(c)
  BY DEF Update, Sent
<1>2. c \in Selectors /\ switch.selected \in Ports /\ "" \notin Ports
  BY PortNames DEF Sound, TypeInv, WorldOK
<1>3. SameView(c, client') /\ Inputs(client') = Inputs(c)
  BY <1>1, <1>2, SentView, ViewDecides
<1>4. PICK k \in ks :
        /\ switch' = IF k >= 1 /\ e.select # ""
                     THEN [switch EXCEPT !.cmd = e.select, !.due = TRUE] ELSE switch
        /\ net' = IF k = 2 THEN n ELSE Disconnected
  BY DEF Update
<1>5. e.select = IF c.selected = "" /\ Actions(Inputs(c)).select = c.last.select
                 THEN "" ELSE Actions(Inputs(c)).select
  BY DEF Emits, Actions
<1> HIDE DEF e
<1>6. switch'.selected = switch.selected /\ (switch.due => switch'.due)
      /\ (k = 2 /\ e.select # "" => switch'.due)
  <2>1. k = 2 => k >= 1
    OBVIOUS
  <2>2. switch' = switch \/ switch' = [switch EXCEPT !.cmd = e.select, !.due = TRUE]
    BY <1>4
  <2>3. k = 2 /\ e.select # "" => switch' = [switch EXCEPT !.cmd = e.select, !.due = TRUE]
    BY <1>4, <2>1
  <2> QED
    BY <2>2, <2>3 DEF TypeInv, WorldOK
<1>7. ViewsOK'
  <2>1. Heard(topic, client')
    BY <1>3 DEF SameView, Heard
  <2> QED
    BY <1>1, <1>6, <2>1 DEF Follow, ViewsOK, Heard
<1>8. SelectOwed'
  <2> SUFFICES ASSUME "switch" \in Subscribed'
               PROVE  /\ client'.selected # ""
                      /\ Actions(Inputs(client')).select # "" => switch'.due \/ "switch" \in net'.due
    BY DEF SelectOwed
  <2>1. k = 2
    <3>1. Disconnected.subs = 0 /\ (net'.subs = 0 => Subscribed' = {})
      BY DEF Disconnected, Subscribed
    <3> QED
      BY <1>4, <3>1
  <2>2. client'.selected # ""
    BY <1>2, <1>3 DEF Follow, SelectOwed, SameView, Heard
  <2>3. c.selected # ""
    BY <1>3, <2>2 DEF SameView
  <2>4. e.select = Actions(Inputs(client')).select
    BY <1>3, <1>5, <2>3
  <2> QED
    BY <1>6, <2>1, <2>2, <2>4
<1> QED
  BY <1>7, <1>8 DEF Follow

\* A new link has no subscription yet.
LEMMA CutFollows == ASSUME net'.subs = 0 PROVE Follow'
<1>1. Subscribed' = {}
  BY DEF Subscribed
<1> QED
  BY <1>1 DEF Follow, ViewsOK, SelectOwed, Seen

LEMMA NetCut ==
  ASSUME NEW c, NEW n, NEW touched, Update(c, n, touched)
  PROVE  net' = n \/ net'.subs = 0
<1> DEFINE ks == IF ~net.link THEN {0} ELSE IF "link" \in happens THEN 0..2 ELSE {2}
<1>1. PICK k \in ks : net' = IF k = 2 THEN n ELSE Disconnected
  BY DEF Update
<1> QED
  BY <1>1 DEF Disconnected

LEMMA ClientFollows ==
  ASSUME Followed,
         \/ \E topic \in Topics : Receive(topic)
         \/ Subscribe \/ Tick \/ IdleElapses \/ StallElapses \/ HoldExpires \/ Restart
  PROVE  Follow'
<1> USE DEF Followed
<1>1. client \in Selectors /\ net \in Nets
  BY DEF TypeInv, WorldOK, Sound
<1>2. ASSUME NEW topic \in Topics, Receive(topic) PROVE Follow'
  <2> DEFINE n == [net EXCEPT !.due = @ \ {topic}]
  <2>1. Update(Handled(topic), n, past.touched \ {topic})
    BY <1>2 DEF Receive
  <2>2. n \in Nets /\ n.subs = net.subs /\ n.due = net.due \ {topic}
    BY <1>1 DEF Nets
  <2> HIDE DEF n
  <2>3. CASE net' = n
    <3>1. Subscribed' = Subscribed
      BY <2>2, <2>3 DEF Subscribed
    <3>2. \A t : Seen(t)' => Seen(t) \/ t = topic
      BY <2>2, <2>3, <3>1 DEF Seen
    <3> QED
      BY <2>1, <2>2, <3>1, <3>2, Handles, HandledView, UpdateFollows
  <2> QED
    BY <2>1, <2>3, NetCut, CutFollows
<1>3. CASE Subscribe
  <2> DEFINE topic == Subscriptions[net.subs + 1]
             n == [net EXCEPT !.subs = @ + 1]
  <2>1. net.subs \in 0..7
    <3>1. Len(Subscriptions) = 8
      BY DEF Subscriptions
    <3> QED
      BY <1>1, <1>3, <3>1 DEF Subscribe, Nets
  <2>2. topic \in Topics
    <3>1. DOMAIN Subscriptions = 1..8
      BY DEF Subscriptions
    <3> QED
      BY <2>1, <3>1 DEF Topics
  <2>3. Update(Handled(topic), n, past.touched \ {topic})
    BY <1>3 DEF Subscribe
  <2>4. n \in Nets /\ n.subs = net.subs + 1 /\ n.due = net.due
    BY <1>1, <2>1 DEF Nets
  <2>5. {Subscriptions[i] : i \in 1..(net.subs + 1)} = Subscribed \cup {topic}
    BY <2>1, NextSubscribed DEF Subscribed
  <2> HIDE DEF topic, n
  <2>6. CASE net' = n
    <3>1. Subscribed' = Subscribed \cup {topic}
      BY <2>4, <2>5, <2>6 DEF Subscribed
    <3>2. \A t : Seen(t)' => Seen(t) \/ t = topic
      BY <2>4, <2>6, <3>1 DEF Seen
    <3> QED
      BY <2>2, <2>3, <2>4, <3>1, <3>2, Handles, HandledView, UpdateFollows
  <2> QED
    BY <2>3, <2>6, NetCut, CutFollows
<1>4. CASE Tick
  <2>1. Sound(CheckIdle(client)) /\ Heard("none", CheckIdle(client))
    BY <1>1, TickHandled, TickView, Unheard DEF TypeInv, Silent
  <2>2. Update(CheckIdle(client), net, past.touched)
    BY <1>4 DEF Tick
  <2>3. CASE net' = net
    <3>1. Subscribed' = Subscribed
      BY <2>3 DEF Subscribed
    <3>2. \A t : Seen(t)' => Seen(t)
      BY <2>3, <3>1 DEF Seen
    <3> QED
      BY <1>1, <2>1, <2>2, <3>1, <3>2, UpdateFollows
  <2> QED
    BY <2>2, <2>3, NetCut, CutFollows
\* A clock is no input.
<1>5. ASSUME SameView(client, client'), client'.activity = client.activity,
             UNCHANGED <<radio, locked, switch, operator, net>>
      PROVE  Follow'
  <2>1. Inputs(client') = Inputs(client)
    BY <1>5, ViewDecides
  <2>2. Subscribed' = Subscribed /\ \A t : Seen(t)' => Seen(t)
    BY <1>5 DEF Subscribed, Seen
  <2> QED
    BY <1>5, <2>1, <2>2, Kinds
<1>6. CASE IdleElapses
  <2>1. SameView(client, client') /\ client'.activity = client.activity
    BY <1>1, <1>6 DEF IdleElapses, Selectors, SameView
  <2> QED
    BY <1>5, <1>6, <2>1 DEF IdleElapses
<1>7. CASE StallElapses
  <2>1. SameView(client, client') /\ client'.activity = client.activity
    BY <1>1, <1>7 DEF StallElapses, Selectors, SameView
  <2> QED
    BY <1>5, <1>7, <2>1 DEF StallElapses
<1>8. CASE HoldExpires
  <2>1. SameView(client, client') /\ client'.activity = client.activity
    BY <1>1, <1>8 DEF HoldExpires, Selectors, SameView
  <2> QED
    BY <1>5, <1>8, <2>1 DEF HoldExpires
<1>9. CASE Restart
  BY <1>9, CutFollows DEF Restart, Connected
<1> QED
  BY <1>2, <1>3, <1>4, <1>6, <1>7, <1>8, <1>9

\* A neighbour moves: what it changes, it publishes.
LEMMA Neighbour ==
  ASSUME Followed, client' = client, NEW T, Publish(T) \/ (T = {} /\ net' = net),
         "lock" \notin T => locked' = locked,
         "radio" \notin T
             => radio'.up = radio.up /\ radio'.freq = radio.freq /\ radio'.tx = radio.tx,
         "bridge" \notin T => radio'.bridge = radio.bridge,
         "switch" \notin T => switch'.selected = switch.selected /\ (switch.due => switch'.due),
         "cmd" \notin T => operator' = operator
  PROVE  Follow'
<1>1. /\ Subscribed' = Subscribed
      /\ net'.due = net.due \cup (T \cap Subscribed)
  <2>1. CASE Publish(T)
    <3>1. net'.subs = net.subs /\ net'.due = net.due \cup (T \cap Subscribed)
      BY <2>1 DEF Followed, TypeInv, WorldOK, Publish, Nets
    <3> QED
      BY <3>1 DEF Subscribed
  <2>2. CASE T = {} /\ net' = net
    BY <2>2 DEF Subscribed
  <2> QED
    BY <2>1, <2>2
<1>2. \A t : Seen(t)' => Seen(t) /\ t \notin T
  BY <1>1 DEF Seen
<1>3. SameView(client, client') /\ Inputs(client') = Inputs(client)
  BY DEF SameView
<1> QED
  BY <1>1, <1>2, <1>3, Kinds DEF Followed

LEMMA SurroundingFollows == ASSUME Followed, Surroundings PROVE Follow'
<1>1. /\ radio \in Samples /\ net \in Nets
      /\ switch \in [selected : Ports, cmd : Ports \cup {""}, due : BOOLEAN]
      /\ ctl \in Ctls
  BY DEF Followed, TypeInv, WorldOK
<1>2. CASE LinkDown \/ LinkUp
  BY <1>2, CutFollows DEF LinkDown, LinkUp, Connected, Disconnected
\* The radio.
<1>3. ASSUME NEW what, NEW r, RadioSays(what, r), r.bridge = radio.bridge PROVE Follow'
  BY <1>3, Neighbour DEF RadioSays
<1>4. CASE Tune
  BY <1>1, <1>3, <1>4 DEF Tune, Samples
<1>5. CASE Key
  BY <1>1, <1>3, <1>5 DEF Key, Samples
<1>6. CASE Slice
  BY <1>1, <1>3, <1>6 DEF Slice, Samples
<1>7. CASE RadioLink
  BY <1>1, <1>3, <1>7 DEF RadioLink, Samples
<1>8. CASE Bridge
  <2>1. CASE radio.bridge
    <3>1. radio'.up = radio.up /\ radio'.freq = radio.freq /\ radio'.tx = radio.tx
      BY <1>1, <1>8, <2>1 DEF Bridge, Samples
    <3> QED
      BY <1>8, <2>1, <3>1, Neighbour DEF Bridge
  <2>2. CASE ~radio.bridge
    BY <1>8, <2>2, Neighbour DEF Bridge
  <2> QED
    BY <2>1, <2>2
\* The operator, the consumer and the lock.
<1>9. CASE Request
  BY <1>9, Neighbour DEF Request
<1>10. CASE HoldStatus \/ HoldState
  BY <1>10, Neighbour DEF HoldStatus, HoldState
<1>11. CASE Lock \/ Unlock
  BY <1>11, Neighbour DEF Lock, Unlock
\* The switch and the controller.
<1>12. CASE SwitchMoves \/ SwitchReboots
  BY <1>12, Neighbour DEF SwitchMoves, SwitchReboots, SwitchSays
<1>13. CASE SwitchByHand
  <2>1. switch'.selected = switch.selected /\ switch'.due
    BY <1>1, <1>13 DEF SwitchByHand
  <2> QED
    BY <1>13, <2>1, Neighbour DEF SwitchByHand
<1>14. ASSUME NEW c, CtlSays(c) PROVE Follow'
  <2>1. Publish({"follow"}) \/ net' = net
    BY <1>14 DEF CtlSays
  <2> QED
    BY <1>14, <2>1, Neighbour DEF CtlSays
<1>15. CASE CtlHears \/ CtlRetract \/ CtlTune \/ CtlDevGone \/ CtlDevBack
  BY <1>14, <1>15 DEF CtlHears, CtlRetract, CtlTune, CtlDevGone, CtlDevBack
<1>16. CASE CtlRepublishes
  BY <1>16, Neighbour DEF CtlRepublishes
<1> QED
  BY <1>2, <1>4, <1>5, <1>6, <1>7, <1>8, <1>9, <1>10, <1>11, <1>12, <1>13, <1>15, <1>16
     DEF Surroundings

LEMMA InitFollows == Init => Followed
<1> SUFFICES ASSUME Init PROVE Followed
  OBVIOUS
<1>1. Subscribed = {}
  <2>1. net.subs = 0
    BY DEF Init, Connected
  <2> QED
    BY <2>1 DEF Subscribed
<1> QED
  BY <1>1, InitTypes DEF Followed, Follow, ViewsOK, SelectOwed, Seen

LEMMA StepFollows == Followed /\ [Next]_vars => Followed'
<1> SUFFICES ASSUME Followed, [Next]_vars PROVE Follow'
  BY StepTypes DEF Followed
<1>1. CASE UNCHANGED vars
  BY <1>1 DEF vars, Followed, Follow, ViewsOK, SelectOwed, Seen, Subscribed
<1>2. CASE Next
  BY <1>2, ClientFollows, SurroundingFollows DEF Next, Surroundings
<1> QED
  BY <1>1, <1>2

\* With nothing on its way the client's inputs are the world's, and it would have told the
\* switch to move.
LEMMA QuietFollows == Followed => SwitchFollows
<1> SUFFICES ASSUME Followed, Quiet, Wanted # "", client.tx # "tx"
             PROVE  switch.selected = Wanted
  BY DEF SwitchFollows
<1>1. \A t \in Topics : Seen(t)
  BY DEF Quiet, Seen
<1>2. ViewsOK /\ SelectOwed /\ ~switch.due /\ "switch" \in Subscribed /\ net.due = {}
  BY TopicNames DEF Followed, Follow, Quiet
<1>3. /\ Seen("lock") /\ Seen("radio") /\ Seen("bridge") /\ Seen("switch") /\ Seen("cmd")
  BY <1>1, TopicNames
<1>4. /\ client.locked = locked /\ client.ground = locked
      /\ client.dev = radio.up /\ client.freq = radio.freq /\ client.tx = radio.tx
      /\ client.bridge = radio.bridge /\ client.selected = switch.selected
      /\ client.request = operator
  BY <1>2, <1>3 DEF ViewsOK
<1>5. Inputs(client) = [online |-> Live, freq |-> radio.freq, tx |-> radio.tx,
                        activity |-> client.activity, request |-> operator,
                        selected |-> switch.selected, locked |-> locked, ground |-> locked]
  BY <1>4 DEF Inputs, Live
<1>6. Resolve(Inputs(client)).target = Wanted
  BY <1>5 DEF Wanted
<1>7. Actions(Inputs(client)).select = ""
  BY <1>2 DEF SelectOwed
<1>8. Inputs(client).selected = switch.selected /\ Inputs(client).tx = client.tx
  BY <1>4 DEF Inputs
<1> DEFINE in == Inputs(client)
<1>9. Actions(in).select
          = IF Resolve(in).target \notin {"", in.selected} /\ in.tx # "tx"
            THEN Resolve(in).target ELSE ""
  BY DEF Actions
<1> HIDE DEF in
<1> QED
  BY <1>6, <1>7, <1>8, <1>9 DEF in

\* The switch ends up where the ladder wants it, whatever was lost, moved by hand or rebooted
\* meanwhile (update, emitting a select until the switch reports it).
THEOREM Follows == Spec => []SwitchFollows
<1>1. Spec => []Followed
  BY InitFollows, StepFollows, PTL DEF Spec
<1> QED
  BY <1>1, QuietFollows, PTL
-----------------------------------------------------------------------------
(* The re-extend.  Elements that are in are owed one until they are reported *)
(* out, and its one re-send ends in a frequency that reaches the controller  *)
(* or in one more after the RCU-06 is back.                                  *)

\* What the controller is known to have reported is what it would report now.
Reported ==
    Seen("follow") => /\ client.redo.dev = (IF ctl.dev THEN "on" ELSE "off")
                      /\ client.redo.retracted = ctl.retracted /\ client.redo.lock = ctl.locked

\* A re-extend that a report of the controller would have ended was not yet owed when that
\* report was handled: its frequency is still to come, or was refused under the lock.
Unanswered ==
    client.redo.pending /\ ~client.locked /\ Seen("follow") /\ ctl.dev /\ ~ctl.retracted /\ ~ctl.out
        => ctl.locked \/ client.last.freq = 0 \/ ctl.cmd

\* Whoever holds the elements in, or may yet drive them in, knows of a lock that is not over.
Owes == ~ctl.out \/ ctl.locked => locked \/ client.locked \/ client.redo.pending

\* The reports of the controller are heard, it takes frequencies, and one is on its way.
Resends ==
    SpentRedo(client) =>
        /\ "follow" \in Subscribed
        /\ ~client.locked => (locked \/ ~ctl.locked)
        /\ ~client.locked /\ ~locked /\ ctl.dev /\ ~ctl.out
              => (client.last.freq = 0 \/ ctl.cmd \/ client.redo.dev = "off")

Reach == Reported /\ Unanswered /\ (~past.forgot /\ ~past.misled => Owes /\ Resends)

\* The same of the re-extend, but for the clock of its stall.
SameRedo(c, d) ==
    /\ d.redo.pending = c.redo.pending /\ d.redo.retried = c.redo.retried
    /\ d.redo.dev = c.redo.dev /\ d.redo.retracted = c.redo.retracted
    /\ d.redo.lock = c.redo.lock

SameOwed(c, d) == SameRedo(c, d) /\ d.locked = c.locked /\ d.last.freq = c.last.freq

\* The one re-send.
Fires(c, d) ==
    /\ c.redo.pending /\ ~c.redo.lock /\ d.locked = c.locked /\ d.last.freq = 0
    /\ d.redo.pending /\ d.redo.dev = c.redo.dev /\ d.redo.retracted = c.redo.retracted
    /\ d.redo.lock = c.redo.lock

\* What a message of a topic, or none, makes of the re-extend.
Redoes(topic, c) ==
    /\ client.locked /\ ~c.locked => c.redo.pending /\ ~c.redo.retried
    /\ SpentRedo(c) => SpentRedo(client) \/ c.last.freq = 0
    /\ c.last.freq \in {0, client.last.freq}
    /\ IF topic = "follow"
       THEN /\ c.redo.dev = (IF ctl.dev THEN "on" ELSE "off")
            /\ c.redo.retracted = ctl.retracted /\ c.redo.lock = ctl.locked
            /\ c.redo.pending /\ ~c.locked /\ ctl.dev => ctl.retracted
            /\ SpentRedo(c) /\ ~c.locked /\ client.redo.dev = "off" /\ ctl.dev => c.last.freq = 0
       ELSE /\ c.redo.dev = client.redo.dev /\ c.redo.retracted = client.redo.retracted
            /\ c.redo.lock = client.redo.lock
            /\ c.redo.pending /\ ~c.locked
                  => (client.redo.pending /\ ~client.locked) \/ c.last.freq = 0

LEMMA CheckRedo ==
  ASSUME NEW c \in Selectors
  PROVE  /\ SameOwed(c, CheckReextendStall(c, FALSE))
         /\ \/ SameOwed(c, CheckReextendStall(c, TRUE))
            \/ Fires(c, CheckReextendStall(c, TRUE))
<1>1. ASSUME NEW fire \in BOOLEAN
      PROVE  \/ CheckReextendStall(c, fire) = c
             \/ CheckReextendStall(c, fire) = [c EXCEPT !.redo.stall = "no"]
             \/ CheckReextendStall(c, fire) = [c EXCEPT !.redo.stall = "running"]
             \/ /\ fire /\ Owed(c)
                /\ CheckReextendStall(c, fire)
                      = [c EXCEPT !.redo.stall = "no", !.redo.retried = TRUE, !.last.freq = 0]
  BY DEF CheckReextendStall, Owed
<1>2. SameOwed(c, [c EXCEPT !.redo.stall = "no"]) /\ SameOwed(c, [c EXCEPT !.redo.stall = "running"])
  BY DEF Selectors, SameOwed, SameRedo
<1>3. SameOwed(c, c)
  BY DEF SameOwed, SameRedo
<1>4. Owed(c) => Fires(c, [c EXCEPT !.redo.stall = "no", !.redo.retried = TRUE, !.last.freq = 0])
  BY DEF Selectors, Fires, Owed
<1>5. SameOwed(c, CheckReextendStall(c, FALSE))
  BY <1>1, <1>2, <1>3
<1>6. SameOwed(c, CheckReextendStall(c, TRUE)) \/ Fires(c, CheckReextendStall(c, TRUE))
  BY <1>1, <1>2, <1>3, <1>4
<1> QED
  BY <1>5, <1>6

LEMMA RelastedFreq ==
  ASSUME NEW c \in Selectors, NEW l \in Emissions, NEW r \in Redos
  PROVE  LET d == [c EXCEPT !.last = l, !.redo = r]
         IN d \in Selectors /\ d.redo = r /\ d.last = l /\ d.locked = c.locked
<1>1. [c EXCEPT !.last = l] \in Selectors /\ [c EXCEPT !.last = l].last = l
      /\ [c EXCEPT !.last = l].locked = c.locked
  BY Relasted DEF Untouched
<1>2. [c EXCEPT !.last = l, !.redo = r] = [[c EXCEPT !.last = l] EXCEPT !.redo = r]
  OBVIOUS
<1> QED
  BY <1>1, <1>2, Redone DEF Untouched

LEMMA LockRedoes ==
  ASSUME TypeInv
  PROVE  Redoes("lock", ApplyAntMode(client, locked, locked))
<1> DEFINE d == [client EXCEPT !.locked = locked, !.ground = locked]
           l == [client.last EXCEPT !.freq = 0, !.select = "", !.inline = "none"]
           r == [client.redo EXCEPT !.pending = TRUE, !.retried = FALSE]
           owes == [d EXCEPT !.last = l, !.redo = r]
           x == IF client.locked /\ ~locked THEN owes ELSE d
<1>1. client \in Selectors /\ locked \in BOOLEAN
  BY DEF TypeInv, Sound, WorldOK
<1>2. d \in Selectors /\ d.last = client.last /\ d.redo = client.redo /\ d.locked = locked
  BY <1>1 DEF Selectors
<1>3. l \in Emissions /\ r \in Redos /\ l.freq = 0
      /\ r.pending /\ ~r.retried /\ r.dev = client.redo.dev /\ r.lock = client.redo.lock
      /\ r.retracted = client.redo.retracted
  BY <1>1, Parts DEF Emissions, Redos
<1>4. ApplyAntMode(client, locked, locked)
          = CheckReextendStall(IF client.locked /\ ~locked THEN owes ELSE d, FALSE)
  BY <1>2 DEF ApplyAntMode
<1> HIDE DEF d, l, r
<1>5. owes \in Selectors /\ owes.redo = r /\ owes.last = l /\ owes.locked = locked
  BY <1>2, <1>3, RelastedFreq
<1> HIDE DEF owes
<1>6. x \in Selectors /\ Redoes("lock", x)
  <2>1. CASE client.locked /\ ~locked
    BY <1>1, <1>3, <1>5, <2>1 DEF Redoes, SpentRedo
  <2>2. CASE ~(client.locked /\ ~locked)
    BY <1>1, <1>2, <2>2 DEF Redoes, SpentRedo
  <2> QED
    BY <2>1, <2>2
<1> HIDE DEF x
<1>7. ApplyAntMode(client, locked, locked) = CheckReextendStall(x, FALSE)
  BY <1>4 DEF x
<1>8. SameOwed(x, CheckReextendStall(x, FALSE))
  BY <1>6, CheckRedo
<1> QED
  BY <1>6, <1>7, <1>8 DEF SameOwed, SameRedo, Redoes, SpentRedo

LEMMA FollowRedoes ==
  ASSUME TypeInv
  PROVE  Redoes("follow", ApplyFollowState(client, ctl.dev, ctl.retracted, ctl.locked))
<1> DEFINE back == client.redo.dev = "off" /\ ctl.dev
           owed == client.redo.pending /\ ~client.locked
           r == [client.redo EXCEPT !.dev = IF ctl.dev THEN "on" ELSE "off",
                                    !.retracted = ctl.retracted, !.lock = ctl.locked]
           d == [client EXCEPT !.redo = r]
           out == [d EXCEPT !.redo.pending = FALSE]
           lost == [d EXCEPT !.last.freq = 0]
           x == IF owed /\ ctl.dev /\ ~ctl.retracted THEN out
                ELSE IF owed /\ back /\ ctl.retracted THEN lost ELSE d
<1>1. /\ client \in Selectors /\ ctl.dev \in BOOLEAN
      /\ ctl.retracted \in BOOLEAN /\ ctl.locked \in BOOLEAN
  BY DEF TypeInv, Sound, WorldOK, Ctls
<1>2. r \in Redos /\ r.pending = client.redo.pending /\ r.retried = client.redo.retried
      /\ r.dev = (IF ctl.dev THEN "on" ELSE "off") /\ r.retracted = ctl.retracted
      /\ r.lock = ctl.locked
  BY <1>1, Parts DEF Redos
<1>3. ApplyFollowState(client, ctl.dev, ctl.retracted, ctl.locked) = CheckReextendStall(x, FALSE)
  BY <1>1 DEF ApplyFollowState, Selectors
<1> HIDE DEF r
<1>4. d \in Selectors /\ d.redo = r /\ d.last = client.last /\ d.locked = client.locked
  BY <1>1, <1>2, Redone DEF Untouched
<1> HIDE DEF d
<1>5. /\ out \in Selectors /\ out.redo = [r EXCEPT !.pending = FALSE]
      /\ out.last = client.last /\ out.locked = client.locked
  <2>1. [d.redo EXCEPT !.pending = FALSE] \in Redos
    BY <1>4, Parts DEF Redos
  <2>2. out = [d EXCEPT !.redo = [d.redo EXCEPT !.pending = FALSE]]
    BY <1>4 DEF Selectors
  <2> HIDE DEF out
  <2> QED
    BY <1>4, <2>1, <2>2, Redone DEF Untouched
<1>6. lost \in Selectors /\ lost.redo = r /\ lost.last.freq = 0 /\ lost.locked = client.locked
  <2> DEFINE l == [d.last EXCEPT !.freq = 0]
  <2>1. l \in Emissions /\ l.freq = 0
    BY <1>4, Parts DEF Emissions
  <2>2. lost = [d EXCEPT !.last = l]
    BY <1>4 DEF Selectors
  <2> HIDE DEF lost, l
  <2> QED
    BY <1>4, <2>1, <2>2, Relasted DEF Untouched
<1> HIDE DEF out, lost
<1>7. x \in Selectors /\ Redoes("follow", x)
  <2>1. CASE owed /\ ctl.dev /\ ~ctl.retracted
    <3>1. x = out /\ ~out.redo.pending /\ out.redo.dev = r.dev /\ out.redo.retracted = r.retracted
          /\ out.redo.lock = r.lock
      BY <1>2, <1>5, <2>1 DEF Redos
    <3> QED
      BY <1>2, <1>5, <2>1, <3>1 DEF Redoes, SpentRedo
  <2>2. CASE owed /\ back /\ ctl.retracted
    BY <1>2, <1>6, <2>2 DEF Redoes, SpentRedo
  <2>3. CASE ~(owed /\ ctl.dev /\ ~ctl.retracted) /\ ~(owed /\ back /\ ctl.retracted)
    BY <1>2, <1>4, <2>3 DEF Redoes, SpentRedo
  <2> QED
    BY <2>1, <2>2, <2>3
<1> HIDE DEF x
<1>8. SameOwed(x, CheckReextendStall(x, FALSE))
  BY <1>7, CheckRedo
<1> QED
  BY <1>3, <1>7, <1>8 DEF SameOwed, SameRedo, Redoes, SpentRedo

\* Every other message leaves the re-extend alone.
Besides(c, d) == d.redo = c.redo /\ d.locked = c.locked /\ d.last = c.last

LEMMA BesidesRedoes ==
  ASSUME NEW c, Besides(client, c), client \in Selectors, NEW topic, topic # "follow"
  PROVE  Redoes(topic, c)
  BY DEF Besides, Redoes, SpentRedo

LEMMA ActiveBesides ==
  ASSUME NEW c \in Selectors
  PROVE  MarkActive(c) \in Selectors /\ Besides(c, MarkActive(c)) /\ Besides(c, c)
<1>1. Besides(c, c)
  BY DEF Besides
<1>2. Besides(c, MarkActive(c))
  BY ActiveSound DEF Kept, Besides
<1> QED
  BY <1>1, <1>2, ActiveSound

LEMMA HoldsBesides ==
  ASSUME NEW c \in Selectors
  PROVE  Besides(c, ApplyHolds(c)) /\ ApplyHolds(c) \in Selectors
  BY ActiveBesides DEF ApplyHolds

LEMMA RadioBesides ==
  ASSUME TypeInv
  PROVE  Besides(client, OnRadioState(client, radio))
<1> DEFINE live == radio.up /\ radio.freq # 0
           vfo == live /\ client.base.freq # 0 /\ radio.freq # client.base.freq
           tx == client.base.seen /\ radio.up /\ radio.tx = "tx"
           m == IF vfo \/ tx THEN MarkActive(client) ELSE client
           d == [m EXCEPT !.dev = radio.up, !.freq = radio.freq, !.tx = radio.tx,
                          !.base = [seen |-> TRUE,
                                    freq |-> IF live \/ radio.freq = 0 THEN radio.freq ELSE @.freq]]
<1>1. client \in Selectors
  BY DEF TypeInv, Sound
<1>2. m \in Selectors /\ Besides(client, m)
  <2> HIDE DEF vfo, tx
  <2> QED
    BY <1>1, ActiveBesides
<1>3. OnRadioState(client, radio) = d
  BY DEF OnRadioState
<1> HIDE DEF m
<1>4. Besides(m, d)
  BY <1>2 DEF Selectors, Besides
<1> HIDE DEF d
<1> QED
  BY <1>2, <1>3, <1>4 DEF Besides

LEMMA HandledRedoes ==
  ASSUME TypeInv, NEW topic \in Topics
  PROVE  Redoes(topic, Handled(topic))
<1>1. client \in Selectors /\ radio.bridge \in BOOLEAN /\ switch.selected \in Ports
      /\ hold.online \in BOOLEAN /\ hold.held \in {"no", "live", "stale"}
      /\ operator \in Ports \cup {"auto", "manual"}
  BY AntennaSelectAssumption DEF TypeInv, Sound, WorldOK, Holds, Samples
<1>2. CASE topic = "lock"
  BY <1>2, LockRedoes DEF Handled
<1>3. CASE topic = "follow"
  BY <1>3, FollowRedoes DEF Handled
<1>4. ASSUME topic # "follow", Besides(client, Handled(topic)) PROVE Redoes(topic, Handled(topic))
  BY <1>1, <1>4, BesidesRedoes
<1>5. CASE topic = "radio"
  <2>1. Handled(topic) = OnRadioState(client, radio)
    BY <1>5 DEF Handled
  <2> QED
    BY <1>4, <1>5, <2>1, RadioBesides
<1>6. CASE topic = "bridge"
  <2>1. Besides(client, OnRadioStatus(client, radio.bridge))
    BY <1>1 DEF OnRadioStatus, Selectors, Besides
  <2>2. Handled(topic) = OnRadioStatus(client, radio.bridge)
    BY <1>6 DEF Handled
  <2> QED
    BY <1>4, <1>6, <2>1, <2>2
<1>7. CASE topic = "switch"
  <2>1. Besides(client, OnAntSwitchState(client, switch.selected))
    BY <1>1 DEF OnAntSwitchState, Selectors, Besides
  <2>2. Handled(topic) = OnAntSwitchState(client, switch.selected)
    BY <1>7 DEF Handled
  <2> QED
    BY <1>4, <1>7, <2>1, <2>2
<1>8. CASE topic = "holdStatus"
  <2> DEFINE d == [client EXCEPT !.hold.online = hold.online]
  <2>1. d \in Selectors /\ Besides(client, d)
    BY <1>1 DEF Selectors, Besides
  <2>2. Handled(topic) = ApplyHolds(d)
    BY <1>8 DEF Handled, OnHoldStatus
  <2> HIDE DEF d
  <2>3. Besides(client, Handled(topic))
    BY <2>1, <2>2, HoldsBesides DEF Besides
  <2> QED
    BY <1>4, <1>8, <2>3
<1>9. CASE topic = "hold"
  <2> DEFINE d == [client EXCEPT !.hold.held = hold.held]
  <2>1. d \in Selectors /\ Besides(client, d)
    BY <1>1 DEF Selectors, Besides
  <2>2. Handled(topic) = ApplyHolds(d)
    BY <1>9 DEF Handled, OnHoldState
  <2> HIDE DEF d
  <2>3. Besides(client, Handled(topic))
    BY <2>1, <2>2, HoldsBesides DEF Besides
  <2> QED
    BY <1>4, <1>9, <2>3
<1>10. CASE topic = "cmd"
  <2> DEFINE d == [client EXCEPT !.request = operator]
  <2>1. d \in Selectors /\ Besides(client, d)
    BY <1>1 DEF Selectors, Besides
  <2>2. Handled(topic) = IF HoldActive(operator) THEN MarkActive(d) ELSE d
    BY <1>10 DEF Handled, OnOperatorCmd
  <2> HIDE DEF d
  <2>3. Besides(client, Handled(topic))
    BY <2>1, <2>2, ActiveBesides DEF Besides
  <2> QED
    BY <1>4, <1>10, <2>3
<1> QED
  BY <1>2, <1>3, <1>5, <1>6, <1>7, <1>8, <1>9, <1>10, TopicNames

\* A tick may send the frequency again.
LEMMA TickRedoes ==
  ASSUME NEW c \in Selectors
  PROVE  \/ SameOwed(c, CheckIdle(c))
         \/ Fires(c, CheckIdle(c))
<1> DEFINE h == ApplyHolds(c)
           k == IF h.idle.over THEN [h EXCEPT !.activity = "inactive"] ELSE h
<1>1. h \in Selectors /\ Besides(c, h)
  BY HoldsBesides
<1> HIDE DEF h
<1>2. k \in Selectors /\ Besides(c, k)
  BY <1>1, Idled DEF Besides
<1>3. CheckIdle(c) = CheckReextendStall(k, TRUE)
  BY DEF CheckIdle, h
<1> HIDE DEF k
<1> DEFINE d == CheckReextendStall(k, TRUE)
<1>4. SameOwed(k, d) \/ Fires(k, d)
  BY <1>2, CheckRedo
<1> HIDE DEF d
<1>5. SameOwed(c, d) \/ Fires(c, d)
  BY <1>2, <1>4 DEF Besides, SameOwed, SameRedo, Fires
<1> QED
  BY <1>3, <1>5 DEF d

\* What update() sends: a frequency that was forgotten goes out before another is kept.
LEMMA SentFreq ==
  ASSUME NEW c \in Selectors
  PROVE  /\ Sent(c).redo = c.redo /\ Sent(c).locked = c.locked
         /\ Sent(c).last.freq = IF Emits(c).freq = 0 THEN c.last.freq ELSE Emits(c).freq
<1>1. PICK l \in Emissions : Sent(c) = [c EXCEPT !.last = l]
  BY SentKeeps
<1>2. Sent(c).redo = c.redo /\ Sent(c).locked = c.locked
  BY <1>1, Relasted DEF Untouched
<1>3. Sent(c).last.freq = IF Emits(c).freq = 0 THEN c.last.freq ELSE Emits(c).freq
  <2> DEFINE e == Emits(c)
  <2>1. Sent(c) = Record(c, e)
    BY DEF Sent
  <2> HIDE DEF e
  <2>2. Record(c, e).last.freq = IF e.freq = 0 THEN c.last.freq ELSE e.freq
    BY DEF Record, Selectors
  <2> QED
    BY <2>1, <2>2 DEF e
<1> QED
  BY <1>2, <1>3

LEMMA UpdateReach ==
  ASSUME TypeInv, Reach, NEW topic, NEW c, Sound(c), Redoes(topic, c), NEW n, NEW touched,
         Update(c, n, touched),
         Seen("follow")' => Seen("follow") \/ topic = "follow"
  PROVE  Reach'
<1> DEFINE e == Emits(c)
           s == Sent(c)
           ks == IF ~net.link THEN {0} ELSE IF "link" \in happens THEN 0..2 ELSE {2}
<1>1. locked' = locked /\ client' = s
  BY DEF Update, Sent
<1>2. PICK k \in ks :
        /\ ctl' = IF k = 2 /\ e.freq # 0 THEN [ctl EXCEPT !.cmd = TRUE] ELSE ctl
        /\ net' = IF k = 2 THEN n ELSE Disconnected
        /\ past' = [touched |-> touched,
                    forgot |-> \/ SpentRedo(s) /\ "follow" \notin Subscribed'
                               \/ past.forgot /\ ~Unlocks(c),
                    misled |-> \/ Misled(c)
                               \/ past.misled /\ ~Unlocks(c)]
  BY DEF Update, Sent
<1>3. s.redo = c.redo /\ s.locked = c.locked /\ (e.freq = 0 => s.last.freq = c.last.freq)
  BY SentFreq DEF Sound
<1> HIDE DEF e, s, ks
<1>4. /\ ctl'.dev = ctl.dev /\ ctl'.out = ctl.out /\ ctl'.locked = ctl.locked
      /\ ctl'.retracted = ctl.retracted
      /\ ctl.cmd => ctl'.cmd
      /\ k = 2 /\ e.freq # 0 => ctl'.cmd
  BY <1>2 DEF TypeInv, WorldOK, Ctls
<1>5. k # 2 => Subscribed' = {}
  BY <1>2 DEF Disconnected, Subscribed
\* A frequency that was forgotten is sent, or remains forgotten.
<1>6. k = 2 /\ c.last.freq = 0 => s.last.freq = 0 \/ ctl'.cmd
  BY <1>3, <1>4
<1>7. Reported'
  BY <1>1, <1>3, <1>4 DEF Reach, Reported, Redoes
<1>8. Unanswered'
  <2> SUFFICES ASSUME c.redo.pending, ~c.locked, Seen("follow")', ctl.dev, ~ctl.retracted,
                      ~ctl.out, ~ctl.locked, c.last.freq # 0
               PROVE  ctl'.cmd
    <3>1. Seen("follow")' => k = 2
      BY <1>5 DEF Seen
    <3> QED
      BY <1>1, <1>3, <1>4, <1>6, <3>1 DEF Unanswered
  <2>1. topic # "follow"
    BY DEF Redoes
  <2>2. client.redo.pending /\ ~client.locked /\ client.last.freq = c.last.freq
    BY <2>1 DEF Redoes
  <2>3. ctl.cmd
    BY <2>1, <2>2 DEF Reach, Unanswered
  <2> QED
    BY <1>4, <2>3
<1>9. SUFFICES ASSUME ~past'.forgot, ~past'.misled PROVE Owes' /\ Resends'
  BY <1>7, <1>8 DEF Reach
<1>10. /\ SpentRedo(c) => "follow" \in Subscribed'
       /\ past.forgot \/ past.misled => client.locked /\ ~c.locked
       /\ client.redo.pending /\ ~c.redo.pending => ctl.out /\ ~ctl.locked
       /\ SpentRedo(c) /\ ~SpentRedo(client) => ~ctl.locked
  <2>1. /\ SpentRedo(s) => "follow" \in Subscribed'
        /\ past.forgot \/ past.misled => Unlocks(c)
        /\ ~Misled(c)
    BY <1>2, <1>9
  <2> QED
    BY <1>3, <2>1 DEF SpentRedo, Unlocks, Misled
<1>11. Owes'
  <2>1. CASE client.locked /\ ~c.locked
    BY <1>1, <1>3, <2>1 DEF Owes, Redoes
  <2>2. CASE ~(client.locked /\ ~c.locked)
    <3>1. Owes
      BY <1>10, <2>2 DEF Reach
    <3>2. client.locked => c.locked
      BY <2>2
    <3> QED
      BY <1>1, <1>3, <1>4, <1>10, <3>1, <3>2 DEF Owes
  <2> QED
    BY <2>1, <2>2
<1>12. Resends'
  <2> SUFFICES ASSUME SpentRedo(c), ~c.locked
               PROVE  /\ locked \/ ~ctl.locked
                      /\ ~locked /\ ctl.dev /\ ~ctl.out
                            => s.last.freq = 0 \/ ctl'.cmd \/ c.redo.dev = "off"
    BY <1>1, <1>3, <1>4, <1>10 DEF Resends, SpentRedo
  <2>1. ~client.locked /\ Resends
    BY <1>10 DEF Redoes, SpentRedo, Reach
  <2>2. k = 2
    BY <1>5, <1>10
  <2>3. locked \/ ~ctl.locked
    BY <1>10, <2>1 DEF Resends
  <2>4. ASSUME ~locked, ctl.dev, ~ctl.out, s.last.freq # 0, ~ctl'.cmd, c.redo.dev # "off"
        PROVE  FALSE
    <3>1. c.last.freq # 0
      BY <1>6, <2>2, <2>4
    <3>2. SpentRedo(client) /\ client.last.freq # 0
      BY <3>1 DEF Redoes
    <3>3. client.redo.dev = "off"
      BY <1>4, <2>1, <2>4, <3>2 DEF Resends
    <3> QED
      BY <2>4, <3>1, <3>3 DEF Redoes
  <2> QED
    BY <2>3, <2>4
<1> QED
  BY <1>11, <1>12

\* A step that touches neither the re-extend, the controller, the lock nor the link.
LEMMA ReachAside ==
  ASSUME Reach, SameOwed(client, client'), UNCHANGED <<locked, ctl>>,
         past'.forgot = past.forgot, past'.misled = past.misled,
         "follow" \in Subscribed' <=> "follow" \in Subscribed,
         Seen("follow")' => Seen("follow")
  PROVE  Reach'
<1>1. Reported' /\ Unanswered'
  BY DEF Reach, Reported, Unanswered, SameOwed, SameRedo
<1>2. Owes => Owes'
  BY DEF Owes, SameOwed, SameRedo
<1>3. Resends => Resends'
  BY DEF Resends, SpentRedo, SameOwed, SameRedo
<1> QED
  BY <1>1, <1>2, <1>3 DEF Reach

\* A new link, or none: nothing is subscribed to, and no re-send is relied on.
LEMMA ReachCut ==
  ASSUME Reach, net'.subs = 0, client' = client, UNCHANGED <<locked, ctl>>,
         past.forgot => past'.forgot, past'.misled = past.misled,
         SpentRedo(client) => past'.forgot \/ past.misled
  PROVE  Reach'
<1>1. Subscribed' = {}
  BY DEF Subscribed
<1>2. Reported' /\ Unanswered'
  BY <1>1 DEF Reported, Unanswered, Seen
<1>3. ~past'.forgot /\ ~past'.misled => Owes' /\ Resends'
  BY DEF Reach, Owes, Resends
<1> QED
  BY <1>2, <1>3 DEF Reach

LEMMA ClientReach ==
  ASSUME Presence, Reach,
         \/ \E topic \in Topics : Receive(topic)
         \/ Subscribe \/ Tick \/ IdleElapses \/ StallElapses \/ HoldExpires \/ Restart
  PROVE  Reach'
<1> USE DEF Presence
<1>1. client \in Selectors /\ net \in Nets
  BY DEF TypeInv, WorldOK, Sound
<1>2. Disconnected.subs = 0 /\ Disconnected.due = {}
  BY DEF Disconnected
<1>3. net'.subs = 0 => Subscribed' = {}
  BY DEF Subscribed
<1>4. ASSUME NEW c, NEW n, NEW touched, Update(c, n, touched)
      PROVE  net' = n \/ net' = Disconnected
  <2> DEFINE ks == IF ~net.link THEN {0} ELSE IF "link" \in happens THEN 0..2 ELSE {2}
  <2>1. PICK k \in ks : net' = IF k = 2 THEN n ELSE Disconnected
    BY <1>4 DEF Update
  <2> QED
    BY <2>1
<1>5. ASSUME NEW topic \in Topics, Receive(topic) PROVE Reach'
  <2> DEFINE n == [net EXCEPT !.due = @ \ {topic}]
  <2>1. Update(Handled(topic), n, past.touched \ {topic})
    BY <1>5 DEF Receive
  <2>2. n.subs = net.subs /\ n.due = net.due \ {topic}
    BY <1>1 DEF Nets
  <2> HIDE DEF n
  <2>3. net' = n => Subscribed' = Subscribed
    BY <2>2 DEF Subscribed
  <2>4. Seen("follow")' => Seen("follow") \/ topic = "follow"
    BY <1>2, <1>3, <1>4, <2>1, <2>2, <2>3 DEF Seen
  <2> QED
    BY <2>1, <2>4, Handles, HandledRedoes, UpdateReach
<1>6. CASE Subscribe
  <2> DEFINE topic == Subscriptions[net.subs + 1]
             n == [net EXCEPT !.subs = @ + 1]
  <2>1. net.subs \in 0..7
    <3>1. Len(Subscriptions) = 8
      BY DEF Subscriptions
    <3> QED
      BY <1>1, <1>6, <3>1 DEF Subscribe, Nets
  <2>2. topic \in Topics
    <3>1. DOMAIN Subscriptions = 1..8
      BY DEF Subscriptions
    <3> QED
      BY <2>1, <3>1 DEF Topics
  <2>3. Update(Handled(topic), n, past.touched \ {topic})
    BY <1>6 DEF Subscribe
  <2>4. n.subs = net.subs + 1 /\ n.due = net.due
    BY <1>1, <2>1 DEF Nets
  <2>5. {Subscriptions[i] : i \in 1..(net.subs + 1)} = Subscribed \cup {topic}
    BY <2>1, NextSubscribed DEF Subscribed
  <2> HIDE DEF topic, n
  <2>6. net' = n => Subscribed' = Subscribed \cup {topic}
    BY <2>4, <2>5 DEF Subscribed
  <2>7. Seen("follow")' => Seen("follow") \/ topic = "follow"
    BY <1>2, <1>3, <1>4, <2>3, <2>4, <2>6 DEF Seen
  <2> QED
    BY <2>2, <2>3, <2>7, Handles, HandledRedoes, UpdateReach
<1>7. CASE Tick
  <2> DEFINE d == CheckIdle(client)
  <2>1. Update(d, net, past.touched)
    BY <1>7 DEF Tick
  <2>2. Sound(d)
    BY TickHandled DEF TypeInv
  <2>3. SameOwed(client, d) \/ Fires(client, d)
    BY <1>1, TickRedoes
  <2> HIDE DEF d
  <2>4. Redoes("none", d)
    BY <2>3 DEF Redoes, SpentRedo, SameOwed, SameRedo, Fires
  <2>5. net' = net => Subscribed' = Subscribed
    BY DEF Subscribed
  <2>6. Seen("follow")' => Seen("follow")
    BY <1>2, <1>3, <1>4, <2>1, <2>5 DEF Seen
  <2> QED
    BY <2>1, <2>2, <2>4, <2>6, UpdateReach
<1>8. ASSUME SameOwed(client, client'), UNCHANGED <<locked, ctl, net, past>> PROVE Reach'
  <2>1. Subscribed' = Subscribed /\ (Seen("follow")' => Seen("follow"))
    BY <1>8 DEF Subscribed, Seen
  <2> QED
    BY <1>8, <2>1, ReachAside
<1>9. CASE IdleElapses
  <2>1. SameOwed(client, client')
    BY <1>1, <1>9 DEF IdleElapses, Selectors, SameOwed, SameRedo
  <2> QED
    BY <1>8, <1>9, <2>1 DEF IdleElapses
<1>10. CASE StallElapses
  <2>1. SameOwed(client, client')
    BY <1>1, <1>10 DEF StallElapses, Selectors, SameOwed, SameRedo
  <2> QED
    BY <1>8, <1>10, <2>1 DEF StallElapses
<1>11. CASE HoldExpires
  <2>1. SameOwed(client, client')
    BY <1>1, <1>11 DEF HoldExpires, Selectors, SameOwed, SameRedo
  <2> QED
    BY <1>8, <1>11, <2>1 DEF HoldExpires
<1>12. CASE Restart
  <2>1. net'.subs = 0 /\ net'.due = {} /\ past'.forgot
    BY <1>12 DEF Restart, Connected
  <2> QED
    BY <1>3, <2>1 DEF Reach, Reported, Unanswered, Seen
<1> QED
  BY <1>5, <1>6, <1>7, <1>9, <1>10, <1>11, <1>12

\* The controller as it may become: it hears of the lock, or its RCU-06 goes or comes; it
\* retracts under the lock it knows of; it takes a frequency.
Hears(c) ==
    /\ c.locked \in {ctl.locked, locked} /\ c.out \in {ctl.out, TRUE} /\ c.cmd = ctl.cmd
    /\ c.dev # ctl.dev \/ c.locked # ctl.locked
Retracts(c) == ctl.locked /\ c.locked /\ c.dev = ctl.dev /\ c.cmd = ctl.cmd /\ c.retracted
Tunes(c) == /\ c.dev = ctl.dev /\ c.locked = ctl.locked /\ (c.retracted => ctl.retracted)
            /\ c.out = (ctl.out \/ (~ctl.locked /\ ctl.dev))
            /\ ~c.out => c.retracted = ctl.retracted

\* What the controller says it publishes, if its report changes.
LEMMA CtlReach ==
  ASSUME Presence, Reach, NEW c \in Ctls, CtlSays(c), Hears(c) \/ Retracts(c) \/ Tunes(c)
  PROVE  Reach'
<1> USE DEF Presence
<1> DEFINE told == c.dev = ctl.dev /\ c.retracted = ctl.retracted /\ c.locked = ctl.locked
<1>1. /\ net \in Nets /\ LinkOK /\ "follow" \notin net.due /\ ctl \in Ctls
  BY DEF TypeInv, WorldOK, Grounds, CtlSays, Ready
<1>2. client' = client /\ ctl' = c /\ UNCHANGED <<locked, past>>
  BY DEF CtlSays
<1>3. (net' = net /\ told) \/ (Publish({"follow"}) /\ ~told)
  <2>1. [c EXCEPT !.out = ctl.out, !.cmd = ctl.cmd] = ctl <=> told
    BY <1>1 DEF Ctls
  <2> QED
    BY <2>1 DEF CtlSays
<1>4. /\ Subscribed' = Subscribed
      /\ Seen("follow")' => Seen("follow") /\ told
  <2>1. CASE net' = net /\ told
    BY <2>1 DEF Subscribed, Seen
  <2>2. CASE Publish({"follow"})
    <3>1. Subscribed' = Subscribed /\ net'.due = net.due \cup ({"follow"} \cap Subscribed)
      BY <1>1, <2>2, Published
    <3> QED
      BY <3>1 DEF Seen
  <2> QED
    BY <1>3, <2>1, <2>2
<1>5. Reported'
  BY <1>2, <1>4 DEF Reach, Reported
<1>6. Unanswered'
  <2> SUFFICES ASSUME client.redo.pending, ~client.locked, Seen("follow"), told,
                      c.dev, ~c.retracted, ~c.out, ~c.locked
               PROVE  client.last.freq = 0 \/ c.cmd
    BY <1>2, <1>4 DEF Unanswered
  <2>1. ~Hears(c) /\ ~Retracts(c)
    BY DEF Hears, Retracts
  <2>2. ctl.dev /\ ~ctl.locked
    OBVIOUS
  <2> QED
    BY <2>1, <2>2 DEF Tunes
<1>7. Owes => Owes'
  BY <1>2 DEF Owes, Hears, Retracts, Tunes, Ctls
<1>8. Resends => Resends'
  <2> SUFFICES ASSUME Resends, SpentRedo(client)
               PROVE  /\ "follow" \in Subscribed
                      /\ ~client.locked => (locked \/ ~c.locked)
                      /\ ~client.locked /\ ~locked /\ c.dev /\ ~c.out
                            => (client.last.freq = 0 \/ c.cmd \/ client.redo.dev = "off")
    BY <1>2, <1>4 DEF Resends
  <2>1. "follow" \in Subscribed
    BY DEF Resends
  <2>2. client.redo.dev = (IF ctl.dev THEN "on" ELSE "off")
    BY <1>1, <2>1 DEF Reach, Reported, Seen
  <2>3. ~client.locked => (locked \/ ~c.locked)
    BY DEF Resends, Hears, Retracts, Tunes
  <2>4. ASSUME ~client.locked, ~locked, c.dev, ~c.out
        PROVE  client.last.freq = 0 \/ c.cmd \/ client.redo.dev = "off"
    <3>1. ~ctl.locked
      BY <2>4 DEF Resends
    <3>2. CASE ~ctl.dev
      BY <2>2, <3>2
    <3>3. CASE ctl.dev
      <4>1. Hears(c)
        BY <2>4, <3>1, <3>3 DEF Retracts, Tunes
      <4>2. /\ locked \in BOOLEAN /\ c.locked \in BOOLEAN /\ ctl.locked \in BOOLEAN
            /\ c.dev \in BOOLEAN /\ ctl.dev \in BOOLEAN
        BY <1>1 DEF TypeInv, WorldOK, Ctls
      <4> QED
        BY <2>4, <3>1, <3>3, <4>1, <4>2 DEF Hears
    <3> QED
      BY <3>2, <3>3
  <2> QED
    BY <2>1, <2>3, <2>4
<1> QED
  BY <1>2, <1>5, <1>6, <1>7, <1>8 DEF Reach

LEMMA SurroundingReach ==
  ASSUME Presence, Reach, Surroundings
  PROVE  Reach'
<1>1. /\ net \in Nets /\ LinkOK
      /\ ctl \in Ctls
      /\ past \in Pasts
  BY DEF Presence, TypeInv, WorldOK, Grounds
<1>2. CASE LinkDown
  <2>1. net'.subs = 0
    BY <1>2 DEF LinkDown, Disconnected
  <2>2. past'.forgot = (past.forgot \/ SpentRedo(client)) /\ past'.misled = past.misled
    BY <1>1, <1>2 DEF LinkDown, Pasts
  <2> QED
    BY <1>2, <2>1, <2>2, ReachCut DEF LinkDown
<1>3. CASE LinkUp
  <2>1. net'.subs = 0 /\ past'.forgot = past.forgot /\ past'.misled = past.misled
    BY <1>1, <1>3 DEF LinkUp, Connected, Pasts
  <2>2. Subscribed = {}
    BY <1>1, <1>3 DEF LinkUp, LinkOK, Subscribed
  <2>3. SpentRedo(client) => past.forgot \/ past.misled
    BY <2>2 DEF Reach, Resends
  <2> QED
    BY <1>3, <2>1, <2>3, ReachCut DEF LinkUp
\* What the others publish is not about the re-extend.
<1>4. ASSUME NEW T, Publish(T) \/ net' = net, "follow" \notin T, UNCHANGED <<client, locked, ctl>>,
             past'.forgot = past.forgot, past'.misled = past.misled
      PROVE  Reach'
  <2>1. Subscribed' = Subscribed /\ (Seen("follow")' => Seen("follow"))
    BY <1>1, <1>4, Published DEF Subscribed, Seen
  <2>2. SameOwed(client, client')
    BY <1>4 DEF SameOwed, SameRedo
  <2> QED
    BY <1>4, <2>1, <2>2, ReachAside
<1>5. ASSUME NEW topic, Touched(topic)
      PROVE  past'.forgot = past.forgot /\ past'.misled = past.misled
  BY <1>1, <1>5 DEF Touched, Pasts
<1>6. CASE Tune \/ Key \/ Slice \/ RadioLink
  <2>1. PICK what, r : RadioSays(what, r)
    BY <1>6 DEF Tune, Key, Slice, RadioLink
  <2>2. past'.forgot = past.forgot /\ past'.misled = past.misled
    BY <1>5, <1>6 DEF Tune, Key, Slice, RadioLink
  <2>3. UNCHANGED <<client, locked, ctl>> /\ Publish({"radio"})
    BY <2>1 DEF RadioSays
  <2>4. "follow" \notin {"radio"}
    OBVIOUS
  <2> QED
    BY <1>4, <2>2, <2>3, <2>4
<1>7. CASE Bridge \/ HoldStatus \/ HoldState
  BY <1>4, <1>7 DEF Bridge, HoldStatus, HoldState
<1>8. CASE Request
  <2>1. past'.forgot = past.forgot /\ past'.misled = past.misled
    BY <1>5, <1>8 DEF Request
  <2> QED
    BY <1>4, <1>8, <2>1 DEF Request
<1>9. CASE SwitchMoves \/ SwitchReboots \/ SwitchByHand
  <2>1. Publish({"switch"}) \/ net' = net
    BY <1>9 DEF SwitchMoves, SwitchReboots, SwitchByHand, SwitchSays
  <2>2. UNCHANGED <<client, locked, ctl, past>>
    BY <1>9 DEF SwitchMoves, SwitchReboots, SwitchByHand, SwitchSays
  <2>3. "follow" \notin {"switch"}
    OBVIOUS
  <2> QED
    BY <1>4, <2>1, <2>2, <2>3
\* The lock: an end of it that the client never heard of is forgotten.
<1>10. CASE Lock \/ Unlock
  <2>1. Subscribed' = Subscribed /\ (Seen("follow")' => Seen("follow"))
    <3>1. Publish({"lock"})
      BY <1>10 DEF Lock, Unlock
    <3> QED
      BY <1>1, <3>1, Published DEF Seen
  <2>2. client' = client /\ ctl' = ctl
    BY <1>10 DEF Lock, Unlock
  <2>3. Reported' /\ Unanswered'
    BY <2>1, <2>2 DEF Reach, Reported, Unanswered
  <2>4. CASE Lock
    <3>1. locked' /\ past' = past
      BY <2>4 DEF Lock
    <3> QED
      BY <2>1, <2>2, <2>3, <3>1 DEF Reach, Owes, Resends
  <2>5. CASE Unlock
    <3>1. ~locked' /\ past'.forgot = (past.forgot \/ ~client.locked) /\ past'.misled = past.misled
      BY <1>1, <2>5 DEF Unlock, Pasts
    <3> QED
      BY <2>1, <2>2, <2>3, <3>1 DEF Reach, Owes, Resends
  <2> QED
    BY <1>10, <2>4, <2>5
\* The controller.
<1>11. CASE CtlHears
  <2> DEFINE c == [ctl EXCEPT !.locked = locked]
  <2>1. c \in Ctls /\ Hears(c)
    BY <1>1, <1>11 DEF CtlHears, Hears, Presence, TypeInv, WorldOK, Ctls
  <2>2. CtlSays(c)
    BY <1>11 DEF CtlHears
  <2> HIDE DEF c
  <2> QED
    BY <2>1, <2>2, CtlReach
<1>12. CASE CtlRetract
  <2> DEFINE c == [ctl EXCEPT !.out = FALSE, !.retracted = TRUE]
  <2>1. c \in Ctls /\ Retracts(c)
    BY <1>1, <1>12 DEF CtlRetract, Retracts, Ctls
  <2>2. CtlSays(c)
    BY <1>12 DEF CtlRetract
  <2> HIDE DEF c
  <2> QED
    BY <2>1, <2>2, CtlReach
<1>13. CASE CtlTune
  <2> DEFINE c == IF ~ctl.locked /\ ctl.dev
                  THEN [ctl EXCEPT !.cmd = FALSE, !.out = TRUE, !.retracted = FALSE]
                  ELSE [ctl EXCEPT !.cmd = FALSE]
  <2>1. c \in Ctls /\ Tunes(c)
    BY <1>1 DEF Tunes, Ctls
  <2>2. CtlSays(c)
    BY <1>13 DEF CtlTune
  <2> HIDE DEF c
  <2> QED
    BY <2>1, <2>2, CtlReach
<1>14. CASE CtlDevGone
  <2> DEFINE c == [ctl EXCEPT !.dev = FALSE]
  <2>1. c \in Ctls /\ Hears(c)
    BY <1>1, <1>14 DEF CtlDevGone, Hears, Ctls
  <2>2. CtlSays(c)
    BY <1>14 DEF CtlDevGone
  <2> HIDE DEF c
  <2> QED
    BY <2>1, <2>2, CtlReach
<1>15. CASE CtlDevBack
  <2> DEFINE c(out) == [ctl EXCEPT !.dev = TRUE, !.out = out, !.retracted = @ /\ ~ctl.locked]
  <2>1. PICK out \in {ctl.out, TRUE} : CtlSays(c(out))
    BY <1>15 DEF CtlDevBack
  <2>2. c(out) \in Ctls /\ Hears(c(out))
    BY <1>1, <1>15 DEF CtlDevBack, Hears, Ctls
  <2> HIDE DEF c
  <2> QED
    BY <2>1, <2>2, CtlReach
<1>16. CASE CtlRepublishes
  <2>1. Subscribed' = Subscribed /\ (Seen("follow")' => Seen("follow"))
    BY <1>1, <1>16, Published DEF CtlRepublishes, Seen
  <2>2. SameOwed(client, client')
    BY <1>16 DEF CtlRepublishes, SameOwed, SameRedo
  <2> QED
    BY <1>16, <2>1, <2>2, ReachAside DEF CtlRepublishes
<1> QED
  BY <1>2, <1>3, <1>6, <1>7, <1>8, <1>9, <1>10, <1>11, <1>12, <1>13, <1>14, <1>15, <1>16
     DEF Surroundings

LEMMA InitReach == Init => Reach
<1> SUFFICES ASSUME Init PROVE Reach
  OBVIOUS
<1>1. Subscribed = {} /\ net.due = {}
  <2>1. net.subs = 0 /\ net.due = {}
    BY DEF Init, Connected
  <2> QED
    BY <2>1 DEF Subscribed
<1>2. ctl.out /\ ~ctl.locked /\ ~client.redo.pending
  BY DEF Init, NewSelector
<1> QED
  BY <1>1, <1>2 DEF Reach, Reported, Unanswered, Seen, Owes, Resends, SpentRedo

LEMMA StepReach == Presence /\ Reach /\ [Next]_vars => Reach'
<1> SUFFICES ASSUME Presence, Reach, [Next]_vars PROVE Reach'
  OBVIOUS
<1>1. CASE UNCHANGED vars
  BY <1>1 DEF vars, Reach, Reported, Unanswered, Seen, Subscribed, Owes, Resends, SpentRedo
<1>2. CASE Next
  BY <1>2, ClientReach, SurroundingReach DEF Next, Surroundings
<1> QED
  BY <1>1, <1>2

\* A tick that changes nothing finds a stall that runs, or one that was used.
LEMMA StallUsed ==
  ASSUME NEW c \in Selectors, Owed(c), CheckIdle(c).redo = c.redo
  PROVE  c.redo.stall # "no" /\ (c.redo.stall = "over" => c.redo.retried)
<1> DEFINE h == ApplyHolds(c)
           k == IF h.idle.over THEN [h EXCEPT !.activity = "inactive"] ELSE h
<1>1. h \in Selectors /\ Besides(c, h)
  BY HoldsBesides
<1> HIDE DEF h
<1>2. k \in Selectors /\ Besides(c, k)
  BY <1>1, Idled DEF Besides
<1>3. CheckIdle(c) = CheckReextendStall(k, TRUE)
  BY DEF CheckIdle, h
<1> HIDE DEF k
<1>4. Owed(k)
  BY <1>2 DEF Besides, Owed
<1>5. CASE k.redo.stall = "no"
  <2>1. CheckIdle(c) = [k EXCEPT !.redo.stall = "running"]
    BY <1>3, <1>4, <1>5 DEF CheckReextendStall, Owed
  <2> DEFINE r == [k.redo EXCEPT !.stall = "running"]
  <2>2. [k EXCEPT !.redo.stall = "running"] = [k EXCEPT !.redo = r]
    BY <1>2 DEF Selectors
  <2>3. r \in Redos /\ r.stall = "running"
    BY <1>2, Parts DEF Redos
  <2> HIDE DEF r
  <2> DEFINE q == [k EXCEPT !.redo = r]
  <2>4. q.redo = r
    BY <1>2, <2>3, Redone
  <2>5. CheckIdle(c) = q
    BY <2>1, <2>2
  <2> HIDE DEF q
  <2>6. CheckIdle(c).redo.stall = "running"
    BY <2>3, <2>4, <2>5
  <2> QED
    BY <1>2, <1>5, <2>6 DEF Besides
<1>6. CASE k.redo.stall = "over" /\ ~k.redo.retried
  <2>1. CheckIdle(c) = [k EXCEPT !.redo.stall = "no", !.redo.retried = TRUE, !.last.freq = 0]
    BY <1>3, <1>4, <1>6 DEF CheckReextendStall, Owed
  <2> DEFINE r == [k.redo EXCEPT !.stall = "no", !.retried = TRUE]
             l == [k.last EXCEPT !.freq = 0]
  <2>2. [k EXCEPT !.redo.stall = "no", !.redo.retried = TRUE, !.last.freq = 0]
            = [k EXCEPT !.last = l, !.redo = r]
    <3>1. [k EXCEPT !.redo.stall = "no", !.redo.retried = TRUE] = [k EXCEPT !.redo = r]
      BY <1>2 DEF Selectors
    <3>2. [[k EXCEPT !.redo = r] EXCEPT !.last.freq = 0] = [k EXCEPT !.last = l, !.redo = r]
      BY <1>2 DEF Selectors
    <3> QED
      BY <3>1, <3>2
  <2>3. l \in Emissions /\ r \in Redos /\ r.stall = "no"
    BY <1>2, Parts DEF Emissions, Redos
  <2> HIDE DEF l, r
  <2> DEFINE q == [k EXCEPT !.last = l, !.redo = r]
  <2>4. q.redo = r
    <3>1. k \in Selectors /\ l \in Emissions /\ r \in Redos
      BY <1>2, <2>3
    <3> HIDE DEF q
    <3>2. [k EXCEPT !.last = l] \in Selectors
      BY <3>1, Relasted
    <3>3. [[k EXCEPT !.last = l] EXCEPT !.redo = r].redo = r
      BY <3>1, <3>2, Redone
    <3>4. [k EXCEPT !.last = l, !.redo = r].redo = r
      BY <3>3
    <3> QED
      BY <3>4 DEF q
  <2>5. CheckIdle(c) = q
    BY <2>1, <2>2
  <2> HIDE DEF q
  <2>6. CheckIdle(c).redo.stall = "no"
    BY <2>3, <2>4, <2>5
  <2> QED
    BY <1>2, <1>6, <2>6 DEF Besides
<1> QED
  BY <1>2, <1>5, <1>6 DEF Besides

\* With nothing on its way a stall has run out and been used, and the re-send has arrived.
LEMMA QuietReach ==
  ASSUME FollowPort \notin {"", "off"}, Followed, Reach
  PROVE  ReExtends
<1> SUFFICES ASSUME ~past.forgot, ~past.misled,
                    Quiet, Wanted = FollowPort, Live, radio.freq # 0, ctl.dev, ~ctl.out
             PROVE  FALSE
  BY DEF ReExtends, Extended
<1>1. client \in Selectors /\ locked \in BOOLEAN
  BY DEF Followed, TypeInv, Sound, WorldOK
<1>2. \A t \in Topics : Seen(t)
  BY DEF Quiet, Seen
<1>3. /\ client.locked = locked /\ client.ground = locked
      /\ client.dev = radio.up /\ client.freq = radio.freq /\ client.tx = radio.tx
      /\ client.bridge = radio.bridge /\ client.selected = switch.selected
      /\ client.request = operator
  BY <1>2, TopicNames DEF Followed, Follow, ViewsOK
<1>4. /\ client.redo.dev = "on" /\ client.redo.retracted = ctl.retracted
      /\ client.redo.lock = locked /\ ~ctl.cmd /\ ctl.locked = locked
  BY <1>2, TopicNames DEF Reach, Reported, Quiet
<1> DEFINE in == Inputs(client)
<1>5. in = [online |-> Live, freq |-> radio.freq, tx |-> radio.tx,
            activity |-> client.activity, request |-> operator,
            selected |-> switch.selected, locked |-> locked, ground |-> locked]
  BY <1>3 DEF Inputs, Live
<1> HIDE DEF in
<1>6. Resolve(in).target = FollowPort
  BY <1>5 DEF Wanted
<1>7. /\ in.locked = locked /\ in.ground = locked /\ in.online = Live
      /\ in.freq = radio.freq /\ in.request = operator
  BY <1>5
<1>8. ~in.locked /\ in.request # "manual"
  <2>1. in.locked => Resolve(in).target = (IF in.ground THEN "off" ELSE "")
    BY DEF Resolve
  <2>2. ~in.locked /\ in.request = "manual" => Resolve(in).target = ""
    BY DEF Resolve
  <2> QED
    BY <1>6, <1>7, <2>1, <2>2
<1>18. Actions(in).freq = radio.freq
  <2>1. Actions(in).freq = IF /\ in.request # "manual" /\ ~in.locked /\ in.online
                              /\ FollowPort # "" /\ Resolve(in).target = FollowPort
                           THEN in.freq ELSE 0
    BY DEF Actions
  <2> QED
    BY <1>6, <1>7, <1>8, <2>1
<1>9. ~client.locked /\ ~locked
  BY <1>3, <1>7, <1>8
<1>10. client.redo.pending
  BY <1>9 DEF Reach, Owes
<1> DEFINE d == CheckIdle(client)
<1>11. Sent(d) = client
  BY DEF Quiet
<1>12. d \in Selectors /\ SameView(client, d)
  BY <1>1, TickView, TickHandled DEF Followed, TypeInv, Sound
<1>13. d.activity = client.activity /\ d.redo = client.redo
  BY <1>11, <1>12, SentView, SentFreq
<1>14. Inputs(d) = in
  BY <1>12, <1>13, ViewDecides DEF in
<1>15. client.last.freq # 0
  <2>1. Emits(d).freq = IF Actions(in).freq = d.last.freq THEN 0 ELSE Actions(in).freq
    BY <1>14 DEF Emits, Actions
  <2>2. client.last.freq = IF Emits(d).freq = 0 THEN d.last.freq ELSE Emits(d).freq
    BY <1>11, <1>12, SentFreq
  <2> QED
    BY <1>18, <2>1, <2>2
<1>16. client.redo.retried
  <2>1. ctl.retracted
    BY <1>2, <1>4, <1>9, <1>10, <1>15, TopicNames DEF Reach, Unanswered
  <2>2. Owed(client)
    BY <1>4, <1>9, <1>10, <1>15, <2>1 DEF Owed
  <2>3. client.redo.stall # "no" /\ (client.redo.stall = "over" => client.redo.retried)
    BY <1>1, <1>13, <2>2, StallUsed
  <2>4. client.redo.stall = "running" => client.redo.retried
    BY DEF Quiet
  <2> QED
    BY <1>1, <2>3, <2>4 DEF Selectors
<1>17. Resends /\ SpentRedo(client)
  BY <1>10, <1>16 DEF Reach, SpentRedo
<1> QED
  BY <1>4, <1>9, <1>15, <1>17 DEF Resends

\* The elements are out again after a lock wherever the radio uses the followed antenna,
\* though the frequency that drives them out was refused, lost on the way or dropped by a
\* controller without its RCU-06 (applyAntMode, applyFollowState, checkReextendStall,
\* update).  What is owed is lost in the ways past.forgot and past.misled name and in no
\* other: a restart, a lock unseen, reports missing while the one re-send is out, or an old
\* report of the controller that ends the re-extend, or lets its re-send out, too early.
\* The wiring leaves "off" out of what can follow the radio (ResourceToPort).
THEOREM OutAgain ==
  ASSUME FollowPort \notin {"", "off"}
  PROVE  Spec => []ReExtends
<1>1. Followed /\ Reach => ReExtends
  BY QuietReach
<1> QED
  BY <1>1, InitFollows, StepFollows, InitPresence, StepPresence, InitReach, StepReach, PTL DEF Spec
=============================================================================
