# Verification of stationa

TLA+ models of the control logic of this repository, TLC runs that check them on
small instances, and TLAPS proofs for every instance. The repository is a Go
monorepo (with some firmware and user interfaces) that runs a ham-radio station
over MQTT: every function of the station is a *slot* with four retained topics,
`meta`, `state`, `status` (a last will) and `cmd`; bridges map slots to devices,
and a few logic services tie slots together. The interesting logic is in those
services: several goroutines per process, retained and re-delivered messages,
timers, locks that other services must respect, state files, restarts.

## Inventory

| part | state | operations | hard behaviour | what makes it correct |
|---|---|---|---|---|
| **powerseq** (`powerseq/internal/seq`), modelled | phase, step, fault, stop reason, four clocks, last `/status` and `/state` of each slot, watch anchors, ant-mode hold, state file | start/stop, step lists (cmd, waits, delay, wol), idle standby / wake / idle shutdown, restore | one runner against mqtt callbacks, waits with debounce and deadline, lost acknowledgements, crash between steps, own switching seen as activity | a resting phase says what was switched; a crash never restores a stale phase; the idle logic neither cuts an operator nor sleeps through one; never stuck |
| **wrc-rotator-bridge** (`internal/lock`, `internal/bridge`), modelled | lock gate: last lock, startup hold, readback, park of the current seq, record of the last finished park (file), two mutexes | set_az, override, jog, stop, Step, Observe, ant-mode state | three command sources, the read loop and the lock loop around one device; stop waits for nobody; restarts | the park never undoes a move that was passed through, nor a nudge, nor a stop; it is sent once; it is sent |
| **antmode** (`internal/engine`, `policy`, `heading`), modelled | mode, lock and its phase, borrowed power, warnings, state file, own retained state | Cmd, OwnState, NinaResult, Tick, the siblings' messages | a crash or a lost publish between any two effects of a handler; the startup hold; power it borrows from a station asleep | gear grounded, retracted and parked in this order; a borrow is always given back; nothing but a decision unlocks the bridges |
| **ultrabridge** (`internal/ub/service`), retract lock modelled | retract lock, deadband latch, device state, state file | set_freq, retract, lock, poll | commands queued behind the serial port while the lock comes; a controller that loses power | `retract_seq` means the elements are in; the re-tune that takes them out is never swallowed |
| **antennaselect** (`internal/reconcile`, `internal/mqtt`), modelled | what it knows of radio, lock, switch, controller, operator and hold; what it last sent; idle clock; owed re-extend | radio, lock, switch, controller, request, hold messages; tick | feedback loop over two devices, stale and lost messages, reconnects that replay everything | the selected antenna is the wanted one in the end; the elements come out again after a lock; only presence wakes the station |
| **m5stamp-hf-ctrl** (`src/arm.h`) | arm state of the PA front panel | key, encoder, mqtt | device lost while arming, replayed state | never arms without a fresh confirmation |
| **shared** | parse rules, connect helper | | | |
| beamsteer, flexbridge, shelly/winpc/atr1k/acom/icom/spid/oscarwatch bridges | last device state | poll, forward | job queues, coalescing, reconnect | last command wins, no write from a callback |
| chase-queue, station-log, hadiscovery, stationportal, consoles, captures | data | | mostly data and formatting | |

The components talk only over the broker. A retained message is delivered once on
every subscription and again on every reconnect; a callback must not publish and
wait; each service is the only writer of its `state`. antmode publishes the lock;
the gate, ultrabridge and antennaselect enforce it, powerseq keeps the power on
while it is held. `ParkLock.tla` is what they may rely on: it is checked of antmode
and assumed by ultrabridge's model.

## Plan

1. `PowerSeq`: the sequencer, its properties by subject, its proofs (done).
2. `RotatorGate`: the lock gate of the rotator, its proofs (done).
3. `AntMode` with `AntPolicy`, `Heading`, `AntEngine` (modelled and checked, its lock,
   its policy and its borrow proved).
4. `RetractLock`, and `AntennaSelect` with `Reconcile` and `Selector` (modelled,
   checked and proved). Left: the arming of m5stamp-hf-ctrl.
5. Further proofs: `BorrowRemembered` and `NoBorrowLoop` of antmode, `ReExtends` of
   antennaselect (done).

## powerseq

`PowerSeq.tla` is the specification. Its grain: one action per stretch of code that
another goroutine or a crash can separate from the next. `begin` and `setPhase` end
where they release the mutex; writing the state file (`PersistStep`) and publishing
(`PublishState`) are steps of their own, so a crash can fall before or after each.

| TLA+ | code |
|---|---|
| `disp`, `clk`, `settle` | phase/step/fault/stopReason, the four persisted clocks, settleUntil (as ticks left) |
| `status`, `state`, `anchor`, `powerHold`, `antModeSeen`, `antModeWait`, `online` | the observed inputs under `mu` |
| `cmdCh`, `republish` | the two channels of the runner |
| `pc`, `ret`, `cmd`, `run`, `cancelled` | position and locals of the runner goroutine, and its context |
| `saved`, `file` | the last snapshot written, the state file |
| `published`, `sent` | the retained `/state`, and the last `/cmd` each slot was sent |
| `SetStatus` `SetState` `BadState` `SetAntMode` `Connect` `Disconnect` `Request` | the mqtt callbacks |
| `TakeCmd` `IdleTick` `BeginIdle` `Republish` `Exit` | the select of `Run` |
| `NextStep` `ExecCmd` `ExecWol` `ExecTimed` `Delay` `Poll` | `runSequence`, `execStep`, `wait`, `sleepCtx` |
| `Restart` `Cancel` `Crash` `LoseFile` `Wipe` `Tick` | process, disk, broker, time |

Step lists, observations and timeouts are constants, and so is which faults may occur
(`Drops`, `PublishFaults`, `WriteFaults`, `LosesFile`, `Crashes`, `Signals`); a step
names its slots, wanted value, debounce and deadline, a `/state` snapshot is
`device_online`, one field and `last_activity`. Faults keep their kind, not their
wording.

Deviations, all of them on purpose:

- `request` checks the phase and sends in one step; the difference shows only at a
  full queue, where the send is dropped.
- The condition of a wait is evaluated in one step; the code reads each slot under
  its own lock.
- `now` stops at `MaxTime` while timers run on, so that runs stay finite.
- The `PersistEvery` throttle is a choice: a change of clocks alone is written on an
  idle tick or not.
- The second `SetBrokerOnline(true)` at the end of `mqtt.New` is left out.
- `Init` is a process that is down with no state file, or with one left by a
  configuration that had standby.

### Properties and runs

Every run uses two-valued fields and lists cut down from `config.example.toml`
(`PowerSeqConfigs.tla`): what matters is that each kind of step occurs, that a command
precedes and follows a wait, and that two lists drive the same slot. Longer lists
repeat the same steps.

- `PowerSeqSequences` (module `PowerSeqSequences`, with a history of the waits met):
  startup and shutdown with every kind of step, lost connections, failing publishes,
  crashes, SIGTERM. `FaultlessIdleIsOff`, `RunningIsOn` relate the phase to what was
  sent; `EmittedAfterWaits` says that no command overtakes a wait; `InFlightOnDisk` that
  a begun sequence is on disk; `NeverWedged` that the runner waits for work only in a
  phase that accepts some; `TypeOK`. `DurableCycle` of `PowerSeqCycle.tla`: the phase on
  disk implements the abstract `PhaseCycle.tla`. Without idle standby, so time plays no part (`MaxTime = 0`;
  waits and delays still run); the cycle with standby is proved. One command is queued
  at a time; any number, and failing writes, are covered by the theorems where they can hold.
- `PowerSeqIdle` (modules `PowerSeqIdle` and `PowerSeqWake`, with a history of the entries
  into running and standby and of the hold): `NoEarlyStandby`, `NoEarlyShutdown`, over
  crashes, restarts and a lost state file, with timeouts of one and two ticks and two ticks
  of wall clock, enough for a standby and an idle shutdown at the first moment they are
  allowed. `ActivityWakes`: activity since the station really went into standby wakes it at
  the next idle tick that is not held back by a hold or by the window for one (here of no
  length), also when the process was down in between and has its standby clock from the
  file. `AcceptedStopRuns`: `request` looks at the phase when a command is queued, `begin`
  when it is taken, and a standby, a wake or an idle shutdown decided meanwhile lies in
  between; a stop that was accepted begins a shutdown in whatever phase it is taken. One
  command is queued here; a stop behind another command is in the theorem `StopsRun`, for
  any queue.
- `PowerSeqStation` closes the sequencer with the station it switches: a readback that
  may step while `KnockTime` after each switching, or while the antenna mode holds.
  Nobody operates, so `NoSelfWake`: the station must not wake. It holds while the
  connection does (`Drops = FALSE`): a step made while the connection is down is
  delivered after the settle window and counts as activity.
- `PowerSeqLive`: `SequenceEnds` and `StateIsPublished`, of a process that
  stays up (`LiveNext`), as nothing is promised of one that is stopped. Fairness: the
  runner goroutine and the clock are weakly fair; the idle ticker and the republish
  channel are strongly fair, as Go's select picks at random among ready cases and both
  stay or become ready again and again. Nothing is assumed of the operator, the broker
  or the devices; `StateIsPublished` is conditional on a connection that stays.

Met while modelling and not run: a power hold that ends while powerseq is down does not
restart the idle-shutdown clock, as `powerHold` is not in the state file; a hold that
arrives between `idleDecision` and `begin` does not stop the standby; after a reconnect
an old hold stays in force when the ant-mode slot does not report within its window;
after a failed write a crash restores a clean `idle` of an energized station; a restart
of antennaselect removes `last_activity` from its `/state`, so the idle-shutdown clock
falls back to an older input; after a reconnect the idle logic uses the activity report
from before; of two queued stops both run.

### Proofs

`PowerSeqProofs.tla` proves for every value of the constants under the assumptions named
in `PowerSeq.tla` (well-formed lists as `New` validates them, natural timeouts, a `None`
that is no snapshot):

- `TypeCorrect`, `Spec => []TypeOK`. `TypeOK` is not inductive: that `Current` is a step
  needs `StepExists` (at `exec`, `wait` and `delay` the list has a step `run.at`), and
  `TypeInv` adds it.
- `NotWedged` and `BegunOnDisk`. The inductive invariant `PhaseInv` ties the runner to
  the phase: in a sequence the phase is the mid-phase of its list (`MovingInv`), out of
  it the phase rests (`RestingInv`), and what was last written agrees with the phase
  where nothing is left to write (`SavedInv`).
- `StopsRun`: as the phase rests whenever the runner takes a command, `begin` accepts
  every stop.

`PowerSeqSequenceProofs.tla` proves, with a state file whose writes succeed and which
nobody loses (`StateFile /\ ~WriteFaults /\ ~LosesFile`):

- `CycleImplemented`, `Spec => DurableCycle`. The invariant (`DiskInv`) says that the phase in
  memory is at most one move of `PhaseCycle` ahead of the one on disk (`Ahead`), also right
  after a restart.
- `CleanIdleIsOff` and `RunningMeansOn`. `SentInv` says that the phase on disk is always
  true to what was sent, the one in memory out of a sequence, and that within a sequence
  the steps before `run.at` are what was sent last (`Progress`). A sequence keeps the
  disk true by what `DiskInv` and `PhaseInv` give: it sends nothing before the disk says
  that it has begun.

`WaitsComeFirst` in the same module needs no hypothesis: `MetInv` says that each wait
before `run.at` is among those met, and each step of the system leaves the runner where it
is, puts it at the head of a list, or advances it by one (`StepKinds`).

`PowerSeqIdleProofs.tla` proves `StandbyNotEarly` and `ShutdownNotEarly` unless a write
fails (`~WriteFaults`; after a failed write a restart brings back an older
`runningSince`). `EnteredInv`: the clocks in memory, and those on disk under a phase that
a restart would restore, know of the last entry into running; `HeldInv`: a hold that has
ended is on the clock.

There, too: `AsleepStays` (`NoSelfWake`), for a station that nobody operates
(`Unattended`: one watched device, always fit, no activity reported, a settle window, a
connection that holds). `CoveredInv`: whenever the readback may step, a power hold that is
known or the settle window covers it, also right after a restart, when a hold is not yet
known; so the anchor is what the device last said (`AnchorInv`) and no clock moves
(`UnwokenInv`). It needs all of `TypeInv` and `PhaseInv`, as the power is switched only in
the phases in which no watch counts. A settle window of zero does not do even if readbacks
step only under a hold: after a restart they count until the hold is heard of.

Only model-checked: all liveness (fairness and ENABLED are beyond TLAPS).

## wrc-rotator-bridge: the lock gate

antmode publishes a lock (storm or maintenance) under a `seq`, first without and later
with the azimuth to park at. The gate (`internal/lock/gate.go`) sits between the command
sources and the device: while locked it refuses set_az and jog, sends the park once the
readback has held still, ends the park on arrival, on an operator's stop or on a small
"nudge" of the maintenance mode, and keeps the record of the last finished park in
`park.json`, so that a restart does not send it again.

`RotatorGate.tla` models the gate with everything that calls it: the command sources
(`Clients`), the read loop of the device, the lock loop, and antmode. What runs under
`g.mu` is one step; a device write, a file write and the wait for `moveMu` or `saveMu`
are steps of their own.

| TLA+ | code |
|---|---|
| `retained`, `lastSeq`; `NewSeq` `PublishTarget` `Unlock` | antmode's retained state and persisted seq, and how it changes them |
| `st`, `seen`, `window`; `Apply` `StartHold` `HoldEnds` | `g.st`, `g.seen`, the startup hold |
| `online`, `az`, `stableAz`, `steady`; `Observe` `Offline` `Steady` | the device observation; `StableFor` has passed |
| `park`, `finished`, `dirty`, `file` | `g.park`, `g.finished`, `g.dirty`, `park.json` |
| `moveMu` | who holds it across several steps |
| `writing`; `SaveTake` `SaveWrite` | the record being written under `saveMu` |
| `pc` | where each goroutine is, and the seq it acts for (`p.seq`, `seq`) |
| `wire` | the last command that reached the WRC |
| `Decide` `ParkWritten` `ParkFailed` `Check` `Restop` | `Step` |
| `Move` `MoveWritten` | `SetAz`, `Jog`, and an override that is no nudge |
| `Nudge` `NudgeWritten` | `SetAzOverride` with a nudge |
| `Stop` `StopWritten` | `Stop` |
| `Restart` | the process ends at any time; `New`, `PersistTo` |

`nudged` and `warned` are histories: the seqs whose park a nudge ended that then reached
the WRC, and the failures the code only logs. A property whose promise rests on a record
or a stop that got through is conditional on `warned`.

Deviations, all of them on purpose:

- `moveMu` is free again when a passed-through move has been written: nobody can see it
  taken in between, as the lock loop and the nudge wait for it in either case.
- A refused command, a malformed lock payload, a `Step` that is not ready change nothing
  and are no actions. Labels, refusal streaks and the arrived flag are left out.
- `Apply` takes the newest retained state. A state that is delivered late is covered:
  antmode does not look at the gate, so its next step may as well come after the delivery.
- `HoldFor` is a flag and the window of the startup hold ends at some time. The first
  state ends it for good, as the code looks at it only while nothing was `seen`.
- A write of the device or the file may fail. A device write that fails has not reached
  the WRC: for a stop and a park the code goes on as if it had not.

### Properties and runs

- `RotatorGate`: one command source against the two loops, two seqs (a repark, a storm
  after a maintenance, an unlock in between), failing writes, restarts, unreadable
  records. `StopWins`: a stop that cancelled the park is the last word whatever the order
  of the two writes; `ParkLandsFirst`: a park write in flight is not overtaken by a move;
  `NudgeNotUndone`: a park that a nudge ended, also before its target was published, is
  not sent, also after a restart; `ParkOnce`: what is finished on disk is not sent again;
  `RecordsInOrder`: the file never goes back to an earlier seq; `TypeOK`.
  Two seqs are what it takes to mistake one for another, two readbacks what it takes to be
  at the target or away from it. One source is enough there for any race with the two
  loops; the theorems are for any number.
- `RotatorGateLive`: two command sources at once, one seq, no restart. `ParkGoesOut`: a
  park that is due is sent as long as the readback holds still. Fairness: weak for the lock loop (a
  ticker), for a nudge's write and for the file writes, which end in bounded time; strong
  for `ParkWritten`, that is, a device that is tried again and again takes the command. The
  loop's wait for `moveMu` is covered by weak fairness, as only a nudge keeps it from the
  loop across steps and Go's mutexes hand over to a waiter that starves; with
  nudges without end the readback would not hold still either.

Deadlock is checked in every run: powerseq's callbacks and the gate's read loop can always go on.

Met while modelling and not run: between an operator's stop and the check for it, `Apply`
may replace the park (an unlock, or a new seq); the check then sees another seq, and the
park of the old lock is the last command the WRC has. A nudge accepted just after the park
arrived, but before the read loop has saved that, leaves the save to the read loop; a
restart in between finds no record and sends the park again. `SetAz` checks the lock before it
waits for `moveMu`, so that a set_az may land after the lock came, and even after the park;
the head of gate.go (6-8) says that it is refused.

### Proofs

For any number of command sources and seqs, from `GateAssumption` (azimuths and
tolerances are integers, the names of the goroutines differ):

- `RotatorGateProofs.tla`, of the parks: `TypeCorrect`; `ParkFirst`, from `Discipline`, which says that
  the loop holds `moveMu` while it parks and a source while it nudges; `StopsWin`, from
  `StopInv`: while the WRC's last command is the park that was cancelled, somebody is still
  about to stop it (`StopDue`), either the source whose stop cancelled it or the loop.
- In the same module, of the records: `NeverOlder` proves `RecordsInOrder`. That alone is
  not inductive: `LockInv` ties the lock in force to antmode's seq, `BoundInv` says that no
  record anywhere is newer than the lock in force, and `OrderInv` that what is going to be
  written is not older than what is written (one writer at a time).
  `OnceOnly` and `NudgeStays` prove `ParkOnce` and `NudgeNotUndone` from `OnceInv`: no
  record is newer than the one in memory, records of antmode's present lock fit it, a park
  that is still to be sent has no record, and the record of a nudge is on disk before the
  nudge goes out. Like the properties, it is conditional on records that were written
  (`warned`). Every step is one of seven kinds (`Kinds`); each kind has its lemma.

Only model-checked: `ParkGoesOut` (fairness).

## antmode

antmode decides the antenna mode (`normal`, `storm`, `maintenance`) from an operator's
commands and weather warnings, and walks the lock through its phases: ground, retract,
borrow antenna power if the station sleeps, aim the boom, wait until it is parked.
Messages, polls and ticks are jobs of one worker; a job computes, writes the state file
and publishes, and each of these effects may fail or be the last thing before a crash.

| module | what it models |
|---|---|
| `AntPolicy` | `internal/policy`, as operators on the policy record |
| `Heading` | `internal/heading`: the park azimuth for a wind |
| `AntEngine` | the engine's memory and what its handlers compute between two effects |
| `AntMode` | the worker (`at`), file, own retained `/state` and `/cmd`, set_power, link, crashes |
| `ParkLock` | abstract: what the bridges may rely on |
| `AntModeLock`, `AntModeLive` | `AntMode` implements `ParkLock`; liveness |

`at.pc` says which effect the worker waits for: `save`, `hold` and `on` are the write,
the `/state` and the set_power of `startBorrowIfNeeded`, `resend` the repeated set_power,
`restore` that of `stepBorrow`, `persist` and `publish` the end of `step`. An `At...`
operator is the code from a point of `step` to the next effect. Deviations, on purpose:

- Time is a set of deadlines (`Deadlines`); a tick makes any of those that run pass. The
  holdoff of an auto storm counts intervals between clean polls (`past.calm` in the
  history; `past.near` while the interval of the last poll is still unbroken).
- A seq is a number up to `MaxSeq`; the code seeds it from the clock, which is past every
  seq used before (`used`).
- Faults, drift, log lines, the parsing of the feeds and the `meta` are left out.
- `AntCtrlState` confirms the seq of the last `/state` that was published, as ultrabridge
  does (`RetractLock`).

### Properties and runs

Each run leaves out the inputs its question does not depend on (an empty set of
messages); together they fire every action. Two seqs show a lock, an unlock and another
lock, or a repark.

- `AntModePower`: `BorrowRemembered` and `NoBorrowLoop` (storm, normal, automatic
  restores), with a set_power that times out delivered or lost, and crashes everywhere:
  power antmode switched on is in the file until it is off again or powerseq's, and the
  same park does not cycle the gear.
- `AntModeStorm`: a warning that comes and goes, feed outages, presence, an operator's
  normal, a dropping link, crashes and a lost file. `OverruledStays`, `UnlockedOnPurpose`,
  `TypeOK`. `NoEarlyExit`: the holdoff is of two intervals, so that the first is carried
  over an outage of the feed or a restart to the second; only the time between two clean
  polls with neither in between counts, and a warning puts it back to zero. It leaves out
  the polls of the startup hold, see below. `ChangesGoOut`: between two handlers the
  retained `/state` is what the engine says, unless the link is down or its republish is
  still to come. A publish fails here when the link drops under the handler; such a `/state`
  must not count as published.
- `AntModePark`: storm and maintenance with a rotator that parks or is turned away by an
  operator: `LockGrows`, the retained `/state` implements `ParkLock` across crashes. No file is
  lost here: a lost file ends in a seq from the clock, which `used` already covers.
- `AntModeLive`: `LockSettles` and `BorrowEnds`, of a process that
  stays up with a link that stays. `Fairness` says that the worker finishes its jobs again
  and again and that time goes on, in ticks in which every running deadline passes and
  others in which none need (`beat`): the tick is a timer of one second and the worker a
  goroutine of its own. The siblings, the operator and the wind owe nothing; a radio that
  transmits for ever into the antenna is excluded by hypothesis.
Bounds of these runs: no failing write, no timeouts of `/state` or of the clearing of
`/cmd`, `dismiss` only as a change of the sets. With them the questions stay the same and the states multiply.

Where the code does something else than its documents say:

- The quiet time: ant-mode-mqtt-api.md 167-168 says that "any qualifying warning resets it
  to zero". A poll made within the startup hold is left out of the count (engine.go
  583-591), so that a warning which only that poll sees, after a restart in an automatic
  storm, resets nothing. `NoEarlyExit` says what does hold.
- The dedup: ant-mode-mqtt-api.md 261 says that `/state` is republished on every change,
  deduplicated. The dedup compares with what is *known* to be published (engine.go 1376).
  When the publish of a change times out but is delivered, and the state changes back before
  the next one, nothing is sent, and the retained `/state` keeps the change until something
  else changes or the link is made anew. The model has the behaviour (`PublishState`);
  `ChangesGoOut` is checked without such timeouts.

Met while modelling and not run: a one-shot `/cmd` that is replayed before its clearing
was delivered is applied again (engine.go 635-638); a restore that is due while the file is
lost is forgotten; the startup hold counts from the first connection; antmode may switch
the power on before the `/state` that announces it after a reconnect; a failed write and
a crash give one seq two park azimuths; a full queue of jobs may drop
`SetConnected`.

### Proofs

`AntModeProofs.tla` proves, for every set of warnings, inputs, commands and deadlines and
every bound, with failing writes, timeouts of every publish, lost files and crashes at
every step:

- `TypeCorrect`. `Types` adds to `TypeOK` what the file and the retained `/state` hold
  (`FileOK`, `StateOK`): what the engine starts from is as well-formed as what it writes.
- `OnPurpose` proves `UnlockedOnPurpose`, under `SteadyStart`: the first connection
  outlives the startup hold. The hypothesis is needed, without it TLC finds the station
  unlocked by a restart whose file was lost and whose own `/state` did not come in time.
  The invariant is `UnlockInv`: a lock that is out in `/state` has been left by a normal
  (`past.freed`), or else the engine holds it or a later one, and so does what a restart
  would go back to, which is the file, unless its seq says it is older than the `/state`.
  What an engine holds that has not taken in its own `/state` (`TakenIn`) does not count:
  it publishes nothing before it is ready, and by then it has.

  Every step but `OwnState` and `Crash` is an `Advance`: the policy stays, enters a lock of
  a new seq, or leaves one (`Kept`, `Relocks`, `Unlocks`), and the file and the `/state` are
  left or become those of the engine. The lemmas above it show this of each operator of
  `AntPolicy` and `AntEngine` and each point of a handler, once.

- `LockOnlyGrows` proves `LockGrows`: what bridges see in the retained `/state` implements
  `ParkLock`, as long as no write of the state file fails. That hypothesis is needed: a
  failed write followed by a crash gives one seq two park azimuths. A file that is lost is
  allowed, for a seq is drawn past every seq the engine has seen (`Drawn`).
  The invariant is `GrowInv`: the engine, and the file, are at or after what is published
  (`Grows`), and what is about to be published is what the file says (`Filed`), so that a
  restart cannot come up before what a bridge has seen. Where a handler stops
  (`Recorded`) is what makes `Filed` hold: it has either saved the lock it shows or is
  about to. A publication then is a step of `ParkLock` because the lock's parts come in
  order, which `Types` carries: a park only with a retract, the retract before the azimuth.

`AntModeMemoryProofs.tla` proves what antmode remembers. Of the policy, for every set of
warnings and every holdoff, as long as no write of the state file fails (a failed write and
a crash forget what was acknowledged since):

- `OverruledHeeded` proves `OverruledStays` and `HoldoffServed` proves `NoEarlyExit`, both
  from `StormInv`: what the operator overruled is acknowledged in the engine, and the quiet
  time of an auto storm is backed by the quiet intervals there were, the one it is in by a
  clean poll with nothing in between (`Counted`). A restart goes
  back to the file, so the same must hold of that: while the worker is idle and ready the
  file has the engine's policy (`Filed`), and until it is ready the engine decides nothing
  and leaves the file as it found it (`Found`). Every step but a poll, an adoption and a
  crash is `Plain`: it forgets nothing acknowledged, counts no quiet time and ends no auto
  storm (`Mild`, shown once of each operator of the policy and each point of a handler).
  For a poll, `PollCounts` says what it does to the count and `PolledKeeps` that the count
  stays backed.

And of the borrowed power, as long as no crash loses the file:

- `BorrowKept`, with failing writes and under `SteadyStart`, proves `BorrowRemembered`. The invariant is `BorrowInv`. While the power is
  on by antmode and powerseq has not taken it over, the file has the borrow, and so does
  what the engine would adopt of a `/state` newer than the file (`Newer`): a restart
  compares the two and goes on with one of them. The engine has it as well, or is about to
  write that the power is off (`Off`). A handler stands at the write, the hold or the
  switching of a borrow only with the borrow in memory (`Poised`), and from the hold on with
  the borrow in the file, so that the power never goes on ahead of the file. A failed write
  undoes the borrow before anything is switched. Without `SteadyStart` the proof has no hold
  on an adoption that comes after the engine has begun to act on its file.
- `BorrowedOnce`, as long as no write fails, proves `NoBorrowLoop`, with or without
  `SteadyStart`. The invariant is `LoopInv`. A lock whose power went back is past its
  retract (`LatePhases`) and is the one the last borrow was taken for; neither may be said of
  memory alone, for a restart forgets it, so `Barred` says it of the engine and of the file.
  It lasts because a lock never comes back from these phases without a new seq (`Onward`),
  which no restore has had yet. It begins because a handler that stops anywhere but before
  its write has in the file that the lock is late and what it has borrowed (`InFile`), and a
  restore is reached only with an open borrow, of the lock's own seq (`Owns`), in such a
  phase (`Comes`). The power goes on only in `awaiting_power`, which is not one of them.
  A replayed `/state` has no lock the file has not (`GrowInv`), so nothing is adopted.
  Both hypotheses are needed, TLC finds a second borrow without either: a lock adopted
  from `/state`, as its file was lost or never written, has `borrowSeq` only with a borrow
  that is still open, and a failed park is borrowed for again.

Only model-checked: the liveness properties, which need fairness.

## ultrabridge: the retract lock

`RetractLock.tla` models the lock between the poll loop, the `/cmd` worker and the web
handlers, each a goroutine, the RCU-06 controller behind one serial port, and antmode,
which moves as `ParkLock` says. A step is what a goroutine does under one mutex, or one
exchange with the device. Frequencies are abstracted to whether the deadband swallows
them. `due` is `extendDue`: the next set_freq must go out though the frequency is the same.

- Run `RetractLock`: one command source, an RCU-06 that loses its power (it drives the
  elements out when it is back), crashes between every two steps. `ConfirmedIn`,
  `RetuneGetsThrough`, `Confirms`, `TypeOK`. One seq is enough: a bridge never compares
  more than the seq in force with the one before it. A deaf or busy controller
  (`Faults`) is in the model, not in this run: the theorems cover the deaf one, and all but
  `ConfirmedMeansIn` the busy one.
- Fairness (part of `Spec`, for `Confirms`): a goroutine that has begun goes on, the poll
  loop is a ticker, the motors start, stop and come to rest, the retained lock is
  delivered. That a command comes is not assumed.
- Proved in `RetractProofs.tla` for any number of command sources, seqs and faults:
  `TypeCorrect` (`LockOK` relates the fields of `lockState`) and `RetuneAlwaysThrough`:
  with the elements in, `due` is set in memory and after a restart, unless the answer to a
  command was lost. Its inductive invariant follows each goroutine that has driven the
  elements from the command to the save of the latch.
- Also proved: `ConfirmedMeansIn`, that `ConfirmedIn` holds of every RCU-06 that does not
  answer "busy" (of that one it is false, see below). The invariant is `SureInv`. Its first
  part, `BookInv`, is about the lock and the poll loop alone: antmode never takes a retract
  back within a seq, so a retract under way was begun for the lock in force or for one that
  is gone for good (`Dated`), and it is not yet marked as sent (`Unsent`). `LatchIsLast`: a
  command that was answered and is not yet in the latch is the last one the device executed.
  `Still` then says, for each station of a retract (answered, marked as sent, settled, about
  to be confirmed), what is known of the elements and the motors, as long as the device has
  not been away unnoticed (`Known`) and no command disturbed it (`Sound`).

Met while modelling and not run: a refresh or a motor poll the RCU-06 turns down leaves the
state as it was, and `EnsureRetract` runs all the same; when `retractSettle` has passed it
confirms on the snapshot of before the motors started, while they run, though the comment at
`lock.go:235` says the settle window keeps that snapshot from confirming (`ConfirmedIn` with
`Faults = {"busy"}`, 23 states). A
device that comes back clears the latch under the lock; a crash between an accepted
retract and `saveLatch` forgets it; a power cycle shorter than a poll goes unnoticed; a
frequency above 65535 kHz wraps.

## antennaselect

`Reconcile.tla` is the decision (the ladder lock, manual, idle, operator, band policy),
`Selector.tla` the client's memory with each handler, both pure; `AntennaSelect.tla` puts
the client among its neighbours and the broker. `Update` is `update()`: the decision is
taken anew after every message and tick, and what is to be sent goes out, a prefix of it
if the link is lost meanwhile. After a reconnect the topics are subscribed to one after the
other in the code's order, each bringing its retained message.

The controller (`ctl`) is ultrabridge as far as its `/state` and its lock go: the RCU-06
(`dev`), where the elements are driven (`out`), the retract latch that `/state` reports
(`retracted`), and its own view of the lock (`locked`). antmode locks and unlocks without
looking at it, it retracts on its own view while the unlock is on its way, and a device that
comes back under the lock clears the latch wherever the elements are; so `/state` may say
that they are out when they are not.

Deviations, on purpose: a publisher acts again only when its last message has been
handled (two messages of one topic that are both on their way differ from the second one
alone only by what the first one triggers); `/state` and `/meta` are functions of the
client; power amplifier and tuner are commands that are deduplicated, their devices are
left out; the clocks (idle, stall) are whether they have run out. The controller keeps its
view of the lock: its restart, with the hold that follows it, is in `RetractLock` only. A
lock is what grounds. A restarted mirror broker, which replays a lock that is over
(client.go 485-487), is not modelled.

- Run `AntennaSelect`: twelve *scenarios*, sets of two to four kinds of events that may
  occur any number of times in any order. The whole product is too large; each property is
  about an interplay of the link or a restart with one or two kinds. Two frequencies, one on
  the followed beam and one on the fallback through the tuner. `SwitchFollows`,
  `ReExtends`: once nothing is on its way (`Quiet`) the switch and the elements are where
  they should be, which is how the run states convergence without fairness.
  `OnlyPresenceWakes` is an action property; `TypeOK`.
- `ReExtends` does not hold without exceptions, and the history names them. `past.forgot`: a
  restart, a lock that comes and goes unheard, and the one re-send of the stall going out
  while no report of the controller arrives. `past.misled`: a report of before ends the
  re-extend while the controller still holds the lock or the elements are in, or lets the
  one re-send out to a controller that refuses it. Both last until the next unlock.
- Proved for every wiring, policy and set of scenarios, all of them together included:
  `AntennaSelectProofs.TypeCorrect`, whose invariant `TypeInv` adds the shape of the world
  (`WorldOK`) and of the client (`Sound`); `PresenceOnly`, from `TypeInv /\ Grounds`
  (`Presence`: what the client calls grounds for presence is one in the world, a request
  that is due among them, `HoldFounded`);
  `Follows`: what is known of a neighbour is what it last said unless a
  message is due (`ViewsOK`), and a select that is owed is on its way (`SelectOwed`).
- `OutAgain` (`ReExtends`), from the above and `Reach`: what the controller is known to
  have reported is what it would report now (`Reported`); a re-extend that the last report
  would have ended was not yet owed then, so its frequency is still to come or was refused
  (`Unanswered`); and, unless forgotten or misled, whoever holds the elements in or may yet
  drive them in knows of a lock that is not over or is owed a re-extend (`Owes`), and once
  its one re-send is spent, a frequency is on its way, was cleared to be sent, or follows
  when the RCU-06 is back (`Resends`). It assumes that the
  followed port is a port (`FollowPort \notin {"", "off"}`): `ResourceToPort` leaves the
  position "off" out, and "" is nothing to follow.

Where the code does something else than its documents say:

- A stale lock: antenna-select-mqtt-api.md 204 says that the re-extend "survives a stale lock
  at the controller". `applyFollowState` takes every report of a device that is online and
  not retracted for the confirmation (client.go 471), whatever lock it carries. One of before
  the retract that is handled after the unlock ends the re-extend; the frequency is refused
  under the stale lock, the elements are driven in after it, and nothing is sent again.
  `past.misled` is this case; without it TLC finds `ReExtends` violated with nothing but
  locks.
- A restart: antenna-select-mqtt-api.md 105 says that "a restart never reads as fresh
  activity". An operator's hold is retained too, and its replay marks the station active
  (`applyOperatorHold`, client.go 541), at every restart and every reconnect;
  `OnlyPresenceWakes` leaves this replay out.

Met while modelling and not run: a retained `manual` is subscribed to last, so a restart
may send a select first; a `/state` that is lost
is not repeated; transmission is honoured from a radio that is offline; a restart forgets a
re-extend that is pending, and a lock that comes and goes
during an outage never owes one; a reboot of the switch executes the retained select; a
missed sample of frequency 0 makes a slice change look like a hand at the VFO; the band of
the amplifier is not repeated after a reconnect, though a comment says that it
self-heals.

## Not modelled

The bridges of single devices are protocol code with little state of their own; the
consoles and remotes publish commands; hadiscovery, stationportal and the capture tools
only read the bus. `PROJECT.json` lists each of them with its reason.
