SPECIFICATION HSpec
CONSTANTS
  Slots <- SeqSlots
  Values = {0, 1}
  Inactive = 0
  Lists <- SeqLists
  ActivitySlot = "pa"
  WatchSlots = {}
  MinDelta = 0
  Payloads <- SeqPayloads
  AntModeSlot = FALSE
  StateFile = TRUE
  IdleTimeout = 0
  ShutdownTimeout = 0
  WatchSettle = 0
  AntModeHold = 0
  QueueCap = 1
  MaxTime = 0
  WriteFaults = FALSE
  LosesFile = FALSE
  PublishFaults = TRUE
  Drops = TRUE
  Crashes = TRUE
  Signals = TRUE
  None = None
INVARIANT TypeOK
INVARIANT InFlightOnDisk
INVARIANT FaultlessIdleIsOff
INVARIANT RunningIsOn
PROPERTY EmittedAfterWaits
PROPERTY DurableCycle
INVARIANT NeverWedged
