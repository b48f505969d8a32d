SPECIFICATION WSpec
CONSTANTS
  Slots <- CmdSlots
  Values = {0, 1}
  Inactive = 0
  Lists <- IdleLists
  ActivitySlot = "ant"
  WatchSlots = {}
  MinDelta = 0
  Payloads <- WakePayloads
  AntModeSlot = TRUE
  StateFile = TRUE
  IdleTimeout = 1
  ShutdownTimeout = 2
  WatchSettle = 0
  AntModeHold = 0
  QueueCap = 1
  MaxTime = 2
  WriteFaults = FALSE
  LosesFile = TRUE
  PublishFaults = FALSE
  Drops = FALSE
  Crashes = TRUE
  Signals = FALSE
  None = None
PROPERTY NoEarlyShutdown
PROPERTY NoEarlyStandby
PROPERTY ActivityWakes
PROPERTY AcceptedStopRuns
