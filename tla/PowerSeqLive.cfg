SPECIFICATION LiveSpec
CONSTANTS
  Slots <- CmdSlots
  Values = {0, 1}
  Inactive = 0
  Lists <- LiveLists
  ActivitySlot = "ant"
  WatchSlots = {}
  MinDelta = 0
  Payloads <- WakePayloads
  AntModeSlot = FALSE
  StateFile = FALSE
  IdleTimeout = 1
  ShutdownTimeout = 0
  WatchSettle = 0
  AntModeHold = 1
  QueueCap = 1
  MaxTime = 2
  WriteFaults = FALSE
  LosesFile = FALSE
  PublishFaults = FALSE
  Drops = TRUE
  Crashes = FALSE
  Signals = FALSE
  None = None
PROPERTY SequenceEnds
PROPERTY StateIsPublished
