SPECIFICATION SSpec
CONSTANTS
  Slots <- PlantSlots
  Values = {0, 1}
  Inactive = 0
  Lists <- PlantLists
  ActivitySlot = "ant"
  WatchSlots = {"rot"}
  WatchedSlot = "rot"
  MinDelta = 1
  KnockTime = 1
  Payloads <- PlantPayloads
  AntModeSlot = TRUE
  StateFile = TRUE
  IdleTimeout = 1
  ShutdownTimeout = 0
  WatchSettle = 1
  AntModeHold = 1
  QueueCap = 1
  MaxTime = 2
  WriteFaults = FALSE
  LosesFile = FALSE
  PublishFaults = FALSE
  Drops = FALSE
  Crashes = TRUE
  Signals = FALSE
  None = None
PROPERTY NoSelfWake
