SPECIFICATION Spec
CONSTANTS
  Warnings = {}
  AutoEnter = FALSE
  ExitAfter = 1
  MaxSeq = 2
  MaxAz = 360
  FallbackAz = 180
  BorrowPower = FALSE
  MaintenanceAz = 90
  Tolerance = 5
  Commands = {"storm", "maintenance"}
  Phases = {}
  Rotators <- Nudges
  AntCtrls = {"in"}
  Switches = {TRUE}
  Radios = {}
  Powers = {}
  Winds = {200}
  Deadlines = {"phase"}
  QueueCap = 0
  Drops = FALSE
  Timeouts = {}
  Crashes = TRUE
  LosesFile = FALSE
  WriteFails = FALSE
  Beats = FALSE
  SteadyStart = TRUE
PROPERTIES LockGrows
CHECK_DEADLOCK FALSE
