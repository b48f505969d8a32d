SPECIFICATION Spec
CONSTANTS
  Warnings = {}
  AutoEnter = FALSE
  ExitAfter = 1
  MaxSeq = 2
  MaxAz = 360
  FallbackAz = 180
  BorrowPower = TRUE
  MaintenanceAz = 180
  Tolerance = 5
  Commands = {"storm", "normal"}
  Phases = {"idle", "stopping"}
  Rotators = {}
  AntCtrls = {}
  Switches = {}
  Radios = {}
  Powers = {"on", "off"}
  Winds = {}
  Deadlines = {"phase"}
  QueueCap = 0
  Drops = FALSE
  Timeouts = {"power"}
  Crashes = TRUE
  LosesFile = FALSE
  WriteFails = FALSE
  Beats = FALSE
  SteadyStart = TRUE
INVARIANTS BorrowRemembered
PROPERTIES NoBorrowLoop
CHECK_DEADLOCK FALSE
