SPECIFICATION LiveSpec
CONSTANTS
  Warnings = {}
  AutoEnter = FALSE
  ExitAfter = 1
  MaxSeq = 1
  MaxAz = 360
  FallbackAz = 180
  BorrowPower = TRUE
  MaintenanceAz = 180
  Tolerance = 5
  Commands = {"storm", "repark", "normal"}
  Phases = {"idle"}
  Rotators <- TwoRotators
  AntCtrls = {}
  Switches = {}
  Radios = {"rx", "tx"}
  Powers = {"on", "off"}
  Winds = {}
  Deadlines = {"phase", "borrow", "quiet"}
  QueueCap = 0
  Drops = FALSE
  Timeouts = {}
  Crashes = FALSE
  LosesFile = FALSE
  WriteFails = FALSE
  Beats = TRUE
  SteadyStart = TRUE
PROPERTIES LockSettles BorrowEnds
CHECK_DEADLOCK FALSE
