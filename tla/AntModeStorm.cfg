SPECIFICATION Spec
CONSTANTS
  Warnings = {"w"}
  AutoEnter = TRUE
  ExitAfter = 2
  MaxSeq = 2
  MaxAz = 360
  FallbackAz = 180
  BorrowPower = FALSE
  MaintenanceAz = 180
  Tolerance = 5
  Commands = {"normal"}
  Phases = {"running"}
  Rotators = {}
  AntCtrls = {}
  Switches = {}
  Radios = {}
  Powers = {}
  Winds = {}
  Deadlines = {"dwell"}
  QueueCap = 1
  Drops = TRUE
  Timeouts = {}
  Crashes = TRUE
  LosesFile = TRUE
  WriteFails = FALSE
  Beats = FALSE
  SteadyStart = TRUE
INVARIANTS TypeOK ChangesGoOut
PROPERTIES OverruledStays NoEarlyExit UnlockedOnPurpose
CHECK_DEADLOCK FALSE
