SPECIFICATION Spec
CONSTANTS
  Clients = {"mqtt"}
  Readbacks = {0, 90}
  Targets = {90}
  ParkAzs = {90}
  StableBand = 1
  ArriveTol = 3
  NudgeMax = 90
  MinAz = 0
  MaxAz = 450
  HoldFor = TRUE
  Crashes = TRUE
  MaxSeq = 2
  NoAz = NoAz
INVARIANTS TypeOK NudgeNotUndone ParkOnce StopWins
PROPERTIES ParkLandsFirst RecordsInOrder
