SPECIFICATION FairSpec
CONSTANTS
  Clients = {"mqtt", "gs232"}
  Readbacks = {0, 90}
  Targets = {90}
  ParkAzs = {90}
  StableBand = 1
  ArriveTol = 3
  NudgeMax = 90
  MinAz = 0
  MaxAz = 450
  HoldFor = TRUE
  Crashes = FALSE
  MaxSeq = 1
  NoAz = NoAz
PROPERTY ParkGoesOut
