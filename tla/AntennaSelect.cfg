SPECIFICATION Spec
CONSTANTS
  BandOf <- TwoBands
  Policy <- BeamBands
  Fallback = "port2"
  FollowPort = "port1"
  TunerPort = "port2"
  AtuBands = {"80m"}
  PAFollow = TRUE
  Scenarios <- Things
  Requests = {"manual", "port1"}
INVARIANTS TypeOK SwitchFollows ReExtends
PROPERTY OnlyPresenceWakes
CHECK_DEADLOCK FALSE
