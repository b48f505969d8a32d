SPECIFICATION Spec
CONSTANTS
    Clients = {"cmd"}
    MaxSeq = 1
    Faults = {"off"}
    Crashes = TRUE
INVARIANTS
    TypeOK
    ConfirmedIn
    RetuneGetsThrough
PROPERTY Confirms
CHECK_DEADLOCK FALSE
