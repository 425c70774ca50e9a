CONSTANTS
    BSS = {b1}
    Self = Self
    NChans = 2
    QMax = 2
    EvMax = 2
    AirMax = 1
    MaxScans = 1
SPECIFICATION FairSpec
INVARIANTS   StationInv ScanTracked
PROPERTIES ScanEnds
CONSTRAINT LossBound
CHECK_DEADLOCK FALSE
