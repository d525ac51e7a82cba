SPECIFICATION Spec
CONSTANTS
    MaxEvents = 2
    MaxSamples = 2
    Sessions <- MCSessions
    QueueSize = 2
    Loads <- MCLoads
    MaxFrame = 4
CHECK_DEADLOCK FALSE
INVARIANTS
    TypeOK
    MapIsViewOfLog
    NoOldSession
    ReadsWholeDatagram
    CurvesComparable
    LagBounded
PROPERTIES
    PauseFreezesPicture
    CloseEnds
