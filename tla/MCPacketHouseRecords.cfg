\* Two sessions in order, recorded second by second.
CONSTANTS
    NumSessions = 2
    Telemetry = {"CarMotion"}
    Cars = {1, 2}
    MaxTime = 2
    Traffics <- InOrder
SPECIFICATION Spec
INVARIANTS
    TypeOK
    CarInfoFresh
PROPERTIES
    ImplementsRecorder
    CompleteSecondRecorded
