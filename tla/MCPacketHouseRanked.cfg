\* A batch written before any LapData of its session was ranked.
CONSTANTS
    NumSessions = 1
    Telemetry = {"CarMotion"}
    Cars = {1}
    MaxTime = 3
    Traffics <- Batch
SPECIFICATION Spec
PROPERTIES
    RankedWhenWritten
