\* A session that lasts less than a second.
CONSTANTS
    NumSessions = 3
    Telemetry = {}
    Cars = {1}
    MaxTime = 2
    Traffics <- Announced
SPECIFICATION Spec
INVARIANTS
    SessionKeysUnique
