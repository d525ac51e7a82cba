\* One datagram of the previous session may arrive late.
CONSTANTS
    NumSessions = 2
    Telemetry = {}
    Cars = {1}
    MaxTime = 2
    Traffics <- OneLate
SPECIFICATION Spec
INVARIANTS
    BatchOfOneSession
    BatchKeysUnique
    FollowsSessionData
    EventOnce
