\* A 2022 client of two sessions and a client of the other formats, on any
\* two ports; fairness of the receive loop and the clock.
CONSTANTS
    client1 = client1
    client2 = client2
    port1 = port1
    port2 = port2
    Sends2022 = {client1}
    Sends2025 = {client2}
    SendsOther = {client2}
    Sockets = {port1, port2}
    EventNum = 10
    IdleThreshold = 1
    Kinds = {"SessionData", "LobbyInfo", "Car"}
    MaxSession = 2
    MaxInbox = 1
SPECIFICATION Spec
INVARIANTS
    TypeOK
    ParentRowsFirst
PROPERTIES
    Idle2022Erased
    SessionNotSplit
    QuietHousesCleared
    SocketsServed
