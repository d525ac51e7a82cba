\* A client that sends format 2025.
CONSTANTS
    client1 = client1
    client2 = client2
    port1 = port1
    port2 = port2
    Sends2022 = {client2}
    Sends2025 = {client1}
    SendsOther = {}
    Sockets = {port1, port2}
    EventNum = 10
    IdleThreshold = 1
    Kinds = {"SessionData", "Car"}
    MaxSession = 1
    MaxInbox = 1
SPECIFICATION SafetySpec
PROPERTIES
    OnlyIdleErased
