CONSTANTS
    NumCars = 3
    LapSlots = 4
    Backends = {"sqlite"}
    TableFiles <- MCTableFiles
    ProcedureFiles <- MCProcedureFiles
    Seconds <- MCQuiet
    Classifications <- MCClassifications
    Lobbies = {0, 2}
SPECIFICATION Spec
INVARIANT SecondGoesToDB
CHECK_DEADLOCK FALSE
