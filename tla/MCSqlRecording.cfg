CONSTANTS
    NumCars = 3
    LapSlots = 4
    Backends = {"mysql", "sqlite", "duckdb"}
    TableFiles <- MCTableFiles
    ProcedureFiles <- MCProcedureFiles
    Seconds <- MCSeconds
    Classifications <- MCClassifications
    Lobbies = {0, 2}
SPECIFICATION Spec
INVARIANTS StoredPrefix RowsAgree
\* The handler is destroyed in the end.
CHECK_DEADLOCK FALSE
