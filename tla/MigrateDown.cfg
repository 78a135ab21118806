CONSTANTS
    Migrator = {server}
    Loaded <- IndexLoaded
    Object <- IndexObject
    UpScript <- IndexUp
    DownScript <- IndexDown
    RowsExist = TRUE
    MaxFaults = 0
SPECIFICATION Spec
INVARIANTS
    DownEmpties
