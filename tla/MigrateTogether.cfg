CONSTANTS
    Migrator = {server, tool}
    Loaded <- NotesLoaded
    Object <- NotesObject
    UpScript <- NotesUp
    DownScript <- NotesDown
    RowsExist = FALSE
    MaxFaults = 0
SPECIFICATION Spec
PROPERTIES
    StepsFollowOrder
