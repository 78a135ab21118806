CONSTANTS
    Migrator = {server}
    Loaded <- NotesLoaded
    Object <- NotesObject
    UpScript <- NotesUp
    DownScript <- NotesDown
    RowsExist = FALSE
    MaxFaults = 2
SPECIFICATION FairSpec
INVARIANTS
    TypeOK
    SchemaMatchesVersion
    UpReachesLatest
PROPERTIES
    StepsFollowOrder
    CommandsEnd
