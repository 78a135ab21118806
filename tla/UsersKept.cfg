CONSTANTS
    Admin = {a1, a2}
    Client = {c1}
    File = {f1, f2, f3, f4}
    Nowhere = nowhere
    MaxUser = 3
    MaxAccount = 3
    MaxRelease = 2
    MaxFaults = 1
SPECIFICATION Spec
SYMMETRY Symmetry
CONSTRAINT AdminsApart
INVARIANTS
    TypeOK
    VersionIsTrue
    NoNotesWithoutUser
PROPERTIES
    BootLeavesNoneBehind
