CONSTANTS
    Admin = {a1}
    Client = {c1}
    File = {f1, f2, f3, f4}
    Nowhere = nowhere
    MaxUser = 2
    MaxAccount = 3
    MaxRelease = 1
    MaxFaults = 0
SPECIFICATION Spec
INVARIANTS
    NewUserOnNewDatabase
