CONSTANTS
    Title = {t1, t2}
    Content = {}
    TagName = {a}
    SectionName = {inbox}
    Inbox = inbox
    Empty = empty
    MaxNote = 2
    MaxTag = 1
    MaxSection = 1
    Unfit = unfit
    MaxOthers = 3
    MaxSent = 2
SPECIFICATION Spec
SYMMETRY Symmetry
INVARIANTS
    TypeOK
PROPERTIES
    ChecksForesee
    SavedIsStored
    SaveIsTheEdit
