CONSTANTS
    Title = {t1, t2}
    Content = {x}
    TagName = {a, b}
    SectionName = {inbox}
    Inbox = inbox
    Empty = empty
    MaxNote = 2
    MaxTag = 2
    MaxSection = 1
SPECIFICATION Spec
SYMMETRY Symmetry
INVARIANTS
    TypeOK
    WholeOrNothing
    CountsAtMostStored
    ReferencesResolve
PROPERTIES
    KeptInStep
    LostOnlyByTagDeletion
