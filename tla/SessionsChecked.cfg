CONSTANTS
    Request = {r1, r2}
    MaxUser = 2
    MaxAccount = 3
    MaxToken = 2
SPECIFICATION FairSpec
INVARIANTS
    TypeOK
    ActsForItsAccount
    RenewedTokensAreDead
    SetupFlagMatchesUsers
PROPERTIES
    DeletionsHitTheirUser
    LiveSessionsEndOnlyByTheirOwn
    SessionsEnd
