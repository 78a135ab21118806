CONSTANTS
    User = {u1}
    Request = {r1, r2}
    Conn = {c1, c2}
    Main = main
    Poller = poller
    NoConn = NoConn
    NoUser = NoUser
    TTL = 1
    Interval = 1
    CloseMayFail = TRUE
SPECIFICATION Spec
SYMMETRY Symmetry
INVARIANTS
    TypeOK
    PoolInv
    FreshHolderKeepsPool
    EveryCommandAnswered
    CleanStop
