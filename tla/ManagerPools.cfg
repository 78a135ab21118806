CONSTANTS
    User = {u1, u2}
    Request = {r1}
    Conn = {c1, c2, c3}
    Main = main
    Poller = poller
    NoConn = NoConn
    NoUser = NoUser
    TTL = 0
    Interval = 1
    CloseMayFail = TRUE
SPECIFICATION Spec
SYMMETRY Symmetry
INVARIANTS
    CacheSound
    SinglePool
PROPERTIES
    ImplementsLease
