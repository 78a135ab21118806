---------------------- MODULE ConnManagerLeaseProofs ----------------------
(* The manager implements the lease of PoolLease: every step of ConnManager *)
(* is a step of the lease, or changes nothing that the lease speaks of, for *)
(* any users, handlers, pools and ttl.                                      *)
EXTENDS ConnManagerProofs

USE TtlAssumption, FaultAssumption, SentinelAssumption, SenderAssumption

-----------------------------------------------------------------------------
(* The live pools are those of the map that are open.                        *)

Usable == {u \in Cached : conns[cache[u]].st = "open"}
UsablePool == [u \in User |-> IF u \in Usable THEN cache[u] ELSE NoConn]
UsableIdle == [u \in User |-> IF u \in Usable THEN TTL - left[u] ELSE 0]

LEMMA LiveOfIs ==
    PoolInv => \A u \in User : LiveOf(u) = IF u \in Usable THEN {cache[u]} ELSE {}
  <1> SUFFICES ASSUME PoolInv, NEW u \in User
               PROVE  LiveOf(u) = IF u \in Usable THEN {cache[u]} ELSE {}
    OBVIOUS
  <1>1. \A c \in LiveOf(u) : u \in Usable /\ c = cache[u]
    BY DEF LiveOf, PoolInv, LiveIsCached, Usable, Cached
  <1>2. u \in Usable => cache[u] \in LiveOf(u)
    BY CacheInjective DEF LiveOf, PoolInv, CacheSound, Usable
  <1> QED BY <1>1, <1>2

LEMMA LiveIs == PoolInv => Live = UsablePool /\ IdleTime = UsableIdle
  <1> SUFFICES ASSUME PoolInv PROVE Live = UsablePool /\ IdleTime = UsableIdle
    OBVIOUS
  <1>1. \A u \in User : LiveOf(u) = IF u \in Usable THEN {cache[u]} ELSE {}
    BY LiveOfIs
  <1>2. \A u \in User : u \in Usable => (CHOOSE c \in LiveOf(u) : TRUE) = cache[u]
    BY <1>1
  <1> QED BY <1>1, <1>2 DEF Live, IdleTime, UsablePool, UsableIdle

-----------------------------------------------------------------------------
(* What a step does to the usable entries.                                   *)

Rest(u) ==
    \A v \in User \ {u} :
        /\ v \in Usable' <=> v \in Usable
        /\ v \in Usable => cache'[v] = cache[v] /\ left'[v] = left[v]

Keeps == \A v \in User : /\ v \in Usable' <=> v \in Usable
                         /\ v \in Usable => cache'[v] = cache[v] /\ left'[v] = left[v]
Renews(u) == u \in Usable /\ u \in Usable' /\ cache'[u] = cache[u] /\ left'[u] = TTL /\ Rest(u)
Opens(u, c) ==
    /\ u \notin Usable /\ u \in Usable' /\ cache'[u] = c /\ left'[u] = TTL
    /\ \A v \in Usable : cache[v] # c
    /\ Rest(u)
Ends(u) ==
    /\ u \in Usable /\ u \notin Usable'
    /\ left[u] < 0 \/ u \in Asked \/ shut.pc \in {"closing", "wait", "done"}
    /\ Rest(u)
Ages ==
    /\ \A v \in User : v \in Usable' <=> v \in Usable
    /\ \A v \in Usable : /\ cache'[v] = cache[v]
                         /\ left'[v] = IF left[v] < 0 THEN left[v] ELSE left[v] - 1

Moves ==
    \/ Keeps
    \/ \E u \in User : Renews(u) \/ Ends(u) \/ \E c \in Conn : Opens(u, c)
    \/ Ages

LEMMA Shape ==
    ASSUME PoolInv
    PROVE  /\ conns \in [Conn -> PoolState] /\ cache \in [User -> Conn \cup {NoConn}]
           /\ left \in [User -> -1..TTL]
           /\ Usable \subseteq Cached /\ \A u \in Cached : u \in User /\ cache[u] \in Conn
           /\ \A u \in Cached, v \in User : cache[u] = cache[v] => u = v
  BY CacheInjective DEF PoolInv, TypeOK, Usable

LEMMA Untouched == ASSUME UNCHANGED <<conns, cache, left>> PROVE Moves
  BY DEF Moves, Keeps, Usable, Cached

\* A pool that is not in the map is opened, or its identity is given back.
LEMMA Outside ==
    ASSUME PoolInv, NEW c \in Conn, \A u \in Cached : cache[u] # c,
           \A d \in Conn : d # c => conns'[d] = conns[d], UNCHANGED <<cache, left>>
    PROVE  Moves
  <1>1. Cached' = Cached
    BY DEF Cached
  <1>2. \A u \in Cached : conns'[cache[u]] = conns[cache[u]]
    BY Shape
  <1> QED BY <1>1, <1>2 DEF Moves, Keeps, Usable

\* A pool of the map is closed, and its entry deleted or not.
LEMMA Closes ==
    ASSUME PoolInv, NEW u \in Cached, conns'[cache[u]].st # "open",
           \A d \in Conn : d # cache[u] => conns'[d] = conns[d],
           UNCHANGED cache \/ cache' = [cache EXCEPT ![u] = NoConn], UNCHANGED left,
           left[u] < 0 \/ u \in Asked \/ shut.pc \in {"closing", "wait", "done"}
    PROVE  Moves
  <1>1. u \in User /\ cache[u] \in Conn
    BY Shape
  <1>2. u \notin Usable'
    BY <1>1, Shape DEF Usable, Cached
  <1>3. \A v \in User : v # u => cache'[v] = cache[v]
    BY Shape
  <1>4. \A v \in User : v # u => (v \in Cached' <=> v \in Cached)
    BY <1>3 DEF Cached
  <1>5. \A v \in Cached : v # u => conns'[cache[v]] = conns[cache[v]]
    BY <1>1, Shape
  <1>6. Rest(u)
    BY <1>3, <1>4, <1>5 DEF Rest, Usable
  <1>7. CASE u \in Usable
    BY <1>1, <1>2, <1>6, <1>7 DEF Moves, Ends
  <1>8. CASE u \notin Usable
    BY <1>2, <1>6, <1>8 DEF Moves, Keeps, Rest
  <1> QED BY <1>7, <1>8

LEMMA PoolStates ==
    ASSUME PoolInv, NEW c \in Conn
    PROVE  /\ \A why : Closed(c, why)[c].st # "open" /\ Broken(c, why)[c].st # "open"
                       /\ Dropped(c, why)[c].st # "open"
           /\ \A why : \A d \in Conn :
                 d # c => /\ Closed(c, why)[d] = conns[d] /\ Broken(c, why)[d] = conns[d]
                          /\ Dropped(c, why)[d] = conns[d]
           /\ \A u, tag : \A d \in Conn : d # c => Opened(c, u, tag)[d] = conns[d]
  BY Shape DEF Closed, Broken, Dropped, Opened, Unused, Pool

LEMMA GetHitMoves == ASSUME PoolInv, GetHit PROVE Moves
  <1>1. Key \in Cached /\ left' = [left EXCEPT ![Key] = TTL] /\ UNCHANGED <<conns, cache>>
    BY DEF GetHit, Renewed
  <1>2. Key \in User /\ Usable' = Usable /\ Rest(Key) /\ left'[Key] = TTL
    BY <1>1, Shape DEF Usable, Cached, Rest
  <1>3. CASE Key \in Usable
    BY <1>1, <1>2, <1>3 DEF Moves, Renews
  <1>4. CASE Key \notin Usable
    BY <1>1, <1>2, <1>4 DEF Moves, Keeps, Rest
  <1> QED BY <1>3, <1>4

LEMMA OpenForGetMoves == ASSUME PoolInv, OpenForGet PROVE Moves
  <1>1. PICK c \in Conn : /\ conns[c].st = "unused" /\ conns' = Opened(c, Key, "get")
                          /\ cache' = [cache EXCEPT ![Key] = c]
                          /\ left' = [left EXCEPT ![Key] = TTL]
    BY DEF OpenForGet, Renewed
  <1>2. Key \in User /\ Key \notin Cached
    BY Fields DEF OpenForGet, PoolInv, TypeOK, CommandsFormed, OpensOnMiss, Key
  <1>3. \A v \in Cached : cache[v] # c
    BY <1>1 DEF PoolInv, ClosedByStop
  <1>4. /\ cache'[Key] = c /\ left'[Key] = TTL /\ conns'[c].st = "open" /\ c # NoConn
        /\ \A v \in User : v # Key => cache'[v] = cache[v] /\ left'[v] = left[v]
        /\ \A d \in Conn : d # c => conns'[d] = conns[d]
    BY <1>1, <1>2, Shape DEF Opened, Pool
  <1>5. Key \in Usable' /\ Key \notin Usable
    BY <1>2, <1>4 DEF Usable, Cached
  <1>6. \A v \in User : v # Key => (v \in Cached' <=> v \in Cached)
    BY <1>4 DEF Cached
  <1>7. \A v \in Cached : conns'[cache[v]] = conns[cache[v]]
    BY <1>3, <1>4, Shape
  <1>8. Rest(Key)
    BY <1>4, <1>6, <1>7 DEF Rest, Usable
  <1>9. Opens(Key, c)
    BY <1>3, <1>4, <1>5, <1>8, Shape DEF Opens
  <1> QED BY <1>2, <1>9 DEF Moves

LEMMA OpenOtherMoves == ASSUME PoolInv, OpenForCreate \/ MigrateOne PROVE Moves
  <1>1. PICK c \in Conn :
           conns[c].st = "unused" /\ \A d \in Conn : d # c => conns'[d] = conns[d]
    <2>1. CASE OpenForCreate
      BY <2>1, PoolStates DEF OpenForCreate
    <2>2. CASE MigrateOne
      <3>1. PICK u \in actor.todo, c \in Conn : conns[c].st = "unused" /\ conns' = Opened(c, u, "migrate")
        BY <2>2 DEF MigrateOne
      <3> QED BY <3>1, PoolStates
    <2> QED BY <2>1, <2>2
  <1>2. \A v \in Cached : cache[v] # c
    BY <1>1 DEF PoolInv, ClosedByStop
  <1>3. UNCHANGED <<cache, left>>
    BY DEF OpenForCreate, MigrateOne
  <1> QED BY <1>1, <1>2, <1>3, Outside

LEMMA RemoveMoves == ASSUME PoolInv, RemoveConnection PROVE Moves
  <1>1. CASE UNCHANGED <<conns, cache>>
    BY <1>1, Untouched DEF RemoveConnection
  <1>2. CASE ~UNCHANGED <<conns, cache>>
    <2>1. /\ Key \in Cached
          /\ conns' = Dropped(cache[Key], "remove") \/ conns' = Broken(cache[Key], "remove")
          /\ UNCHANGED cache \/ cache' = [cache EXCEPT ![Key] = NoConn]
          /\ UNCHANGED left
      BY <1>2 DEF RemoveConnection, Forgotten
    <2>2. Key \in Asked
      <3>1. actor.from \in Sender /\ actor.pc = "handle" /\ caller[actor.from].tag = "remove"
        BY Fields DEF RemoveConnection, Serving, PoolInv, TypeOK
      <3>2. caller[actor.from].pc = "waiting"
        BY <3>1 DEF PoolInv, EveryCommandAnswered
      <3> QED BY <2>1, <3>1, <3>2, Shape DEF Asked, Key
    <2>3. cache[Key] \in Conn
      BY <2>1, Shape
    <2> QED BY <2>1, <2>2, <2>3, PoolStates, Closes
  <1> QED BY <1>1, <1>2

LEMMA ExpireMoves == ASSUME PoolInv, ExpireOne PROVE Moves
  <1>1. CASE UNCHANGED <<conns, cache>>
    BY <1>1, Untouched DEF ExpireOne
  <1>2. CASE ~UNCHANGED <<conns, cache>>
    <2>1. PICK u \in Cached :
             /\ left[u] < 0
             /\ conns' = Dropped(cache[u], "expire") \/ conns' = Broken(cache[u], "expire")
             /\ UNCHANGED cache \/ cache' = [cache EXCEPT ![u] = NoConn]
             /\ UNCHANGED left
      BY <1>2 DEF ExpireOne, Forgotten, Expired
    <2>2. cache[u] \in Conn
      BY Shape
    <2> QED BY <2>1, <2>2, PoolStates, Closes
  <1> QED BY <1>1, <1>2

LEMMA StopMoves == ASSUME PoolInv, StopCloseOne PROVE Moves
  <1>1. CASE UNCHANGED conns
    BY <1>1, Untouched DEF StopCloseOne
  <1>2. CASE ~UNCHANGED conns
    <2>1. PICK u \in Cached :
             /\ conns' = Closed(cache[u], "stop") \/ conns' = Broken(cache[u], "stop")
             /\ UNCHANGED <<cache, left>> /\ shut.pc = "closing"
      BY <1>2 DEF StopCloseOne
    <2>2. cache[u] \in Conn
      BY Shape
    <2> QED BY <2>1, <2>2, PoolStates, Closes
  <1> QED BY <1>1, <1>2

LEMMA FinishMoves == ASSUME PoolInv, NEW r \in Request, Finish(r) PROVE Moves
  <1>1. CASE UNCHANGED conns
    BY <1>1, Untouched DEF Finish
  <1>2. CASE ~UNCHANGED conns
    <2> DEFINE c == caller[r].conn
    <2>1. /\ c # NoConn /\ \A u \in User : cache[u] # c
          /\ conns' = [conns EXCEPT ![c] = Unused] /\ UNCHANGED <<cache, left>>
      BY <1>2 DEF Finish
    <2>2. c \in Conn
      BY <2>1, Fields DEF PoolInv, TypeOK, Sender
    <2>3. \A d \in Conn : d # c => conns'[d] = conns[d]
      BY <2>1, Shape
    <2>4. \A u \in Cached : cache[u] # c
      BY <2>1, Shape
    <2> HIDE DEF c
    <2> QED BY <2>1, <2>2, <2>3, <2>4, Outside
  <1> QED BY <1>1, <1>2

LEMMA TickMoves == ASSUME PoolInv, Tick PROVE Moves
  <1>1. /\ UNCHANGED <<conns, cache>>
        /\ \A u \in User : left'[u] = IF left[u] < 0 THEN left[u] ELSE left[u] - 1
    BY DEF Tick
  <1> QED BY <1>1, Shape DEF Moves, Ages, Usable, Cached

LEMMA EveryStepMoves == ASSUME PoolInv, Running PROVE Moves
  <1>1. CASE ActorNext
    <2>1. CASE Receive \/ LoopEnds \/ LookupRow \/ OpenFails \/ DeleteDatabase \/ GetState
                 \/ MigrateEnds \/ ExpireEnds
      BY <2>1, Untouched DEF Receive, LoopEnds, LookupRow, OpenFails, DeleteDatabase, GetState,
         MigrateEnds, ExpireEnds
    <2> QED BY <1>1, <2>1, GetHitMoves, OpenForGetMoves, OpenOtherMoves, RemoveMoves, ExpireMoves
            DEF ActorNext
  <1>2. CASE MapRace \/ PollerNext \/ MainNext \/ ServeError \/ Signal
    BY <1>2, Untouched DEF MapRace, PollerNext, PollFires, PollResets, PollStops, MainNext, Boot,
       Booted, ReturnError, ServeError, Signal
  <1>3. CASE ShutNext
    <2>1. CASE Drained \/ DrainTimeout \/ StopIndexDB \/ StopCloseChannel \/ WaitDone
      BY <2>1, Untouched DEF Drained, DrainTimeout, StopIndexDB, StopCloseChannel, WaitDone
    <2> QED BY <1>3, <2>1, StopMoves DEF ShutNext
  <1>4. ASSUME NEW r \in Request,
               Accept(r) \/ Call(r) \/ Return(r) \/ DeleteDBSecond(r) \/ Finish(r)
        PROVE  Moves
    BY <1>4, Untouched, FinishMoves DEF Accept, Call, Return, DeleteDBSecond
  <1> QED BY <1>1, <1>2, <1>3, <1>4, TickMoves DEF Running, RequestNext

-----------------------------------------------------------------------------
(* The environment of the lease: a stop is not undone.                       *)

LEMMA StopStays ==
    ASSUME PoolInv, Running, shut.pc \in {"closing", "wait", "done"}
    PROVE  shut'.pc \in {"closing", "wait", "done"}
  <1>0. shut \in ShutState
    BY DEF PoolInv, TypeOK
  <1>1. CASE ActorNext
    <2>1. CASE OpenForGet
      BY <1>0, <2>1 DEF OpenForGet, ShutState
    <2>2. CASE ~OpenForGet
      BY <1>1, <2>2 DEF ActorNext, Receive, LoopEnds, GetHit, LookupRow, OpenForCreate, OpenFails,
         RemoveConnection, DeleteDatabase, GetState, MigrateOne, MigrateEnds, ExpireOne, ExpireEnds
    <2> QED BY <2>1, <2>2
  <1>2. CASE MapRace \/ PollerNext \/ MainNext \/ ServeError \/ Signal \/ Tick \/ RequestNext
    BY <1>2 DEF MapRace, PollerNext, PollFires, PollResets, PollStops, MainNext, Boot, Booted,
       ReturnError, ServeError, Signal, Tick, RequestNext, Accept, Call, Return, DeleteDBSecond,
       Finish
  <1>3. CASE ShutNext
    BY <1>0, <1>3 DEF ShutNext, Drained, DrainTimeout, StopIndexDB, StopCloseOne, StopFails,
       StopCloseChannel, WaitDone, ShutState
  <1> QED BY <1>1, <1>2, <1>3 DEF Running

-----------------------------------------------------------------------------
(* The steps of the lease.                                                   *)

\* What the step does to the usable entries is an action of the lease.
LEMMA MovesAreLease ==
    ASSUME PoolInv, Moves,
           Live = UsablePool, IdleTime = UsableIdle, Live' = UsablePool', IdleTime' = UsableIdle'
    PROVE  \/ \E u \in User : Lease!Renew(u) \/ Lease!Release(u) \/ \E c \in Conn : Lease!Acquire(u, c)
           \/ Lease!Pass
           \/ UNCHANGED <<Live, IdleTime>>
  <1>0. /\ left \in [User -> -1..TTL] /\ Usable \subseteq User
        /\ \A u \in Usable : cache[u] # NoConn
    BY Shape
  <1>1. CASE Keeps
    BY <1>0, <1>1 DEF Keeps, UsablePool, UsableIdle
  <1>2. ASSUME NEW u \in User, Renews(u) PROVE Lease!Renew(u)
    <2>1. Live[u] # NoConn /\ Live' = Live
      BY <1>0, <1>2 DEF Renews, Rest, UsablePool
    <2>2. IdleTime' = [IdleTime EXCEPT ![u] = 0]
      BY <1>0, <1>2 DEF Renews, Rest, UsableIdle
    <2> QED BY <2>1, <2>2 DEF Lease!Renew
  <1>3. ASSUME NEW u \in User, Ends(u) PROVE Lease!Release(u)
    <2>1. Live[u] # NoConn /\ Live' = [Live EXCEPT ![u] = NoConn]
      BY <1>0, <1>3 DEF Ends, Rest, UsablePool
    <2>2. IdleTime' = [IdleTime EXCEPT ![u] = 0]
      BY <1>0, <1>3 DEF Ends, Rest, UsableIdle
    <2>3. left[u] < 0 => IdleTime[u] > TTL
      BY <1>0, <1>3 DEF Ends, UsableIdle
    <2> QED BY <1>3, <2>1, <2>2, <2>3 DEF Ends, Lease!Release
  <1>4. ASSUME NEW u \in User, NEW c \in Conn, Opens(u, c) PROVE Lease!Acquire(u, c)
    <2>1. Live[u] = NoConn /\ Live' = [Live EXCEPT ![u] = c]
      BY <1>0, <1>4 DEF Opens, Rest, UsablePool
    <2>2. IdleTime' = [IdleTime EXCEPT ![u] = 0]
      BY <1>0, <1>4 DEF Opens, Rest, UsableIdle
    <2>3. \A v \in User : Live[v] # c
      BY <1>0, <1>4 DEF Opens, UsablePool
    <2> QED BY <2>1, <2>2, <2>3 DEF Lease!Acquire
  <1>5. CASE Ages
    <2>1. Live' = Live
      BY <1>0, <1>5 DEF Ages, UsablePool
    <2>2. \A u \in User : IdleTime'[u] = IF Live[u] = NoConn \/ IdleTime[u] > TTL
                                         THEN IdleTime[u] ELSE IdleTime[u] + 1
      BY <1>0, <1>5 DEF Ages, UsablePool, UsableIdle
    <2>3. IdleTime' = [u \in User |-> IdleTime'[u]]
      BY DEF UsableIdle
    <2> QED BY <2>1, <2>2, <2>3 DEF Lease!Pass
  <1> QED BY <1>1, <1>2, <1>3, <1>4, <1>5 DEF Moves

LEMMA LeaseInit == Init => Lease!LInit
  <1> SUFFICES ASSUME Init PROVE Lease!LInit OBVIOUS
  <1>1. \A u \in User : LiveOf(u) = {}
    BY DEF Init, Unused, Pool, LiveOf
  <1>2. Asked = {} /\ shut.pc = "listening"
    BY DEF Init, Idle, Calling, Asked, Sender
  <1> QED BY <1>1, <1>2 DEF Live, IdleTime, Lease!LInit

LEMMA LeaseNext == PoolInv /\ PoolInv' /\ [Next]_vars => [Lease!LNext]_(Lease!lease)
  <1>a. PoolInv' => (Live = UsablePool /\ IdleTime = UsableIdle)'
    BY LiveIs, PTL
  <1> SUFFICES ASSUME PoolInv, PoolInv', [Next]_vars PROVE [Lease!LNext]_(Lease!lease)
    OBVIOUS
  <1>1. CASE Running
    <2>1. Live = UsablePool /\ IdleTime = UsableIdle
      BY LiveIs
    <2>2. Live' = UsablePool' /\ IdleTime' = UsableIdle'
      BY <1>a
    <2>3. Asked' \subseteq User
      BY DEF Asked
    <2>4. Lease!Environment
      BY <1>1, <2>3, StopStays DEF Lease!Environment
    <2> QED BY <1>1, <2>1, <2>2, <2>4, EveryStepMoves, MovesAreLease DEF Lease!LNext
  <1>2. CASE UNCHANGED vars
    BY <1>2 DEF vars, Lease!lease, Live, IdleTime, LiveOf, Asked
  <1> QED BY <1>1, <1>2 DEF Next, Terminated

\* GetNotesStore gives what PoolLease promises: at most one live pool per user,
\* none shared, and none released but after ttl, on request or during a stop.
THEOREM ImplementsLeaseCorrect == Spec => ImplementsLease
  BY LeaseInit, LeaseNext, PoolsCorrect, PTL DEF Spec, ImplementsLease, Lease!LSpec
=============================================================================
