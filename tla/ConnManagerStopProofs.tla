---------------------- MODULE ConnManagerStopProofs ----------------------
(* What is left when a graceful stop is over: theorems about Stop and the  *)
(* shutdown goroutine of ConnManager, on top of those about its pools.     *)
EXTENDS ConnManagerProofs

USE TtlAssumption, FaultAssumption, SentinelAssumption, SenderAssumption
USE DEF Forgotten

-----------------------------------------------------------------------------
(* The inductive invariant behind CleanStop.                                 *)

\* Who stands in the queue has sent its command, and stands there once.
QueueInv ==
    \A i \in 1..Len(sendq) :
        /\ caller[sendq[i]].pc = "sending"
        /\ \A j \in 1..Len(sendq) : sendq[i] = sendq[j] => i = j

\* Once the server has booted, the main goroutine sends nothing.
MainIdle == main \in {"serving", "waiting"} => caller[Main].pc = "idle"

\* The poller asks for expiry rounds only.
PollerExpires == caller[Poller].tag \in {"none", "expire"}

\* Shutdown has drained in time, and RunServer waits for Stop and wg.Wait.
Quiet == main = "waiting" /\ shut.pc \notin {"listening", "draining"}

\* From then on no handler is left, so that only the poller has commands.
HandlersGone == Quiet => \A r \in Request : caller[r].pc = "idle"

\* Stop has yet to come to the entries whose pools are usable.
LeftToClose ==
    Quiet /\ shut.pc = "closing" =>
        \A u \in Cached : u \in shut.todo \/ conns[cache[u]].st # "open"

\* When it has returned without an error there are none.
NoneLeftOpen ==
    Quiet /\ shut.pc = "wait" /\ ~shut.failed => \A u \in Cached : conns[cache[u]].st # "open"

SendersInv == QueueInv /\ MainIdle /\ PollerExpires /\ HandlersGone

StopInv == SendersInv /\ LeftToClose /\ NoneLeftOpen /\ CleanStop

-----------------------------------------------------------------------------
(* Senders.                                                                  *)

LEMMA Shape ==
    ASSUME PoolInv
    PROVE  /\ TypeOK /\ caller \in [Sender -> CallerState] /\ actor.from \in Sender
           /\ Request \subseteq Sender /\ Main \in Sender /\ Poller \in Sender
           /\ sendq \in Seq(Sender) /\ Len(sendq) \in Nat
           /\ \A i \in 1..Len(sendq) : sendq[i] \in Sender
           /\ actor.pc \in {"handle", "open"} => caller[actor.from].pc = "waiting"
  BY Fields DEF PoolInv, TypeOK, Sender, EveryCommandAnswered

\* Who sends was idle or has its answer, so that it does not stand in the queue yet.
LEMMA SendKeeps ==
    ASSUME PoolInv, SendersInv, NEW s \in Sender, NEW op, NEW tag, NEW u, Send(s, op, tag, u),
           caller[s].pc \in {"idle", "accepted", "answered"}, s = Poller => tag = "expire",
           s = Main => main' \notin {"serving", "waiting"},
           s \in Request => ~Quiet',
           main' \in {"serving", "waiting"} => UNCHANGED main, UNCHANGED shut
    PROVE  SendersInv'
  <1>1. /\ \A t \in Sender : t # s => caller'[t] = caller[t]
        /\ caller'[s].tag = tag
        /\ \/ caller'[s].pc = "sending" /\ sendq' = Append(sendq, s)
           \/ UNCHANGED sendq
    BY Shape DEF Send, Calling
  <1>2. \A i \in 1..Len(sendq) : sendq[i] # s
    BY Shape DEF SendersInv, QueueInv
  <1>3. QueueInv'
    <2>1. CASE UNCHANGED sendq
      BY <1>1, <1>2, <2>1, Shape DEF SendersInv, QueueInv
    <2>2. CASE caller'[s].pc = "sending" /\ sendq' = Append(sendq, s)
      <3>1. /\ Len(sendq') = Len(sendq) + 1 /\ sendq'[Len(sendq) + 1] = s
            /\ \A i \in 1..Len(sendq) : sendq'[i] = sendq[i]
        BY <2>2, Shape
      <3>2. \A i \in 1..Len(sendq') : i \in 1..Len(sendq) \/ i = Len(sendq) + 1
        BY <3>1, Shape
      <3>3. \A i \in 1..Len(sendq') : caller'[sendq'[i]].pc = "sending"
        BY <1>1, <1>2, <2>2, <3>1, <3>2, Shape DEF SendersInv, QueueInv
      <3>4. \A i, j \in 1..Len(sendq') : sendq'[i] = sendq'[j] => i = j
        BY <1>2, <3>1, <3>2 DEF SendersInv, QueueInv
      <3> QED BY <3>3, <3>4 DEF QueueInv
    <2> QED BY <1>1, <2>1, <2>2
  <1>4. MainIdle'
    BY <1>1, Shape DEF SendersInv, MainIdle
  <1>5. PollerExpires'
    BY <1>1, Shape DEF SendersInv, PollerExpires
  <1>6. HandlersGone'
    BY <1>1, Shape DEF SendersInv, HandlersGone, Quiet
  <1> QED BY <1>3, <1>4, <1>5, <1>6 DEF SendersInv

\* Who leaves the queue, or gets its answer, is neither the main goroutine of a
\* running server nor, during a quiet stop, a handler.
LEMMA OneMoves ==
    ASSUME PoolInv, SendersInv, NEW s \in Sender,
           \A t \in Sender : t # s => caller'[t] = caller[t],
           caller'[s].tag \in {caller[s].tag, "none"},
           caller[s].pc # "sending" /\ UNCHANGED sendq,
           s = Main => caller'[s].pc = "idle" \/ (caller[s].pc # "idle" /\ UNCHANGED main),
           s \in Request => caller'[s].pc = "idle" \/ caller[s].pc # "idle",
           main' \in {"serving", "waiting"} => s = Main \/ UNCHANGED main,
           Quiet' => Quiet
    PROVE  SendersInv'
  <1>1. QueueInv'
    BY Shape DEF SendersInv, QueueInv
  <1>2. MainIdle' /\ PollerExpires' /\ HandlersGone'
    BY Shape DEF SendersInv, MainIdle, PollerExpires, HandlersGone
  <1> QED BY <1>1, <1>2 DEF SendersInv

LEMMA ReplyKeeps ==
    ASSUME PoolInv, SendersInv, NEW ok, NEW c, Reply(ok, c), actor.pc \in {"handle", "open"},
           UNCHANGED <<sendq, main>>, shut'.pc = shut.pc
    PROVE  SendersInv'
  <1>1. /\ \A t \in Sender : t # actor.from => caller'[t] = caller[t]
        /\ caller'[actor.from].tag = caller[actor.from].tag
        /\ caller[actor.from].pc = "waiting"
    BY Shape, ReplyEffect
  <1>2. Quiet' => Quiet
    BY DEF Quiet
  <1> QED BY <1>1, <1>2, Shape, OneMoves

LEMMA NoneMoves ==
    ASSUME SendersInv, UNCHANGED <<caller, sendq>>,
           main' \in {"serving", "waiting"} => main \in {"serving", "waiting"},
           Quiet' => Quiet
    PROVE  SendersInv'
  BY DEF SendersInv, QueueInv, MainIdle, PollerExpires, HandlersGone

LEMMA ReceiveKeeps == ASSUME PoolInv, SendersInv, Receive PROVE SendersInv'
  <1> DEFINE h == Head(sendq)
  <1>1. /\ h \in Sender /\ Len(sendq) > 0 /\ h = sendq[1]
        /\ Len(sendq') = Len(sendq) - 1
        /\ \A i \in 1..Len(sendq') : sendq'[i] = sendq[i + 1]
    <2>1. sendq \in Seq(Sender) /\ sendq # <<>> /\ sendq' = Tail(sendq)
      BY Shape DEF Receive
    <2> QED BY <2>1
  <1>2. /\ \A t \in Sender : t # h => caller'[t] = caller[t]
        /\ caller'[h].tag = caller[h].tag
        /\ UNCHANGED <<main, shut>>
    BY <1>1, Shape DEF Receive, CallerState
  <1>3. 1 \in 1..Len(sendq) /\ \A i \in 1..Len(sendq') : i + 1 \in 1..Len(sendq) /\ i + 1 # 1
    BY <1>1, Shape
  <1>4. caller[h].pc = "sending"
    BY <1>1, <1>3 DEF SendersInv, QueueInv
  <1>5. QueueInv'
    <2>1. \A i \in 1..Len(sendq') : sendq[i + 1] # h
      BY <1>1, <1>3 DEF SendersInv, QueueInv
    <2>2. \A i \in 1..Len(sendq') : caller'[sendq'[i]].pc = "sending"
      BY <1>1, <1>2, <1>3, <2>1, Shape DEF SendersInv, QueueInv
    <2>3. \A i, j \in 1..Len(sendq') : sendq'[i] = sendq'[j] => i + 1 = j + 1
      BY <1>1, <1>3 DEF SendersInv, QueueInv
    <2>4. \A i, j \in 1..Len(sendq') : i + 1 = j + 1 => i = j
      BY <1>1, Shape
    <2> QED BY <2>2, <2>3, <2>4 DEF QueueInv
  <1>6. MainIdle'
    BY <1>2, <1>4, Shape DEF SendersInv, MainIdle
  <1>7. PollerExpires'
    BY <1>2, Shape DEF SendersInv, PollerExpires
  <1>8. HandlersGone'
    BY <1>2, <1>4, Shape DEF SendersInv, HandlersGone, Quiet
  <1> QED BY <1>5, <1>6, <1>7, <1>8 DEF SendersInv

\* No step of the actor touches main, nor the place of the shutdown goroutine.
LEMMA ActorLeavesControl ==
    ASSUME PoolInv, ActorNext PROVE UNCHANGED main /\ shut'.pc = shut.pc
  <1>1. CASE OpenForGet
    BY <1>1 DEF OpenForGet, PoolInv, TypeOK, ShutState
  <1>2. CASE ~OpenForGet
    BY <1>2 DEF ActorNext, Receive, LoopEnds, GetHit, LookupRow, OpenForCreate, OpenFails,
       RemoveConnection, DeleteDatabase, GetState, MigrateOne, MigrateEnds, ExpireOne, ExpireEnds
  <1> QED BY <1>1, <1>2

LEMMA ActorKeeps == ASSUME PoolInv, SendersInv, ActorNext PROVE SendersInv'
  <1>0. UNCHANGED main /\ shut'.pc = shut.pc
    BY ActorLeavesControl
  <1>1. CASE Receive
    BY <1>1, ReceiveKeeps
  <1>2. CASE UNCHANGED <<caller, sendq>>
    BY <1>0, <1>2, NoneMoves DEF Quiet
  <1>3. ASSUME NEW ok, NEW c, Reply(ok, c), actor.pc \in {"handle", "open"}, UNCHANGED sendq
        PROVE  SendersInv'
    BY <1>0, <1>3, ReplyKeeps
  <1>4. CASE LoopEnds
    BY <1>2, <1>4 DEF LoopEnds
  <1>5. CASE GetHit \/ OpenForGet \/ OpenForCreate \/ OpenFails
    BY <1>3, <1>5 DEF GetHit, OpenForGet, OpenForCreate, OpenFails, Serving
  <1>6. CASE LookupRow \/ MigrateOne \/ ExpireOne
    BY <1>2, <1>3, <1>6 DEF LookupRow, MigrateOne, ExpireOne, Serving
  <1>7. CASE RemoveConnection \/ DeleteDatabase \/ GetState \/ MigrateEnds \/ ExpireEnds
    BY <1>3, <1>7 DEF RemoveConnection, DeleteDatabase, GetState, MigrateEnds, ExpireEnds, Serving
  <1> QED BY <1>1, <1>4, <1>5, <1>6, <1>7 DEF ActorNext

LEMMA RequestKeeps ==
    ASSUME PoolInv, SendersInv, NEW r \in Request,
           Accept(r) \/ Call(r) \/ Return(r) \/ DeleteDBSecond(r) \/ Finish(r)
    PROVE  SendersInv'
  <1>0. /\ r \in Sender /\ r # Main /\ r # Poller /\ UNCHANGED <<main, shut>>
        /\ caller[r].pc \in {"idle", "accepted", "answered"}
    BY DEF Accept, Call, Return, DeleteDBSecond, Finish, Sender
  <1>1. ASSUME NEW op, NEW tag, NEW u, Send(r, op, tag, u), ~Quiet PROVE SendersInv'
    BY <1>0, <1>1, SendKeeps DEF Quiet
  <1>2. CASE Call(r)
    <2>1. ~Quiet
      BY <1>2 DEF Call, SendersInv, HandlersGone
    <2> QED BY <1>1, <1>2, <2>1 DEF Call
  <1>3. CASE DeleteDBSecond(r)
    <2>1. ~Quiet
      BY <1>3 DEF DeleteDBSecond, SendersInv, HandlersGone
    <2> QED BY <1>1, <1>3, <2>1 DEF DeleteDBSecond
  <1>4. CASE Finish(r)
    <2>1. /\ \A t \in Sender : t # r => caller'[t] = caller[t]
          /\ caller'[r].tag = "none" /\ caller'[r].pc = "idle"
          /\ caller[r].pc = "answered" /\ UNCHANGED sendq
      BY <1>0, <1>4, Shape DEF Finish, Idle, Calling
    <2> QED BY <1>0, <2>1, OneMoves DEF Quiet
  <1>5. CASE Accept(r)
    <2>1. ~Quiet /\ ~Quiet'
      BY <1>5 DEF Accept, Quiet
    <2>2. /\ \A t \in Sender : t # r => caller'[t] = caller[t]
          /\ caller'[r].tag = "none" /\ caller'[r].pc = "accepted"
          /\ caller[r].pc = "idle" /\ UNCHANGED sendq
      BY <1>0, <1>5, Shape DEF Accept, Accepted, Calling
    <2>3. QueueInv'
      BY <1>0, <2>2, Shape DEF SendersInv, QueueInv
    <2>4. MainIdle' /\ PollerExpires' /\ HandlersGone'
      BY <1>0, <2>1, <2>2, Shape DEF SendersInv, MainIdle, PollerExpires, HandlersGone
    <2> QED BY <2>3, <2>4 DEF SendersInv
  <1>6. CASE Return(r)
    <2>1. /\ \A t \in Sender : t # r => caller'[t] = caller[t]
          /\ caller'[r].tag = "none" /\ caller'[r].pc = "idle"
          /\ caller[r].pc = "accepted" /\ UNCHANGED sendq
      BY <1>0, <1>6, Shape DEF Return, Idle, Calling
    <2> QED BY <1>0, <2>1, OneMoves DEF Quiet
  <1> QED BY <1>2, <1>3, <1>4, <1>5, <1>6

LEMMA GoroutinesKeep ==
    ASSUME PoolInv, SendersInv, PollerNext \/ MainNext \/ MapRace \/ ServeError \/ Signal \/ Tick
    PROVE  SendersInv'
  <1>1. CASE PollFires
    BY <1>1, Shape, SendKeeps DEF PollFires, Quiet
  <1>2. CASE PollResets \/ PollStops
    <2>1. /\ \A t \in Sender : t # Poller => caller'[t] = caller[t]
          /\ caller'[Poller].tag = "none" /\ caller[Poller].pc # "sending"
          /\ UNCHANGED <<sendq, main, shut>>
      BY <1>2, Shape DEF PollResets, PollStops, Idle, Calling
    <2> QED BY <2>1, Shape, OneMoves DEF Quiet
  <1>3. CASE Boot
    <2>1. caller[Main].pc = "idle"
      BY <1>3 DEF Boot, PoolInv, CommandsFormed
    <2> QED BY <1>3, <2>1, Shape, SendKeeps DEF Boot, Quiet
  <1>4. CASE Booted
    <2>1. /\ \A t \in Sender : t # Main => caller'[t] = caller[t]
          /\ caller'[Main].tag = "none" /\ caller'[Main].pc = "idle"
          /\ caller[Main].pc # "sending" /\ UNCHANGED sendq /\ main' \in {"serving", "exited"}
      BY <1>4, Shape DEF Booted, Idle, Calling
    <2>2. ~Quiet' /\ Main \in Sender /\ Main \notin Request
      BY <2>1, Shape DEF Quiet
    <2> QED BY <2>1, <2>2, OneMoves
  <1>5. CASE ReturnError \/ MapRace \/ ServeError \/ Signal
    <2>1. /\ UNCHANGED <<caller, sendq>> /\ ~Quiet'
          /\ main' \in {"serving", "waiting"} => main \in {"serving", "waiting"}
      BY <1>5 DEF ReturnError, MapRace, ServeError, Signal, Quiet, PoolInv, TypeOK, ShutState
    <2> QED BY <2>1, NoneMoves
  <1>6. CASE Tick
    <2>1. /\ \A s \in Sender : caller'[s].pc = caller[s].pc /\ caller'[s].tag = caller[s].tag
          /\ UNCHANGED <<sendq, main, shut>>
      BY <1>6, Shape DEF Tick, CallerState
    <2> QED BY <2>1, Shape DEF SendersInv, QueueInv, MainIdle, PollerExpires, HandlersGone, Quiet
  <1> QED BY <1>1, <1>2, <1>3, <1>4, <1>5, <1>6 DEF PollerNext, MainNext

LEMMA ShutKeeps == ASSUME PoolInv, SendersInv, ShutNext PROVE SendersInv'
  <1>1. CASE Drained
    <2>1. UNCHANGED <<caller, sendq, main>>
      BY <1>1 DEF Drained
    <2>2. HandlersGone'
      BY <1>1, <2>1 DEF Drained, HandlersGone
    <2> QED BY <2>1, <2>2 DEF SendersInv, QueueInv, MainIdle, PollerExpires
  <1>2. CASE DrainTimeout \/ WaitDone
    BY <1>2, NoneMoves DEF DrainTimeout, WaitDone, Quiet
  <1>3. CASE StopIndexDB \/ StopCloseOne
    BY <1>3, NoneMoves DEF StopIndexDB, StopCloseOne, Quiet
  <1>4. CASE StopCloseChannel
    <2>1. /\ \A s \in Sender : /\ caller'[s].pc = caller[s].pc \/ caller[s].pc = "sending"
                               /\ caller'[s].tag = caller[s].tag
          /\ sendq' = <<>> /\ UNCHANGED main /\ (Quiet' => Quiet)
      BY <1>4, Shape DEF StopCloseChannel, CallerState, Quiet
    <2>2. QueueInv'
      BY <2>1 DEF QueueInv
    <2>3. MainIdle' /\ PollerExpires' /\ HandlersGone'
      BY <2>1, Shape DEF SendersInv, MainIdle, PollerExpires, HandlersGone
    <2> QED BY <2>2, <2>3 DEF SendersInv
  <1> QED BY <1>1, <1>2, <1>3, <1>4 DEF ShutNext

-----------------------------------------------------------------------------
(* Pools.                                                                    *)

\* During a quiet stop the actor works for the poller or for nobody, so that it
\* opens nothing; an expiry round closes and forgets.
LEMMA QuietActor ==
    ASSUME PoolInv, SendersInv, Quiet, ActorNext
    PROVE  /\ UNCHANGED <<main, shut>>
           /\ \A u \in Cached' : u \in Cached /\ cache'[u] = cache[u]
           /\ \A c \in Conn : conns'[c].st = "open" => conns[c].st = "open"
  <1> DEFINE f == actor.from
  <1>1. actor.pc \in {"handle", "open"} => caller[f].tag \in {"none", "expire"}
    <2>1. f \in Request \/ f = Main \/ f = Poller
      BY Shape DEF Sender
    <2> QED BY <2>1, Shape DEF SendersInv, HandlersGone, MainIdle, PollerExpires, Quiet
  <1>2. /\ ~GetHit /\ ~LookupRow /\ ~OpenForGet /\ ~OpenForCreate /\ ~RemoveConnection
        /\ ~DeleteDatabase /\ ~GetState /\ ~MigrateOne /\ ~MigrateEnds
    BY <1>1 DEF GetHit, LookupRow, OpenForGet, OpenForCreate, RemoveConnection, DeleteDatabase,
       GetState, MigrateOne, MigrateEnds, Serving
  <1>3. CASE Receive \/ LoopEnds \/ OpenFails \/ ExpireEnds
    BY <1>3 DEF Receive, LoopEnds, OpenFails, ExpireEnds, Cached
  <1>4. CASE ExpireOne
    <2>1. PICK u \in actor.todo :
             \/ UNCHANGED <<conns, cache>>
             \/ /\ u \in Cached /\ conns' = Dropped(cache[u], "expire")
                /\ cache' = [cache EXCEPT ![u] = NoConn]
             \/ u \in Cached /\ conns' = Broken(cache[u], "expire") /\ UNCHANGED cache
      BY <1>4 DEF ExpireOne
    <2>2. /\ cache \in [User -> Conn \cup {NoConn}] /\ conns \in [Conn -> PoolState]
          /\ u \in Cached => cache[u] \in Conn
      BY CacheInjective DEF PoolInv, TypeOK
    <2>3. UNCHANGED <<main, shut>>
      BY <1>4 DEF ExpireOne
    <2>4. \A v \in Cached' : v \in Cached /\ cache'[v] = cache[v]
      BY <2>1, <2>2 DEF Cached
    <2>5. \A c \in Conn : conns'[c].st = "open" => conns[c].st = "open"
      BY <2>1, <2>2 DEF Dropped, Closed, Broken, Unused, Pool
    <2> QED BY <2>3, <2>4, <2>5
  <1> QED BY <1>2, <1>3, <1>4 DEF ActorNext

\* Nothing of the kind happens outside a quiet stop or by the goroutines that
\* neither open nor close a pool.
LEMMA OthersClose ==
    ASSUME StopInv, main' # "stopped",
           Quiet' => Quiet /\ UNCHANGED <<conns, cache, shut>>
    PROVE  LeftToClose' /\ NoneLeftOpen' /\ CleanStop'
  BY DEF StopInv, LeftToClose, NoneLeftOpen, CleanStop, Cached

LEMMA ActorCloses ==
    ASSUME PoolInv, StopInv, ActorNext, main # "stopped"
    PROVE  LeftToClose' /\ NoneLeftOpen' /\ CleanStop'
  <1>1. main' # "stopped" /\ (Quiet' => Quiet)
    BY ActorLeavesControl DEF Quiet
  <1>2. CASE Quiet
    <2>1. /\ UNCHANGED <<main, shut>>
          /\ \A u \in Cached' : u \in Cached /\ cache'[u] = cache[u] /\ cache[u] \in Conn
          /\ \A c \in Conn : conns'[c].st = "open" => conns[c].st = "open"
      BY <1>2, QuietActor, CacheInjective DEF StopInv, PoolInv
    <2>2. LeftToClose'
      BY <1>2, <2>1 DEF StopInv, LeftToClose
    <2>3. NoneLeftOpen'
      BY <1>2, <2>1 DEF StopInv, NoneLeftOpen
    <2> QED BY <1>1, <2>2, <2>3 DEF CleanStop
  <1> QED BY <1>1, <1>2, OthersClose

LEMMA ShutCloses ==
    ASSUME PoolInv, StopInv, ShutNext, main # "stopped"
    PROVE  LeftToClose' /\ NoneLeftOpen' /\ CleanStop'
  <1>0. /\ shut \in ShutState /\ \A u \in Cached : u \in User /\ cache[u] \in Conn
        /\ conns \in [Conn -> PoolState]
    BY CacheInjective DEF PoolInv, TypeOK
  <1>1. CASE Drained \/ DrainTimeout
    <2>1. main' # "stopped" /\ (shut'.pc = "stop")
      BY <1>0, <1>1 DEF Drained, DrainTimeout, ShutState
    <2> QED BY <2>1 DEF LeftToClose, NoneLeftOpen, CleanStop
  <1>2. CASE StopIndexDB
    <2>1. /\ main' # "stopped" /\ UNCHANGED <<conns, cache, main>>
          /\ \/ shut'.pc = "closing" /\ shut'.todo = Cached
             \/ shut'.pc = "wait" /\ shut'.failed
      <3>1. /\ shut' = [shut EXCEPT !.pc = "closing", !.todo = Cached] \/ StopFails
            /\ UNCHANGED <<conns, cache, main>>
        BY <1>2 DEF StopIndexDB
      <3>2. StopFails => shut'.pc = "wait" /\ shut'.failed
        BY DEF StopFails
      <3>3. ASSUME shut' = [shut EXCEPT !.pc = "closing", !.todo = Cached]
            PROVE  shut'.pc = "closing" /\ shut'.todo = Cached
        <4>1. shut = [pc |-> shut.pc, todo |-> shut.todo, failed |-> shut.failed]
          BY <1>0 DEF ShutState
        <4>2. shut' = [pc |-> "closing", todo |-> Cached, failed |-> shut.failed]
          BY <3>3, <4>1, Zenon
        <4> QED BY <4>2
      <3> QED BY <3>1, <3>2, <3>3
    <2> QED BY <2>1 DEF LeftToClose, NoneLeftOpen, CleanStop, Cached
  <1>3. CASE StopCloseOne
    <2>1. PICK u \in shut.todo :
             \/ u \notin Cached /\ shut' = [shut EXCEPT !.todo = @ \ {u}] /\ UNCHANGED conns
             \/ /\ u \in Cached /\ shut' = [shut EXCEPT !.todo = @ \ {u}]
                /\ conns' = Closed(cache[u], "stop")
             \/ StopFails
      BY <1>3 DEF StopCloseOne
    <2>2. shut.pc = "closing" /\ UNCHANGED <<cache, main>>
      BY <1>3 DEF StopCloseOne
    <2>3. CASE StopFails
      <3>1. shut'.pc = "wait" /\ shut'.failed
        BY <2>3 DEF StopFails
      <3> QED BY <2>2, <3>1 DEF LeftToClose, NoneLeftOpen, CleanStop
    <2>4. CASE shut' = [shut EXCEPT !.todo = @ \ {u}]
      <3>1. shut'.pc = "closing" /\ shut'.todo = shut.todo \ {u}
        BY <1>0, <2>2, <2>4 DEF ShutState
      <3>2. \A v \in Cached : v = u \/ conns[cache[v]].st = conns'[cache[v]].st
                              \/ conns'[cache[v]].st # "open"
        <4>1. \/ UNCHANGED conns
              \/ u \in Cached /\ conns' = Closed(cache[u], "stop")
              \/ StopFails
          BY <2>1
        <4>2. StopFails => FALSE
          BY <2>4, <3>1 DEF StopFails
        <4> QED BY <1>0, <4>1, <4>2 DEF Closed, Pool
      <3>3. ASSUME ~StopFails, u \in Cached PROVE conns'[cache[u]].st # "open"
        BY <1>0, <2>1, <3>3 DEF Closed, Pool
      <3>4. CASE ~StopFails
        <4>1. LeftToClose'
          BY <2>2, <3>1, <3>2, <3>3, <3>4 DEF StopInv, LeftToClose, Quiet, Cached
        <4> QED BY <2>2, <3>1, <4>1 DEF NoneLeftOpen, CleanStop
      <3> QED BY <2>3, <3>4
    <2> QED BY <2>1, <2>3, <2>4
  <1>4. CASE StopCloseChannel
    <2>1. /\ UNCHANGED <<conns, cache, main>> /\ shut.pc = "closing" /\ shut.todo = {}
          /\ shut'.pc = "wait"
      BY <1>0, <1>4 DEF StopCloseChannel, ShutState
    <2> QED BY <2>1 DEF StopInv, LeftToClose, NoneLeftOpen, CleanStop, Quiet, Cached
  <1>5. CASE WaitDone
    <2>1. /\ shut.pc = "wait" /\ main = "waiting" /\ actor.pc = "exited"
          /\ caller[Poller].pc = "done" /\ main' = "stopped"
          /\ shut'.failed = shut.failed
          /\ UNCHANGED <<conns, cache, actor, caller>>
      BY <1>0, <1>5 DEF WaitDone, ShutState
    <2>2. Quiet
      BY <2>1 DEF Quiet
    <2>3. \A s \in Sender : caller[s].pc \in {"idle", "done"}
      BY <2>1, <2>2 DEF StopInv, SendersInv, HandlersGone, MainIdle, Sender
    <2>4. ASSUME ~shut.failed, NEW c \in Conn, conns[c].st = "open", conns[c].by = "get"
          PROVE  FALSE
      <3>1. conns[c].user \in User /\ cache[conns[c].user] = c
        BY <2>4 DEF PoolInv, LiveIsCached
      <3>2. conns[c].user \in Cached
        BY <3>1 DEF Cached
      <3> QED BY <2>1, <2>2, <2>4, <3>1, <3>2 DEF StopInv, NoneLeftOpen
    <2>5. CleanStop'
      BY <2>1, <2>3, <2>4 DEF CleanStop
    <2> QED BY <2>1, <2>5 DEF LeftToClose, NoneLeftOpen, Quiet
  <1> QED BY <1>1, <1>2, <1>3, <1>4, <1>5 DEF ShutNext

\* Handlers have nothing to give back during a quiet stop.
LEMMA RestCloses ==
    ASSUME PoolInv, StopInv, main # "stopped",
           MapRace \/ PollerNext \/ MainNext \/ ServeError \/ Signal \/ RequestNext \/ Tick
    PROVE  LeftToClose' /\ NoneLeftOpen' /\ CleanStop'
  <1>1. CASE MapRace \/ MainNext \/ ServeError \/ Signal
    <2>1. main' # "stopped" /\ ~Quiet'
      BY <1>1 DEF MapRace, MainNext, Boot, Booted, ReturnError, ServeError, Signal, Quiet,
         PoolInv, TypeOK, ShutState
    <2> QED BY <2>1, OthersClose
  <1>2. CASE PollerNext \/ Tick
    <2>1. UNCHANGED <<conns, cache, main, shut>>
      BY <1>2 DEF PollerNext, PollFires, PollResets, PollStops, Tick
    <2> QED BY <2>1, OthersClose DEF Quiet
  <1>3. ASSUME NEW r \in Request, Accept(r) \/ Call(r) \/ Return(r) \/ DeleteDBSecond(r)
        PROVE  LeftToClose' /\ NoneLeftOpen' /\ CleanStop'
    <2>1. UNCHANGED <<conns, cache, main, shut>>
      BY <1>3 DEF Accept, Call, Return, DeleteDBSecond
    <2> QED BY <2>1, OthersClose DEF Quiet
  <1>4. ASSUME NEW r \in Request, Finish(r)
        PROVE  LeftToClose' /\ NoneLeftOpen' /\ CleanStop'
    <2>1. ~Quiet /\ UNCHANGED <<main, shut>>
      BY <1>4 DEF Finish, StopInv, SendersInv, HandlersGone
    <2> QED BY <2>1, OthersClose DEF Quiet
  <1> QED BY <1>1, <1>2, <1>3, <1>4 DEF RequestNext

-----------------------------------------------------------------------------
(* The theorems.                                                             *)

LEMMA StopInvInit == Init => StopInv
  <1> SUFFICES ASSUME Init PROVE StopInv OBVIOUS
  <1>1. /\ sendq = <<>> /\ main = "booting" /\ shut.pc = "listening"
        /\ caller[Poller].tag = "none"
    BY DEF Init, Idle, Calling, Sender
  <1> QED BY <1>1 DEF StopInv, SendersInv, QueueInv, MainIdle, PollerExpires, HandlersGone, Quiet,
             LeftToClose, NoneLeftOpen, CleanStop

LEMMA StopInvStep == PoolInv /\ StopInv /\ [Next]_vars => StopInv'
  <1> SUFFICES ASSUME PoolInv, StopInv, [Next]_vars PROVE StopInv' OBVIOUS
  <1>1. CASE ~Ended /\ Running
    <2>1. main # "stopped"
      BY <1>1 DEF Ended
    <2>2. SendersInv'
      BY <1>1, ActorKeeps, RequestKeeps, GoroutinesKeep, ShutKeeps
         DEF StopInv, Running, RequestNext
    <2>3. LeftToClose' /\ NoneLeftOpen' /\ CleanStop'
      BY <1>1, <2>1, ActorCloses, ShutCloses, RestCloses DEF Running
    <2> QED BY <2>2, <2>3 DEF StopInv
  <1>2. CASE UNCHANGED vars
    BY <1>2 DEF vars, StopInv, SendersInv, QueueInv, MainIdle, PollerExpires, HandlersGone, Quiet,
       LeftToClose, NoneLeftOpen, CleanStop, Cached
  <1> QED BY <1>1, <1>2 DEF Next, Terminated

\* When RunServer returns after a stop in time and without errors, nobody waits
\* for an answer, the actor and the poller have ended and every pool opened for a
\* request is closed, however the stop and an expiry round interleave.
THEOREM CleanStopCorrect == Spec => []CleanStop
  <1>1. Init => PoolInv /\ StopInv
    BY PoolInvInit, StopInvInit
  <1>2. PoolInv /\ StopInv /\ [Next]_vars => (PoolInv /\ StopInv)'
    BY PoolInvStep, StopInvStep
  <1>3. StopInv => CleanStop
    BY DEF StopInv
  <1> QED BY <1>1, <1>2, <1>3, PTL DEF Spec
=============================================================================
