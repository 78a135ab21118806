------------------------- MODULE ConnManagerProofs -------------------------
(* Theorems about ConnManager, for any users, handlers, pools, ttl, period *)
(* of the poller, and whether or not closing a pool may fail.              *)
EXTENDS ConnManager, TLAPS

USE TtlAssumption, FaultAssumption, SentinelAssumption, SenderAssumption

-----------------------------------------------------------------------------
(* The one-line updates of an entry are expanded everywhere.                 *)
USE DEF Renewed, Expired, Forgotten

-----------------------------------------------------------------------------
(* Types.                                                                    *)

LEMMA TtlInRange == TTL \in -1..TTL
  OBVIOUS

\* The fields of the records, and records built from fields.
LEMMA Fields ==
    /\ \A x \in PoolState : /\ x.user \in User \cup {NoUser}
                            /\ x.by \in {"none", "get", "create", "migrate"}
                            /\ x.cause \in {"none", "expire", "remove", "stop"}
    /\ \A x \in CallerState : /\ x.op \in Tag \cup {"deleteDB", "none"}
                              /\ x.tag \in Tag \cup {"none"}
                              /\ x.user \in User \cup {NoUser}
                              /\ x.conn \in Conn \cup {NoConn}
                              /\ x.age \in 0..(TTL + 1)
    /\ \A x \in ActorState : x.from \in Sender /\ x.todo \subseteq User
    /\ \A x \in ShutState : x.todo \subseteq User
  BY DEF PoolState, CallerState, ActorState, ShutState

LEMMA MakePool ==
    ASSUME NEW st \in {"unused", "open", "closed", "broken"}, NEW u \in User \cup {NoUser},
           NEW by \in {"none", "get", "create", "migrate"},
           NEW cause \in {"none", "expire", "remove", "stop"}
    PROVE  Pool(st, u, by, cause) \in PoolState
  BY DEF Pool, PoolState

LEMMA MakeCaller ==
    ASSUME NEW pc \in {"idle", "accepted", "sending", "answered", "done"},
           NEW op \in Tag \cup {"deleteDB", "none"}, NEW tag \in Tag \cup {"none"},
           NEW u \in User \cup {NoUser}
    PROVE  Calling(pc, op, tag, u) \in CallerState
  BY DEF Calling, CallerState

LEMMA UpdateCaller ==
    ASSUME NEW x \in CallerState
    PROVE  /\ \A pc \in {"idle", "accepted", "sending", "waiting", "answered", "done"} :
                 [x EXCEPT !.pc = pc] \in CallerState
           /\ \A a \in 0..(TTL + 1) : [x EXCEPT !.age = a] \in CallerState
           /\ \A ok \in BOOLEAN, c \in Conn \cup {NoConn} :
                 [pc |-> "answered", op |-> x.op, tag |-> x.tag, user |-> x.user,
                  ok |-> ok, conn |-> c, age |-> 0] \in CallerState
  BY DEF CallerState

LEMMA UpdateActor ==
    ASSUME NEW x \in ActorState
    PROVE  /\ \A pc \in {"recv", "handle", "open", "exited"} : [x EXCEPT !.pc = pc] \in ActorState
           /\ \A todo \in SUBSET User : [x EXCEPT !.todo = todo] \in ActorState
           /\ \A pc \in {"recv", "handle"}, s \in Sender, todo \in SUBSET User :
                 [pc |-> pc, from |-> s, todo |-> todo] \in ActorState
  BY DEF ActorState

LEMMA UpdateShut ==
    ASSUME NEW x \in ShutState
    PROVE  /\ \A pc \in {"draining", "stop", "wait", "done"} : [x EXCEPT !.pc = pc] \in ShutState
           /\ \A todo \in SUBSET User :
                 /\ [x EXCEPT !.todo = todo] \in ShutState
                 /\ [x EXCEPT !.pc = "closing", !.todo = todo] \in ShutState
           /\ [pc |-> "wait", todo |-> {}, failed |-> TRUE] \in ShutState
  BY DEF ShutState

\* Sending a command keeps the types of the senders and of the queue.
LEMMA SendType ==
    ASSUME TypeOK, NEW s \in Sender, NEW op \in Tag \cup {"deleteDB"}, NEW tag \in Tag,
           NEW u \in User \cup {NoUser}, Send(s, op, tag, u)
    PROVE  caller' \in [Sender -> CallerState] /\ sendq' \in Seq(Sender)
  <1>1. \A pc \in {"sending", "answered"} : Calling(pc, op, tag, u) \in CallerState
    BY MakeCaller
  <1>2. caller \in [Sender -> CallerState] /\ sendq \in Seq(Sender)
    BY DEF TypeOK
  <1>3. PICK d \in CallerState : caller' = [caller EXCEPT ![s] = d]
    BY <1>1 DEF Send
  <1>4. sendq' = sendq \/ sendq' = Append(sendq, s)
    BY DEF Send
  <1> QED BY <1>2, <1>3, <1>4

\* So does an answer, for the actor and the callers.
LEMMA ReplyType ==
    ASSUME TypeOK, NEW ok \in BOOLEAN, NEW c \in Conn \cup {NoConn}, Reply(ok, c)
    PROVE  caller' \in [Sender -> CallerState] /\ actor' \in ActorState
  <1>1. caller \in [Sender -> CallerState] /\ actor.from \in Sender
    BY Fields DEF TypeOK
  <1>2. [pc |-> "recv", from |-> Main, todo |-> {}] \in ActorState
    BY DEF ActorState, Sender
  <1> QED BY <1>1, <1>2, UpdateCaller DEF Reply

\* The operations on a pool keep the type of the pools.
LEMMA PoolType ==
    ASSUME TypeOK, NEW c \in Conn
    PROVE  /\ \A u \in User \cup {NoUser}, tag \in {"get", "create", "migrate"} :
                 Opened(c, u, tag) \in [Conn -> PoolState]
           /\ \A why \in {"expire", "remove", "stop"} :
                 /\ Closed(c, why) \in [Conn -> PoolState]
                 /\ Broken(c, why) \in [Conn -> PoolState]
                 /\ Dropped(c, why) \in [Conn -> PoolState]
           /\ [conns EXCEPT ![c] = Unused] \in [Conn -> PoolState]
  <1>1. conns \in [Conn -> PoolState] BY DEF TypeOK
  <1>2. Unused \in PoolState BY MakePool DEF Unused
  <1> QED BY <1>1, <1>2, MakePool, Fields DEF Opened, Closed, Broken, Dropped

\* Every step of the actor keeps the types.
LEMMA ActorType == TypeOK /\ CommandsFormed /\ ActorNext => TypeOK'
  <1> SUFFICES ASSUME TypeOK, CommandsFormed, ActorNext PROVE TypeOK' OBVIOUS
  <1>0. /\ actor.from \in Sender /\ actor.todo \subseteq User
        /\ Key \in User \cup {NoUser}
        /\ Cached \subseteq User
        /\ \A u \in Cached : cache[u] \in Conn
    BY Fields DEF TypeOK, Key, Cached
  <1>1. CASE Receive
    <2>1. Head(sendq) \in Sender /\ Tail(sendq) \in Seq(Sender)
      BY <1>1 DEF Receive, TypeOK
    <2>2. actor' \in ActorState
      <3>1. PICK todo \in Worklist(caller[Head(sendq)].tag) :
               actor' = [pc |-> "handle", from |-> Head(sendq), todo |-> todo]
        BY <1>1 DEF Receive
      <3>2. todo \in SUBSET User
        BY <1>0, <3>1 DEF Worklist
      <3> QED BY <2>1, <3>1, <3>2 DEF ActorState
    <2>3. caller' \in [Sender -> CallerState]
      <3>1. [caller[Head(sendq)] EXCEPT !.pc = "waiting"] \in CallerState
        BY <2>1, UpdateCaller DEF TypeOK
      <3> QED BY <1>1, <2>1, <3>1 DEF Receive, TypeOK
    <2> QED BY <1>1, <2>1, <2>2, <2>3 DEF Receive, TypeOK
  <1>2. CASE LoopEnds
    BY <1>2, UpdateActor DEF LoopEnds, TypeOK
  <1>3. CASE GetHit
    <2>1. caller' \in [Sender -> CallerState] /\ actor' \in ActorState
      BY <1>0, <1>3, ReplyType DEF GetHit
    <2>2. left' \in [User -> -1..TTL]
      BY <1>3, TtlInRange DEF GetHit, TypeOK
    <2> QED BY <1>3, <2>1, <2>2 DEF GetHit, TypeOK
  <1>4. CASE LookupRow
    BY <1>4, ReplyType, UpdateActor DEF LookupRow, TypeOK
  <1>5. CASE OpenForGet
    <2>1. PICK c \in Conn : /\ conns' = Opened(c, Key, "get")
                            /\ cache' = [cache EXCEPT ![Key] = c]
                            /\ left' = [left EXCEPT ![Key] = TTL]
                            /\ Reply(TRUE, c)
      BY <1>5 DEF OpenForGet
    <2>0. Key \in User
      BY <1>0, <1>5 DEF OpenForGet, CommandsFormed, Key
    <2>2. caller' \in [Sender -> CallerState] /\ actor' \in ActorState
      BY <2>1, ReplyType
    <2>3. conns' \in [Conn -> PoolState]
      BY <1>0, <2>1, PoolType
    <2>4. shut' \in ShutState
      <3>1. shut \in ShutState /\ shut.todo \subseteq User
        BY Fields DEF TypeOK
      <3>2. CASE UNCHANGED shut
        BY <3>1, <3>2
      <3>3. ASSUME shut' = [shut EXCEPT !.todo = @ \cup {Key}], Key \in User
            PROVE  shut' \in ShutState
        <4>1. shut.todo \cup {Key} \in SUBSET User
          BY <3>1, <3>3
        <4> QED BY <3>1, <3>3, <4>1, UpdateShut
      <3> QED BY <1>5, <2>0, <3>2, <3>3 DEF OpenForGet
    <2>5. /\ cache' \in [User -> Conn \cup {NoConn}]
          /\ left' \in [User -> -1..TTL]
      BY <2>1, TtlInRange DEF TypeOK
    <2> QED BY <1>5, <2>2, <2>3, <2>4, <2>5 DEF OpenForGet, TypeOK
  <1>6. CASE OpenForCreate
    <2>1. caller' \in [Sender -> CallerState] /\ actor' \in ActorState
      BY <1>6, ReplyType DEF OpenForCreate
    <2>2. conns' \in [Conn -> PoolState]
      BY <1>0, <1>6, PoolType DEF OpenForCreate
    <2> QED BY <1>6, <2>1, <2>2 DEF OpenForCreate, TypeOK
  <1>7. CASE OpenFails
    BY <1>7, ReplyType DEF OpenFails, TypeOK
  <1>8. CASE RemoveConnection
    <2>1. caller' \in [Sender -> CallerState] /\ actor' \in ActorState
      BY <1>8, ReplyType DEF RemoveConnection
    <2>2. conns' \in [Conn -> PoolState]
      <3>1. CASE UNCHANGED conns
        BY <3>1 DEF TypeOK
      <3>2. ASSUME Key \in Cached,
                   conns' = Dropped(cache[Key], "remove") \/ conns' = Broken(cache[Key], "remove")
            PROVE  conns' \in [Conn -> PoolState]
        BY <1>0, <3>2, PoolType
      <3> QED BY <1>8, <3>1, <3>2 DEF RemoveConnection
    <2> QED BY <1>8, <2>1, <2>2 DEF RemoveConnection, TypeOK
  <1>9. CASE DeleteDatabase
    BY <1>9, ReplyType DEF DeleteDatabase, TypeOK
  <1>10. CASE GetState
    BY <1>10, ReplyType DEF GetState, TypeOK
  <1>11. CASE MigrateOne
    <2>1. PICK u \in actor.todo, c \in Conn :
             /\ conns' = Opened(c, u, "migrate")
             /\ \/ actor' = [actor EXCEPT !.todo = @ \ {u}] /\ UNCHANGED caller
                \/ Reply(FALSE, NoConn)
      BY <1>11 DEF MigrateOne
    <2>2. caller' \in [Sender -> CallerState] /\ actor' \in ActorState
      <3>1. CASE Reply(FALSE, NoConn)
        BY <3>1, ReplyType
      <3>2. CASE actor' = [actor EXCEPT !.todo = @ \ {u}] /\ UNCHANGED caller
        <4>1. actor \in ActorState /\ actor.todo \ {u} \in SUBSET User
          BY <1>0 DEF TypeOK
        <4> QED BY <3>2, <4>1, UpdateActor DEF TypeOK
      <3> QED BY <2>1, <3>1, <3>2
    <2>3. conns' \in [Conn -> PoolState]
      BY <1>0, <2>1, PoolType
    <2> QED BY <1>11, <2>2, <2>3 DEF MigrateOne, TypeOK
  <1>12. CASE MigrateEnds
    BY <1>12, ReplyType DEF MigrateEnds, TypeOK
  <1>13. CASE ExpireOne
    <2>1. PICK u \in actor.todo :
             /\ \/ UNCHANGED <<conns, cache>>
                \/ /\ u \in Cached
                   /\ conns' = Dropped(cache[u], "expire")
                   /\ cache' = [cache EXCEPT ![u] = NoConn]
                \/ /\ u \in Cached
                   /\ conns' = Broken(cache[u], "expire")
                   /\ UNCHANGED cache
             /\ \/ actor' = [actor EXCEPT !.todo = @ \ {u}] /\ UNCHANGED caller
                \/ Reply(FALSE, NoConn)
      BY <1>13 DEF ExpireOne
    <2>2. caller' \in [Sender -> CallerState] /\ actor' \in ActorState
      <3>1. CASE Reply(FALSE, NoConn)
        BY <3>1, ReplyType
      <3>2. CASE actor' = [actor EXCEPT !.todo = @ \ {u}] /\ UNCHANGED caller
        <4>1. actor \in ActorState /\ actor.todo \ {u} \in SUBSET User
          BY <1>0 DEF TypeOK
        <4> QED BY <3>2, <4>1, UpdateActor DEF TypeOK
      <3> QED BY <2>1, <3>1, <3>2
    <2>3. conns' \in [Conn -> PoolState]
      BY <1>0, <2>1, PoolType DEF TypeOK
    <2>4. cache' \in [User -> Conn \cup {NoConn}]
      BY <2>1 DEF TypeOK
    <2> QED BY <1>13, <2>2, <2>3, <2>4 DEF ExpireOne, TypeOK
  <1>14. CASE ExpireEnds
    BY <1>14, ReplyType DEF ExpireEnds, TypeOK
  <1> QED
    BY <1>1, <1>2, <1>3, <1>4, <1>5, <1>6, <1>7, <1>8, <1>9, <1>10, <1>11, <1>12, <1>13, <1>14
       DEF ActorNext

\* Every step of the other goroutines, and of time, keeps the types.
LEMMA OthersType == TypeOK /\ CommandsFormed /\ Running => TypeOK'
  <1> SUFFICES ASSUME TypeOK, CommandsFormed, Running PROVE TypeOK' OBVIOUS
  <1>0. /\ Request \subseteq Sender /\ Main \in Sender /\ Poller \in Sender
        /\ \A s \in Sender : caller[s] \in CallerState
        /\ Cached \subseteq User
        /\ \A u \in Cached : cache[u] \in Conn
        /\ Idle \in CallerState /\ Accepted \in CallerState
        /\ Calling("done", "none", "none", NoUser) \in CallerState
    BY MakeCaller DEF TypeOK, Sender, Cached, Idle, Accepted
  <1>1. CASE MapRace
    BY <1>1 DEF MapRace, TypeOK
  <1>2. ASSUME NEW r \in Request, Call(r) PROVE TypeOK'
    <2>1. caller' \in [Sender -> CallerState] /\ sendq' \in Seq(Sender)
      BY <1>0, <1>2, SendType DEF Call, FirstTag, Tag
    <2> QED BY <1>2, <2>1 DEF Call, TypeOK
  <1>3. ASSUME NEW r \in Request, DeleteDBSecond(r) PROVE TypeOK'
    <2>1. caller' \in [Sender -> CallerState] /\ sendq' \in Seq(Sender)
      BY <1>0, <1>3, SendType, Fields DEF DeleteDBSecond, Tag
    <2> QED BY <1>3, <2>1 DEF DeleteDBSecond, TypeOK
  <1>4. ASSUME NEW r \in Request, Finish(r) PROVE TypeOK'
    <2>1. caller' \in [Sender -> CallerState]
      BY <1>0, <1>4 DEF Finish, TypeOK
    <2>2. conns' \in [Conn -> PoolState]
      <3>1. caller[r].conn # NoConn => caller[r].conn \in Conn
        BY <1>0, Fields
      <3>2. CASE UNCHANGED conns
        BY <3>2 DEF TypeOK
      <3>3. CASE caller[r].conn # NoConn /\ conns' = [conns EXCEPT ![caller[r].conn] = Unused]
        BY <3>1, <3>3, PoolType
      <3> QED BY <1>4, <3>2, <3>3 DEF Finish
    <2> QED BY <1>4, <2>1, <2>2 DEF Finish, TypeOK
  <1>5. CASE PollerNext
    <2>1. CASE PollFires
      <3>1. caller' \in [Sender -> CallerState] /\ sendq' \in Seq(Sender)
        BY <1>0, <2>1, SendType DEF PollFires, Tag
      <3> QED BY <2>1, <3>1 DEF PollFires, TypeOK
    <2>2. CASE PollResets \/ PollStops
      BY <1>0, <2>2 DEF PollResets, PollStops, TypeOK
    <2> QED BY <1>5, <2>1, <2>2 DEF PollerNext
  <1>6. CASE MainNext
    <2>1. CASE Boot
      <3>1. caller' \in [Sender -> CallerState] /\ sendq' \in Seq(Sender)
        BY <1>0, <2>1, SendType DEF Boot, Tag
      <3> QED BY <2>1, <3>1 DEF Boot, TypeOK
    <2>2. CASE Booted \/ ReturnError
      BY <1>0, <2>2 DEF Booted, ReturnError, TypeOK
    <2> QED BY <1>6, <2>1, <2>2 DEF MainNext
  <1>7. CASE ServeError \/ Signal
    BY <1>7, UpdateShut DEF ServeError, Signal, TypeOK
  <1>8. CASE ShutNext
    <2>1. CASE Drained \/ DrainTimeout \/ WaitDone
      BY <2>1, UpdateShut DEF Drained, DrainTimeout, WaitDone, TypeOK
    <2>2. CASE StopIndexDB
      <3>1. shut' \in ShutState
        <4>1. Cached \in SUBSET User /\ shut \in ShutState
          BY <1>0 DEF TypeOK
        <4>2. CASE shut' = [shut EXCEPT !.pc = "closing", !.todo = Cached]
          BY <4>1, <4>2, UpdateShut
        <4>3. CASE StopFails
          BY <4>1, <4>3, UpdateShut DEF StopFails
        <4> QED BY <2>2, <4>2, <4>3 DEF StopIndexDB
      <3> QED BY <2>2, <3>1 DEF StopIndexDB, TypeOK
    <2>3. CASE StopCloseOne
      <3>1. PICK u \in shut.todo :
               /\ shut' = [shut EXCEPT !.todo = @ \ {u}] \/ StopFails
               /\ \/ UNCHANGED conns
                  \/ u \in Cached /\ conns' = Closed(cache[u], "stop")
                  \/ u \in Cached /\ conns' = Broken(cache[u], "stop")
        BY <2>3 DEF StopCloseOne
      <3>2. shut' \in ShutState
        <4>1. shut \in ShutState /\ shut.todo \ {u} \in SUBSET User
          BY Fields DEF TypeOK
        <4> QED BY <3>1, <4>1, UpdateShut DEF StopFails
      <3>3. conns' \in [Conn -> PoolState]
        BY <1>0, <3>1, PoolType DEF TypeOK
      <3> QED BY <2>3, <3>2, <3>3 DEF StopCloseOne, TypeOK
    <2>4. CASE StopCloseChannel
      <3>1. \A s \in Sender : [caller[s] EXCEPT !.pc = "answered"] \in CallerState
        BY <1>0, UpdateCaller
      <3>2. caller' \in [Sender -> CallerState]
        BY <1>0, <2>4, <3>1 DEF StopCloseChannel
      <3>3. shut' \in ShutState
        BY <2>4, UpdateShut DEF StopCloseChannel, TypeOK
      <3> QED BY <2>4, <3>2, <3>3 DEF StopCloseChannel, TypeOK
    <2> QED BY <1>8, <2>1, <2>2, <2>3, <2>4 DEF ShutNext
  <1>9. CASE Tick
    <2>1. \A s \in Sender : Least(caller[s].age + 1, TTL + 1) \in 0..(TTL + 1)
      BY <1>0, Fields DEF Least
    <2>2. caller' \in [Sender -> CallerState]
      BY <1>0, <1>9, <2>1, UpdateCaller DEF Tick
    <2> QED BY <1>9, <2>2 DEF Tick, TypeOK
  <1>10. ASSUME NEW r \in Request, Accept(r) \/ Return(r) PROVE TypeOK'
    BY <1>0, <1>10 DEF Accept, Return, TypeOK
  <1> QED
    BY <1>1, <1>2, <1>3, <1>4, <1>5, <1>6, <1>7, <1>8, <1>9, <1>10, ActorType
       DEF Running, RequestNext

LEMMA TypeInit == Init => TypeOK
  <1> SUFFICES ASSUME Init PROVE TypeOK OBVIOUS
  <1>1. Unused \in PoolState BY MakePool DEF Unused
  <1>2. Idle \in CallerState BY MakeCaller DEF Idle
  <1>3. [pc |-> "recv", from |-> Main, todo |-> {}] \in ActorState BY DEF ActorState, Sender
  <1>4. [pc |-> "listening", todo |-> {}, failed |-> FALSE] \in ShutState BY DEF ShutState
  <1> QED BY <1>1, <1>2, <1>3, <1>4 DEF Init, TypeOK

LEMMA TypeStep == TypeOK /\ CommandsFormed /\ [Next]_vars => TypeOK'
  <1>1. TypeOK /\ UNCHANGED vars => TypeOK'
    BY DEF vars, TypeOK
  <1> QED BY <1>1, OthersType DEF Next, Terminated

-----------------------------------------------------------------------------
(* What sending and answering do to the callers, field by field.             *)

LEMMA SendEffect ==
    ASSUME TypeOK, NEW s \in Sender, NEW op, NEW tag, NEW u, Send(s, op, tag, u)
    PROVE  /\ \A t \in Sender : t # s => caller'[t] = caller[t]
           /\ caller'[s].pc \in {"sending", "answered"}
           /\ caller'[s].tag = tag /\ caller'[s].user = u /\ caller'[s].conn = NoConn
  <1>1. caller \in [Sender -> CallerState] BY DEF TypeOK
  <1> QED BY <1>1 DEF Send, Calling

LEMMA ReplyEffect ==
    ASSUME TypeOK, NEW ok, NEW c, Reply(ok, c)
    PROVE  LET f == actor.from IN
           /\ f \in Sender
           /\ \A t \in Sender : t # f => caller'[t] = caller[t]
           /\ caller'[f].pc = "answered" /\ caller'[f].conn = c /\ caller'[f].age = 0
           /\ caller'[f].tag = caller[f].tag /\ caller'[f].user = caller[f].user
           /\ actor'.pc = "recv"
  <1>1. caller \in [Sender -> CallerState] /\ actor.from \in Sender
    BY Fields DEF TypeOK
  <1> QED BY <1>1 DEF Reply

\* After an answer nobody waits and nothing is being opened.
LEMMA ReplyServes ==
    ASSUME TypeOK, EveryCommandAnswered, actor.pc \in {"handle", "open"}, NEW ok, NEW c, Reply(ok, c)
    PROVE  EveryCommandAnswered' /\ OpensOnMiss'
  <1>1. /\ actor'.pc = "recv" /\ caller'[actor.from].pc = "answered"
        /\ \A t \in Sender : t # actor.from => caller'[t] = caller[t]
    BY ReplyEffect
  <1>2. \A s \in Sender : caller'[s].pc # "waiting"
    BY <1>1 DEF EveryCommandAnswered
  <1>3. EveryCommandAnswered'
    BY <1>1, <1>2 DEF EveryCommandAnswered
  <1>4. OpensOnMiss'
    BY <1>1 DEF OpensOnMiss
  <1> QED BY <1>3, <1>4

\* No two users have the same pool in the map, and what is there is a pool.
LEMMA CacheInjective ==
    ASSUME TypeOK, CacheSound
    PROVE  /\ \A u \in Cached : u \in User /\ cache[u] \in Conn
           /\ \A u \in User, v \in Cached : cache[u] = cache[v] => u = v
  BY DEF TypeOK, CacheSound, Cached

\* A step that only answers, without giving a pool, keeps the invariant.
LEMMA AnswerOnly ==
    ASSUME PoolInv, TypeOK', NEW ok, Reply(ok, NoConn), actor.pc \in {"handle", "open"},
           UNCHANGED <<conns, cache, left, sendq, main, shut>>
    PROVE  PoolInv'
  <1>1. TypeOK BY DEF PoolInv
  <1>2. EveryCommandAnswered'
    BY <1>1, ReplyEffect DEF PoolInv, EveryCommandAnswered
  <1>3. CommandsFormed'
    BY <1>1, ReplyEffect DEF PoolInv, CommandsFormed, EveryCommandAnswered, Sender
  <1>4. OpensOnMiss'
    BY <1>1, ReplyEffect DEF OpensOnMiss
  <1>5. HoldersAreFresh'
    BY <1>1, ReplyEffect DEF PoolInv, HoldersAreFresh
  <1>6. CacheSound' /\ LiveIsCached' /\ ClosedByStop'
    BY DEF PoolInv, CacheSound, LiveIsCached, ClosedByStop, Cached
  <1> QED BY <1>2, <1>3, <1>4, <1>5, <1>6 DEF PoolInv

\* Handlers keep what they hold, with its age, or give it up.
CallersKeep ==
    \A s \in Sender : \/ caller'[s].conn = NoConn
                      \/ caller'[s].conn = caller[s].conn /\ caller'[s].age = caller[s].age

\* A pool opened by createDatabase or runMigrations disturbs nothing.
LEMMA OpenOther ==
    ASSUME PoolInv, NEW c \in Conn, conns[c].st = "unused", NEW u, NEW by \in {"create", "migrate"},
           conns' = Opened(c, u, by), UNCHANGED <<cache, left, shut>>, CallersKeep
    PROVE  CacheSound' /\ LiveIsCached' /\ ClosedByStop' /\ HoldersAreFresh'
  <1>1. conns \in [Conn -> PoolState] /\ \A s \in Sender : caller[s].conn \in Conn \cup {NoConn}
    BY Fields DEF PoolInv, TypeOK
  <1>2. /\ conns'[c].by = by
        /\ \A d \in Conn : d # c => conns'[d] = conns[d]
    BY <1>1 DEF Opened, Pool
  <1>3. \A v \in Cached : cache[v] # c /\ v \in User /\ cache[v] \in Conn
    BY CacheInjective DEF PoolInv, ClosedByStop
  <1>4. CacheSound' /\ ClosedByStop'
    BY <1>2, <1>3 DEF PoolInv, CacheSound, ClosedByStop, Cached
  <1>5. LiveIsCached'
    BY <1>2 DEF PoolInv, LiveIsCached
  <1>6. HoldersAreFresh'
    BY <1>1, <1>2 DEF PoolInv, HoldersAreFresh, CallersKeep
  <1> QED BY <1>4, <1>5, <1>6

\* Closing the pool of an entry and dropping the entry keeps the map sound, and
\* handlers that still hold the pool have had it for longer than ttl when the
\* entry had expired.
LEMMA DropEntry ==
    ASSUME PoolInv, NEW u \in Cached, NEW why \in {"expire", "remove"},
           why = "expire" => left[u] < 0,
           conns' = Dropped(cache[u], why), cache' = [cache EXCEPT ![u] = NoConn],
           UNCHANGED <<left, shut>>, CallersKeep
    PROVE  CacheSound' /\ LiveIsCached' /\ ClosedByStop' /\ HoldersAreFresh'
  <1> DEFINE c == cache[u]
  <1>1. /\ conns \in [Conn -> PoolState] /\ cache \in [User -> Conn \cup {NoConn}]
        /\ \A s \in Sender : caller[s].conn \in Conn \cup {NoConn} /\ caller[s].age \in Int
        /\ \A v \in User : left[v] \in Int
        /\ u \in User /\ c \in Conn
    BY Fields, CacheInjective DEF PoolInv, TypeOK
  <1>2. \A d \in Conn : d # c => conns'[d] = conns[d]
    BY <1>1 DEF Dropped, Closed
  <1>3. /\ conns'[c].st \in {"unused", "closed"}
        /\ conns'[c].st = "unused" => Holders(c) = {}
        /\ conns'[c].st = "closed" => conns'[c].cause \in {why, "stop"}
    BY <1>1 DEF Dropped, Closed, Unused, Pool, PoolInv, ClosedByStop
  <1>4. \A v \in User : v # u => cache'[v] = cache[v] /\ cache[v] # c
    BY <1>1, CacheInjective DEF PoolInv
  <1>5. cache'[u] = NoConn
    BY <1>1
  <1>6. CacheSound' /\ ClosedByStop'
    BY <1>1, <1>2, <1>4, <1>5 DEF PoolInv, CacheSound, ClosedByStop, Cached
  <1>7. LiveIsCached'
    BY <1>1, <1>2, <1>3, <1>4 DEF PoolInv, LiveIsCached
  <1>8. HoldersAreFresh'
    <2> SUFFICES ASSUME NEW s \in Sender, caller'[s].conn # NoConn
                 PROVE  /\ conns'[caller'[s].conn].st # "unused"
                        /\ \A v \in User : cache'[v] = caller'[s].conn => left'[v] + caller'[s].age >= TTL
                        /\ conns'[caller'[s].conn].st = "closed" /\ conns'[caller'[s].conn].cause = "expire"
                              => caller'[s].age > TTL
      BY DEF HoldersAreFresh
    <2>1. caller'[s].conn = caller[s].conn /\ caller'[s].age = caller[s].age /\ caller[s].conn \in Conn
      BY <1>1 DEF CallersKeep
    <2>2. \A v \in User : cache'[v] = caller[s].conn => left[v] + caller[s].age >= TTL
      BY <1>4, <1>5, <2>1 DEF PoolInv, HoldersAreFresh
    <2>3. CASE caller[s].conn = c
      <3>1. Holders(c) # {}
        BY <2>3 DEF Holders
      <3>2. left[u] + caller[s].age >= TTL
        BY <1>1, <2>1, <2>3 DEF PoolInv, HoldersAreFresh
      <3>3. why = "expire" => caller[s].age > TTL
        BY <1>1, <3>2
      <3> QED BY <1>3, <2>1, <2>2, <2>3, <3>1, <3>3
    <2>4. CASE caller[s].conn # c
      BY <1>2, <2>1, <2>2, <2>4 DEF PoolInv, HoldersAreFresh
    <2> QED BY <2>3, <2>4
  <1> QED BY <1>6, <1>7, <1>8

\* An entry whose Close reports an error stays, with its pool closed.
LEMMA BreakEntry ==
    ASSUME PoolInv, NEW u \in Cached, NEW why, CloseFails(cache[u]),
           conns' = Broken(cache[u], why), UNCHANGED <<cache, left>>, CallersKeep,
           shut'.pc = shut.pc \/ shut'.pc \notin {"listening", "draining", "stop"}
    PROVE  CacheSound' /\ LiveIsCached' /\ ClosedByStop' /\ HoldersAreFresh'
  <1> DEFINE c == cache[u]
  <1>1. /\ conns \in [Conn -> PoolState]
        /\ \A s \in Sender : caller[s].conn \in Conn \cup {NoConn}
        /\ u \in User /\ c \in Conn
    BY Fields, CacheInjective DEF PoolInv, TypeOK
  <1>2. /\ \A d \in Conn : d # c => conns'[d] = conns[d]
        /\ conns'[c].st = "broken" /\ conns'[c].user = conns[c].user /\ conns'[c].by = conns[c].by
        /\ conns[c].st = "open" /\ CloseMayFail
    BY <1>1 DEF Broken, Pool, CloseFails
  <1>3. CacheSound' /\ ClosedByStop'
    <2>1. Cached' = Cached /\ \A v \in Cached : cache[v] \in Conn
      BY CacheInjective DEF PoolInv, Cached
    <2>2. CacheSound'
      BY <1>1, <1>2, <2>1 DEF PoolInv, CacheSound
    <2>3. ClosedByStop'
      BY <1>1, <1>2, <2>1 DEF PoolInv, ClosedByStop
    <2> QED BY <2>2, <2>3
  <1>4. LiveIsCached'
    BY <1>1, <1>2 DEF PoolInv, LiveIsCached
  <1>5. HoldersAreFresh'
    BY <1>1, <1>2 DEF PoolInv, HoldersAreFresh, CallersKeep
  <1> QED BY <1>3, <1>4, <1>5

\* Every step of the actor keeps the invariant.
LEMMA ActorStep == PoolInv /\ TypeOK' /\ ActorNext => PoolInv'
  <1> SUFFICES ASSUME PoolInv, TypeOK', ActorNext PROVE PoolInv' OBVIOUS
  <1> DEFINE f == actor.from
  <1>0. /\ TypeOK /\ f \in Sender /\ actor.todo \subseteq User /\ Main \in Sender
        /\ conns \in [Conn -> PoolState]
        /\ cache \in [User -> Conn \cup {NoConn}]
        /\ left \in [User -> -1..TTL]
        /\ caller \in [Sender -> CallerState]
        /\ \A s \in Sender : caller[s].age \in 0..(TTL + 1) /\ caller[s].conn \in Conn \cup {NoConn}
        /\ \A u \in Cached : u \in User /\ cache[u] \in Conn
    BY Fields DEF PoolInv, TypeOK, Cached, Sender
  <1>a. actor.pc \in {"handle", "open"} => caller[f].pc = "waiting"
    BY <1>0 DEF PoolInv, EveryCommandAnswered
  <1>b. caller[f].tag = "get" => Key \in User
    BY <1>0 DEF PoolInv, CommandsFormed, Key
  <1>1. CASE Receive
    <2> DEFINE h == Head(sendq)
    <2>1. /\ h \in Sender /\ Len(sendq) > 0 /\ h = sendq[1]
          /\ sendq' = Tail(sendq) /\ Len(sendq') = Len(sendq) - 1
          /\ \A i \in 1..Len(sendq') : sendq'[i] = sendq[i + 1]
      <3>1. sendq \in Seq(Sender) /\ sendq # <<>> /\ sendq' = Tail(sendq)
        BY <1>0, <1>1 DEF Receive, TypeOK
      <3> QED BY <3>1
    <2>2. /\ \A t \in Sender : t # h => caller'[t] = caller[t]
          /\ caller'[h].pc = "waiting"
          /\ caller'[h].tag = caller[h].tag /\ caller'[h].user = caller[h].user
          /\ caller'[h].conn = caller[h].conn /\ caller'[h].age = caller[h].age
          /\ actor.pc = "recv" /\ actor'.pc = "handle" /\ actor'.from = h
          /\ UNCHANGED <<conns, cache, left, main, shut>>
      BY <1>0, <1>1, <2>1 DEF Receive, CallerState
    <2>3. EveryCommandAnswered'
      BY <2>1, <2>2 DEF PoolInv, EveryCommandAnswered
    <2>4. CommandsFormed'
      <3>1. \A s \in Sender : caller'[s].tag = "get" => caller'[s].user \in User
        BY <2>1, <2>2 DEF PoolInv, CommandsFormed
      <3>2. ASSUME main = "booting"
            PROVE  caller'[Main].pc = "idle" /\ \A i \in 1..Len(sendq') : sendq'[i] # Main
        <4>1. caller[Main].pc = "idle" /\ \A i \in 1..Len(sendq) : sendq[i] # Main
          BY <3>2 DEF PoolInv, CommandsFormed
        <4>2. Len(sendq) \in Nat
          BY <1>0 DEF TypeOK
        <4>3. h # Main
          BY <2>1, <4>1, <4>2
        <4>4. \A i \in 1..Len(sendq') : i + 1 \in 1..Len(sendq)
          BY <2>1, <4>2
        <4> QED BY <1>0, <2>1, <2>2, <4>1, <4>3, <4>4
      <3> QED BY <2>2, <3>1, <3>2 DEF CommandsFormed
    <2>5. OpensOnMiss'
      BY <2>2 DEF OpensOnMiss
    <2>6. HoldersAreFresh'
      BY <2>1, <2>2 DEF PoolInv, HoldersAreFresh
    <2>7. CacheSound' /\ LiveIsCached' /\ ClosedByStop'
      BY <2>2 DEF PoolInv, CacheSound, LiveIsCached, ClosedByStop, Cached
    <2> QED BY <2>3, <2>4, <2>5, <2>6, <2>7 DEF PoolInv
  <1>2. CASE LoopEnds
    BY <1>0, <1>2 DEF LoopEnds, PoolInv, EveryCommandAnswered, CommandsFormed, CacheSound, LiveIsCached, ClosedByStop,
       OpensOnMiss, HoldersAreFresh, Cached
  <1>3. CASE GetHit
    <2>0. /\ Reply(TRUE, cache[Key]) /\ Key \in Cached /\ actor.pc = "handle" /\ caller[f].tag = "get"
          /\ left' = [left EXCEPT ![Key] = TTL]
          /\ UNCHANGED <<conns, cache, sendq, main, shut>>
      BY <1>3 DEF GetHit, Serving
    <2>1. EveryCommandAnswered'
      BY <2>0, ReplyServes DEF PoolInv
    <2>2. CommandsFormed'
      BY <1>0, <1>a, <2>0, ReplyEffect DEF PoolInv, CommandsFormed
    <2>3. OpensOnMiss'
      BY <2>0, ReplyServes DEF PoolInv
    <2>4. HoldersAreFresh'
      <3> SUFFICES ASSUME NEW s \in Sender, caller'[s].conn # NoConn
                   PROVE  /\ conns[caller'[s].conn].st # "unused"
                          /\ \A u \in User : cache[u] = caller'[s].conn => left'[u] + caller'[s].age >= TTL
                          /\ conns[caller'[s].conn].st = "closed" /\ conns[caller'[s].conn].cause = "expire"
                                => caller'[s].age > TTL
        BY <2>0 DEF HoldersAreFresh
      <3>1. CASE s = f
        <4>1. caller'[s].conn = cache[Key] /\ caller'[s].age = 0
          BY <1>0, <2>0, <3>1, ReplyEffect
        <4>2. /\ conns[cache[Key]].st # "unused"
              /\ conns[cache[Key]].st = "closed" => conns[cache[Key]].cause = "stop"
          BY <2>0 DEF PoolInv, ClosedByStop
        <4>3. left'[Key] = TTL /\ \A u \in User : cache[u] = cache[Key] => u = Key
          BY <1>0, <2>0, CacheInjective DEF PoolInv
        <4> QED BY <4>1, <4>2, <4>3
      <3>2. CASE s # f
        <4>1. caller'[s] = caller[s]
          BY <1>0, <2>0, <3>2, ReplyEffect
        <4>2. \A u \in User : left[u] \in Int /\ left'[u] \in Int /\ left'[u] >= left[u]
          BY <1>0, <2>0
        <4>3. caller[s].age \in Int
          BY <1>0
        <4> QED BY <4>1, <4>2, <4>3 DEF PoolInv, HoldersAreFresh
      <3> QED BY <3>1, <3>2
    <2>5. CacheSound' /\ LiveIsCached' /\ ClosedByStop'
      BY <2>0 DEF PoolInv, CacheSound, LiveIsCached, ClosedByStop, Cached
    <2> QED BY <2>1, <2>2, <2>3, <2>4, <2>5 DEF PoolInv
  <1>4. CASE LookupRow
    <2>1. CASE Reply(FALSE, NoConn)
      BY <1>4, <2>1, AnswerOnly DEF LookupRow, Serving
    <2>2. CASE actor' = [actor EXCEPT !.pc = "open"] /\ UNCHANGED caller
      <3>1. actor'.pc = "open" /\ actor'.from = f /\ actor.pc = "handle"
        BY <1>4, <2>2 DEF LookupRow, Serving, PoolInv, TypeOK, ActorState
      <3> QED
        BY <1>4, <2>2, <3>1 DEF LookupRow, Serving, Key, PoolInv, EveryCommandAnswered, CommandsFormed, CacheSound,
           LiveIsCached, ClosedByStop, OpensOnMiss, HoldersAreFresh, Cached
    <2> QED BY <1>4, <2>1, <2>2 DEF LookupRow
  <1>5. CASE OpenForGet
    <2>0. PICK c \in Conn :
             /\ conns[c].st = "unused" /\ actor.pc = "open" /\ caller[f].tag = "get"
             /\ conns' = [conns EXCEPT ![c] = Pool("open", Key, "get", "none")]
             /\ cache' = [cache EXCEPT ![Key] = c]
             /\ left' = [left EXCEPT ![Key] = TTL]
             /\ Reply(TRUE, c)
             /\ UNCHANGED <<sendq, main>> /\ shut'.pc = shut.pc
      BY <1>5 DEF OpenForGet, Opened, PoolInv, TypeOK, ShutState
    <2>1. Key \in User /\ Key \notin Cached
      BY <1>b, <2>0 DEF PoolInv, OpensOnMiss
    <2>2. /\ conns'[c].st = "open" /\ conns'[c].user = Key /\ conns'[c].by = "get"
          /\ \A d \in Conn : d # c => conns'[d] = conns[d]
          /\ cache'[Key] = c /\ left'[Key] = TTL
          /\ \A u \in User : u # Key => cache'[u] = cache[u] /\ left'[u] = left[u]
      BY <1>0, <2>0, <2>1 DEF Pool
    <2>3. \A u \in Cached : cache[u] # c /\ u # Key
      BY <2>0, <2>1 DEF PoolInv, ClosedByStop
    <2>4. EveryCommandAnswered' /\ OpensOnMiss'
      BY <2>0, ReplyServes DEF PoolInv
    <2>5. CommandsFormed'
      BY <1>0, <1>a, <2>0, ReplyEffect DEF PoolInv, CommandsFormed
    <2>6. HoldersAreFresh'
      <3> SUFFICES ASSUME NEW s \in Sender, caller'[s].conn # NoConn
                   PROVE  /\ conns'[caller'[s].conn].st # "unused"
                          /\ \A u \in User : cache'[u] = caller'[s].conn => left'[u] + caller'[s].age >= TTL
                          /\ conns'[caller'[s].conn].st = "closed" /\ conns'[caller'[s].conn].cause = "expire"
                                => caller'[s].age > TTL
        BY DEF HoldersAreFresh
      <3>1. CASE s = f
        <4>1. caller'[s].conn = c /\ caller'[s].age = 0
          BY <1>0, <2>0, <3>1, ReplyEffect
        <4>2. \A u \in User : cache'[u] = c => u = Key
          BY <1>0, <2>0, <2>2, <2>3 DEF Cached
        <4> QED BY <2>2, <4>1, <4>2
      <3>2. CASE s # f
        <4>1. caller'[s] = caller[s] /\ caller[s].conn \in Conn /\ caller[s].conn # c
          BY <1>0, <2>0, <3>2, ReplyEffect DEF PoolInv, HoldersAreFresh
        <4> QED BY <2>2, <4>1 DEF PoolInv, HoldersAreFresh
      <3> QED BY <3>1, <3>2
    <2>7. CacheSound'
      BY <1>0, <2>0, <2>1, <2>2, <2>3 DEF PoolInv, CacheSound, Cached
    <2>8. LiveIsCached'
      BY <1>0, <2>0, <2>1, <2>2, <2>3 DEF PoolInv, LiveIsCached, Cached
    <2>9. ClosedByStop'
      BY <1>0, <2>0, <2>1, <2>2, <2>3 DEF PoolInv, ClosedByStop, Cached
    <2> QED BY <2>4, <2>5, <2>6, <2>7, <2>8, <2>9 DEF PoolInv
  <1>c. \A ok \in BOOLEAN : Reply(ok, NoConn) => CallersKeep
    BY <1>0, ReplyEffect DEF CallersKeep
  <1>d. UNCHANGED caller => CallersKeep
    BY DEF CallersKeep
  <1>e. ASSUME NEW ok, Reply(ok, NoConn), actor.pc \in {"handle", "open"}, UNCHANGED <<sendq, main>>
        PROVE  EveryCommandAnswered' /\ CommandsFormed' /\ OpensOnMiss'
    <2>1. EveryCommandAnswered' /\ OpensOnMiss'
      BY <1>0, <1>e, ReplyEffect DEF PoolInv, EveryCommandAnswered, OpensOnMiss
    <2>2. CommandsFormed'
      BY <1>0, <1>a, <1>e, ReplyEffect DEF PoolInv, CommandsFormed
    <2> QED BY <2>1, <2>2
  <1>f. ASSUME NEW todo, actor' = [actor EXCEPT !.todo = todo], actor.pc = "handle", UNCHANGED <<sendq, main, caller>>
        PROVE  EveryCommandAnswered' /\ CommandsFormed' /\ OpensOnMiss'
    <2>1. actor'.pc = actor.pc /\ actor'.from = actor.from
      BY <1>f DEF PoolInv, TypeOK, ActorState
    <2> QED BY <1>f, <2>1 DEF PoolInv, EveryCommandAnswered, CommandsFormed, OpensOnMiss
  <1>6. CASE OpenForCreate
    <2>0. PICK c \in Conn, ok \in BOOLEAN :
             /\ conns[c].st = "unused" /\ conns' = Opened(c, Key, "create") /\ Reply(ok, NoConn)
             /\ actor.pc = "open" /\ UNCHANGED <<cache, left, sendq, main, shut>>
      BY <1>6 DEF OpenForCreate
    <2>1. CacheSound' /\ LiveIsCached' /\ ClosedByStop' /\ HoldersAreFresh'
      BY <1>c, <2>0, OpenOther
    <2>2. EveryCommandAnswered' /\ CommandsFormed' /\ OpensOnMiss'
      BY <1>e, <2>0
    <2> QED BY <2>1, <2>2 DEF PoolInv
  <1>7. CASE OpenFails
    BY <1>7, AnswerOnly DEF OpenFails
  <1>8. CASE RemoveConnection
    <2>1. PICK ok \in BOOLEAN :
             /\ Reply(ok, NoConn) /\ actor.pc = "handle" /\ UNCHANGED <<left, sendq, main, shut>>
             /\ \/ UNCHANGED <<conns, cache>>
                \/ /\ Key \in Cached
                   /\ conns' = Dropped(cache[Key], "remove")
                   /\ cache' = [cache EXCEPT ![Key] = NoConn]
                \/ /\ Key \in Cached /\ CloseFails(cache[Key])
                   /\ conns' = Broken(cache[Key], "remove") /\ UNCHANGED cache
      BY <1>8 DEF RemoveConnection, Serving
    <2>2. EveryCommandAnswered' /\ CommandsFormed' /\ OpensOnMiss'
      BY <1>e, <2>1
    <2>3. CASE UNCHANGED <<conns, cache>>
      BY <2>1, <2>3, AnswerOnly
    <2>4. CASE /\ Key \in Cached /\ conns' = Dropped(cache[Key], "remove")
               /\ cache' = [cache EXCEPT ![Key] = NoConn]
      BY <1>c, <2>1, <2>2, <2>4, DropEntry DEF PoolInv
    <2>5. CASE /\ Key \in Cached /\ CloseFails(cache[Key])
               /\ conns' = Broken(cache[Key], "remove") /\ UNCHANGED cache
      BY <1>c, <2>1, <2>2, <2>5, BreakEntry DEF PoolInv
    <2> QED BY <2>1, <2>3, <2>4, <2>5
  <1>9. CASE DeleteDatabase
    BY <1>9, AnswerOnly DEF DeleteDatabase, Serving
  <1>10. CASE GetState
    BY <1>10, AnswerOnly DEF GetState, Serving
  <1>11. CASE MigrateOne
    <2>0. PICK u \in actor.todo, c \in Conn :
             /\ conns[c].st = "unused" /\ conns' = Opened(c, u, "migrate")
             /\ \/ actor' = [actor EXCEPT !.todo = @ \ {u}] /\ UNCHANGED caller
                \/ Reply(FALSE, NoConn)
             /\ actor.pc = "handle" /\ UNCHANGED <<cache, left, sendq, main, shut>>
      BY <1>11 DEF MigrateOne, Serving
    <2>1. CacheSound' /\ LiveIsCached' /\ ClosedByStop' /\ HoldersAreFresh'
      BY <1>c, <1>d, <2>0, OpenOther
    <2>2. EveryCommandAnswered' /\ CommandsFormed' /\ OpensOnMiss'
      BY <1>e, <1>f, <2>0
    <2> QED BY <2>1, <2>2 DEF PoolInv
  <1>12. CASE MigrateEnds
    BY <1>12, AnswerOnly DEF MigrateEnds, Serving
  <1>13. CASE ExpireOne
    <2>0. PICK u \in actor.todo :
             \/ /\ actor' = [actor EXCEPT !.todo = @ \ {u}] /\ UNCHANGED <<conns, cache, caller>>
             \/ /\ u \in Cached /\ left[u] < 0 /\ conns' = Dropped(cache[u], "expire")
                /\ cache' = [cache EXCEPT ![u] = NoConn]
                /\ actor' = [actor EXCEPT !.todo = @ \ {u}] /\ UNCHANGED caller
             \/ /\ u \in Cached /\ CloseFails(cache[u]) /\ conns' = Broken(cache[u], "expire")
                /\ Reply(FALSE, NoConn) /\ UNCHANGED cache
      BY <1>13 DEF ExpireOne
    <2>1. actor.pc = "handle" /\ UNCHANGED <<left, sendq, main, shut>>
      BY <1>13 DEF ExpireOne, Serving
    <2>2. CASE actor' = [actor EXCEPT !.todo = @ \ {u}] /\ UNCHANGED <<conns, cache, caller>>
      <3>1. CacheSound' /\ LiveIsCached' /\ ClosedByStop' /\ HoldersAreFresh'
        BY <2>1, <2>2 DEF PoolInv, CacheSound, LiveIsCached, ClosedByStop, HoldersAreFresh, Cached
      <3> QED BY <1>f, <2>1, <2>2, <3>1 DEF PoolInv
    <2>3. CASE /\ u \in Cached /\ left[u] < 0 /\ conns' = Dropped(cache[u], "expire")
               /\ cache' = [cache EXCEPT ![u] = NoConn]
               /\ actor' = [actor EXCEPT !.todo = @ \ {u}] /\ UNCHANGED caller
      <3>1. CacheSound' /\ LiveIsCached' /\ ClosedByStop' /\ HoldersAreFresh'
        BY <1>d, <2>1, <2>3, DropEntry
      <3> QED BY <1>f, <2>1, <2>3, <3>1 DEF PoolInv
    <2>4. CASE /\ u \in Cached /\ CloseFails(cache[u]) /\ conns' = Broken(cache[u], "expire")
               /\ Reply(FALSE, NoConn) /\ UNCHANGED cache
      <3>1. CacheSound' /\ LiveIsCached' /\ ClosedByStop' /\ HoldersAreFresh'
        BY <1>c, <2>1, <2>4, BreakEntry
      <3> QED BY <1>e, <2>1, <2>4, <3>1 DEF PoolInv
    <2> QED BY <2>0, <2>2, <2>3, <2>4
  <1>14. CASE ExpireEnds
    BY <1>14, AnswerOnly DEF ExpireEnds, Serving
  <1> QED
    BY <1>1, <1>2, <1>3, <1>4, <1>5, <1>6, <1>7, <1>8, <1>9, <1>10, <1>11, <1>12, <1>13, <1>14
       DEF ActorNext
-----------------------------------------------------------------------------

\* Sending a command keeps the invariant.
LEMMA SendStep ==
    ASSUME PoolInv, TypeOK', NEW s \in Sender, NEW op, NEW tag, NEW u, Send(s, op, tag, u),
           tag = "get" => u \in User, caller[s].pc # "waiting",
           main' # "booting" \/ (s # Main /\ UNCHANGED main),
           UNCHANGED <<conns, cache, left, actor, shut>>
    PROVE  PoolInv'
  <1>0. TypeOK /\ Main \in Sender /\ actor.from \in Sender
    BY Fields DEF PoolInv, TypeOK, Sender
  <1>1. /\ \A t \in Sender : t # s => caller'[t] = caller[t]
        /\ caller'[s].pc \in {"sending", "answered"}
        /\ caller'[s].tag = tag /\ caller'[s].user = u /\ caller'[s].conn = NoConn
    BY <1>0, SendEffect
  <1>2. EveryCommandAnswered'
    BY <1>1 DEF PoolInv, EveryCommandAnswered
  <1>3. CommandsFormed'
    <2>1. \A t \in Sender : caller'[t].tag = "get" => caller'[t].user \in User
      BY <1>1 DEF PoolInv, CommandsFormed
    <2>2. ASSUME main' = "booting"
          PROVE  caller'[Main].pc = "idle" /\ \A i \in 1..Len(sendq') : sendq'[i] # Main
      <3>1. caller[Main].pc = "idle" /\ \A i \in 1..Len(sendq) : sendq[i] # Main
        BY <2>2 DEF PoolInv, CommandsFormed
      <3>2. sendq \in Seq(Sender)
        BY <1>0 DEF TypeOK
      <3>3. sendq' = sendq \/ sendq' = Append(sendq, s)
        BY DEF Send
      <3>4. \A i \in 1..Len(sendq') : sendq'[i] = s \/ (i \in 1..Len(sendq) /\ sendq'[i] = sendq[i])
        BY <3>2, <3>3
      <3> QED BY <1>0, <1>1, <2>2, <3>1, <3>4
    <2> QED BY <2>1, <2>2 DEF CommandsFormed
  <1>4. OpensOnMiss'
    BY <1>0, <1>1 DEF PoolInv, OpensOnMiss, EveryCommandAnswered, Key, Cached
  <1>5. HoldersAreFresh'
    BY <1>1 DEF PoolInv, HoldersAreFresh
  <1>6. CacheSound' /\ LiveIsCached' /\ ClosedByStop'
    BY DEF PoolInv, CacheSound, LiveIsCached, ClosedByStop, Cached
  <1> QED BY <1>2, <1>3, <1>4, <1>5, <1>6 DEF PoolInv

\* A step that leaves everything but the two control goroutines alone.
LEMMA ControlStep ==
    ASSUME PoolInv, TypeOK', UNCHANGED <<conns, cache, left, actor, caller, sendq>>,
           main' # "booting" \/ UNCHANGED main,
           shut'.pc \in {"listening", "draining", "stop"} => shut.pc \in {"listening", "draining", "stop"}
    PROVE  PoolInv'
  BY DEF PoolInv, EveryCommandAnswered, CommandsFormed, CacheSound, LiveIsCached, ClosedByStop,
         OpensOnMiss, HoldersAreFresh, Cached, Key

\* Every step of the other goroutines, and of time, keeps the invariant.
LEMMA OthersStep == PoolInv /\ TypeOK' /\ Running => PoolInv'
  <1> SUFFICES ASSUME PoolInv, TypeOK', Running PROVE PoolInv' OBVIOUS
  <1>0. /\ TypeOK /\ Request \subseteq Sender /\ Main \in Sender /\ Poller \in Sender
        /\ conns \in [Conn -> PoolState] /\ cache \in [User -> Conn \cup {NoConn}]
        /\ left \in [User -> -1..TTL]
        /\ caller \in [Sender -> CallerState] /\ actor.from \in Sender
        /\ \A s \in Sender : caller[s].age \in 0..(TTL + 1) /\ caller[s].conn \in Conn \cup {NoConn}
        /\ shut \in ShutState
    BY Fields DEF PoolInv, TypeOK, Sender
  <1>1. CASE MapRace
    BY <1>1, ControlStep DEF MapRace
  <1>2. ASSUME NEW r \in Request, Call(r) PROVE PoolInv'
    <2>1. PICK op, u : (Send(r, op, FirstTag(op), u) /\ (op = "get" => u \in User) /\ op # "deleteDB")
                        \/ Send(r, "deleteDB", "remove", u)
      BY <1>2 DEF Call, FirstTag
    <2>2. /\ UNCHANGED <<conns, cache, left, actor, main, shut>>
          /\ r # Main /\ caller[r].pc # "waiting"
      BY <1>2, SenderAssumption DEF Call
    <2> QED BY <1>0, <2>1, <2>2, SendStep DEF FirstTag
  <1>3. ASSUME NEW r \in Request, DeleteDBSecond(r) PROVE PoolInv'
    BY <1>0, <1>3, SendStep DEF DeleteDBSecond
  <1>4. ASSUME NEW r \in Request, Finish(r) PROVE PoolInv'
    <2> DEFINE c == caller[r].conn
    <2>1. /\ \A t \in Sender : t # r => caller'[t] = caller[t]
          /\ caller'[r].pc = "idle" /\ caller'[r].tag = "none" /\ caller'[r].conn = NoConn
          /\ caller[r].pc = "answered"
          /\ UNCHANGED <<cache, left, actor, sendq, main, shut>>
      BY <1>0, <1>4 DEF Finish, Idle, Calling
    <2>2. \/ UNCHANGED conns
          \/ /\ c \in Conn /\ Holders(c) = {r} /\ \A u \in User : cache[u] # c
             /\ conns' = [conns EXCEPT ![c] = Unused]
      BY <1>0, <1>4 DEF Finish
    <2>3. \A d \in Conn : \/ conns'[d] = conns[d]
                          \/ /\ d = c /\ Holders(c) = {r} /\ \A u \in User : cache[u] # c
                             /\ conns'[d].st = "unused"
      BY <1>0, <2>2 DEF Unused, Pool
    <2>4. \A t \in Sender : t # r /\ Holders(c) = {r} => caller[t].conn # c
      BY DEF Holders
    <2>5. EveryCommandAnswered' /\ OpensOnMiss'
      BY <1>0, <2>1 DEF PoolInv, EveryCommandAnswered, OpensOnMiss, Key, Cached
    <2>6. CommandsFormed'
      BY <1>0, <2>1 DEF PoolInv, CommandsFormed
    <2>7. CacheSound' /\ ClosedByStop'
      BY <1>0, <2>1, <2>3 DEF PoolInv, CacheSound, ClosedByStop, Cached
    <2>8. LiveIsCached'
      BY <1>0, <2>1, <2>3 DEF PoolInv, LiveIsCached
    <2>9. HoldersAreFresh'
      BY <1>0, <2>1, <2>3, <2>4 DEF PoolInv, HoldersAreFresh
    <2> QED BY <2>5, <2>6, <2>7, <2>8, <2>9 DEF PoolInv
  <1>5. CASE PollFires
    BY <1>0, <1>5, SendStep DEF PollFires
  <1>6. ASSUME PollResets \/ PollStops \/ Booted \/ (\E r \in Request : Accept(r) \/ Return(r))
        PROVE  PoolInv'
    <2>1. PICK s \in Sender :
             /\ \A t \in Sender : t # s => caller'[t] = caller[t]
             /\ caller'[s].pc # "waiting" /\ caller'[s].tag = "none" /\ caller'[s].conn = NoConn
             /\ caller[s].pc # "waiting" /\ (s = Main => main' # "booting")
             /\ UNCHANGED <<conns, cache, left, actor, sendq, shut>>
             /\ main' # "booting" \/ UNCHANGED main
      <3>1. CASE PollResets \/ PollStops \/ Booted
        BY <1>0, <3>1, SenderAssumption DEF PollResets, PollStops, Booted, Idle, Calling
      <3>2. ASSUME NEW r \in Request, Accept(r) \/ Return(r)
            PROVE  /\ \A t \in Sender : t # r => caller'[t] = caller[t]
                   /\ caller'[r].pc # "waiting" /\ caller'[r].tag = "none"
                   /\ caller'[r].conn = NoConn /\ caller[r].pc # "waiting" /\ r # Main
                   /\ UNCHANGED <<conns, cache, left, actor, sendq, main, shut>>
        BY <1>0, <3>2, SenderAssumption DEF Accept, Return, Accepted, Idle, Calling
      <3> QED BY <1>0, <1>6, <3>1, <3>2
    <2>2. EveryCommandAnswered' /\ OpensOnMiss'
      BY <1>0, <2>1 DEF PoolInv, EveryCommandAnswered, OpensOnMiss, Key, Cached
    <2>3. CommandsFormed'
      BY <1>0, <2>1 DEF PoolInv, CommandsFormed
    <2>4. CacheSound' /\ LiveIsCached' /\ ClosedByStop' /\ HoldersAreFresh'
      BY <1>0, <2>1 DEF PoolInv, CacheSound, LiveIsCached, ClosedByStop, HoldersAreFresh, Cached
    <2> QED BY <2>2, <2>3, <2>4 DEF PoolInv
  <1>7. CASE Boot
    BY <1>0, <1>7, SendStep DEF Boot, PoolInv, CommandsFormed
  <1>8. CASE ReturnError \/ ServeError
    BY <1>8, ControlStep DEF ReturnError, ServeError
  <1>9. CASE Signal \/ Drained \/ DrainTimeout \/ WaitDone
    <2>1. shut'.pc \in {"listening", "draining", "stop"} => shut.pc \in {"listening", "draining", "stop"}
      BY <1>0, <1>9 DEF Signal, Drained, DrainTimeout, WaitDone, ShutState
    <2> QED BY <1>9, <2>1, ControlStep DEF Signal, Drained, DrainTimeout, WaitDone
  <1>10. CASE StopIndexDB
    <2>0. \/ shut' = [shut EXCEPT !.pc = "closing", !.todo = Cached]
          \/ shut' = [pc |-> "wait", todo |-> {}, failed |-> TRUE]
      BY <1>10 DEF StopIndexDB, StopFails
    <2>1. shut'.pc \in {"closing", "wait"}
      <3>1. CASE shut' = [pc |-> "wait", todo |-> {}, failed |-> TRUE]
        BY <3>1
      <3>2. CASE shut' = [shut EXCEPT !.pc = "closing", !.todo = Cached]
        <4>1. shut = [pc |-> shut.pc, todo |-> shut.todo, failed |-> shut.failed]
          BY <1>0 DEF ShutState
        <4>2. shut' = [pc |-> "closing", todo |-> Cached, failed |-> shut.failed]
          BY <3>2, <4>1, Zenon
        <4> QED BY <4>2
      <3> QED BY <2>0, <3>1, <3>2
    <2> QED BY <1>10, <2>1, ControlStep DEF StopIndexDB
  <1>11. CASE StopCloseOne
    <2>0. PICK u \in shut.todo :
             \/ UNCHANGED conns
             \/ u \in Cached /\ conns' = Closed(cache[u], "stop")
             \/ u \in Cached /\ CloseFails(cache[u]) /\ conns' = Broken(cache[u], "stop")
      BY <1>11 DEF StopCloseOne
    <2>1. /\ shut.pc = "closing" /\ shut'.pc \in {"closing", "wait"}
          /\ UNCHANGED <<cache, left, actor, caller, sendq, main>>
      BY <1>0, <1>11 DEF StopCloseOne, StopFails, ShutState
    <2>2. CommandsFormed' /\ EveryCommandAnswered' /\ OpensOnMiss'
      BY <2>1 DEF PoolInv, CommandsFormed, EveryCommandAnswered, OpensOnMiss, Key, Cached
    <2>3. CASE UNCHANGED conns
      BY <2>1, <2>3, ControlStep
    <2>4. CASE u \in Cached /\ conns' = Closed(cache[u], "stop")
      <3> DEFINE c == cache[u]
      <3>1. u \in User /\ c \in Conn /\ \A v \in Cached : v \in User /\ cache[v] \in Conn
        BY <1>0, <2>4, CacheInjective DEF PoolInv
      <3>2. /\ \A d \in Conn : d # c => conns'[d] = conns[d]
            /\ conns'[c].st = "closed" /\ conns'[c].user = conns[c].user /\ conns'[c].by = conns[c].by
            /\ conns'[c].cause = "stop"
        BY <1>0, <2>4, <3>1 DEF Closed, Pool, PoolInv, ClosedByStop
      <3>3. CacheSound' /\ ClosedByStop'
        BY <2>1, <3>1, <3>2 DEF PoolInv, CacheSound, ClosedByStop, Cached
      <3>4. LiveIsCached'
        BY <2>1, <3>1, <3>2 DEF PoolInv, LiveIsCached
      <3>5. HoldersAreFresh'
        BY <1>0, <2>1, <3>1, <3>2 DEF PoolInv, HoldersAreFresh
      <3> QED BY <2>2, <3>3, <3>4, <3>5 DEF PoolInv
    <2>5. CASE u \in Cached /\ CloseFails(cache[u]) /\ conns' = Broken(cache[u], "stop")
      <3>1. CallersKeep
        BY <2>1 DEF CallersKeep
      <3>2. CacheSound' /\ LiveIsCached' /\ ClosedByStop' /\ HoldersAreFresh'
        BY <2>1, <2>5, <3>1, BreakEntry
      <3> QED BY <2>2, <3>2 DEF PoolInv
    <2> QED BY <2>0, <2>3, <2>4, <2>5
  <1>12. CASE StopCloseChannel
    <2>1. \A s \in Sender : /\ caller'[s].pc = IF caller[s].pc = "sending" THEN "answered" ELSE caller[s].pc
                            /\ caller'[s].tag = caller[s].tag /\ caller'[s].user = caller[s].user
                            /\ caller'[s].conn = caller[s].conn /\ caller'[s].age = caller[s].age
      BY <1>0, <1>12 DEF StopCloseChannel, CallerState
    <2>2. /\ sendq' = <<>> /\ UNCHANGED <<conns, cache, left, actor, main>>
          /\ shut.pc = "closing" /\ shut'.pc = "wait"
      BY <1>0, <1>12 DEF StopCloseChannel, ShutState
    <2>3. EveryCommandAnswered' /\ OpensOnMiss'
      <3>1. \A s \in Sender : caller'[s].pc = "waiting" <=> caller[s].pc = "waiting"
        BY <2>1
      <3>2. EveryCommandAnswered'
        BY <2>2, <3>1 DEF PoolInv, EveryCommandAnswered
      <3>3. actor.from \in Sender /\ Key' = Key /\ Cached' = Cached
        BY <1>0, <2>1, <2>2, Fields DEF Key, Cached
      <3>4. OpensOnMiss'
        BY <2>1, <2>2, <3>3 DEF PoolInv, OpensOnMiss
      <3> QED BY <3>2, <3>4
    <2>4. CommandsFormed'
      <3>1. main' = "booting" => caller'[Main].pc = "idle"
        BY <2>1, <2>2 DEF PoolInv, CommandsFormed, Sender
      <3>2. \A s \in Sender : caller'[s].tag = "get" => caller'[s].user \in User
        BY <2>1 DEF PoolInv, CommandsFormed
      <3> QED BY <2>2, <3>1, <3>2 DEF CommandsFormed
    <2>5. CacheSound' /\ LiveIsCached' /\ ClosedByStop'
      BY <2>2 DEF PoolInv, CacheSound, LiveIsCached, ClosedByStop, Cached
    <2>6. HoldersAreFresh'
      BY <1>0, <2>1, <2>2 DEF PoolInv, HoldersAreFresh
    <2> QED BY <2>3, <2>4, <2>5, <2>6 DEF PoolInv
  <1>13. CASE Tick
    <2>1. \A s \in Sender : /\ caller'[s].pc = caller[s].pc /\ caller'[s].tag = caller[s].tag
                            /\ caller'[s].user = caller[s].user /\ caller'[s].conn = caller[s].conn
                            /\ caller[s].conn # NoConn => caller'[s].age = Least(caller[s].age + 1, TTL + 1)
      BY <1>0, <1>13 DEF Tick, CallerState
    <2>2. /\ UNCHANGED <<conns, cache, actor, sendq, main, shut>>
          /\ \A u \in User : left'[u] = IF left[u] < 0 THEN left[u] ELSE left[u] - 1
      BY <1>13 DEF Tick
    <2>3. EveryCommandAnswered' /\ OpensOnMiss'
      BY <1>0, <2>1, <2>2 DEF PoolInv, EveryCommandAnswered, OpensOnMiss, Key, Cached
    <2>4. CommandsFormed'
      BY <1>0, <2>1, <2>2 DEF PoolInv, CommandsFormed
    <2>5. CacheSound' /\ LiveIsCached' /\ ClosedByStop'
      BY <2>2 DEF PoolInv, CacheSound, LiveIsCached, ClosedByStop, Cached
    <2>6. HoldersAreFresh'
      <3> SUFFICES ASSUME NEW s \in Sender, caller[s].conn # NoConn
                   PROVE  /\ conns[caller[s].conn].st # "unused"
                          /\ \A u \in User : cache[u] = caller[s].conn => left'[u] + caller'[s].age >= TTL
                          /\ conns[caller[s].conn].st = "closed" /\ conns[caller[s].conn].cause = "expire"
                                => caller'[s].age > TTL
        BY <2>1, <2>2 DEF HoldersAreFresh
      <3>1. /\ conns[caller[s].conn].st # "unused"
            /\ conns[caller[s].conn].st = "closed" /\ conns[caller[s].conn].cause = "expire"
                  => caller[s].age > TTL
            /\ \A u \in User : cache[u] = caller[s].conn => left[u] + caller[s].age >= TTL
        BY DEF PoolInv, HoldersAreFresh
      <3>2. caller[s].age \in 0..(TTL + 1) /\ caller'[s].age = Least(caller[s].age + 1, TTL + 1)
        BY <1>0, <2>1
      <3>3. ASSUME NEW u \in User, cache[u] = caller[s].conn
            PROVE  left'[u] + caller'[s].age >= TTL
        <4>1. left[u] + caller[s].age >= TTL /\ left[u] \in -1..TTL
          BY <1>0, <3>1, <3>3
        <4> QED BY <2>2, <3>2, <4>1 DEF Least
      <3>4. caller[s].age > TTL => caller'[s].age > TTL
        BY <3>2 DEF Least
      <3> QED BY <3>1, <3>3, <3>4
    <2> QED BY <2>3, <2>4, <2>5, <2>6 DEF PoolInv
  <1> QED
    BY <1>1, <1>2, <1>3, <1>4, <1>5, <1>6, <1>7, <1>8, <1>9, <1>10, <1>11, <1>12, <1>13, ActorStep
       DEF Running, RequestNext, PollerNext, MainNext, ShutNext

-----------------------------------------------------------------------------
(* The theorems.                                                             *)

LEMMA PoolInvInit == Init => PoolInv
  <1> SUFFICES ASSUME Init PROVE PoolInv OBVIOUS
  <1>1. /\ \A c \in Conn : conns[c].st = "unused"
        /\ \A s \in Sender : caller[s].pc = "idle" /\ caller[s].tag = "none" /\ caller[s].conn = NoConn
        /\ Cached = {} /\ sendq = <<>> /\ actor.pc = "recv" /\ Main \in Sender
    BY DEF Init, Unused, Pool, Idle, Calling, Cached, Sender
  <1>2. EveryCommandAnswered /\ CommandsFormed /\ OpensOnMiss
    BY <1>1 DEF EveryCommandAnswered, CommandsFormed, OpensOnMiss
  <1>3. CacheSound /\ LiveIsCached /\ ClosedByStop /\ HoldersAreFresh
    BY <1>1 DEF CacheSound, LiveIsCached, ClosedByStop, HoldersAreFresh
  <1> QED BY <1>2, <1>3, TypeInit DEF PoolInv

LEMMA PoolInvStep == PoolInv /\ [Next]_vars => PoolInv'
  <1> SUFFICES ASSUME PoolInv, [Next]_vars PROVE PoolInv' OBVIOUS
  <1>1. TypeOK'
    BY TypeStep DEF PoolInv
  <1>2. CASE Running
    BY <1>1, <1>2, OthersStep
  <1>3. CASE UNCHANGED vars
    BY <1>3 DEF vars, PoolInv, TypeOK, EveryCommandAnswered, CommandsFormed, CacheSound, LiveIsCached, ClosedByStop,
                OpensOnMiss, HoldersAreFresh, Cached, Key
  <1> QED BY <1>2, <1>3 DEF Next, Terminated

\* The strengthened invariant of the manager's pools is inductive.
THEOREM PoolsCorrect == Spec => []PoolInv
  BY PoolInvInit, PoolInvStep, PTL DEF Spec

\* The variables keep their types.
THEOREM TypeCorrect == Spec => []TypeOK
  <1>1. PoolInv => TypeOK BY DEF PoolInv
  <1> QED BY <1>1, PoolsCorrect, PTL

\* A user never has two live pools opened by getNotesStore, however commands,
\* expiry rounds, failing closes and a stop interleave.
THEOREM SinglePoolCorrect == Spec => []SinglePool
  <1>1. PoolInv => SinglePool
    BY DEF PoolInv, LiveIsCached, SinglePool
  <1> QED BY <1>1, PoolsCorrect, PTL

\* What the map holds for a user is that user's pool, and is usable unless its
\* Close reported an error or Stop has run.
THEOREM CacheSoundCorrect == Spec => []CacheSound
  <1>1. PoolInv => CacheSound BY DEF PoolInv
  <1> QED BY <1>1, PoolsCorrect, PTL

\* An expiry round never closes a pool that a handler got less than ttl ago.
THEOREM FreshHolderCorrect == Spec => []FreshHolderKeepsPool
  <1>1. PoolInv => FreshHolderKeepsPool
    BY DEF PoolInv, HoldersAreFresh, FreshHolderKeepsPool, Sender
  <1> QED BY <1>1, PoolsCorrect, PTL

\* The actor owes an answer to exactly the goroutine that waits for one.
THEOREM AnswersCorrect == Spec => []EveryCommandAnswered
  <1>1. PoolInv => EveryCommandAnswered BY DEF PoolInv
  <1> QED BY <1>1, PoolsCorrect, PTL
=============================================================================
