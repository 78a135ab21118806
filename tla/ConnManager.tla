---------------------------- MODULE ConnManager ----------------------------
(***************************************************************************)
(* The connection manager of user-store/sqliteconncache.go and the         *)
(* goroutines around it.  One goroutine (the actor) owns a map from user   *)
(* to an open pool of connections and serves commands that the other       *)
(* goroutines send on an unbuffered channel: request handlers, the main    *)
(* goroutine while it boots, and a poller that asks for the removal of     *)
(* expired entries.  The shutdown goroutine of web/server.go calls Stop,   *)
(* which touches the map from outside the actor.                           *)
(*                                                                         *)
(* Time is relative: left[u] is the entry's expiry minus the present, so   *)
(* that the clock itself needs no bound; it saturates at -1 (expired).     *)
(* What the database files and the index rows contain belongs to another   *)
(* module: here a row lookup or an open either succeeds or fails.          *)
(***************************************************************************)
EXTENDS Integers, Sequences

CONSTANTS
    User,          \* keys of the manager's map
    Request,       \* HTTP handlers that may be in flight together
    Conn,          \* identities of sqlitex.SQLiteDB values; as many as can be open
    Main, Poller,  \* the two other goroutines that send commands
    NoConn, NoUser,
    TTL,           \* life of an entry, in ticks (8 hours in the code)
    Interval,      \* period of the poller, in ticks (10 minutes)
    CloseMayFail   \* may SQLiteDB.Close report an error?

ASSUME TtlAssumption == TTL \in Nat /\ Interval \in Nat
ASSUME FaultAssumption == CloseMayFail \in BOOLEAN
ASSUME SentinelAssumption == NoConn \notin Conn /\ NoUser \notin User
ASSUME SenderAssumption ==
    Main # Poller /\ Main \notin Request /\ Poller \notin Request

VARIABLES
    conns,    \* every pool opened: its state, its user, which command opened it
    cache,    \* s.connections: the pool cached for a user
    left,     \* time left to the entry of a user
    actor,    \* the goroutine of Start: what it does, for whom, what is left to do
    caller,   \* every goroutine that sends commands
    sendq,    \* senders blocked on s.commands, in order
    chan,     \* s.commands: open or closed
    indexDB,  \* s.UserStore.DB: open or closed
    timer,    \* ticks before the poller's timer fires
    main,     \* the goroutine of RunServer
    shut      \* the shutdown goroutine: where it is, entries Stop has yet to close

vars == <<conns, cache, left, actor, caller, sendq, chan, indexDB, timer, main, shut>>

Sender == Request \cup {Main, Poller}
Tag == {"get", "remove", "create", "delete", "migrate", "state", "expire"}

Cached == {u \in User : cache[u] # NoConn}
Ended == main \in {"stopped", "exited", "crashed"}

-----------------------------------------------------------------------------
(* Pools of connections.                                                    *)

Pool(st, user, by, cause) == [st |-> st, user |-> user, by |-> by, cause |-> cause]
Unused == Pool("unused", NoUser, "none", "none")

Holders(c) == {s \in Sender : caller[s].conn = c}
Opened(c, u, tag) == [conns EXCEPT ![c] = Pool("open", u, tag, "none")]
Closed(c, why) ==
    [conns EXCEPT ![c] = Pool("closed", @.user, @.by, IF @.st = "closed" THEN @.cause ELSE why)]
Broken(c, why) == [conns EXCEPT ![c] = Pool("broken", @.user, @.by, why)]

\* A pool that left the map when it was closed gives its identity back, at once
\* or when the last handler that holds it is done.
\* The variant takes it out of the map without closing it.
Abandoned(c, why) == conns
Dropped(c, why) == IF Holders(c) = {} THEN [conns EXCEPT ![c] = Unused] ELSE Closed(c, why)

\* sql.DB.Close answers nil when the pool is closed already, so only the first
\* attempt can fail; the pool is closed even when it does.
CloseFails(c) == CloseMayFail /\ conns[c].st = "open"

-----------------------------------------------------------------------------
(* Entries of the map.                                                       *)

\* A use gives the entry its whole life again; the two variants add the life to
\* what is left, and renew a new entry only.
Extended(u) == [left EXCEPT ![u] = @ + TTL]
RenewedOnce(u) == [left EXCEPT ![u] = IF u \in Cached THEN @ ELSE TTL]
Renewed(u) == [left EXCEPT ![u] = TTL]

\* The comparison of removeExpired; the variant is off by one.
ExpiredEarly(u) == left[u] <= 0
Expired(u) == left[u] < 0

\* The entry is deleted; the variant forgets to.
Remembered(u) == cache
Forgotten(u) == [cache EXCEPT ![u] = NoConn]

-----------------------------------------------------------------------------
(* chanutil.SendReceive: send, wait for the answer.                          *)

Calling(pc, op, tag, u) ==
    [pc |-> pc, op |-> op, tag |-> tag, user |-> u, ok |-> FALSE, conn |-> NoConn, age |-> 0]
Idle == Calling("idle", "none", "none", NoUser)
Accepted == Calling("accepted", "none", "none", NoUser)

\* On a closed channel the send panics, which the callee turns into io.EOF.
Send(s, op, tag, u) ==
    \/ /\ chan = "open"
       /\ caller' = [caller EXCEPT ![s] = Calling("sending", op, tag, u)]
       /\ sendq' = Append(sendq, s)
    \/ /\ chan = "closed"
       /\ caller' = [caller EXCEPT ![s] = Calling("answered", op, tag, u)]
       /\ UNCHANGED sendq

\* The actor answers the caller it serves and ranges over the channel again.
Reply(ok, c) ==
    /\ caller' = [caller EXCEPT ![actor.from] =
                     [pc |-> "answered", op |-> @.op, tag |-> @.tag, user |-> @.user,
                      ok |-> ok, conn |-> c, age |-> 0]]
    /\ actor' = [pc |-> "recv", from |-> Main, todo |-> {}]

-----------------------------------------------------------------------------
(* The actor.                                                                *)

Serving(tag) == actor.pc = "handle" /\ caller[actor.from].tag = tag
Key == caller[actor.from].user

\* What a command has to go through: the map for an expiry round, the rows of
\* the outdated databases for a migration.
Worklist(tag) ==
    CASE tag = "expire"  -> {Cached}
      [] tag = "migrate" -> SUBSET User
      [] OTHER           -> {{}}

Receive ==
    /\ actor.pc = "recv"
    /\ sendq # <<>>
    /\ \E todo \in Worklist(caller[Head(sendq)].tag) :
          actor' = [pc |-> "handle", from |-> Head(sendq), todo |-> todo]
    /\ caller' = [caller EXCEPT ![Head(sendq)].pc = "waiting"]
    /\ sendq' = Tail(sendq)
    /\ UNCHANGED <<conns, cache, left, chan, indexDB, timer, main, shut>>

\* The range loop ends on a closed channel; the deferred cancel stops the poller.
LoopEnds ==
    /\ actor.pc = "recv"
    /\ chan = "closed"
    /\ actor' = [actor EXCEPT !.pc = "exited"]
    /\ UNCHANGED <<conns, cache, left, caller, sendq, chan, indexDB, timer, main, shut>>

GetHit ==
    /\ Serving("get")
    /\ Key \in Cached
    /\ left' = Renewed(Key)
    /\ Reply(TRUE, cache[Key])
    /\ UNCHANGED <<conns, cache, sendq, chan, indexDB, timer, main, shut>>

\* createNewConnection first reads the row of the user in the index database;
\* a missing row, a cancelled request or a closed index database is an error.
LookupRow ==
    /\ (Serving("get") /\ Key \notin Cached) \/ Serving("create")
    /\ \/ /\ indexDB = "open"
          /\ actor' = [actor EXCEPT !.pc = "open"]
          /\ UNCHANGED caller
       \/ Reply(FALSE, NoConn)
    /\ UNCHANGED <<conns, cache, left, sendq, chan, indexDB, timer, main, shut>>

\* A pool opened for a request is cached.  When Stop is ranging over the map at
\* that moment it may or may not come across the new entry.
OpenForGet ==
    /\ actor.pc = "open"
    /\ caller[actor.from].tag = "get"
    /\ \E c \in Conn :
          /\ conns[c].st = "unused"
          /\ conns' = Opened(c, Key, "get")
          /\ cache' = [cache EXCEPT ![Key] = c]
          /\ left' = Renewed(Key)
          /\ Reply(TRUE, c)
    /\ \/ UNCHANGED shut
       \/ shut.pc = "closing" /\ shut' = [shut EXCEPT !.todo = @ \cup {Key}]
    /\ UNCHANGED <<sendq, chan, indexDB, timer, main>>

\* A pool opened to bootstrap a new database is neither cached nor closed.  The
\* bootstrap may fail, and so does UpdateDBVersion on a closed index database.
OpenForCreate ==
    /\ actor.pc = "open"
    /\ caller[actor.from].tag = "create"
    /\ \E c \in Conn : conns[c].st = "unused" /\ conns' = Opened(c, Key, "create")
    /\ \/ indexDB = "open" /\ Reply(TRUE, NoConn)
       \/ Reply(FALSE, NoConn)
    /\ UNCHANGED <<cache, left, sendq, chan, indexDB, timer, main, shut>>

\* NewSQLiteDB fails, for instance when no more pool can be opened.
OpenFails ==
    /\ actor.pc = "open"
    /\ Reply(FALSE, NoConn)
    /\ UNCHANGED <<conns, cache, left, sendq, chan, indexDB, timer, main, shut>>

\* removeConnection: an entry whose Close reports an error stays in the map.
RemoveConnection ==
    /\ Serving("remove")
    /\ LET c == cache[Key] IN
       \/ /\ Key \notin Cached
          /\ UNCHANGED <<conns, cache>>
          /\ Reply(TRUE, NoConn)
       \/ /\ Key \in Cached
          /\ conns' = Dropped(c, "remove")
          /\ cache' = Forgotten(Key)
          /\ Reply(TRUE, NoConn)
       \/ /\ Key \in Cached
          /\ CloseFails(c)
          /\ conns' = Broken(c, "remove")
          /\ UNCHANGED cache
          /\ Reply(FALSE, NoConn)
    /\ UNCHANGED <<left, sendq, chan, indexDB, timer, main, shut>>

\* deleteDatabase removes the file only; the manager's own state is untouched.
DeleteDatabase ==
    /\ Serving("delete")
    /\ \/ indexDB = "open" /\ Reply(TRUE, NoConn)
       \/ Reply(FALSE, NoConn)
    /\ UNCHANGED <<conns, cache, left, sendq, chan, indexDB, timer, main, shut>>

\* GetState only reads; the variant returns without an answer.
GetStateSilently ==
    /\ Serving("state")
    /\ actor' = [pc |-> "recv", from |-> Main, todo |-> {}]
    /\ UNCHANGED <<conns, cache, left, caller, sendq, chan, indexDB, timer, main, shut>>

GetState ==
    /\ Serving("state")
    /\ Reply(TRUE, NoConn)
    /\ UNCHANGED <<conns, cache, left, sendq, chan, indexDB, timer, main, shut>>

\* One outdated database of runMigrations: its pool is never closed.  The first
\* error ends the command, before or after the pool was opened.
MigrateOne ==
    /\ Serving("migrate")
    /\ \E u \in actor.todo, c \in Conn :
          /\ conns[c].st = "unused"
          /\ conns' = Opened(c, u, "migrate")
          /\ \/ /\ actor' = [actor EXCEPT !.todo = @ \ {u}]
                /\ UNCHANGED caller
             \/ Reply(FALSE, NoConn)
    /\ UNCHANGED <<cache, left, sendq, chan, indexDB, timer, main, shut>>

MigrateEnds ==
    /\ Serving("migrate")
    /\ \/ actor.todo = {} /\ Reply(TRUE, NoConn)
       \/ Reply(FALSE, NoConn)
    /\ UNCHANGED <<conns, cache, left, sendq, chan, indexDB, timer, main, shut>>

\* One turn of the loop of removeExpired, for an entry in any order.
ExpireOne ==
    /\ Serving("expire")
    /\ \E u \in actor.todo :
       LET next == [actor EXCEPT !.todo = @ \ {u}] IN
       \/ /\ u \notin Cached \/ ~Expired(u)
          /\ actor' = next
          /\ UNCHANGED <<conns, cache, caller>>
       \/ /\ u \in Cached /\ Expired(u)
          /\ conns' = Dropped(cache[u], "expire")
          /\ cache' = Forgotten(u)
          /\ actor' = next
          /\ UNCHANGED caller
       \/ /\ u \in Cached /\ Expired(u)
          /\ CloseFails(cache[u])
          /\ conns' = Broken(cache[u], "expire")
          /\ Reply(FALSE, NoConn)
          /\ UNCHANGED cache
    /\ UNCHANGED <<left, sendq, chan, indexDB, timer, main, shut>>

ExpireEnds ==
    /\ Serving("expire")
    /\ actor.todo = {}
    /\ Reply(TRUE, NoConn)
    /\ UNCHANGED <<conns, cache, left, sendq, chan, indexDB, timer, main, shut>>

\* Stop ranges over the map without any synchronisation with the actor.  The Go
\* runtime may detect the actor's write to the map and kill the process.
MapRace ==
    /\ shut.pc = "closing"
    /\ \/ actor.pc = "open" /\ caller[actor.from].tag = "get"
       \/ Serving("remove") /\ Key \in Cached
       \/ Serving("expire") /\ \E u \in actor.todo \cap Cached : Expired(u)
    /\ main' = "crashed"
    /\ UNCHANGED <<conns, cache, left, actor, caller, sendq, chan, indexDB, timer, shut>>

ActorNext ==
    \/ Receive \/ LoopEnds
    \/ GetHit \/ LookupRow \/ OpenForGet \/ OpenForCreate \/ OpenFails
    \/ RemoveConnection \/ DeleteDatabase \/ GetState
    \/ MigrateOne \/ MigrateEnds
    \/ ExpireOne \/ ExpireEnds

-----------------------------------------------------------------------------
(* Request handlers.                                                         *)

\* The first command of each exported method; DeleteDB begins with Remove.
FirstTag(op) == IF op = "deleteDB" THEN "remove" ELSE op

\* A handler starts while the listener is open.
Accept(r) ==
    /\ main = "serving"
    /\ shut.pc = "listening"
    /\ caller[r].pc = "idle"
    /\ caller' = [caller EXCEPT ![r] = Accepted]
    /\ UNCHANGED <<conns, cache, left, actor, sendq, chan, indexDB, timer, main, shut>>

\* Then it may come to its command at any time, whatever has become of the
\* listener and of the manager since.
Call(r) ==
    /\ caller[r].pc = "accepted"
    /\ \/ \E op \in {"get", "remove", "create", "deleteDB"}, u \in User :
             Send(r, op, FirstTag(op), u)
       \/ Send(r, "state", "state", NoUser)
    /\ UNCHANGED <<conns, cache, left, actor, chan, indexDB, timer, main, shut>>

\* Or it answers without one.
Return(r) ==
    /\ caller[r].pc = "accepted"
    /\ caller' = [caller EXCEPT ![r] = Idle]
    /\ UNCHANGED <<conns, cache, left, actor, sendq, chan, indexDB, timer, main, shut>>

\* DeleteDB goes on with a second command once Remove has succeeded.
DeleteDBSecond(r) ==
    /\ caller[r].pc = "answered"
    /\ caller[r].op = "deleteDB" /\ caller[r].tag = "remove" /\ caller[r].ok
    /\ Send(r, "deleteDB", "delete", caller[r].user)
    /\ UNCHANGED <<conns, cache, left, actor, chan, indexDB, timer, main, shut>>

\* The handler is done with the answer, and with the pool it was given.
Finish(r) ==
    /\ caller[r].pc = "answered"
    /\ ~(caller[r].op = "deleteDB" /\ caller[r].tag = "remove" /\ caller[r].ok)
    /\ caller' = [caller EXCEPT ![r] = Idle]
    /\ LET c == caller[r].conn IN
       IF c # NoConn /\ Holders(c) = {r} /\ (\A u \in User : cache[u] # c)
       THEN conns' = [conns EXCEPT ![c] = Unused]
       ELSE UNCHANGED conns
    /\ UNCHANGED <<cache, left, actor, sendq, chan, indexDB, timer, main, shut>>

-----------------------------------------------------------------------------
(* The poller.                                                               *)

PollFires ==
    /\ caller[Poller].pc = "idle"
    /\ timer = 0
    /\ Send(Poller, "expire", "expire", NoUser)
    /\ UNCHANGED <<conns, cache, left, actor, chan, indexDB, timer, main, shut>>

\* After an answer the timer is armed again; the variant forgets to.
PollRestsForever ==
    /\ caller[Poller].pc = "answered"
    /\ caller' = [caller EXCEPT ![Poller] = Idle]
    /\ timer' = -1
    /\ UNCHANGED <<conns, cache, left, actor, sendq, chan, indexDB, main, shut>>

PollResets ==
    /\ caller[Poller].pc = "answered"
    /\ caller' = [caller EXCEPT ![Poller] = Idle]
    /\ timer' = Interval
    /\ UNCHANGED <<conns, cache, left, actor, sendq, chan, indexDB, main, shut>>

\* Its context is cancelled when the actor's loop has ended.
PollStops ==
    /\ caller[Poller].pc = "idle"
    /\ actor.pc = "exited"
    /\ caller' = [caller EXCEPT ![Poller] = Calling("done", "none", "none", NoUser)]
    /\ UNCHANGED <<conns, cache, left, actor, sendq, chan, indexDB, timer, main, shut>>

PollerNext == PollFires \/ PollResets \/ PollStops

-----------------------------------------------------------------------------
(* RunServer.                                                                *)

\* Start has been called; the server migrates before it listens.
Boot ==
    /\ main = "booting"
    /\ Send(Main, "migrate", "migrate", NoUser)
    /\ main' = "migrating"
    /\ UNCHANGED <<conns, cache, left, actor, chan, indexDB, timer, shut>>

\* A failed migration, or a failure of what follows it, ends the process.
Booted ==
    /\ main = "migrating"
    /\ caller[Main].pc = "answered"
    /\ \/ caller[Main].ok /\ main' = "serving"
       \/ main' = "exited"
    /\ caller' = [caller EXCEPT ![Main] = Idle]
    /\ UNCHANGED <<conns, cache, left, actor, sendq, chan, indexDB, timer, shut>>

\* ListenAndServe returns an error other than ErrServerClosed.
ServeError ==
    /\ main = "serving"
    /\ main' = "exited"
    /\ UNCHANGED <<conns, cache, left, actor, caller, sendq, chan, indexDB, timer, shut>>

\* RunServer returns the error that the shutdown goroutine passed to it.
ReturnError ==
    /\ main = "returning"
    /\ main' = "exited"
    /\ UNCHANGED <<conns, cache, left, actor, caller, sendq, chan, indexDB, timer, shut>>

MainNext == Boot \/ Booted \/ ReturnError

-----------------------------------------------------------------------------
(* The shutdown goroutine and Stop.                                          *)

\* Shutdown closes the listener: ListenAndServe returns and RunServer waits for
\* an answer on shutdownError.
Signal ==
    /\ main = "serving"
    /\ shut.pc = "listening"
    /\ shut' = [shut EXCEPT !.pc = "draining"]
    /\ main' = "waiting"
    /\ UNCHANGED <<conns, cache, left, actor, caller, sendq, chan, indexDB, timer>>

\* Shutdown waits for the handlers; the variant does not.
DrainedAtOnce ==
    /\ shut.pc = "draining"
    /\ shut' = [shut EXCEPT !.pc = "stop"]
    /\ UNCHANGED <<conns, cache, left, actor, caller, sendq, chan, indexDB, timer, main>>

Drained ==
    /\ shut.pc = "draining"
    /\ \A r \in Request : caller[r].pc = "idle"
    /\ shut' = [shut EXCEPT !.pc = "stop"]
    /\ UNCHANGED <<conns, cache, left, actor, caller, sendq, chan, indexDB, timer, main>>

\* After 30 seconds RunServer gets the error, and Stop is called all the same.
DrainTimeout ==
    /\ shut.pc = "draining"
    /\ \E r \in Request : caller[r].pc # "idle"
    /\ shut' = [shut EXCEPT !.pc = "stop"]
    /\ main' = "returning"
    /\ UNCHANGED <<conns, cache, left, actor, caller, sendq, chan, indexDB, timer>>

\* Stop returns at the first error, leaving the channel open.
StopFails == shut' = [pc |-> "wait", todo |-> {}, failed |-> TRUE]

StopIndexDB ==
    /\ shut.pc = "stop"
    /\ indexDB' = "closed"
    /\ \/ shut' = [shut EXCEPT !.pc = "closing", !.todo = Cached]
       \/ CloseMayFail /\ StopFails
    /\ UNCHANGED <<conns, cache, left, actor, caller, sendq, chan, timer, main>>

\* The entries stay in the map; one that the actor deleted meanwhile is skipped.
StopCloseOne ==
    /\ shut.pc = "closing"
    /\ \E u \in shut.todo :
       LET next == [shut EXCEPT !.todo = @ \ {u}] IN
       \/ u \notin Cached /\ shut' = next /\ UNCHANGED conns
       \/ u \in Cached /\ shut' = next /\ conns' = Closed(cache[u], "stop")
       \/ u \in Cached /\ CloseFails(cache[u]) /\ StopFails /\ conns' = Broken(cache[u], "stop")
    /\ UNCHANGED <<cache, left, actor, caller, sendq, chan, indexDB, timer, main>>

\* close(s.commands): every blocked sender panics and returns io.EOF.  The
\* variant returns from Stop with the channel open.
StopForgetsChannel ==
    /\ shut.pc = "closing"
    /\ shut.todo = {}
    /\ shut' = [shut EXCEPT !.pc = "wait"]
    /\ UNCHANGED <<conns, cache, left, actor, caller, sendq, chan, indexDB, timer, main>>

StopCloseChannel ==
    /\ shut.pc = "closing"
    /\ shut.todo = {}
    /\ chan' = "closed"
    /\ caller' = [s \in Sender |->
                     IF caller[s].pc = "sending" THEN [caller[s] EXCEPT !.pc = "answered"] ELSE caller[s]]
    /\ sendq' = <<>>
    /\ shut' = [shut EXCEPT !.pc = "wait"]
    /\ UNCHANGED <<conns, cache, left, actor, indexDB, timer, main>>

\* wg.Wait returns, and RunServer with it unless it has returned already.
WaitDone ==
    /\ shut.pc = "wait"
    /\ actor.pc = "exited"
    /\ caller[Poller].pc = "done"
    /\ main = "waiting"
    /\ shut' = [shut EXCEPT !.pc = "done"]
    /\ main' = "stopped"
    /\ UNCHANGED <<conns, cache, left, actor, caller, sendq, chan, indexDB, timer>>

ShutNext == Drained \/ DrainTimeout \/ StopIndexDB \/ StopCloseOne \/ StopCloseChannel \/ WaitDone

-----------------------------------------------------------------------------
Least(a, b) == IF a < b THEN a ELSE b

\* The passage of time.  The timer runs while the poller sits in its select; an
\* age tells how long a handler has held the pool it was given.
Tick ==
    /\ left' = [u \in User |-> IF left[u] < 0 THEN left[u] ELSE left[u] - 1]
    /\ timer' = IF caller[Poller].pc = "idle" /\ timer > 0 THEN timer - 1 ELSE timer
    /\ caller' = [s \in Sender |->
                     IF caller[s].conn = NoConn THEN caller[s]
                     ELSE [caller[s] EXCEPT !.age = Least(@ + 1, TTL + 1)]]
    /\ UNCHANGED <<conns, cache, actor, sendq, chan, indexDB, main, shut>>

Init ==
    /\ conns = [c \in Conn |-> Unused]
    /\ cache = [u \in User |-> NoConn]
    /\ left = [u \in User |-> -1]
    /\ actor = [pc |-> "recv", from |-> Main, todo |-> {}]
    /\ caller = [s \in Sender |-> Idle]
    /\ sendq = <<>>
    /\ chan = "open"
    /\ indexDB = "open"
    /\ timer = Interval
    /\ main = "booting"
    /\ shut = [pc |-> "listening", todo |-> {}, failed |-> FALSE]

RequestNext ==
    \E r \in Request : Accept(r) \/ Call(r) \/ Return(r) \/ DeleteDBSecond(r) \/ Finish(r)

Running == ActorNext \/ MapRace \/ PollerNext \/ MainNext \/ ServeError
              \/ Signal \/ ShutNext \/ RequestNext \/ Tick

\* A process that has ended stays ended.
Terminated == Ended /\ UNCHANGED vars

Next == (~Ended /\ Running) \/ Terminated

\* The Go scheduler runs every goroutine that can run; time passes; a handler
\* that has its answer goes on.  Signals, faults and races are not promised.
\* A select picks among its ready cases at random, so the poller does not
\* overlook its cancelled context for ever: strong fairness.
Fairness ==
    /\ WF_vars(~Ended /\ ActorNext)
    /\ WF_vars(~Ended /\ PollerNext)
    /\ SF_vars(~Ended /\ PollStops)
    /\ WF_vars(~Ended /\ MainNext)
    /\ WF_vars(~Ended /\ ShutNext)
    /\ WF_vars(~Ended /\ Tick)
    /\ \A r \in Request : WF_vars(~Ended /\ (DeleteDBSecond(r) \/ Finish(r)))

Spec == Init /\ [][Next]_vars
FairSpec == Spec /\ Fairness
-----------------------------------------------------------------------------
(* What the manager promises.                                                *)

PoolState ==
    [st : {"unused", "open", "closed", "broken"}, user : User \cup {NoUser},
     by : {"none", "get", "create", "migrate"}, cause : {"none", "expire", "remove", "stop"}]
CallerState ==
    [pc : {"idle", "accepted", "sending", "waiting", "answered", "done"},
     op : Tag \cup {"deleteDB", "none"}, tag : Tag \cup {"none"},
     user : User \cup {NoUser}, ok : BOOLEAN,
     conn : Conn \cup {NoConn}, age : 0..(TTL + 1)]
ActorState == [pc : {"recv", "handle", "open", "exited"}, from : Sender, todo : SUBSET User]
ShutState ==
    [pc : {"listening", "draining", "stop", "closing", "wait", "done"},
     todo : SUBSET User, failed : BOOLEAN]

\* The variables keep their types.
TypeOK ==
    /\ conns \in [Conn -> PoolState]
    /\ cache \in [User -> Conn \cup {NoConn}]
    /\ left \in [User -> -1..TTL]
    /\ actor \in ActorState
    /\ caller \in [Sender -> CallerState]
    /\ sendq \in Seq(Sender)
    /\ chan \in {"open", "closed"}
    /\ indexDB \in {"open", "closed"}
    /\ timer \in 0..Interval
    /\ main \in {"booting", "migrating", "serving", "waiting", "returning",
                 "stopped", "exited", "crashed"}
    /\ shut \in ShutState

\* What the map holds for a user was opened for that user by getNotesStore and,
\* until Stop runs, is usable; the exception is a pool whose Close reported an
\* error, which removeConnection leaves in the map.
CacheSound ==
    \A u \in Cached :
        LET c == conns[cache[u]] IN
        /\ c.user = u /\ c.by = "get"
        /\ shut.pc \in {"listening", "draining", "stop"} => c.st \in {"open", "broken"}
        /\ c.st = "broken" => CloseMayFail

\* A user never has two live pools opened by getNotesStore: each pool has one
\* writer connection, and that is what serialises the user's writes.
SinglePool ==
    \A c, d \in Conn :
        /\ conns[c].st = "open" /\ conns[c].by = "get"
        /\ conns[d].st = "open" /\ conns[d].by = "get"
        /\ conns[c].user = conns[d].user
        => c = d

\* The expiry round never closes the pool of a handler that got it less than ttl
\* ago: GetNotesStore renews the entry on every use, removeExpired compares late.
FreshHolderKeepsPool ==
    \A r \in Request :
        LET c == caller[r].conn IN
        c # NoConn /\ conns[c].st = "closed" /\ conns[c].cause = "expire"
            => caller[r].age > TTL

\* A goroutine waits for an answer exactly when the actor is busy with its
\* command, so no path through the actor forgets or misdirects an answer.
EveryCommandAnswered ==
    \A s \in Sender :
        caller[s].pc = "waiting" <=> actor.pc \in {"handle", "open"} /\ actor.from = s

\* When RunServer returns after a graceful stop without errors, the goroutines
\* are gone, no command is pending and every pool opened for requests is closed.
\* (The pools of createDatabase and runMigrations are never closed.)
CleanStop ==
    main = "stopped" /\ ~shut.failed =>
        /\ actor.pc = "exited"
        /\ \A s \in Sender : caller[s].pc \in {"idle", "done"}
        /\ \A c \in Conn : conns[c].st = "open" => conns[c].by # "get"

-----------------------------------------------------------------------------
(* The inductive invariant behind SinglePool, CacheSound, EveryCommand-      *)
(* Answered and FreshHolderKeepsPool.                                        *)

\* A get carries a user; the main goroutine sends nothing before it boots.
CommandsFormed ==
    /\ \A s \in Sender : caller[s].tag = "get" => caller[s].user \in User
    /\ main = "booting" =>
          caller[Main].pc = "idle" /\ \A i \in 1..Len(sendq) : sendq[i] # Main

\* A live pool opened by getNotesStore is the one in the map.
LiveIsCached ==
    \A c \in Conn :
        conns[c].st = "open" /\ conns[c].by = "get" =>
            conns[c].user \in User /\ cache[conns[c].user] = c

\* Only Stop leaves a closed pool in the map.
ClosedByStop ==
    \A u \in Cached :
        /\ conns[cache[u]].st # "unused"
        /\ conns[cache[u]].st = "closed" => conns[cache[u]].cause = "stop"

\* While the actor opens a pool for a user, no entry of that user appears.
OpensOnMiss == actor.pc = "open" /\ caller[actor.from].tag = "get" => Key \notin Cached

\* A pool in a handler's hands keeps its identity, and its entry has at least
\* the time left that the handler's age allows.
HoldersAreFresh ==
    \A s \in Sender :
        LET c == caller[s].conn IN
        c # NoConn =>
            /\ conns[c].st # "unused"
            /\ \A u \in User : cache[u] = c => left[u] + caller[s].age >= TTL
            /\ conns[c].st = "closed" /\ conns[c].cause = "expire" => caller[s].age > TTL

PoolInv ==
    /\ TypeOK
    /\ EveryCommandAnswered
    /\ CommandsFormed
    /\ CacheSound
    /\ LiveIsCached
    /\ ClosedByStop
    /\ OpensOnMiss
    /\ HoldersAreFresh

-----------------------------------------------------------------------------
\* Every command of a handler gets an answer or io.EOF, unless the process ends.
CallsReturn ==
    \A r \in Request :
        caller[r].pc \in {"sending", "waiting"} ~> (caller[r].pc = "answered" \/ Ended)

\* A shutdown that has begun ends the process; after an error from a Close it
\* may hang, since Stop then leaves the channel open and wg.Wait never returns.
ShutdownEnds == shut.pc = "draining" ~> (Ended \/ shut.failed)

\* An idle entry does not stay for ever: it is renewed or closed.  (When Close
\* reports errors a round ends early, and nothing makes rounds reach every entry.)
IdleEntriesGo ==
    \A u \in User :
        (u \in Cached /\ left[u] < 0)
            ~> (u \notin Cached \/ left[u] >= 0 \/ shut.pc # "listening" \/ Ended)
-----------------------------------------------------------------------------
(* The manager implements the lease of PoolLease: the live pool of a user is *)
(* found among the pools, not in the map.                                    *)

LiveOf(u) == {c \in Conn : conns[c].st = "open" /\ conns[c].by = "get" /\ conns[c].user = u}
Live == [u \in User |-> IF LiveOf(u) = {} THEN NoConn ELSE CHOOSE c \in LiveOf(u) : TRUE]
IdleTime == [u \in User |-> IF LiveOf(u) = {} THEN 0 ELSE TTL - left[u]]
Asked == {u \in User : \E s \in Sender : caller[s].pc = "waiting" /\ caller[s].tag = "remove"
                                           /\ caller[s].user = u}

Lease == INSTANCE PoolLease WITH live <- Live, idle <- IdleTime, asked <- Asked,
                                 stopping <- shut.pc \in {"closing", "wait", "done"}

\* A user's pool is closed only when idle beyond ttl, on request, or by Stop,
\* and another is opened only when it has none.
ImplementsLease == Lease!LSpec
=============================================================================
