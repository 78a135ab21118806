--------------------------- MODULE UserLifecycle ---------------------------
(***************************************************************************)
(* The life of a user over three kinds of state that no transaction spans: *)
(* the rows in the index database (user-store/sqlite.go), the database     *)
(* files on disk and the pools that the connection manager caches          *)
(* (user-store/sqliteconncache.go).  PostUser and DeleteUser               *)
(* (web/handlers/admin.go) change them one after the other while requests  *)
(* of the users go on, and the process may die or be replaced by a new     *)
(* release between any two steps.                                          *)
(*                                                                         *)
(* The manager serves one command at a time; ConnManager shows that a user *)
(* has at most one live pool, so a handler's pool is either the cached one *)
(* or closed.  SQLite opens files by path, creates what is missing, and a  *)
(* connection stays on the file it has opened when the path is unlinked,   *)
(* until database/sql closes it for idleness and opens the path again.     *)
(***************************************************************************)
EXTENDS Integers, FiniteSets, FiniteSetsExt

CONSTANTS
    Admin, Client,       \* request goroutines of administrators and of users
    File,                \* database files, on disk or unlinked and still open
    Nowhere,             \* a pool without an open connection
    MaxUser,             \* bound on the ids in use
    MaxAccount,          \* bound on the users ever created
    MaxRelease,          \* bound on the schema versions ever released
    MaxFaults            \* bound on failing steps

ASSUME BoundAssumption ==
    MaxUser \in Nat /\ MaxAccount \in Nat /\ MaxRelease \in Nat \ {0} /\ MaxFaults \in Nat
ASSUME NowhereAssumption == Nowhere \notin File

VARIABLES
    rows,       \* users and user_databases, joined: id -> row
    path,       \* the directory of the databases: id -> file
    file,       \* file -> its user_version, 0 for a file without tables
    cache,      \* the manager's map: id -> the file its pool is on
    actor,      \* the command that the manager serves
    admin,      \* the requests of administrators
    client,     \* the requests of users
    server,     \* RunServer
    release,    \* the latest version that the program knows
    accounts,   \* how many users were ever created
    doomed,     \* history: the accounts that a DeleteUser has looked up
    faults

vars == <<rows, path, file, cache, actor, admin, client, server, release, accounts,
          doomed, faults>>

UserId == 1..MaxUser
Account == 1..MaxAccount

-----------------------------------------------------------------------------
(* Partial functions.                                                        *)

Ids(f) == DOMAIN f
With(f, id, value) == [i \in Ids(f) \cup {id} |-> IF i = id THEN value ELSE f[i]]
Without(f, id) == [i \in Ids(f) \ {id} |-> f[i]]
None == [i \in {} |-> 0]

-----------------------------------------------------------------------------
(* Rows.                                                                     *)

UserRow(account, isAdmin) == [account |-> account, isAdmin |-> isAdmin, version |-> 0]

\* users.id is an INTEGER PRIMARY KEY without AUTOINCREMENT.
NextId == IF Ids(rows) = {} THEN 1 ELSE Max(Ids(rows)) + 1

\* GetUserDB: only users who are not administrators have a row in user_databases.
HasDatabase(id) == id \in Ids(rows) /\ ~rows[id].isAdmin

\* DBVersionBefore.
Outdated(version) == {id \in Ids(rows) : HasDatabase(id) /\ rows[id].version < version}

UpdateDBVersion(id) ==
    rows' = [i \in Ids(rows) |->
                IF i = id /\ HasDatabase(i) THEN [rows[i] EXCEPT !.version = release] ELSE rows[i]]

\* Someone may use the pages of administrators; their requests check it first.
Administered == \E id \in Ids(rows) : rows[id].isAdmin

-----------------------------------------------------------------------------
(* Files.                                                                    *)

InUse(f) == (\E id \in Ids(path) : path[id] = f) \/ (\E id \in Ids(cache) : cache[id] = f)

\* NewSQLiteDB, or a new connection of a pool: a missing file is created.
OpenPath(id) ==
    \/ id \in Ids(path) /\ UNCHANGED <<path, file>>
    \/ /\ id \notin Ids(path)
       /\ \E f \in File :
             /\ ~InUse(f)
             /\ path' = With(path, id, f)
             /\ file' = [file EXCEPT ![f] = 0]

-----------------------------------------------------------------------------
(* The process and its goroutines.                                           *)

Serving == server.phase = "serving"

Idle == [pc |-> "idle", id |-> 0]

AdminAt(a, pc) == admin' = [admin EXCEPT ![a].pc = pc]
AdminEnds(a) == admin' = [admin EXCEPT ![a] = Idle]
ClientAt(c, pc) == client' = [client EXCEPT ![c].pc = pc]
ClientEnds(c) == client' = [client EXCEPT ![c] = Idle]
ActorAt(pc, id) == actor' = [pc |-> pc, id |-> id]
ActorEnds == actor' = Idle

\* A full disk, a query timeout, a client that went away.
Fault == faults < MaxFaults /\ faults' = faults + 1

\* The manager waits for a command; it serves the commands of a handler that has
\* sent one, one step after the other.
Free == Serving /\ actor.pc = "idle"

-----------------------------------------------------------------------------
(* Administrators: PostUser.                                                 *)

\* CreateAdminUser, or both rows in one transaction by CreateUserAndDB.  The first
\* administrator comes from PostSetup, which is not told apart here.
InsertUser(a) ==
    /\ Serving /\ admin[a].pc = "idle"
    /\ accounts < MaxAccount /\ NextId <= MaxUser
    /\ accounts' = accounts + 1
    /\ \E isAdmin \in BOOLEAN :
          /\ isAdmin \/ Administered
          /\ rows' = With(rows, NextId, UserRow(accounts + 1, isAdmin))
          /\ admin' = IF isAdmin THEN admin
                      ELSE [admin EXCEPT ![a] = [pc |-> "create", id |-> NextId]]
    /\ UNCHANGED <<path, file, cache, actor, client, server, release, doomed, faults>>

\* CreateDB: createNewConnection reads the row and opens the file, ...
CreateOpens(a) ==
    LET id == admin[a].id IN
    /\ Free /\ admin[a].pc = "create"
    /\ IF HasDatabase(id)
       THEN OpenPath(id) /\ ActorAt("bootstrap", id) /\ AdminAt(a, "creating")
       ELSE AdminEnds(a) /\ UNCHANGED <<path, file, actor>>
    /\ UNCHANGED <<rows, cache, client, server, release, accounts, doomed, faults>>

\* Variant: an error of Bootstrap is not looked at.
BootstrapUnchecked(a) ==
    /\ Serving /\ admin[a].pc = "creating" /\ actor.pc = "bootstrap"
    /\ \E v \in {file[path[actor.id]], release} : file' = [file EXCEPT ![path[actor.id]] = v]
    /\ ActorAt("record", actor.id)
    /\ UNCHANGED <<rows, path, cache, admin, client, server, release, accounts, doomed, faults>>

\* ... Bootstrap migrates it, each migration in its own transaction, ...
Bootstrap(a) ==
    /\ Serving /\ admin[a].pc = "creating" /\ actor.pc = "bootstrap"
    /\ file' = [file EXCEPT ![path[actor.id]] = release]
    /\ ActorAt("record", actor.id)
    /\ UNCHANGED <<rows, path, cache, admin, client, server, release, accounts, doomed, faults>>

\* ... and the version is recorded, if the row is still there.
CreateRecords(a) ==
    /\ Serving /\ admin[a].pc = "creating" /\ actor.pc = "record"
    /\ UpdateDBVersion(actor.id)
    /\ ActorEnds /\ AdminEnds(a)
    /\ UNCHANGED <<path, file, cache, client, server, release, accounts, doomed, faults>>

\* An error on the way: what was done stays done.
CreateFails(a) ==
    /\ (admin[a].pc = "create" /\ Free) \/ (admin[a].pc = "creating" /\ Serving)
    /\ Fault
    /\ \/ UNCHANGED file
       \/ /\ actor.pc = "bootstrap"
          /\ \E v \in file[path[actor.id]]..release :
                file' = [file EXCEPT ![path[actor.id]] = v]
    /\ ActorEnds /\ AdminEnds(a)
    /\ UNCHANGED <<rows, path, cache, client, server, release, accounts, doomed>>

-----------------------------------------------------------------------------
(* Administrators: DeleteUser.                                               *)

FindUser(a) ==
    /\ Serving /\ admin[a].pc = "idle" /\ Administered
    /\ \E id \in Ids(rows) :
          /\ admin' = [admin EXCEPT ![a] =
                          [pc |-> IF rows[id].isAdmin THEN "remove" ELSE "remove-delete", id |-> id]]
          /\ doomed' = doomed \cup {rows[id].account}
    /\ UNCHANGED <<rows, path, file, cache, actor, client, server, release, accounts, faults>>

\* Variant: the entry goes without its pool being closed.
Forgotten(id) == cache' = Without(cache, id) /\ UNCHANGED client

\* The pool is closed under the handlers that hold it.
Dropped(id) ==
    /\ cache' = Without(cache, id)
    /\ client' = [c \in Client |-> IF client[c].pc = "use" /\ client[c].id = id
                                   THEN [client[c] EXCEPT !.pc = "closed"] ELSE client[c]]

\* Remove, which an administrator's account ends with and DeleteDB begins with.
RemovePool(a) ==
    /\ Free /\ admin[a].pc \in {"remove", "remove-delete"}
    /\ Dropped(admin[a].id)
    /\ AdminAt(a, IF admin[a].pc = "remove" THEN "row" ELSE "delete")
    /\ UNCHANGED <<rows, path, file, actor, server, release, accounts, doomed, faults>>

\* Variant: an error does not end the handler.
DeleteFileAnyway(a) ==
    LET id == admin[a].id IN
    /\ Free /\ admin[a].pc = "delete"
    /\ AdminAt(a, "row")
    /\ \/ HasDatabase(id) /\ id \in Ids(path) /\ path' = Without(path, id)
       \/ UNCHANGED path
    /\ UNCHANGED <<rows, file, cache, actor, client, server, release, accounts, doomed, faults>>

\* deleteDatabase reads the row and removes the file.  Between the two only rows
\* can change, and not where the path points, so that they are one step here, as
\* are the reading of the row and the opening of the file in createNewConnection.
DeleteFile(a) ==
    LET id == admin[a].id IN
    /\ Free /\ admin[a].pc = "delete"
    /\ IF HasDatabase(id) /\ id \in Ids(path)
       THEN path' = Without(path, id) /\ AdminAt(a, "row")
       ELSE AdminEnds(a) /\ UNCHANGED path
    /\ UNCHANGED <<rows, file, cache, actor, client, server, release, accounts, doomed, faults>>

\* DELETE FROM users, which cascades to user_databases.
DeleteRow(a) ==
    /\ Serving /\ admin[a].pc = "row"
    /\ rows' = Without(rows, admin[a].id)
    /\ AdminEnds(a)
    /\ UNCHANGED <<path, file, cache, actor, client, server, release, accounts, doomed, faults>>

DeleteFails(a) ==
    /\ Serving /\ admin[a].pc \in {"remove", "remove-delete", "delete", "row"} /\ Fault
    /\ AdminEnds(a)
    /\ UNCHANGED <<rows, path, file, cache, actor, client, server, release, accounts, doomed>>

-----------------------------------------------------------------------------
(* Users: a request for notes.                                               *)

\* Authenticate finds the row of the id in the session.
Authenticate(c) ==
    /\ Serving /\ client[c].pc = "idle"
    /\ \E id \in Ids(rows) :
          /\ ~rows[id].isAdmin
          /\ client' = [client EXCEPT ![c] = [pc |-> "get", id |-> id]]
    /\ UNCHANGED <<rows, path, file, cache, actor, admin, server, release, accounts, doomed, faults>>

\* getNotesStore: the cached pool, or a new one if the user has a database.
GetNotesStore(c) ==
    LET id == client[c].id IN
    /\ Free /\ client[c].pc = "get"
    /\ \/ id \in Ids(cache) /\ ClientAt(c, "use") /\ UNCHANGED <<path, file, cache>>
       \/ /\ id \notin Ids(cache) /\ HasDatabase(id)
          /\ OpenPath(id)
          /\ cache' = With(cache, id, path'[id])
          /\ ClientAt(c, "use")
       \/ id \notin Ids(cache) /\ ~HasDatabase(id) /\ ClientEnds(c) /\ UNCHANGED <<path, file, cache>>
    /\ UNCHANGED <<rows, actor, admin, server, release, accounts, doomed, faults>>

\* The request does what it does with the pool it has, or fails.
RequestEnds(c) ==
    /\ Serving /\ client[c].pc # "idle"
    /\ ClientEnds(c)
    /\ UNCHANGED <<rows, path, file, cache, actor, admin, server, release, accounts, doomed, faults>>

-----------------------------------------------------------------------------
(* Pools.                                                                    *)

\* The expiry round, a command of the poller.
ExpirePool ==
    /\ Free
    /\ \E id \in Ids(cache) : Dropped(id)
    /\ UNCHANGED <<rows, path, file, actor, admin, server, release, accounts, doomed, faults>>

\* SetConnMaxIdleTime: database/sql closes connections that nobody used lately.
IdleOut ==
    /\ Serving
    /\ \E id \in Ids(cache) : cache[id] # Nowhere /\ cache' = [cache EXCEPT ![id] = Nowhere]
    /\ UNCHANGED <<rows, path, file, actor, admin, client, server, release, accounts, doomed, faults>>

\* The next use of such a pool opens the path again.
Reconnect(c) ==
    LET id == client[c].id IN
    /\ Serving /\ client[c].pc = "use" /\ cache[id] = Nowhere
    /\ OpenPath(id)
    /\ cache' = [cache EXCEPT ![id] = path'[id]]
    /\ UNCHANGED <<rows, actor, admin, client, server, release, accounts, doomed, faults>>

-----------------------------------------------------------------------------
(* The process.                                                              *)

Down == [phase |-> "down", step |-> "next", at |-> 0, todo |-> {}]

\* The process dies, or is stopped.
Crash ==
    /\ server # Down
    /\ server' = Down
    /\ cache' = None
    /\ actor' = Idle
    /\ admin' = [a \in Admin |-> Idle]
    /\ client' = [c \in Client |-> Idle]
    /\ UNCHANGED <<rows, path, file, release, accounts, doomed, faults>>

\* RunServer, of this release or of the next, begins with runMigrations.
Start ==
    /\ server = Down
    /\ release' \in {release, release + 1} /\ release' <= MaxRelease
    /\ server' = [Down EXCEPT !.phase = "boot", !.todo = Outdated(release')]
    /\ UNCHANGED <<rows, path, file, cache, actor, admin, client, accounts, doomed, faults>>

Booting(step) == server.phase = "boot" /\ server.step = step

\* The loop of runMigrations: open the file, migrate it up, record its version.
BootOpens ==
    /\ Booting("next")
    /\ \E id \in server.todo :
          /\ OpenPath(id)
          /\ server' = [server EXCEPT !.step = "migrate", !.at = id, !.todo = @ \ {id}]
    /\ UNCHANGED <<rows, cache, actor, admin, client, release, accounts, doomed, faults>>

BootMigrates ==
    /\ Booting("migrate")
    /\ file' = [file EXCEPT ![path[server.at]] = release]
    /\ server' = [server EXCEPT !.step = "record"]
    /\ UNCHANGED <<rows, path, cache, actor, admin, client, release, accounts, doomed, faults>>

\* Variant: the loop ends after one database.
BootRecordsOne ==
    /\ Booting("record")
    /\ UpdateDBVersion(server.at)
    /\ server' = [server EXCEPT !.step = "next", !.at = 0, !.todo = {}]
    /\ UNCHANGED <<path, file, cache, actor, admin, client, release, accounts, doomed, faults>>

BootRecords ==
    /\ Booting("record")
    /\ UpdateDBVersion(server.at)
    /\ server' = [server EXCEPT !.step = "next", !.at = 0]
    /\ UNCHANGED <<path, file, cache, actor, admin, client, release, accounts, doomed, faults>>

\* RunServer returns the error of runMigrations and the process ends.
BootFails ==
    /\ server.phase = "boot" /\ Fault
    /\ \/ UNCHANGED file
       \/ /\ Booting("migrate")
          /\ \E v \in file[path[server.at]]..release :
                file' = [file EXCEPT ![path[server.at]] = v]
    /\ server' = Down
    /\ UNCHANGED <<rows, path, cache, actor, admin, client, release, accounts, doomed>>

BootEnds ==
    /\ Booting("next") /\ server.todo = {}
    /\ server' = [server EXCEPT !.phase = "serving"]
    /\ UNCHANGED <<rows, path, file, cache, actor, admin, client, release, accounts, doomed, faults>>

-----------------------------------------------------------------------------
Init ==
    /\ rows = None /\ path = None /\ cache = None
    /\ file = [f \in File |-> 0]
    /\ actor = Idle
    /\ admin = [a \in Admin |-> Idle]
    /\ client = [c \in Client |-> Idle]
    /\ server = Down
    /\ release = 1 /\ accounts = 0 /\ doomed = {} /\ faults = 0

PostUser(a) ==
    InsertUser(a) \/ CreateOpens(a) \/ Bootstrap(a) \/ CreateRecords(a) \/ CreateFails(a)
DeleteUser(a) ==
    FindUser(a) \/ RemovePool(a) \/ DeleteFile(a) \/ DeleteRow(a) \/ DeleteFails(a)
Request(c) ==
    Authenticate(c) \/ GetNotesStore(c) \/ Reconnect(c) \/ RequestEnds(c)
RunServer ==
    Start \/ BootOpens \/ BootMigrates \/ BootRecords \/ BootFails \/ BootEnds \/ Crash

Next ==
    \/ \E a \in Admin : PostUser(a) \/ DeleteUser(a)
    \/ \E c \in Client : Request(c)
    \/ ExpirePool \/ IdleOut
    \/ RunServer

Spec == Init /\ [][Next]_vars

-----------------------------------------------------------------------------
Row == [account : Account, isAdmin : BOOLEAN, version : 0..MaxRelease]
ActorState == [pc : {"idle", "bootstrap", "record"}, id : UserId \cup {0}]
AdminState ==
    [pc : {"idle", "create", "creating", "remove", "remove-delete", "delete", "row"},
     id : UserId \cup {0}]
ClientState == [pc : {"idle", "get", "use", "closed"}, id : UserId \cup {0}]
ServerState ==
    [phase : {"down", "boot", "serving"}, step : {"next", "migrate", "record"},
     at : UserId \cup {0}, todo : SUBSET UserId]

\* Types; a handler that uses an open pool uses the cached one.
TypeOK ==
    /\ Ids(rows) \subseteq UserId /\ \A id \in Ids(rows) : rows[id] \in Row
    /\ Ids(path) \subseteq UserId /\ \A id \in Ids(path) : path[id] \in File
    /\ Ids(cache) \subseteq UserId /\ \A id \in Ids(cache) : cache[id] \in File \cup {Nowhere}
    /\ file \in [File -> 0..MaxRelease]
    /\ actor \in ActorState /\ server \in ServerState
    /\ admin \in [Admin -> AdminState] /\ client \in [Client -> ClientState]
    /\ \A c \in Client : client[c].pc = "use" => client[c].id \in Ids(cache)
    /\ release \in 1..MaxRelease /\ accounts \in 0..MaxAccount /\ faults \in 0..MaxFaults
    /\ doomed \subseteq Account

\* The version of the database that is at the path of a user.
Version == [id \in UserId |-> IF id \in Ids(path) THEN file[path[id]] ELSE 0]

\* No two administrators are at work on the same user.  Nothing in the code keeps
\* them apart: where it matters what happens then, it is assumed by this name.
AdminsApart ==
    \A a, b \in Admin :
        a # b /\ admin[a].pc # "idle" /\ admin[b].pc # "idle" => admin[a].id # admin[b].id

\* Nobody has asked for this user to be deleted.
Stays(id) == id \in Ids(rows) /\ rows[id].account \notin doomed

\* Whatever crashes and fails, the version recorded for a user never promises
\* more than the database has, so that no migration is ever skipped; as long as
\* no two administrators work on that user.
VersionIsTrue == \A id \in Ids(rows) : Stays(id) => rows[id].version <= Version[id]

\* A deletion that gets as far as the row has removed the notes: what requests
\* leave behind at the path is a file without tables (with AdminsApart again).
NoNotesWithoutUser == \A id \in UserId \ Ids(rows) : Version[id] = 0

\* When the server begins to serve, every user has a database of the release,
\* also one whose creation, or migration, was cut short (with AdminsApart again).
BootLeavesNoneBehind ==
    [][ server.phase = "boot" /\ Serving' =>
            \A id \in Ids(rows) : HasDatabase(id) /\ Stays(id) =>
                rows[id].version = release /\ Version[id] = release ]_vars

-----------------------------------------------------------------------------
(* What a comment says of PostUser.                                          *)

\* The requests of a user who was created work on the database that was
\* bootstrapped for the user.
NewUserOnNewDatabase ==
    \A id \in Ids(rows) \cap Ids(cache) :
        Stays(id) /\ rows[id].version = release /\ cache[id] # Nowhere
            => id \in Ids(path) /\ cache[id] = path[id]
=============================================================================
