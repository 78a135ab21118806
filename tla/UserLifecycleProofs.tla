------------------------ MODULE UserLifecycleProofs ------------------------
(***************************************************************************)
(* Proofs about UserLifecycle for any bounds and any number of clients and *)
(* administrators: what depends on no two of them working on the same user *)
(* first (UsersInv), then what does not (FilesInv).                        *)
(***************************************************************************)
EXTENDS UserLifecycle, WellFoundedInduction, TLAPS

-----------------------------------------------------------------------------
(* The invariant.                                                            *)

\* Nothing is of a later version than the program.
WithinRelease ==
    /\ \A id \in Ids(rows) : rows[id].version <= release
    /\ \A f \in File : file[f] <= release

\* Two users do not share a file, so that a migration of one changes no other.
PathsDiffer == \A i, j \in Ids(path) : path[i] = path[j] => i = j

\* The manager creates the database of a row for the handler that waits for it,
\* and what it is about to record is so.
CreateInv ==
    /\ actor.pc # "idle" =>
          /\ Serving
          /\ \E a \in Admin : admin[a].pc = "creating" /\ admin[a].id = actor.id
          /\ HasDatabase(actor.id) /\ actor.id \in Ids(path)
    /\ actor.pc = "record" => Version[actor.id] = release
    /\ \A a \in Admin : admin[a].pc = "creating" => actor.pc # "idle" /\ admin[a].id = actor.id

\* A handler that deletes has doomed the user of its id; when it comes to the
\* row there is nothing in the file.
DeleteInv ==
    \A a \in Admin :
        /\ admin[a].pc # "idle" => Serving
        /\ admin[a].pc \in {"remove", "remove-delete", "delete", "row"} => ~Stays(admin[a].id)
        /\ admin[a].pc = "remove" => Version[admin[a].id] = 0
        /\ admin[a].pc = "row" => Version[admin[a].id] = 0

\* Only users with a database have one.
Unowned == \A id \in UserId : ~HasDatabase(id) => Version[id] = 0

\* A handler of an administrator has the id of a row, which only it deletes, so
\* that no new user is given an id that is being worked on.  A request may have
\* the id of a row that is gone.
IdsKnown ==
    /\ \A a \in Admin : admin[a].pc # "idle" => admin[a].id \in Ids(rows)
    /\ \A c \in Client : client[c].pc # "idle" => client[c].id \in UserId

\* At the start every database that is not of the release is yet to be migrated,
\* or is being migrated.
BootInv ==
    /\ server.phase # "boot" => server.step = "next" /\ server.todo = {}
    /\ server.phase = "boot" =>
          /\ \A id \in server.todo : HasDatabase(id)
          /\ \A id \in UserId : HasDatabase(id) =>
                \/ rows[id].version = release
                \/ id \in server.todo
                \/ server.step # "next" /\ id = server.at
    /\ server.step # "next" => HasDatabase(server.at) /\ server.at \in Ids(path)
    /\ server.step = "record" => Version[server.at] = release

UsersInv ==
    /\ TypeOK /\ WithinRelease /\ PathsDiffer
    /\ IdsKnown /\ CreateInv /\ DeleteInv /\ BootInv
    /\ Unowned /\ VersionIsTrue

-----------------------------------------------------------------------------
(* What the helpers do.                                                      *)

USE DEF Ids

LEMMA AdminMoves ==
    ASSUME TypeOK, NEW a \in Admin, NEW s \in AdminState, admin' = [admin EXCEPT ![a] = s]
    PROVE  /\ admin' \in [Admin -> AdminState] /\ admin'[a] = s
           /\ \A b \in Admin \ {a} : admin'[b] = admin[b]
  BY DEF TypeOK

LEMMA AdminAtMoves ==
    ASSUME TypeOK, NEW a \in Admin, NEW pc \in {"creating", "delete", "row"}, AdminAt(a, pc)
    PROVE  /\ admin' \in [Admin -> AdminState]
           /\ admin'[a].pc = pc /\ admin'[a].id = admin[a].id
           /\ \A b \in Admin \ {a} : admin'[b] = admin[b]
  BY DEF TypeOK, AdminAt, AdminState

LEMMA ClientMoves ==
    ASSUME TypeOK, NEW c \in Client, NEW s \in ClientState, client' = [client EXCEPT ![c] = s]
    PROVE  /\ client' \in [Client -> ClientState] /\ client'[c] = s
           /\ \A b \in Client \ {c} : client'[b] = client[b]
  BY DEF TypeOK

LEMMA ClientAtMoves ==
    ASSUME TypeOK, NEW c \in Client, ClientAt(c, "use")
    PROVE  /\ client' \in [Client -> ClientState]
           /\ client'[c].pc = "use" /\ client'[c].id = client[c].id
           /\ \A b \in Client \ {c} : client'[b] = client[b]
  BY DEF TypeOK, ClientAt, ClientState

\* Opening a path gives a file to it, its own, and changes no version.
LEMMA PathOpens ==
    ASSUME TypeOK, WithinRelease, PathsDiffer, NEW id \in UserId, OpenPath(id)
    PROVE  /\ Ids(path') = Ids(path) \cup {id}
           /\ \A i \in Ids(path') : path'[i] \in File
           /\ \A i \in Ids(path) : path'[i] = path[i]
           /\ file' \in [File -> 0..MaxRelease]
           /\ \A f \in File : file'[f] <= release
           /\ \A i, j \in Ids(path') : path'[i] = path'[j] => i = j
           /\ Version' = Version
  <1>1. CASE id \in Ids(path) /\ UNCHANGED <<path, file>>
    BY <1>1 DEF TypeOK, WithinRelease, PathsDiffer, Version
  <1>2. CASE id \notin Ids(path)
    <2>1. PICK f \in File : /\ ~InUse(f)
                            /\ path' = With(path, id, f)
                            /\ file' = [file EXCEPT ![f] = 0]
      BY <1>2 DEF OpenPath
    <2>2. /\ Ids(path') = Ids(path) \cup {id} /\ path'[id] = f
          /\ \A i \in Ids(path) : path'[i] = path[i] /\ path[i] # f
      BY <1>2, <2>1 DEF With, InUse
    <2>3. /\ \A i \in Ids(path') : path'[i] \in File
          /\ \A i, j \in Ids(path') : path'[i] = path'[j] => i = j
      BY <2>1, <2>2 DEF TypeOK, PathsDiffer
    <2>4. /\ file' \in [File -> 0..MaxRelease] /\ file'[f] = 0
          /\ \A g \in File \ {f} : file'[g] = file[g]
      BY <2>1, BoundAssumption DEF TypeOK
    <2>5. \A g \in File : file'[g] <= release
      BY <2>4 DEF TypeOK, WithinRelease
    <2>6. ASSUME NEW i \in UserId PROVE Version'[i] = Version[i]
      <3>1. CASE i = id
        BY <1>2, <2>2, <2>4, <3>1 DEF Version
      <3>2. CASE i \in Ids(path)
        BY <2>2, <2>4, <3>2 DEF Version, TypeOK
      <3>3. CASE i # id /\ i \notin Ids(path)
        BY <2>2, <3>3 DEF Version
      <3> QED BY <3>1, <3>2, <3>3
    <2>7. Version' = Version
      BY <2>6 DEF Version
    <2> QED BY <2>2, <2>3, <2>4, <2>5, <2>7
  <1> QED BY <1>1, <1>2 DEF OpenPath

\* Migrating the file of one user changes the version of that user alone.
LEMMA FileMigrates ==
    ASSUME TypeOK, WithinRelease, PathsDiffer, NEW id \in Ids(path), NEW v \in 0..release,
           path' = path, file' = [file EXCEPT ![path[id]] = v]
    PROVE  /\ file' \in [File -> 0..MaxRelease]
           /\ \A f \in File : file'[f] <= release
           /\ id \in UserId /\ Version'[id] = v
           /\ \A i \in UserId \ {id} : Version'[i] = Version[i]
  <1>1. id \in UserId /\ path[id] \in File /\ v \in 0..MaxRelease /\ v <= release
    BY BoundAssumption DEF TypeOK
  <1>2. /\ file' \in [File -> 0..MaxRelease] /\ file'[path[id]] = v
        /\ \A g \in File \ {path[id]} : file'[g] = file[g]
    BY <1>1 DEF TypeOK
  <1>3. \A f \in File : file'[f] <= release
    BY <1>1, <1>2 DEF TypeOK, WithinRelease
  <1>4. ASSUME NEW i \in UserId \ {id} PROVE Version'[i] = Version[i]
    <2>1. CASE i \in Ids(path)
      <3>1. path[i] \in File \ {path[id]}
        BY <2>1 DEF TypeOK, PathsDiffer
      <3> QED BY <1>2, <2>1, <3>1 DEF Version
    <2>2. CASE i \notin Ids(path)
      BY <2>2 DEF Version
    <2> QED BY <2>1, <2>2
  <1> QED BY <1>1, <1>2, <1>3, <1>4 DEF Version

\* Recording a version changes that of one row, and no other column.
LEMMA VersionRecorded ==
    ASSUME TypeOK, WithinRelease, NEW id \in UserId, HasDatabase(id), UpdateDBVersion(id)
    PROVE  /\ Ids(rows') = Ids(rows)
           /\ \A i \in Ids(rows) : /\ rows'[i] \in Row /\ rows'[i].version <= release
                                   /\ rows'[i].account = rows[i].account
                                   /\ rows'[i].isAdmin = rows[i].isAdmin
                                   /\ i # id => rows'[i].version = rows[i].version
           /\ rows'[id].version = release
  <1>1. Ids(rows') = Ids(rows)
    BY DEF UpdateDBVersion
  <1>2. ASSUME NEW i \in Ids(rows)
        PROVE  /\ rows'[i] \in Row /\ rows'[i].version <= release
               /\ rows'[i].account = rows[i].account
               /\ rows'[i].isAdmin = rows[i].isAdmin
               /\ i # id => rows'[i].version = rows[i].version
               /\ i = id => rows'[i].version = release
    <2>1. rows[i] \in Row /\ rows[i].version <= release /\ release \in 0..MaxRelease
      BY BoundAssumption DEF TypeOK, WithinRelease
    <2>2. rows'[i] = IF i = id THEN [rows[i] EXCEPT !.version = release] ELSE rows[i]
      BY DEF UpdateDBVersion, HasDatabase
    <2> QED BY <2>1, <2>2 DEF Row
  <1> QED BY <1>1, <1>2 DEF HasDatabase

-----------------------------------------------------------------------------
(* Steps that change neither rows nor versions.                              *)

LEMMA SameVersions ==
    ASSUME UsersInv, TypeOK', IdsKnown', UNCHANGED <<rows, release, doomed, server, actor, admin>>,
           Version' = Version, Ids(path) \subseteq Ids(path'), PathsDiffer',
           \A f \in File : file'[f] <= release
    PROVE  UsersInv'
  <1>1. WithinRelease'
    BY DEF UsersInv, WithinRelease
  <1>2. CreateInv' /\ DeleteInv'
    BY DEF UsersInv, CreateInv, DeleteInv, Serving, HasDatabase, Stays
  <1>3. BootInv' /\ Unowned' /\ VersionIsTrue'
    BY DEF UsersInv, BootInv, Unowned, VersionIsTrue, HasDatabase, Stays
  <1> QED BY <1>1, <1>2, <1>3 DEF UsersInv

\* Closing a pool.
LEMMA PoolDropped ==
    ASSUME TypeOK, NEW id, Dropped(id)
    PROVE  /\ Ids(cache') \subseteq UserId
           /\ \A i \in Ids(cache') : cache'[i] \in File \cup {Nowhere}
           /\ client' \in [Client -> ClientState]
           /\ \A c \in Client : client'[c].pc = "use" => client'[c].id \in Ids(cache')
           /\ \A c \in Client : client'[c].pc # "idle" =>
                 client[c].pc # "idle" /\ client'[c].id = client[c].id
  <1>1. /\ Ids(cache') = Ids(cache) \ {id}
        /\ \A i \in Ids(cache') : cache'[i] = cache[i]
    BY DEF Dropped, Without
  <1>2. ASSUME NEW c \in Client
        PROVE  /\ client'[c] \in ClientState /\ client'[c].id = client[c].id
               /\ client'[c].pc = "use" => client[c].pc = "use" /\ client[c].id # id
               /\ client'[c].pc # "idle" => client[c].pc # "idle"
    <2>1. client[c] \in ClientState
      BY DEF TypeOK
    <2>2. client'[c] = IF client[c].pc = "use" /\ client[c].id = id
                       THEN [client[c] EXCEPT !.pc = "closed"] ELSE client[c]
      BY DEF Dropped
    <2> QED BY <2>1, <2>2 DEF ClientState
  <1>3. client' \in [Client -> ClientState]
    BY <1>2 DEF Dropped
  <1> QED BY <1>1, <1>2, <1>3 DEF TypeOK

LEMMA AuthenticateStep == ASSUME UsersInv, NEW c \in Client, Authenticate(c) PROVE UsersInv'
  <1>1. PICK id \in Ids(rows) : client' = [client EXCEPT ![c] = [pc |-> "get", id |-> id]]
    BY DEF Authenticate
  <1>2. UNCHANGED <<rows, path, file, cache, actor, admin, server, release, accounts, doomed, faults>>
    BY DEF Authenticate
  <1>3. TypeOK /\ IdsKnown /\ id \in UserId
    BY DEF UsersInv, TypeOK
  <1>4. [pc |-> "get", id |-> id] \in ClientState
    BY <1>3 DEF ClientState
  <1>5. /\ client' \in [Client -> ClientState] /\ client'[c] = [pc |-> "get", id |-> id]
        /\ \A b \in Client \ {c} : client'[b] = client[b]
    BY <1>1, <1>3, <1>4, ClientMoves
  <1>6. TypeOK'
    BY <1>2, <1>3, <1>5 DEF TypeOK
  <1>7. IdsKnown'
    BY <1>2, <1>3, <1>5 DEF IdsKnown
  <1>8. Version' = Version /\ PathsDiffer' /\ \A f \in File : file'[f] <= release
    BY <1>2 DEF UsersInv, Version, PathsDiffer, WithinRelease
  <1> QED BY <1>2, <1>6, <1>7, <1>8, SameVersions

LEMMA RequestEndsStep == ASSUME UsersInv, NEW c \in Client, RequestEnds(c) PROVE UsersInv'
  <1>1. client' = [client EXCEPT ![c] = Idle]
    BY DEF RequestEnds, ClientEnds
  <1>2. UNCHANGED <<rows, path, file, cache, actor, admin, server, release, accounts, doomed, faults>>
    BY DEF RequestEnds
  <1>3. TypeOK /\ IdsKnown
    BY DEF UsersInv
  <1>4. Idle \in ClientState
    BY DEF ClientState, Idle
  <1>5. /\ client' \in [Client -> ClientState] /\ client'[c] = Idle
        /\ \A b \in Client \ {c} : client'[b] = client[b]
    BY <1>1, <1>3, <1>4, ClientMoves
  <1>6. TypeOK'
    BY <1>2, <1>3, <1>5 DEF TypeOK, Idle
  <1>7. IdsKnown'
    BY <1>2, <1>3, <1>5 DEF IdsKnown, Idle
  <1>8. Version' = Version /\ PathsDiffer' /\ \A f \in File : file'[f] <= release
    BY <1>2 DEF UsersInv, Version, PathsDiffer, WithinRelease
  <1> QED BY <1>2, <1>6, <1>7, <1>8, SameVersions

LEMMA GetNotesStoreStep == ASSUME UsersInv, NEW c \in Client, GetNotesStore(c) PROVE UsersInv'
  <1> DEFINE id == client[c].id
  <1>0. TypeOK /\ IdsKnown /\ WithinRelease /\ PathsDiffer /\ id \in UserId
    BY DEF UsersInv, IdsKnown, GetNotesStore
  <1>1. UNCHANGED <<rows, actor, admin, server, release, accounts, doomed, faults>>
    BY DEF GetNotesStore
  <1>2. CASE UNCHANGED <<path, file, cache>> /\ id \in Ids(cache) /\ ClientAt(c, "use")
    <2>3. /\ client' \in [Client -> ClientState]
          /\ client'[c].pc = "use" /\ client'[c].id = id
          /\ \A b \in Client \ {c} : client'[b] = client[b]
      BY <1>0, <1>2, ClientAtMoves
    <2>4. TypeOK' /\ IdsKnown'
      BY <1>0, <1>1, <1>2, <2>3 DEF TypeOK, IdsKnown
    <2>5. Version' = Version /\ PathsDiffer' /\ \A f \in File : file'[f] <= release
      BY <1>0, <1>2 DEF Version, PathsDiffer, WithinRelease
    <2> QED BY <1>1, <1>2, <2>4, <2>5, SameVersions
  <1>3. CASE /\ OpenPath(id) /\ cache' = With(cache, id, path'[id])
             /\ ClientAt(c, "use")
    <2>3. /\ client' \in [Client -> ClientState]
          /\ client'[c].pc = "use" /\ client'[c].id = id
          /\ \A b \in Client \ {c} : client'[b] = client[b]
      BY <1>0, <1>3, ClientAtMoves
    <2>4. /\ Ids(path') = Ids(path) \cup {id} /\ \A i \in Ids(path') : path'[i] \in File
          /\ file' \in [File -> 0..MaxRelease] /\ \A f \in File : file'[f] <= release
          /\ \A i, j \in Ids(path') : path'[i] = path'[j] => i = j
          /\ Version' = Version
      BY <1>0, <1>3, PathOpens
    <2>5. /\ Ids(cache') = Ids(cache) \cup {id}
          /\ \A i \in Ids(cache') : cache'[i] = IF i = id THEN path'[id] ELSE cache[i]
      BY <1>3 DEF With
    <2>6. TypeOK'
      BY <1>0, <1>1, <2>3, <2>4, <2>5 DEF TypeOK
    <2>7. IdsKnown'
      BY <1>0, <1>1, <2>3 DEF IdsKnown
    <2>8. PathsDiffer'
      BY <2>4 DEF PathsDiffer
    <2> QED BY <1>1, <2>4, <2>6, <2>7, <2>8, SameVersions
  <1>4. CASE ClientEnds(c) /\ UNCHANGED <<path, file, cache>>
    <2>1. RequestEnds(c)
      BY <1>1, <1>4 DEF RequestEnds, GetNotesStore, Free
    <2> QED BY <2>1, RequestEndsStep
  <1> QED BY <1>2, <1>3, <1>4 DEF GetNotesStore

LEMMA ReconnectStep == ASSUME UsersInv, NEW c \in Client, Reconnect(c) PROVE UsersInv'
  <1> DEFINE id == client[c].id
  <1>0. TypeOK /\ IdsKnown /\ WithinRelease /\ PathsDiffer /\ id \in UserId
    BY DEF UsersInv, IdsKnown, Reconnect
  <1>1. /\ UNCHANGED <<rows, actor, admin, client, server, release, accounts, doomed, faults>>
        /\ OpenPath(id) /\ cache' = [cache EXCEPT ![id] = path'[id]]
    BY DEF Reconnect
  <1>2. /\ Ids(path') = Ids(path) \cup {id} /\ \A i \in Ids(path') : path'[i] \in File
        /\ file' \in [File -> 0..MaxRelease] /\ \A f \in File : file'[f] <= release
        /\ \A i, j \in Ids(path') : path'[i] = path'[j] => i = j
        /\ Version' = Version
    BY <1>0, <1>1, PathOpens
  <1>3. TypeOK'
    BY <1>0, <1>1, <1>2 DEF TypeOK
  <1>4. IdsKnown' /\ PathsDiffer'
    BY <1>0, <1>1, <1>2 DEF IdsKnown, PathsDiffer
  <1> QED BY <1>1, <1>2, <1>3, <1>4, SameVersions

LEMMA PoolSteps == ASSUME UsersInv, ExpirePool \/ IdleOut PROVE UsersInv'
  <1>0. TypeOK /\ IdsKnown
    BY DEF UsersInv
  <1>1. UNCHANGED <<rows, path, file, actor, admin, server, release, accounts, doomed, faults>>
    BY DEF ExpirePool, IdleOut
  <1>2. Version' = Version /\ PathsDiffer' /\ \A f \in File : file'[f] <= release
    BY <1>1 DEF UsersInv, Version, PathsDiffer, WithinRelease
  <1>3. CASE ExpirePool
    <2>1. PICK id \in Ids(cache) : Dropped(id)
      BY <1>3 DEF ExpirePool
    <2>2. /\ Ids(cache') \subseteq UserId
          /\ \A i \in Ids(cache') : cache'[i] \in File \cup {Nowhere}
          /\ client' \in [Client -> ClientState]
          /\ \A c \in Client : client'[c].pc = "use" => client'[c].id \in Ids(cache')
          /\ \A c \in Client : client'[c].pc # "idle" =>
                client[c].pc # "idle" /\ client'[c].id = client[c].id
      BY <1>0, <2>1, PoolDropped
    <2>3. TypeOK' /\ IdsKnown'
      BY <1>0, <1>1, <2>2 DEF TypeOK, IdsKnown
    <2> QED BY <1>1, <1>2, <2>3, SameVersions
  <1>4. CASE IdleOut
    <2>1. TypeOK' /\ IdsKnown'
      BY <1>0, <1>1, <1>4 DEF IdleOut, TypeOK, IdsKnown
    <2> QED BY <1>1, <1>2, <2>1, SameVersions
  <1> QED BY <1>3, <1>4

-----------------------------------------------------------------------------
(* The goroutines of administrators.                                         *)

LEMMA VersionTyped == ASSUME TypeOK PROVE Version \in [UserId -> 0..MaxRelease]
  BY BoundAssumption DEF TypeOK, Version

LEMMA VersionTypedNext == ASSUME TypeOK' PROVE Version' \in [UserId -> 0..MaxRelease]
  BY BoundAssumption DEF TypeOK, Version

\* While the server serves nothing is being migrated by runMigrations.
LEMMA ServingBoot ==
    ASSUME BootInv, Serving, server' = server
    PROVE  BootInv'
  BY DEF BootInv, Serving

\* The handler that waits for the manager is the only one that does.
LEMMA OneCreates ==
    ASSUME AdminsApart, CreateInv, NEW a \in Admin, admin[a].pc = "creating"
    PROVE  /\ admin[a].id = actor.id
           /\ \A b \in Admin \ {a} : admin[b].pc # "creating"
           /\ \A b \in Admin \ {a} : admin[b].pc # "idle" => admin[b].id # actor.id
  BY DEF AdminsApart, CreateInv

LEMMA NextIdIsNew == ASSUME TypeOK PROVE NextId \in Nat \ {0} /\ NextId \notin Ids(rows)
  <1>0. Ids(rows) \subseteq 1..MaxUser /\ MaxUser \in Nat
    BY BoundAssumption DEF TypeOK, UserId
  <1>1. CASE Ids(rows) = {}
    BY <1>1 DEF NextId
  <1>2. CASE Ids(rows) # {}
    <2> DEFINE Below == {MaxUser - i : i \in Ids(rows)}
    <2>1. Below \subseteq Nat /\ Below # {}
      BY <1>0, <1>2
    <2>2. PICK b \in Below : \A c \in Below : ~(<<c, b>> \in OpToRel(<, Nat))
      BY <2>1, NatLessThanWellFounded, WFMin
    <2>3. \A c \in Below : ~(c < b)
      BY <2>1, <2>2 DEF OpToRel
    <2>4. \E x \in Ids(rows) : \A y \in Ids(rows) : x >= y
      BY <1>0, <2>3
    <2>5. Max(Ids(rows)) \in Ids(rows) /\ \A y \in Ids(rows) : Max(Ids(rows)) >= y
      BY <2>4 DEF Max
    <2> QED BY <1>0, <1>2, <2>5 DEF NextId
  <1> QED BY <1>1, <1>2

LEMMA InsertUserStep ==
    ASSUME AdminsApart, UsersInv, NEW a \in Admin, InsertUser(a) PROVE UsersInv'
  <1> DEFINE n == NextId
             new == UserRow(accounts + 1, rows'[n].isAdmin)
  <1>0. /\ TypeOK /\ WithinRelease /\ PathsDiffer /\ IdsKnown /\ CreateInv /\ DeleteInv
        /\ BootInv /\ Unowned /\ VersionIsTrue
    BY DEF UsersInv
  <1>1. /\ UNCHANGED <<path, file, cache, actor, client, server, release, doomed, faults>>
        /\ Serving /\ admin[a].pc = "idle" /\ accounts' = accounts + 1 /\ accounts < MaxAccount
    BY DEF InsertUser
  <1>2. n \in UserId /\ n \notin Ids(rows)
    BY <1>0, NextIdIsNew, BoundAssumption DEF InsertUser, UserId
  <1>3. PICK isAdmin \in BOOLEAN :
            /\ rows' = With(rows, n, UserRow(accounts + 1, isAdmin))
            /\ admin' = IF isAdmin THEN admin
                        ELSE [admin EXCEPT ![a] = [pc |-> "create", id |-> n]]
    BY DEF InsertUser
  <1> HIDE DEF n
  <1>4. /\ Ids(rows') = Ids(rows) \cup {n} /\ \A i \in Ids(rows) : rows'[i] = rows[i]
        /\ rows'[n] \in Row /\ rows'[n].version = 0
        /\ accounts' \in 0..MaxAccount
    <2>1. accounts + 1 \in Account /\ 0 \in 0..MaxRelease /\ accounts' \in 0..MaxAccount
      BY <1>0, <1>1, BoundAssumption DEF TypeOK, Account
    <2> QED BY <1>2, <1>3, <2>1 DEF With, UserRow, Row
  <1>5. /\ admin' \in [Admin -> AdminState] /\ admin'[a].pc \in {"idle", "create"}
        /\ admin'[a].pc = "create" => admin'[a].id = n
        /\ \A b \in Admin \ {a} : admin'[b] = admin[b]
    <2>1. CASE isAdmin
      BY <1>0, <1>1, <1>3, <2>1 DEF TypeOK
    <2>2. CASE ~isAdmin
      <3>1. [pc |-> "create", id |-> n] \in AdminState
        BY <1>2 DEF AdminState
      <3> QED BY <1>0, <1>3, <2>2, <3>1, AdminMoves
    <2> QED BY <2>1, <2>2
  <1>8. Version' = Version /\ Version \in [UserId -> 0..MaxRelease]
    BY <1>0, <1>1, VersionTyped DEF Version
  <1>9. TypeOK'
    BY <1>0, <1>1, <1>2, <1>4, <1>5 DEF TypeOK
  <1>10. WithinRelease' /\ PathsDiffer'
    <2>1. release \in 1..MaxRelease
      BY <1>0 DEF TypeOK
    <2> QED BY <1>0, <1>1, <1>4, <2>1, BoundAssumption DEF WithinRelease, PathsDiffer
  <1>11. IdsKnown'
    BY <1>0, <1>1, <1>4, <1>5 DEF IdsKnown
  <1>6. CreateInv'
    <2>1. admin[a].pc # "creating" /\ admin'[a].pc # "creating"
      BY <1>1, <1>5
    <2> QED BY <1>0, <1>1, <1>4, <1>5, <1>8, <2>1 DEF CreateInv, Serving, HasDatabase
  <1>7. DeleteInv'
    <2>1. \A b \in Admin \ {a} : admin[b].pc # "idle" => admin[b].id \in Ids(rows)
      BY <1>0 DEF IdsKnown
    <2> QED BY <1>0, <1>1, <1>4, <1>5, <1>8, <2>1 DEF DeleteInv, Serving, Stays
  <1>12. BootInv'
    BY <1>0, <1>1, ServingBoot
  <1>13. Unowned' /\ VersionIsTrue'
    BY <1>0, <1>1, <1>2, <1>4, <1>8 DEF Unowned, VersionIsTrue, HasDatabase, Stays
  <1> QED BY <1>6, <1>7, <1>9, <1>10, <1>11, <1>12, <1>13 DEF UsersInv

LEMMA CreateOpensStep ==
    ASSUME AdminsApart, UsersInv, NEW a \in Admin, CreateOpens(a) PROVE UsersInv'
  <1> DEFINE id == admin[a].id
  <1>0. /\ TypeOK /\ WithinRelease /\ PathsDiffer /\ IdsKnown /\ CreateInv /\ DeleteInv
        /\ BootInv /\ Unowned /\ VersionIsTrue
    BY DEF UsersInv
  <1>1. /\ UNCHANGED <<rows, cache, client, server, release, accounts, doomed, faults>>
        /\ Serving /\ actor.pc = "idle" /\ admin[a].pc = "create"
        /\ id \in Ids(rows) /\ id \in UserId
    BY <1>0 DEF CreateOpens, Free, IdsKnown, TypeOK
  <1>2. \A b \in Admin : admin[b].pc # "creating"
    BY <1>0, <1>1 DEF CreateInv
  <1>3. BootInv'
    BY <1>0, <1>1, ServingBoot
  <1>4. CASE HasDatabase(id) /\ OpenPath(id) /\ ActorAt("bootstrap", id) /\ AdminAt(a, "creating")
    <2>1. /\ Ids(path') = Ids(path) \cup {id} /\ \A i \in Ids(path') : path'[i] \in File
          /\ file' \in [File -> 0..MaxRelease] /\ \A f \in File : file'[f] <= release
          /\ \A i, j \in Ids(path') : path'[i] = path'[j] => i = j
          /\ Version' = Version
      BY <1>0, <1>1, <1>4, PathOpens
    <2>2. /\ admin' \in [Admin -> AdminState]
          /\ admin'[a].pc = "creating" /\ admin'[a].id = id
          /\ \A b \in Admin \ {a} : admin'[b] = admin[b]
      BY <1>0, <1>4, AdminAtMoves
    <2>3. actor' \in ActorState /\ actor'.pc = "bootstrap" /\ actor'.id = id
      BY <1>1, <1>4 DEF ActorAt, ActorState
    <2>4. TypeOK'
      BY <1>0, <1>1, <2>1, <2>2, <2>3 DEF TypeOK
    <2>5. WithinRelease' /\ PathsDiffer' /\ IdsKnown'
      BY <1>0, <1>1, <2>1, <2>2 DEF WithinRelease, PathsDiffer, IdsKnown
    <2>6. CreateInv' /\ DeleteInv'
      <3>1. CreateInv'
        BY <1>1, <1>2, <1>4, <2>1, <2>2, <2>3 DEF CreateInv, Serving, HasDatabase
      <3>2. DeleteInv'
        BY <1>0, <1>1, <2>1, <2>2 DEF DeleteInv, Serving, Stays
      <3> QED BY <3>1, <3>2
    <2>7. Unowned' /\ VersionIsTrue'
      BY <1>0, <1>1, <2>1 DEF Unowned, VersionIsTrue, HasDatabase, Stays
    <2> QED BY <1>3, <2>4, <2>5, <2>6, <2>7 DEF UsersInv
  <1>5. CASE AdminEnds(a) /\ UNCHANGED <<path, file, actor>>
    <2>1. /\ admin' \in [Admin -> AdminState] /\ admin'[a] = Idle
          /\ \A b \in Admin \ {a} : admin'[b] = admin[b]
      BY <1>0, <1>5, AdminMoves DEF AdminEnds, Idle, AdminState
    <2>2. Version' = Version
      BY <1>5 DEF Version
    <2>3. TypeOK' /\ WithinRelease' /\ PathsDiffer' /\ IdsKnown'
      BY <1>0, <1>1, <1>5, <2>1 DEF TypeOK, WithinRelease, PathsDiffer, IdsKnown, Idle
    <2>4. CreateInv' /\ DeleteInv'
      BY <1>0, <1>1, <1>2, <1>5, <2>1, <2>2 DEF CreateInv, DeleteInv, Serving, Idle, Stays
    <2>5. Unowned' /\ VersionIsTrue'
      BY <1>0, <1>1, <2>2 DEF Unowned, VersionIsTrue, HasDatabase, Stays
    <2> QED BY <1>3, <2>3, <2>4, <2>5 DEF UsersInv
  <1> QED BY <1>4, <1>5 DEF CreateOpens

LEMMA BootstrapStep ==
    ASSUME AdminsApart, UsersInv, NEW a \in Admin, Bootstrap(a) PROVE UsersInv'
  <1> DEFINE id == actor.id
  <1>0. /\ TypeOK /\ WithinRelease /\ PathsDiffer /\ IdsKnown /\ CreateInv /\ DeleteInv
        /\ BootInv /\ Unowned /\ VersionIsTrue
    BY DEF UsersInv
  <1>1. /\ UNCHANGED <<rows, path, cache, admin, client, server, release, accounts, doomed, faults>>
        /\ Serving /\ admin[a].pc = "creating" /\ actor.pc = "bootstrap"
        /\ file' = [file EXCEPT ![path[id]] = release]
    BY DEF Bootstrap
  <1>2. /\ admin[a].id = id
        /\ \A b \in Admin \ {a} : admin[b].pc # "idle" => admin[b].id # id
    BY <1>0, <1>1, OneCreates
  <1>3. id \in Ids(path) /\ HasDatabase(id) /\ release \in 0..release /\ release \in 1..MaxRelease
    BY <1>0, <1>1, BoundAssumption DEF CreateInv, TypeOK
  <1>4. /\ file' \in [File -> 0..MaxRelease] /\ \A f \in File : file'[f] <= release
        /\ id \in UserId /\ Version'[id] = release
        /\ \A i \in UserId \ {id} : Version'[i] = Version[i]
    BY <1>0, <1>1, <1>3, FileMigrates
  <1>5. actor' \in ActorState /\ actor'.pc = "record" /\ actor'.id = id
    BY <1>4 DEF Bootstrap, ActorAt, ActorState
  <1>6. TypeOK' /\ WithinRelease' /\ PathsDiffer' /\ IdsKnown'
    BY <1>0, <1>1, <1>4, <1>5 DEF TypeOK, WithinRelease, PathsDiffer, IdsKnown
  <1>7. CreateInv' /\ DeleteInv'
    <2>1. CreateInv'
      BY <1>0, <1>1, <1>3, <1>4, <1>5 DEF CreateInv, Serving, HasDatabase
    <2>2. \A b \in Admin : admin[b].pc \in {"remove", "row"} =>
                                admin[b].id # id /\ admin[b].id \in UserId
      BY <1>0, <1>1, <1>2 DEF IdsKnown, TypeOK
    <2>3. DeleteInv'
      BY <1>0, <1>1, <1>4, <2>2 DEF DeleteInv, Serving, Stays
    <2> QED BY <2>1, <2>3
  <1>8. BootInv'
    BY <1>0, <1>1, ServingBoot
  <1>9. Unowned' /\ VersionIsTrue'
    BY <1>0, <1>1, <1>3, <1>4 DEF Unowned, VersionIsTrue, HasDatabase, Stays, WithinRelease, TypeOK
  <1> QED BY <1>6, <1>7, <1>8, <1>9 DEF UsersInv

LEMMA CreateRecordsStep ==
    ASSUME AdminsApart, UsersInv, NEW a \in Admin, CreateRecords(a) PROVE UsersInv'
  <1> DEFINE id == actor.id
  <1>0. /\ TypeOK /\ WithinRelease /\ PathsDiffer /\ IdsKnown /\ CreateInv /\ DeleteInv
        /\ BootInv /\ Unowned /\ VersionIsTrue
    BY DEF UsersInv
  <1>1. /\ UNCHANGED <<path, file, cache, client, server, release, accounts, doomed, faults>>
        /\ Serving /\ actor.pc = "record" /\ actor' = Idle
        /\ UpdateDBVersion(id) /\ admin' = [admin EXCEPT ![a] = Idle]
    BY DEF CreateRecords, ActorEnds, AdminEnds
  <1>2. \A b \in Admin \ {a} : admin[b].pc # "creating"
    BY <1>0, <1>1, OneCreates DEF CreateRecords
  <1>3. HasDatabase(id) /\ id \in UserId /\ Version[id] = release
    BY <1>0, <1>1 DEF CreateInv, HasDatabase, TypeOK
  <1>4. /\ Ids(rows') = Ids(rows)
        /\ \A i \in Ids(rows) : /\ rows'[i] \in Row /\ rows'[i].version <= release
                                /\ rows'[i].account = rows[i].account
                                /\ rows'[i].isAdmin = rows[i].isAdmin
                                /\ i # id => rows'[i].version = rows[i].version
        /\ rows'[id].version = release
    BY <1>0, <1>1, <1>3, VersionRecorded
  <1>5. /\ admin' \in [Admin -> AdminState] /\ admin'[a] = Idle /\ Idle \in ActorState
        /\ \A b \in Admin \ {a} : admin'[b] = admin[b]
    BY <1>0, <1>1, AdminMoves DEF Idle, AdminState, ActorState
  <1>6. Version' = Version /\ Version \in [UserId -> 0..MaxRelease] /\ release \in 1..MaxRelease
    BY <1>0, <1>1, VersionTyped DEF Version, TypeOK
  <1>7. TypeOK' /\ WithinRelease' /\ PathsDiffer' /\ IdsKnown'
    BY <1>0, <1>1, <1>4, <1>5 DEF TypeOK, WithinRelease, PathsDiffer, IdsKnown, Idle
  <1>8. CreateInv' /\ DeleteInv'
    <2>1. CreateInv'
      BY <1>1, <1>2, <1>5 DEF CreateInv, Serving, Idle
    <2>2. DeleteInv'
      BY <1>0, <1>1, <1>4, <1>5, <1>6 DEF DeleteInv, Serving, Idle, Stays
    <2> QED BY <2>1, <2>2
  <1>9. BootInv'
    BY <1>0, <1>1, ServingBoot
  <1>10. Unowned' /\ VersionIsTrue'
    BY <1>0, <1>1, <1>3, <1>4, <1>6 DEF Unowned, VersionIsTrue, HasDatabase, Stays
  <1> QED BY <1>7, <1>8, <1>9, <1>10 DEF UsersInv

LEMMA FaultTyped == ASSUME TypeOK, Fault PROVE faults' \in 0..MaxFaults
  BY BoundAssumption DEF TypeOK, Fault

LEMMA CreateFailsStep ==
    ASSUME AdminsApart, UsersInv, NEW a \in Admin, CreateFails(a) PROVE UsersInv'
  <1> DEFINE id == actor.id
  <1>0. /\ TypeOK /\ WithinRelease /\ PathsDiffer /\ IdsKnown /\ CreateInv /\ DeleteInv
        /\ BootInv /\ Unowned /\ VersionIsTrue
    BY DEF UsersInv
  <1>1. /\ UNCHANGED <<rows, path, cache, client, server, release, accounts, doomed>>
        /\ Serving /\ actor' = Idle /\ admin' = [admin EXCEPT ![a] = Idle]
        /\ faults' \in 0..MaxFaults
    BY <1>0, FaultTyped DEF CreateFails, Free, ActorEnds, AdminEnds
  <1>2. /\ \A b \in Admin \ {a} : admin[b].pc # "creating"
        /\ actor.pc # "idle" =>
              \A b \in Admin \ {a} : admin[b].pc # "idle" => admin[b].id # id
    <2>1. CASE admin[a].pc = "creating"
      BY <1>0, <2>1, OneCreates
    <2>2. CASE actor.pc = "idle"
      BY <1>0, <2>2 DEF CreateInv
    <2> QED BY <2>1, <2>2 DEF CreateFails, Free
  <1>3. /\ admin' \in [Admin -> AdminState] /\ admin'[a] = Idle /\ Idle \in ActorState
        /\ \A b \in Admin \ {a} : admin'[b] = admin[b]
    BY <1>0, <1>1, AdminMoves DEF Idle, AdminState, ActorState
  <1>4. /\ file' \in [File -> 0..MaxRelease] /\ \A f \in File : file'[f] <= release
        /\ \A i \in UserId : Version'[i] >= Version[i]
        /\ \A i \in UserId : ~HasDatabase(i) => Version'[i] = Version[i]
        /\ \A i \in UserId : actor.pc = "idle" \/ i # id => Version'[i] = Version[i]
    <2>0. Version \in [UserId -> 0..MaxRelease] /\ release \in 1..MaxRelease
      BY <1>0, VersionTyped DEF TypeOK
    <2>1. CASE UNCHANGED file
      <3>1. Version' = Version
        BY <1>1, <2>1 DEF Version
      <3> QED BY <1>0, <2>0, <2>1, <3>1 DEF TypeOK, WithinRelease
    <2>2. CASE /\ actor.pc = "bootstrap"
               /\ \E v \in file[path[id]]..release : file' = [file EXCEPT ![path[id]] = v]
      <3>1. id \in Ids(path) /\ HasDatabase(id)
        BY <1>0, <2>2 DEF CreateInv
      <3>2. PICK v \in file[path[id]]..release : file' = [file EXCEPT ![path[id]] = v]
        BY <2>2
      <3>3. id \in UserId /\ Version[id] = file[path[id]] /\ v \in 0..release /\ v >= Version[id]
        BY <1>0, <2>0, <3>1, <3>2, BoundAssumption DEF Version, TypeOK
      <3>4. /\ file' \in [File -> 0..MaxRelease] /\ \A f \in File : file'[f] <= release
            /\ Version'[id] = v
            /\ \A i \in UserId \ {id} : Version'[i] = Version[i]
        BY <1>0, <1>1, <3>1, <3>2, <3>3, FileMigrates
      <3>5. \A i \in UserId : Version'[i] >= Version[i]
        BY <2>0, <3>3, <3>4
      <3>6. \A i \in UserId : actor.pc = "idle" \/ i # id => Version'[i] = Version[i]
        BY <2>2, <3>4
      <3> QED BY <3>1, <3>4, <3>5, <3>6
    <2> QED BY <2>1, <2>2 DEF CreateFails
  <1>5. TypeOK' /\ WithinRelease' /\ PathsDiffer' /\ IdsKnown'
    BY <1>0, <1>1, <1>3, <1>4 DEF TypeOK, WithinRelease, PathsDiffer, IdsKnown, Idle
  <1>6. CreateInv' /\ DeleteInv'
    <2>1. CreateInv'
      BY <1>1, <1>2, <1>3 DEF CreateInv, Serving, Idle
    <2>2. \A b \in Admin \ {a} : admin[b].pc # "idle" => Version'[admin[b].id] = Version[admin[b].id]
      BY <1>0, <1>2, <1>4 DEF IdsKnown, TypeOK
    <2>3. DeleteInv'
      BY <1>0, <1>1, <1>3, <2>2 DEF DeleteInv, Serving, Idle, Stays
    <2> QED BY <2>1, <2>3
  <1>7. BootInv'
    BY <1>0, <1>1, ServingBoot
  <1>8. Unowned'
    BY <1>0, <1>1, <1>4 DEF Unowned, HasDatabase
  <1>9. VersionIsTrue'
    <2>1. Version \in [UserId -> 0..MaxRelease] /\ Version' \in [UserId -> 0..MaxRelease]
      BY <1>0, <1>5, VersionTyped, VersionTypedNext
    <2>2. \A i \in Ids(rows) : rows[i].version \in 0..MaxRelease /\ i \in UserId
      BY <1>0 DEF TypeOK, Row
    <2> QED BY <1>0, <1>1, <1>4, <2>1, <2>2, BoundAssumption DEF VersionIsTrue, Stays
  <1> QED BY <1>5, <1>6, <1>7, <1>8, <1>9 DEF UsersInv

LEMMA FindUserStep ==
    ASSUME AdminsApart, UsersInv, NEW a \in Admin, FindUser(a) PROVE UsersInv'
  <1>0. /\ TypeOK /\ WithinRelease /\ PathsDiffer /\ IdsKnown /\ CreateInv /\ DeleteInv
        /\ BootInv /\ Unowned /\ VersionIsTrue
    BY DEF UsersInv
  <1>1. /\ UNCHANGED <<rows, path, file, cache, actor, client, server, release, accounts, faults>>
        /\ Serving /\ admin[a].pc = "idle"
    BY DEF FindUser
  <1>2. PICK id \in Ids(rows) :
            /\ admin' = [admin EXCEPT ![a] =
                            [pc |-> IF rows[id].isAdmin THEN "remove" ELSE "remove-delete", id |-> id]]
            /\ doomed' = doomed \cup {rows[id].account}
    BY DEF FindUser
  <1>4. /\ id \in UserId /\ doomed' \subseteq Account /\ doomed \subseteq doomed'
    BY <1>0, <1>2 DEF TypeOK, Row
  <1>5. /\ admin' \in [Admin -> AdminState] /\ admin'[a].id = id
        /\ admin'[a].pc \in {"remove", "remove-delete"}
        /\ admin'[a].pc = "remove" => rows[id].isAdmin
        /\ \A b \in Admin \ {a} : admin'[b] = admin[b]
    <2>1. [pc |-> IF rows[id].isAdmin THEN "remove" ELSE "remove-delete", id |-> id] \in AdminState
      BY <1>4 DEF AdminState
    <2> QED BY <1>0, <1>2, <2>1, AdminMoves
  <1>7. Version' = Version
    BY <1>1 DEF Version
  <1>8. TypeOK' /\ WithinRelease' /\ PathsDiffer' /\ IdsKnown'
    BY <1>0, <1>1, <1>2, <1>4, <1>5 DEF TypeOK, WithinRelease, PathsDiffer, IdsKnown
  <1>9. CreateInv'
    BY <1>0, <1>1, <1>5, <1>7 DEF CreateInv, Serving, HasDatabase
  <1>10. DeleteInv'
    <2>1. ~HasDatabase(id) => Version[id] = 0
      BY <1>0, <1>4 DEF Unowned
    <2>2. ~Stays(id)'
      BY <1>1, <1>2 DEF Stays
    <2> QED BY <1>0, <1>1, <1>4, <1>5, <1>7, <2>1, <2>2 DEF DeleteInv, Serving, HasDatabase, Stays
  <1>11. BootInv'
    BY <1>0, <1>1, ServingBoot
  <1>12. Unowned' /\ VersionIsTrue'
    BY <1>0, <1>1, <1>4, <1>7 DEF Unowned, VersionIsTrue, HasDatabase, Stays
  <1> QED BY <1>8, <1>9, <1>10, <1>11, <1>12 DEF UsersInv

LEMMA RemovePoolStep ==
    ASSUME AdminsApart, UsersInv, NEW a \in Admin, RemovePool(a) PROVE UsersInv'
  <1>0. /\ TypeOK /\ WithinRelease /\ PathsDiffer /\ IdsKnown /\ CreateInv /\ DeleteInv
        /\ BootInv /\ Unowned /\ VersionIsTrue
    BY DEF UsersInv
  <1>1. /\ UNCHANGED <<rows, path, file, actor, server, release, accounts, doomed, faults>>
        /\ Serving /\ actor.pc = "idle" /\ admin[a].pc \in {"remove", "remove-delete"}
        /\ Dropped(admin[a].id)
        /\ AdminAt(a, IF admin[a].pc = "remove" THEN "row" ELSE "delete")
    BY DEF RemovePool, Free
  <1>3. /\ admin' \in [Admin -> AdminState] /\ admin'[a].id = admin[a].id
        /\ admin'[a].pc \in {"row", "delete"}
        /\ admin'[a].pc = "row" => admin[a].pc = "remove"
        /\ \A b \in Admin \ {a} : admin'[b] = admin[b]
    BY <1>0, <1>1, AdminAtMoves
  <1>4. /\ Ids(cache') \subseteq UserId
        /\ \A i \in Ids(cache') : cache'[i] \in File \cup {Nowhere}
        /\ client' \in [Client -> ClientState]
        /\ \A c \in Client : client'[c].pc = "use" => client'[c].id \in Ids(cache')
        /\ \A c \in Client : client'[c].pc # "idle" =>
              client[c].pc # "idle" /\ client'[c].id = client[c].id
    BY <1>0, <1>1, PoolDropped
  <1>5. Version' = Version
    BY <1>1 DEF Version
  <1>6. TypeOK'
    BY <1>0, <1>1, <1>3, <1>4 DEF TypeOK
  <1>7. WithinRelease' /\ PathsDiffer'
    BY <1>0, <1>1 DEF WithinRelease, PathsDiffer
  <1>8. IdsKnown'
    BY <1>0, <1>1, <1>3, <1>4 DEF IdsKnown
  <1>9. CreateInv' /\ DeleteInv'
    BY <1>0, <1>1, <1>3, <1>5 DEF CreateInv, DeleteInv, Serving, Stays
  <1>10. BootInv'
    BY <1>0, <1>1, ServingBoot
  <1>11. Unowned' /\ VersionIsTrue'
    BY <1>0, <1>1, <1>5 DEF Unowned, VersionIsTrue, HasDatabase, Stays
  <1> QED BY <1>6, <1>7, <1>8, <1>9, <1>10, <1>11 DEF UsersInv

LEMMA DeleteFileStep ==
    ASSUME AdminsApart, UsersInv, NEW a \in Admin, DeleteFile(a) PROVE UsersInv'
  <1> DEFINE id == admin[a].id
  <1>0. /\ TypeOK /\ WithinRelease /\ PathsDiffer /\ IdsKnown /\ CreateInv /\ DeleteInv
        /\ BootInv /\ Unowned /\ VersionIsTrue
    BY DEF UsersInv
  <1>1. /\ UNCHANGED <<rows, file, cache, actor, client, server, release, accounts, doomed, faults>>
        /\ Serving /\ actor.pc = "idle" /\ admin[a].pc = "delete" /\ id \in UserId
    BY <1>0 DEF DeleteFile, Free, IdsKnown, TypeOK
  <1>3. BootInv'
    BY <1>0, <1>1, ServingBoot
  <1>4. CASE path' = Without(path, id) /\ AdminAt(a, "row")
    <2>1. /\ Ids(path') = Ids(path) \ {id} /\ \A i \in Ids(path') : path'[i] = path[i]
      BY <1>4 DEF Without
    <2>2. Version'[id] = 0 /\ \A i \in UserId \ {id} : Version'[i] = Version[i]
      BY <1>1, <2>1 DEF Version
    <2>3. /\ admin' \in [Admin -> AdminState] /\ admin'[a].id = id /\ admin'[a].pc = "row"
          /\ \A b \in Admin \ {a} : admin'[b] = admin[b]
      BY <1>0, <1>4, AdminAtMoves
    <2>4. TypeOK' /\ WithinRelease' /\ PathsDiffer' /\ IdsKnown'
      BY <1>0, <1>1, <2>1, <2>3 DEF TypeOK, WithinRelease, PathsDiffer, IdsKnown
    <2>5. CreateInv' /\ DeleteInv'
      <3>1. CreateInv'
        BY <1>0, <1>1, <2>3 DEF CreateInv, Serving
      <3>2. \A b \in Admin : admin[b].pc # "idle" => admin[b].id \in UserId
        BY <1>0 DEF IdsKnown, TypeOK
      <3>3. DeleteInv'
        BY <1>0, <1>1, <2>2, <2>3, <3>2 DEF DeleteInv, Serving, Stays
      <3> QED BY <3>1, <3>3
    <2>6. Unowned'
      BY <1>0, <1>1, <2>2 DEF Unowned, HasDatabase
    <2>7. VersionIsTrue'
      <3>1. ~Stays(id)
        BY <1>0, <1>1 DEF DeleteInv
      <3> QED BY <1>0, <1>1, <2>2, <3>1 DEF VersionIsTrue, Stays, TypeOK
    <2> QED BY <1>3, <2>4, <2>5, <2>6, <2>7 DEF UsersInv
  <1>5. CASE AdminEnds(a) /\ UNCHANGED path
    <2>1. /\ admin' \in [Admin -> AdminState] /\ admin'[a] = Idle
          /\ \A b \in Admin \ {a} : admin'[b] = admin[b]
      BY <1>0, <1>5, AdminMoves DEF AdminEnds, Idle, AdminState
    <2>2. Version' = Version
      BY <1>1, <1>5 DEF Version
    <2>3. TypeOK' /\ WithinRelease' /\ PathsDiffer' /\ IdsKnown'
      BY <1>0, <1>1, <1>5, <2>1 DEF TypeOK, WithinRelease, PathsDiffer, IdsKnown, Idle
    <2>4. CreateInv' /\ DeleteInv'
      BY <1>0, <1>1, <1>5, <2>1, <2>2 DEF CreateInv, DeleteInv, Serving, Idle, Stays
    <2>5. Unowned' /\ VersionIsTrue'
      BY <1>0, <1>1, <2>2 DEF Unowned, VersionIsTrue, HasDatabase, Stays
    <2> QED BY <1>3, <2>3, <2>4, <2>5 DEF UsersInv
  <1> QED BY <1>4, <1>5 DEF DeleteFile

LEMMA DeleteRowStep ==
    ASSUME AdminsApart, UsersInv, NEW a \in Admin, DeleteRow(a) PROVE UsersInv'
  <1> DEFINE id == admin[a].id
  <1>0. /\ TypeOK /\ WithinRelease /\ PathsDiffer /\ IdsKnown /\ CreateInv /\ DeleteInv
        /\ BootInv /\ Unowned /\ VersionIsTrue
    BY DEF UsersInv
  <1>1. /\ UNCHANGED <<path, file, cache, actor, client, server, release, accounts, doomed, faults>>
        /\ Serving /\ admin[a].pc = "row" /\ id \in UserId /\ Version[id] = 0
        /\ rows' = Without(rows, id) /\ admin' = [admin EXCEPT ![a] = Idle]
    BY <1>0 DEF DeleteRow, IdsKnown, DeleteInv, AdminEnds, TypeOK
  <1>2. \A b \in Admin \ {a} : admin[b].pc # "idle" => admin[b].id # id
    BY <1>1 DEF AdminsApart
  <1>4. Ids(rows') = Ids(rows) \ {id} /\ \A i \in Ids(rows') : rows'[i] = rows[i]
    BY <1>1 DEF Without
  <1>5. /\ admin' \in [Admin -> AdminState] /\ admin'[a] = Idle
        /\ \A b \in Admin \ {a} : admin'[b] = admin[b]
    BY <1>0, <1>1, AdminMoves DEF Idle, AdminState
  <1>6. Version' = Version
    BY <1>1 DEF Version
  <1>7. TypeOK' /\ WithinRelease' /\ PathsDiffer' /\ IdsKnown'
    BY <1>0, <1>1, <1>2, <1>4, <1>5 DEF TypeOK, WithinRelease, PathsDiffer, IdsKnown, Idle
  <1>8. CreateInv' /\ DeleteInv'
    <2>1. actor.pc # "idle" => actor.id # id
      BY <1>0, <1>1, <1>2 DEF CreateInv
    <2>2. CreateInv'
      BY <1>0, <1>1, <1>4, <1>5, <1>6, <2>1 DEF CreateInv, Serving, Idle, HasDatabase
    <2>3. DeleteInv'
      BY <1>0, <1>1, <1>4, <1>5, <1>6 DEF DeleteInv, Serving, Idle, Stays
    <2> QED BY <2>2, <2>3
  <1>9. BootInv'
    BY <1>0, <1>1, ServingBoot
  <1>10. Unowned' /\ VersionIsTrue'
    BY <1>0, <1>1, <1>4, <1>6 DEF Unowned, VersionIsTrue, HasDatabase, Stays
  <1> QED BY <1>7, <1>8, <1>9, <1>10 DEF UsersInv

LEMMA DeleteFailsStep ==
    ASSUME AdminsApart, UsersInv, NEW a \in Admin, DeleteFails(a) PROVE UsersInv'
  <1>0. /\ TypeOK /\ WithinRelease /\ PathsDiffer /\ IdsKnown /\ CreateInv /\ DeleteInv
        /\ BootInv /\ Unowned /\ VersionIsTrue
    BY DEF UsersInv
  <1>1. /\ UNCHANGED <<rows, path, file, cache, actor, client, server, release, accounts, doomed>>
        /\ Serving /\ admin[a].pc # "creating" /\ faults' \in 0..MaxFaults
        /\ admin' = [admin EXCEPT ![a] = Idle]
    BY <1>0, FaultTyped DEF DeleteFails, AdminEnds
  <1>4. /\ admin' \in [Admin -> AdminState] /\ admin'[a] = Idle
        /\ \A b \in Admin \ {a} : admin'[b] = admin[b]
    BY <1>0, <1>1, AdminMoves DEF Idle, AdminState
  <1>5. Version' = Version
    BY <1>1 DEF Version
  <1>6. TypeOK' /\ WithinRelease' /\ PathsDiffer' /\ IdsKnown'
    BY <1>0, <1>1, <1>4 DEF TypeOK, WithinRelease, PathsDiffer, IdsKnown, Idle
  <1>7. CreateInv' /\ DeleteInv'
    BY <1>0, <1>1, <1>4, <1>5 DEF CreateInv, DeleteInv, Serving, Idle, Stays, HasDatabase
  <1>8. BootInv'
    BY <1>0, <1>1, ServingBoot
  <1>9. Unowned' /\ VersionIsTrue'
    BY <1>0, <1>1, <1>5 DEF Unowned, VersionIsTrue, HasDatabase, Stays
  <1> QED BY <1>6, <1>7, <1>8, <1>9 DEF UsersInv

-----------------------------------------------------------------------------
(* The process.                                                              *)

\* Without a server that serves there is no handler and no command.
LEMMA NotServing ==
    ASSUME CreateInv, DeleteInv, ~Serving
    PROVE  actor.pc = "idle" /\ \A a \in Admin : admin[a].pc = "idle"
  BY DEF CreateInv, DeleteInv

LEMMA StillQuiet ==
    ASSUME CreateInv, DeleteInv, ~Serving, actor' = actor, admin' = admin
    PROVE  CreateInv' /\ DeleteInv'
  BY NotServing DEF CreateInv, DeleteInv

LEMMA CrashStep == ASSUME UsersInv, Crash PROVE UsersInv'
  <1>0. TypeOK /\ WithinRelease /\ PathsDiffer /\ Unowned /\ VersionIsTrue
    BY DEF UsersInv
  <1>1. /\ UNCHANGED <<rows, path, file, release, accounts, doomed, faults>>
        /\ server' = Down /\ cache' = None /\ actor' = Idle
        /\ admin' = [a \in Admin |-> Idle] /\ client' = [c \in Client |-> Idle]
    BY DEF Crash
  <1>2. Version' = Version
    BY <1>1 DEF Version
  <1>3. TypeOK'
    <2>1. /\ Idle \in ActorState /\ Idle \in AdminState /\ Idle \in ClientState
          /\ Down \in ServerState
      BY DEF Idle, Down, ActorState, AdminState, ClientState, ServerState
    <2> QED BY <1>0, <1>1, <2>1 DEF TypeOK, None, Idle
  <1>4. WithinRelease' /\ PathsDiffer' /\ IdsKnown'
    BY <1>0, <1>1 DEF WithinRelease, PathsDiffer, IdsKnown, Idle
  <1>5. CreateInv' /\ DeleteInv' /\ BootInv'
    BY <1>1 DEF CreateInv, DeleteInv, BootInv, Idle, Down
  <1>6. Unowned' /\ VersionIsTrue'
    BY <1>0, <1>1, <1>2 DEF Unowned, VersionIsTrue, HasDatabase, Stays
  <1> QED BY <1>3, <1>4, <1>5, <1>6 DEF UsersInv

LEMMA StartStep == ASSUME UsersInv, Start PROVE UsersInv'
  <1>0. /\ TypeOK /\ WithinRelease /\ PathsDiffer /\ IdsKnown /\ CreateInv /\ DeleteInv
        /\ Unowned /\ VersionIsTrue
    BY DEF UsersInv
  <1>1. /\ UNCHANGED <<rows, path, file, cache, actor, admin, client, accounts, doomed, faults>>
        /\ server = Down /\ release' \in {release, release + 1} /\ release' <= MaxRelease
        /\ server' = [Down EXCEPT !.phase = "boot", !.todo = Outdated(release')]
    BY DEF Start
  <1>2. Version' = Version /\ ~Serving
    BY <1>1 DEF Version, Serving, Down
  <1>3. /\ release' \in 1..MaxRelease /\ release <= release' /\ release \in 1..MaxRelease
    BY <1>0, <1>1, BoundAssumption DEF TypeOK
  <1>4. /\ server'.phase = "boot" /\ server'.step = "next" /\ server'.todo = Outdated(release')
        /\ server' \in ServerState
    BY <1>0, <1>1 DEF Down, ServerState, Outdated, HasDatabase, TypeOK
  <1>5. \A id \in Ids(rows) : rows[id].version \in 0..release /\ id \in UserId
    BY <1>0, <1>3 DEF TypeOK, WithinRelease, Row
  <1>6. TypeOK'
    BY <1>0, <1>1, <1>3, <1>4 DEF TypeOK
  <1>7. WithinRelease'
    <2>1. \A f \in File : file[f] \in 0..MaxRelease /\ file[f] <= release
      BY <1>0 DEF TypeOK, WithinRelease
    <2> QED BY <1>1, <1>3, <1>5, <2>1, BoundAssumption DEF WithinRelease
  <1>8. PathsDiffer' /\ IdsKnown'
    BY <1>0, <1>1 DEF PathsDiffer, IdsKnown
  <1>9. CreateInv' /\ DeleteInv'
    BY <1>0, <1>1, <1>2, StillQuiet
  <1>10. BootInv'
    BY <1>1, <1>3, <1>4, <1>5 DEF BootInv, Outdated, HasDatabase
  <1>11. Unowned' /\ VersionIsTrue'
    BY <1>0, <1>1, <1>2 DEF Unowned, VersionIsTrue, HasDatabase, Stays
  <1> QED BY <1>6, <1>7, <1>8, <1>9, <1>10, <1>11 DEF UsersInv

LEMMA BootOpensStep == ASSUME UsersInv, BootOpens PROVE UsersInv'
  <1>0. /\ TypeOK /\ WithinRelease /\ PathsDiffer /\ IdsKnown /\ CreateInv /\ DeleteInv
        /\ BootInv /\ Unowned /\ VersionIsTrue
    BY DEF UsersInv
  <1>1. /\ UNCHANGED <<rows, cache, actor, admin, client, release, accounts, doomed, faults>>
        /\ server.phase = "boot" /\ server.step = "next" /\ ~Serving
    BY DEF BootOpens, Booting, Serving
  <1>2. PICK id \in server.todo :
            /\ OpenPath(id)
            /\ server' = [server EXCEPT !.step = "migrate", !.at = id, !.todo = @ \ {id}]
    BY DEF BootOpens
  <1>3. id \in UserId /\ HasDatabase(id)
    BY <1>0, <1>1, <1>2 DEF TypeOK, ServerState, BootInv
  <1>4. /\ Ids(path') = Ids(path) \cup {id} /\ \A i \in Ids(path') : path'[i] \in File
        /\ file' \in [File -> 0..MaxRelease] /\ \A f \in File : file'[f] <= release
        /\ \A i, j \in Ids(path') : path'[i] = path'[j] => i = j
        /\ Version' = Version
    BY <1>0, <1>2, <1>3, PathOpens
  <1>5. /\ server' \in ServerState /\ server'.phase = "boot" /\ server'.step = "migrate"
        /\ server'.at = id /\ server'.todo = server.todo \ {id}
    BY <1>0, <1>1, <1>2, <1>3 DEF TypeOK, ServerState
  <1>6. TypeOK' /\ WithinRelease' /\ PathsDiffer' /\ IdsKnown'
    <2>1. TypeOK'
      BY <1>0, <1>1, <1>3, <1>4, <1>5 DEF TypeOK
    <2>2. WithinRelease' /\ PathsDiffer' /\ IdsKnown'
      BY <1>0, <1>1, <1>4 DEF WithinRelease, PathsDiffer, IdsKnown
    <2> QED BY <2>1, <2>2
  <1>7. CreateInv' /\ DeleteInv'
    BY <1>0, <1>1, StillQuiet
  <1>8. BootInv'
    BY <1>0, <1>1, <1>3, <1>4, <1>5 DEF BootInv, HasDatabase
  <1>9. Unowned' /\ VersionIsTrue'
    BY <1>0, <1>1, <1>4 DEF Unowned, VersionIsTrue, HasDatabase, Stays
  <1> QED BY <1>6, <1>7, <1>8, <1>9 DEF UsersInv

LEMMA BootMigratesStep == ASSUME UsersInv, BootMigrates PROVE UsersInv'
  <1> DEFINE id == server.at
  <1>0. /\ TypeOK /\ WithinRelease /\ PathsDiffer /\ IdsKnown /\ CreateInv /\ DeleteInv
        /\ BootInv /\ Unowned /\ VersionIsTrue
    BY DEF UsersInv
  <1>1. /\ UNCHANGED <<rows, path, cache, actor, admin, client, release, accounts, doomed, faults>>
        /\ server.phase = "boot" /\ server.step = "migrate" /\ ~Serving
        /\ file' = [file EXCEPT ![path[id]] = release]
        /\ server' = [server EXCEPT !.step = "record"]
    BY DEF BootMigrates, Booting, Serving
  <1>2. id \in Ids(path) /\ HasDatabase(id) /\ release \in 0..release /\ release \in 1..MaxRelease
    BY <1>0, <1>1, BoundAssumption DEF BootInv, TypeOK
  <1>3. /\ file' \in [File -> 0..MaxRelease] /\ \A f \in File : file'[f] <= release
        /\ id \in UserId /\ Version'[id] = release
        /\ \A i \in UserId \ {id} : Version'[i] = Version[i]
    BY <1>0, <1>1, <1>2, FileMigrates
  <1>4. /\ server' \in ServerState /\ server'.phase = "boot" /\ server'.step = "record"
        /\ server'.at = id /\ server'.todo = server.todo
    BY <1>0, <1>1 DEF TypeOK, ServerState
  <1>5. TypeOK' /\ WithinRelease' /\ PathsDiffer' /\ IdsKnown'
    BY <1>0, <1>1, <1>3, <1>4 DEF TypeOK, WithinRelease, PathsDiffer, IdsKnown
  <1>6. CreateInv' /\ DeleteInv'
    BY <1>0, <1>1, StillQuiet
  <1>7. BootInv'
    BY <1>0, <1>1, <1>2, <1>3, <1>4 DEF BootInv, HasDatabase
  <1>8. Unowned' /\ VersionIsTrue'
    BY <1>0, <1>1, <1>2, <1>3 DEF Unowned, VersionIsTrue, HasDatabase, Stays, WithinRelease, TypeOK
  <1> QED BY <1>5, <1>6, <1>7, <1>8 DEF UsersInv

LEMMA BootRecordsStep == ASSUME UsersInv, BootRecords PROVE UsersInv'
  <1> DEFINE id == server.at
  <1>0. /\ TypeOK /\ WithinRelease /\ PathsDiffer /\ IdsKnown /\ CreateInv /\ DeleteInv
        /\ BootInv /\ Unowned /\ VersionIsTrue
    BY DEF UsersInv
  <1>1. /\ UNCHANGED <<path, file, cache, actor, admin, client, release, accounts, doomed, faults>>
        /\ server.phase = "boot" /\ server.step = "record" /\ ~Serving
        /\ UpdateDBVersion(id)
        /\ server' = [server EXCEPT !.step = "next", !.at = 0]
    BY DEF BootRecords, Booting, Serving
  <1>2. HasDatabase(id) /\ id \in UserId /\ Version[id] = release
    BY <1>0, <1>1 DEF BootInv, HasDatabase, TypeOK
  <1>3. /\ Ids(rows') = Ids(rows)
        /\ \A i \in Ids(rows) : /\ rows'[i] \in Row /\ rows'[i].version <= release
                                /\ rows'[i].account = rows[i].account
                                /\ rows'[i].isAdmin = rows[i].isAdmin
                                /\ i # id => rows'[i].version = rows[i].version
        /\ rows'[id].version = release
    BY <1>0, <1>1, <1>2, VersionRecorded
  <1>4. Version' = Version /\ Version \in [UserId -> 0..MaxRelease] /\ release \in 1..MaxRelease
    BY <1>0, <1>1, VersionTyped DEF Version, TypeOK
  <1>5. /\ server' \in ServerState /\ server'.phase = "boot" /\ server'.step = "next"
        /\ server'.todo = server.todo
    BY <1>0, <1>1 DEF TypeOK, ServerState
  <1>6. TypeOK' /\ WithinRelease' /\ PathsDiffer' /\ IdsKnown'
    BY <1>0, <1>1, <1>3, <1>5 DEF TypeOK, WithinRelease, PathsDiffer, IdsKnown
  <1>7. CreateInv' /\ DeleteInv'
    BY <1>0, <1>1, StillQuiet
  <1>8. BootInv'
    BY <1>0, <1>1, <1>2, <1>3, <1>5 DEF BootInv, HasDatabase
  <1>9. Unowned' /\ VersionIsTrue'
    BY <1>0, <1>1, <1>2, <1>3, <1>4 DEF Unowned, VersionIsTrue, HasDatabase, Stays
  <1> QED BY <1>6, <1>7, <1>8, <1>9 DEF UsersInv

LEMMA BootFailsStep == ASSUME UsersInv, BootFails PROVE UsersInv'
  <1> DEFINE id == server.at
  <1>0. /\ TypeOK /\ WithinRelease /\ PathsDiffer /\ IdsKnown /\ CreateInv /\ DeleteInv
        /\ BootInv /\ Unowned /\ VersionIsTrue
    BY DEF UsersInv
  <1>1. /\ UNCHANGED <<rows, path, cache, actor, admin, client, release, accounts, doomed>>
        /\ server.phase = "boot" /\ ~Serving /\ server' = Down /\ faults' \in 0..MaxFaults
    BY <1>0, FaultTyped DEF BootFails, Serving
  <1>2. /\ file' \in [File -> 0..MaxRelease] /\ \A f \in File : file'[f] <= release
        /\ \A i \in UserId : Version'[i] >= Version[i]
        /\ \A i \in UserId : ~HasDatabase(i) => Version'[i] = Version[i]
    <2>0. Version \in [UserId -> 0..MaxRelease] /\ release \in 1..MaxRelease
      BY <1>0, VersionTyped DEF TypeOK
    <2>1. CASE UNCHANGED file
      <3>1. Version' = Version
        BY <1>1, <2>1 DEF Version
      <3> QED BY <1>0, <2>0, <2>1, <3>1 DEF TypeOK, WithinRelease
    <2>2. CASE /\ Booting("migrate")
               /\ \E v \in file[path[id]]..release : file' = [file EXCEPT ![path[id]] = v]
      <3>1. id \in Ids(path) /\ HasDatabase(id)
        BY <1>0, <2>2 DEF BootInv, Booting
      <3>2. PICK v \in file[path[id]]..release : file' = [file EXCEPT ![path[id]] = v]
        BY <2>2
      <3>3. id \in UserId /\ Version[id] = file[path[id]] /\ v \in 0..release /\ v >= Version[id]
        BY <1>0, <2>0, <3>1, <3>2, BoundAssumption DEF Version, TypeOK
      <3>4. /\ file' \in [File -> 0..MaxRelease] /\ \A f \in File : file'[f] <= release
            /\ Version'[id] = v
            /\ \A i \in UserId \ {id} : Version'[i] = Version[i]
        BY <1>0, <1>1, <3>1, <3>2, <3>3, FileMigrates
      <3> QED BY <2>0, <3>1, <3>3, <3>4
    <2> QED BY <2>1, <2>2 DEF BootFails
  <1>3. TypeOK' /\ WithinRelease' /\ PathsDiffer' /\ IdsKnown'
    <2>1. Down \in ServerState
      BY DEF Down, ServerState
    <2> QED BY <1>0, <1>1, <1>2, <2>1 DEF TypeOK, WithinRelease, PathsDiffer, IdsKnown
  <1>4. CreateInv' /\ DeleteInv'
    BY <1>0, <1>1, StillQuiet
  <1>5. BootInv' /\ Unowned'
    BY <1>0, <1>1, <1>2 DEF BootInv, Down, Unowned, HasDatabase
  <1>6. VersionIsTrue'
    <2>1. Version \in [UserId -> 0..MaxRelease] /\ Version' \in [UserId -> 0..MaxRelease]
      BY <1>0, <1>3, VersionTyped, VersionTypedNext
    <2>2. \A i \in Ids(rows) : rows[i].version \in 0..MaxRelease /\ i \in UserId
      BY <1>0 DEF TypeOK, Row
    <2> QED BY <1>0, <1>1, <1>2, <2>1, <2>2, BoundAssumption DEF VersionIsTrue, Stays
  <1> QED BY <1>3, <1>4, <1>5, <1>6 DEF UsersInv

LEMMA BootEndsStep == ASSUME UsersInv, BootEnds PROVE UsersInv'
  <1>0. /\ TypeOK /\ WithinRelease /\ PathsDiffer /\ IdsKnown /\ CreateInv /\ DeleteInv
        /\ BootInv /\ Unowned /\ VersionIsTrue
    BY DEF UsersInv
  <1>1. /\ UNCHANGED <<rows, path, file, cache, actor, admin, client, release, accounts, doomed, faults>>
        /\ server.phase = "boot" /\ server.step = "next" /\ server.todo = {} /\ ~Serving
        /\ server' = [server EXCEPT !.phase = "serving"]
    BY DEF BootEnds, Booting, Serving
  <1>2. Version' = Version
    BY <1>1 DEF Version
  <1>3. server' \in ServerState /\ server'.step = "next" /\ server'.todo = {} /\ server'.phase = "serving"
    BY <1>0, <1>1 DEF TypeOK, ServerState
  <1>4. TypeOK' /\ WithinRelease' /\ PathsDiffer' /\ IdsKnown'
    BY <1>0, <1>1, <1>3 DEF TypeOK, WithinRelease, PathsDiffer, IdsKnown
  <1>5. CreateInv' /\ DeleteInv' /\ BootInv'
    BY <1>0, <1>1, <1>3, StillQuiet DEF BootInv
  <1>6. Unowned' /\ VersionIsTrue'
    BY <1>0, <1>1, <1>2 DEF Unowned, VersionIsTrue, HasDatabase, Stays
  <1> QED BY <1>4, <1>5, <1>6 DEF UsersInv

-----------------------------------------------------------------------------
(* The invariant holds.                                                      *)

LEMMA InitInv == ASSUME Init PROVE UsersInv
  <1>1. TypeOK
    <2>1. /\ Idle \in ActorState /\ Idle \in AdminState /\ Idle \in ClientState
          /\ Down \in ServerState
      BY DEF Idle, Down, ActorState, AdminState, ClientState, ServerState
    <2> QED BY <2>1, BoundAssumption DEF Init, TypeOK, None, Idle
  <1>2. WithinRelease /\ PathsDiffer /\ IdsKnown
    BY DEF Init, None, WithinRelease, PathsDiffer, IdsKnown, Idle
  <1>3. CreateInv /\ DeleteInv /\ BootInv
    BY DEF Init, CreateInv, DeleteInv, BootInv, Idle, Down
  <1>4. Unowned /\ VersionIsTrue
    BY DEF Init, None, Unowned, Version, VersionIsTrue
  <1> QED BY <1>1, <1>2, <1>3, <1>4 DEF UsersInv

LEMMA NextInv == ASSUME AdminsApart, UsersInv, [Next]_vars PROVE UsersInv'
  <1>1. CASE \E a \in Admin : PostUser(a)
    BY <1>1, InsertUserStep, CreateOpensStep, BootstrapStep, CreateRecordsStep, CreateFailsStep
       DEF PostUser
  <1>2. CASE \E a \in Admin : DeleteUser(a)
    BY <1>2, FindUserStep, RemovePoolStep, DeleteFileStep, DeleteRowStep, DeleteFailsStep
       DEF DeleteUser
  <1>3. CASE \E c \in Client : Request(c)
    BY <1>3, AuthenticateStep, GetNotesStoreStep, ReconnectStep, RequestEndsStep DEF Request
  <1>4. CASE ExpirePool \/ IdleOut
    BY <1>4, PoolSteps
  <1>5. CASE RunServer
    BY <1>5, StartStep, BootOpensStep, BootMigratesStep, BootRecordsStep, BootFailsStep,
       BootEndsStep, CrashStep DEF RunServer
  <1>6. CASE UNCHANGED vars
    BY <1>6 DEF vars, UsersInv, TypeOK, WithinRelease, PathsDiffer, IdsKnown, CreateInv,
       DeleteInv, BootInv, Unowned, VersionIsTrue, Version, Stays, HasDatabase, Serving
  <1> QED BY <1>1, <1>2, <1>3, <1>4, <1>5, <1>6 DEF Next

\* The invariant of rows, files, pools, handlers and the start of the server,
\* with any number of administrators at work on different users.
THEOREM UsersCorrect == Spec /\ []AdminsApart => []UsersInv
  <1>1. Init => UsersInv
    BY InitInv
  <1>2. AdminsApart /\ UsersInv /\ [Next]_vars => UsersInv'
    BY NextInv
  <1> QED BY <1>1, <1>2, PTL DEF Spec

\* The version in a row never promises more than the database has: whatever of
\* PostUser and runMigrations fails or is cut short, no migration is skipped.
THEOREM VersionIsTrueCorrect == Spec /\ []AdminsApart => []VersionIsTrue
  <1>1. UsersInv => VersionIsTrue
    BY DEF UsersInv
  <1> QED BY <1>1, UsersCorrect, PTL

\* DeleteUser removes the row only after the notes.
THEOREM NoNotesWithoutUserCorrect == Spec /\ []AdminsApart => []NoNotesWithoutUser
  <1>1. UsersInv => NoNotesWithoutUser
    BY DEF UsersInv, Unowned, NoNotesWithoutUser, HasDatabase
  <1> QED BY <1>1, UsersCorrect, PTL

\* When RunServer begins to serve, runMigrations has left no database behind.
THEOREM BootLeavesNoneBehindCorrect == Spec /\ []AdminsApart => BootLeavesNoneBehind
  <1> DEFINE Served == \A id \in Ids(rows) : HasDatabase(id) /\ Stays(id) =>
                           rows[id].version = release /\ Version[id] = release
  <1>1. ASSUME UsersInv, [Next]_vars, server.phase = "boot", Serving' PROVE Served
    <2>1. BootEnds
      <3>1. ~Serving /\ server' # server /\ server'.phase = "serving" /\ server \in ServerState
        BY <1>1 DEF Serving, UsersInv, TypeOK
      <3>2. ~(\E a \in Admin : PostUser(a) \/ DeleteUser(a))
        BY <3>1 DEF PostUser, DeleteUser, InsertUser, CreateOpens, Bootstrap, CreateRecords,
           CreateFails, FindUser, RemovePool, DeleteFile, DeleteRow, DeleteFails, Free
      <3>3. ~(\E c \in Client : Request(c)) /\ ~ExpirePool /\ ~IdleOut
        BY <3>1 DEF Request, Authenticate, GetNotesStore, Reconnect, RequestEnds, ExpirePool,
           IdleOut, Free
      <3>4. ~Start /\ ~BootFails /\ ~Crash
        BY <1>1, <3>1 DEF Start, BootFails, Crash, Down
      <3>5. ~BootOpens /\ ~BootMigrates /\ ~BootRecords
        BY <1>1, <3>1 DEF BootOpens, BootMigrates, BootRecords, ServerState
      <3> QED BY <1>1, <3>1, <3>2, <3>3, <3>4, <3>5 DEF Next, RunServer, vars
    <2>2. TypeOK /\ WithinRelease /\ BootInv /\ VersionIsTrue
      BY <1>1 DEF UsersInv
    <2>3. \A id \in Ids(rows) : HasDatabase(id) => rows[id].version = release /\ id \in UserId
      BY <2>1, <2>2 DEF BootEnds, Booting, BootInv, TypeOK
    <2>4. Version \in [UserId -> 0..MaxRelease] /\ release \in 1..MaxRelease
      BY <2>2, VersionTyped DEF TypeOK
    <2>5. \A id \in UserId : Version[id] <= release
      BY <2>2, <2>4 DEF Version, WithinRelease, TypeOK
    <2> QED BY <2>2, <2>3, <2>4, <2>5, BoundAssumption DEF VersionIsTrue
  <1>2. UsersInv /\ [Next]_vars => [server.phase = "boot" /\ Serving' => Served]_vars
    BY <1>1
  <1> QED BY <1>2, UsersCorrect, PTL DEF Spec, BootLeavesNoneBehind

-----------------------------------------------------------------------------
(* What holds whatever administrators do at the same time.                   *)

\* A connection of a user's pool is not on a database of another user.
PoolsApart ==
    \A i \in Ids(cache) : cache[i] # Nowhere =>
        /\ \A j \in Ids(path) : cache[i] = path[j] => i = j
        /\ \A j \in Ids(cache) : cache[i] = cache[j] => i = j

\* What is at work has the id of a user, who may be gone, and what migrates or
\* records has a file at the path: only a handler that the manager serves could
\* remove it, when the manager serves nobody else.
FilesKnown ==
    /\ \A a \in Admin : admin[a].pc # "idle" => admin[a].id \in UserId
    /\ \A c \in Client : client[c].pc # "idle" => client[c].id \in UserId
    /\ actor.pc # "idle" => actor.id \in Ids(path)
    /\ server.phase # "boot" => server.step = "next"
    /\ server.step # "next" => server.at \in Ids(path)

\* What is about to be recorded is so: the file has been migrated, by the process
\* that is still running, and nobody has put another in its place.
RecordsMigrated ==
    /\ actor.pc # "idle" => Serving
    /\ actor.pc = "record" => Version[actor.id] = release
    /\ server.step = "record" => Version[server.at] = release

FilesInv ==
    /\ TypeOK /\ WithinRelease
    /\ PathsDiffer /\ PoolsApart
    /\ FilesKnown /\ RecordsMigrated

LEMMA SameRecords ==
    ASSUME RecordsMigrated, UNCHANGED <<actor, server, release>>, Version' = Version
    PROVE  RecordsMigrated'
  BY DEF RecordsMigrated, Serving

\* A file that is opened anew is on no other path and in no pool.
LEMMA PathOpensApart ==
    ASSUME TypeOK, PathsDiffer, PoolsApart, NEW id \in UserId, OpenPath(id)
    PROVE  \A i \in Ids(cache), j \in Ids(path') :
              cache[i] # Nowhere /\ cache[i] = path'[j] => i = j
  <1>1. CASE path' = path
    BY <1>1 DEF PoolsApart
  <1>2. CASE \E f \in File : ~InUse(f) /\ path' = With(path, id, f)
    BY <1>2 DEF PoolsApart, With, InUse
  <1> QED BY <1>1, <1>2 DEF OpenPath

\* The pool of a user is on the file that the path of that user has now.
LEMMA PoolOpensApart ==
    ASSUME TypeOK, PathsDiffer, PoolsApart, NEW id \in UserId, OpenPath(id),
           id \in Ids(path'),
           \A i, j \in Ids(path') : path'[i] = path'[j] => i = j,
           Ids(cache') \subseteq Ids(cache) \cup {id},
           \A i \in Ids(cache') : cache'[i] = IF i = id THEN path'[id] ELSE cache[i]
    PROVE  PoolsApart'
  <1>1. \A i \in Ids(cache), j \in Ids(path') :
            cache[i] # Nowhere /\ cache[i] = path'[j] => i = j
    BY PathOpensApart
  <1>2. ASSUME NEW i \in Ids(cache'), cache'[i] # Nowhere, NEW j \in Ids(path'),
               cache'[i] = path'[j]
        PROVE  i = j
    BY <1>1, <1>2
  <1>3. ASSUME NEW i \in Ids(cache'), cache'[i] # Nowhere, NEW j \in Ids(cache'),
               cache'[i] = cache'[j]
        PROVE  i = j
    BY <1>1, <1>3 DEF PoolsApart
  <1> QED BY <1>2, <1>3 DEF PoolsApart

\* The row may be gone when its version is recorded: then nothing is.
LEMMA VersionRecordedIfThere ==
    ASSUME TypeOK, WithinRelease, NEW id, UpdateDBVersion(id)
    PROVE  /\ Ids(rows') = Ids(rows)
           /\ \A i \in Ids(rows) : rows'[i] \in Row /\ rows'[i].version <= release
  <1>1. Ids(rows') = Ids(rows)
    BY DEF UpdateDBVersion
  <1>2. ASSUME NEW i \in Ids(rows) PROVE rows'[i] \in Row /\ rows'[i].version <= release
    <2>1. rows[i] \in Row /\ rows[i].version <= release /\ release \in 0..MaxRelease
      BY BoundAssumption DEF TypeOK, WithinRelease
    <2>2. rows'[i] \in {rows[i], [rows[i] EXCEPT !.version = release]}
      BY DEF UpdateDBVersion
    <2> QED BY <2>1, <2>2 DEF Row
  <1> QED BY <1>1, <1>2

\* Steps of handlers alone.
LEMMA SameFiles ==
    ASSUME FilesInv, TypeOK', FilesKnown',
           UNCHANGED <<rows, path, file, cache, actor, server, release>>
    PROVE  FilesInv'
  <1>1. WithinRelease' /\ PathsDiffer' /\ PoolsApart'
    BY DEF FilesInv, WithinRelease, PathsDiffer, PoolsApart
  <1>2. RecordsMigrated'
    BY SameRecords DEF FilesInv, Version
  <1> QED BY <1>1, <1>2 DEF FilesInv

\* Steps that migrate the file of a user, up to the release or part of the way.
LEMMA OneFileMigrates ==
    ASSUME FilesInv, NEW id \in Ids(path), NEW v \in file[path[id]]..release,
           path' = path, file' = [file EXCEPT ![path[id]] = v]
    PROVE  /\ file' \in [File -> 0..MaxRelease]
           /\ \A f \in File : file'[f] <= release
           /\ id \in UserId /\ Version'[id] = v
           /\ \A i \in UserId \ {id} : Version'[i] = Version[i]
  <1>1. /\ TypeOK /\ WithinRelease /\ PathsDiffer
    BY DEF FilesInv
  <1>2. v \in 0..release
    BY <1>1, BoundAssumption DEF TypeOK
  <1> QED BY <1>1, <1>2, FileMigrates

LEMMA CreateKeepsFiles ==
    ASSUME FilesInv, NEW a \in Admin, CreateOpens(a) PROVE FilesInv'
  <1> DEFINE id == admin[a].id
  <1>0. /\ TypeOK /\ WithinRelease /\ PathsDiffer /\ PoolsApart /\ FilesKnown
        /\ RecordsMigrated
    BY DEF FilesInv
  <1>1. /\ UNCHANGED <<rows, cache, client, server, release, accounts, doomed, faults>>
        /\ id \in UserId
    BY <1>0 DEF CreateOpens, FilesKnown
  <1>2. CASE OpenPath(id) /\ ActorAt("bootstrap", id) /\ AdminAt(a, "creating")
    <2>1. /\ Ids(path') = Ids(path) \cup {id} /\ \A i \in Ids(path') : path'[i] \in File
          /\ file' \in [File -> 0..MaxRelease] /\ \A f \in File : file'[f] <= release
          /\ \A i, j \in Ids(path') : path'[i] = path'[j] => i = j
      BY <1>0, <1>1, <1>2, PathOpens
    <2>2. /\ admin' \in [Admin -> AdminState] /\ admin'[a].id = id
          /\ \A b \in Admin \ {a} : admin'[b] = admin[b]
      BY <1>0, <1>2, AdminAtMoves
    <2>3. actor' \in ActorState /\ actor'.id = id
      BY <1>1, <1>2 DEF ActorAt, ActorState
    <2>4. TypeOK'
      BY <1>0, <1>1, <2>1, <2>2, <2>3 DEF TypeOK
    <2>5. WithinRelease' /\ PathsDiffer'
      BY <1>0, <1>1, <2>1 DEF WithinRelease, PathsDiffer
    <2>6. PoolsApart'
      BY <1>0, <1>1, <1>2, PathOpensApart DEF PoolsApart
    <2>7. FilesKnown'
      BY <1>0, <1>1, <2>1, <2>2, <2>3 DEF FilesKnown
    <2>8. RecordsMigrated'
      <3>1. server.step # "record" /\ Serving
        BY <1>0 DEF CreateOpens, Free, Serving, FilesKnown
      <3> QED BY <1>1, <1>2, <3>1 DEF RecordsMigrated, Serving, ActorAt
    <2> QED BY <2>4, <2>5, <2>6, <2>7, <2>8 DEF FilesInv
  <1>3. CASE AdminEnds(a) /\ UNCHANGED <<path, file, actor>>
    <2>1. /\ admin' \in [Admin -> AdminState] /\ admin'[a] = Idle
          /\ \A b \in Admin \ {a} : admin'[b] = admin[b]
      BY <1>0, <1>3, AdminMoves DEF AdminEnds, Idle, AdminState
    <2>2. TypeOK' /\ FilesKnown'
      BY <1>0, <1>1, <1>3, <2>1 DEF TypeOK, FilesKnown, Idle
    <2> QED BY <1>1, <1>3, <2>2, SameFiles
  <1> QED BY <1>2, <1>3 DEF CreateOpens

LEMMA PostKeepsFiles == ASSUME FilesInv, NEW a \in Admin, PostUser(a) PROVE FilesInv'
  <1>0. /\ TypeOK /\ WithinRelease /\ PathsDiffer /\ PoolsApart /\ FilesKnown
        /\ RecordsMigrated
    BY DEF FilesInv
  <1>1. CASE InsertUser(a)
    <2> DEFINE n == NextId
    <2>1. /\ UNCHANGED <<path, file, cache, actor, client, server, release, doomed, faults>>
          /\ accounts' = accounts + 1 /\ accounts < MaxAccount
      BY <1>1 DEF InsertUser
    <2>2. n \in UserId /\ n \notin Ids(rows)
      BY <1>0, <1>1, NextIdIsNew, BoundAssumption DEF InsertUser, UserId
    <2>3. PICK isAdmin \in BOOLEAN :
              /\ rows' = With(rows, n, UserRow(accounts + 1, isAdmin))
              /\ admin' = IF isAdmin THEN admin
                          ELSE [admin EXCEPT ![a] = [pc |-> "create", id |-> n]]
      BY <1>1 DEF InsertUser
    <2> HIDE DEF n
    <2>4. /\ Ids(rows') = Ids(rows) \cup {n} /\ \A i \in Ids(rows) : rows'[i] = rows[i]
          /\ rows'[n] \in Row /\ rows'[n].version = 0
          /\ accounts' \in 0..MaxAccount
      <3>1. accounts + 1 \in Account /\ 0 \in 0..MaxRelease /\ accounts' \in 0..MaxAccount
        BY <1>0, <2>1, BoundAssumption DEF TypeOK, Account
      <3> QED BY <2>2, <2>3, <3>1 DEF With, UserRow, Row
    <2>5. /\ admin' \in [Admin -> AdminState]
          /\ \A b \in Admin : admin'[b].pc # "idle" => admin'[b].id \in UserId
      <3>1. CASE isAdmin
        BY <1>0, <2>3, <3>1 DEF TypeOK, FilesKnown
      <3>2. CASE ~isAdmin
        <4>1. [pc |-> "create", id |-> n] \in AdminState
          BY <2>2 DEF AdminState
        <4>2. /\ admin' \in [Admin -> AdminState] /\ admin'[a] = [pc |-> "create", id |-> n]
              /\ \A b \in Admin \ {a} : admin'[b] = admin[b]
          BY <1>0, <2>3, <3>2, <4>1, AdminMoves
        <4> QED BY <1>0, <2>2, <4>2 DEF FilesKnown
      <3> QED BY <3>1, <3>2
    <2>6. TypeOK'
      BY <1>0, <2>1, <2>2, <2>4, <2>5 DEF TypeOK
    <2>7. WithinRelease'
      <3>1. release \in 1..MaxRelease
        BY <1>0 DEF TypeOK
      <3> QED BY <1>0, <2>1, <2>4, <3>1, BoundAssumption DEF WithinRelease
    <2>8. PathsDiffer' /\ PoolsApart' /\ FilesKnown'
      BY <1>0, <2>1, <2>5 DEF PathsDiffer, PoolsApart, FilesKnown
    <2>9. RecordsMigrated'
      BY <1>0, <2>1, SameRecords DEF Version
    <2> QED BY <2>6, <2>7, <2>8, <2>9 DEF FilesInv
  <1>2. CASE Bootstrap(a)
    <2>1. /\ UNCHANGED <<rows, path, cache, admin, client, server, release, accounts, doomed, faults>>
          /\ actor.pc = "bootstrap" /\ file' = [file EXCEPT ![path[actor.id]] = release]
          /\ actor' = [pc |-> "record", id |-> actor.id]
      BY <1>2 DEF Bootstrap, ActorAt
    <2>2. /\ actor.id \in Ids(path) /\ actor.id \in UserId
          /\ release \in file[path[actor.id]]..release
      BY <1>0, <2>1, BoundAssumption DEF FilesKnown, TypeOK, WithinRelease
    <2>3. /\ file' \in [File -> 0..MaxRelease] /\ \A f \in File : file'[f] <= release
          /\ Version'[actor.id] = release
      BY <2>1, <2>2, OneFileMigrates
    <2>4. actor' \in ActorState /\ actor'.id = actor.id
      BY <2>1, <2>2 DEF ActorState
    <2>5. TypeOK'
      BY <1>0, <2>1, <2>3, <2>4 DEF TypeOK
    <2>6. WithinRelease' /\ PathsDiffer' /\ PoolsApart'
      BY <1>0, <2>1, <2>3 DEF WithinRelease, PathsDiffer, PoolsApart
    <2>7. FilesKnown'
      BY <1>0, <2>1, <2>2, <2>4 DEF FilesKnown
    <2>8. RecordsMigrated'
      BY <1>0, <1>2, <2>1, <2>2, <2>3 DEF RecordsMigrated, FilesKnown, Bootstrap, Serving
    <2> QED BY <2>5, <2>6, <2>7, <2>8 DEF FilesInv
  <1>3. ASSUME admin' = [admin EXCEPT ![a] = Idle], actor' = Idle
        PROVE  /\ admin' \in [Admin -> AdminState] /\ actor' \in ActorState
               /\ \A b \in Admin : admin'[b].pc # "idle" => admin'[b].id \in UserId
    <2>1. /\ admin' \in [Admin -> AdminState] /\ admin'[a] = Idle /\ Idle \in ActorState
          /\ \A b \in Admin \ {a} : admin'[b] = admin[b]
      BY <1>0, <1>3, AdminMoves DEF Idle, AdminState, ActorState
    <2> QED BY <1>0, <1>3, <2>1 DEF FilesKnown, Idle
  <1>4. CASE CreateRecords(a)
    <2>1. /\ UNCHANGED <<path, file, cache, client, server, release, accounts, doomed, faults>>
          /\ UpdateDBVersion(actor.id) /\ actor' = Idle
          /\ admin' \in [Admin -> AdminState] /\ actor' \in ActorState
          /\ \A b \in Admin : admin'[b].pc # "idle" => admin'[b].id \in UserId
      BY <1>3, <1>4 DEF CreateRecords, AdminEnds, ActorEnds
    <2>2. /\ Ids(rows') = Ids(rows)
          /\ \A i \in Ids(rows) : rows'[i] \in Row /\ rows'[i].version <= release
      BY <1>0, <2>1, VersionRecordedIfThere
    <2>3. TypeOK'
      BY <1>0, <2>1, <2>2 DEF TypeOK
    <2>4. WithinRelease' /\ PathsDiffer' /\ PoolsApart'
      BY <1>0, <2>1, <2>2 DEF WithinRelease, PathsDiffer, PoolsApart
    <2>5. FilesKnown'
      BY <1>0, <2>1 DEF FilesKnown, Idle
    <2>6. RecordsMigrated'
      BY <1>0, <1>4, <2>1 DEF RecordsMigrated, FilesKnown, CreateRecords, Serving, Idle
    <2> QED BY <2>3, <2>4, <2>5, <2>6 DEF FilesInv
  <1>5. CASE CreateFails(a)
    <2>1. /\ UNCHANGED <<rows, path, cache, client, server, release, accounts, doomed>>
          /\ faults' \in 0..MaxFaults /\ actor' = Idle
          /\ admin' \in [Admin -> AdminState] /\ actor' \in ActorState
          /\ \A b \in Admin : admin'[b].pc # "idle" => admin'[b].id \in UserId
      BY <1>0, <1>3, <1>5, FaultTyped DEF CreateFails, AdminEnds, ActorEnds
    <2>2. file' \in [File -> 0..MaxRelease] /\ \A f \in File : file'[f] <= release
      <3>1. CASE UNCHANGED file
        BY <1>0, <3>1 DEF TypeOK, WithinRelease
      <3>2. CASE /\ actor.pc = "bootstrap"
                 /\ \E v \in file[path[actor.id]]..release :
                       file' = [file EXCEPT ![path[actor.id]] = v]
        <4>1. actor.id \in Ids(path)
          BY <1>0, <3>2 DEF FilesKnown
        <4> QED BY <2>1, <3>2, <4>1, OneFileMigrates
      <3> QED BY <1>5, <3>1, <3>2 DEF CreateFails
    <2>3. TypeOK'
      BY <1>0, <2>1, <2>2 DEF TypeOK
    <2>4. WithinRelease' /\ PathsDiffer' /\ PoolsApart'
      BY <1>0, <2>1, <2>2 DEF WithinRelease, PathsDiffer, PoolsApart
    <2>5. FilesKnown'
      BY <1>0, <2>1 DEF FilesKnown, Idle
    <2>6. RecordsMigrated'
      <3>1. Serving
        BY <1>5 DEF CreateFails, Free
      <3> QED BY <1>0, <2>1, <3>1 DEF RecordsMigrated, FilesKnown, Serving, Idle
    <2> QED BY <2>3, <2>4, <2>5, <2>6 DEF FilesInv
  <1> QED BY <1>1, <1>2, <1>4, <1>5, CreateKeepsFiles DEF PostUser

\* Closing a pool.
LEMMA DroppedKeepsApart ==
    ASSUME PoolsApart, NEW id, Dropped(id), path' = path
    PROVE  PoolsApart'
  BY DEF PoolsApart, Dropped, Without

LEMMA DeleteKeepsFiles == ASSUME FilesInv, NEW a \in Admin, DeleteUser(a) PROVE FilesInv'
  <1>0. /\ TypeOK /\ WithinRelease /\ PathsDiffer /\ PoolsApart /\ FilesKnown
        /\ RecordsMigrated
    BY DEF FilesInv
  <1>1. ASSUME admin' = [admin EXCEPT ![a] = Idle]
        PROVE  /\ admin' \in [Admin -> AdminState]
               /\ \A b \in Admin : admin'[b].pc # "idle" => admin'[b].id \in UserId
    <2>1. /\ admin' \in [Admin -> AdminState] /\ admin'[a] = Idle
          /\ \A b \in Admin \ {a} : admin'[b] = admin[b]
      BY <1>0, <1>1, AdminMoves DEF Idle, AdminState
    <2> QED BY <1>0, <2>1 DEF FilesKnown, Idle
  <1>2. ASSUME admin[a].pc # "idle", NEW pc \in {"delete", "row"}, AdminAt(a, pc)
        PROVE  /\ admin' \in [Admin -> AdminState]
               /\ \A b \in Admin : admin'[b].pc # "idle" => admin'[b].id \in UserId
    <2>1. /\ admin' \in [Admin -> AdminState] /\ admin'[a].id = admin[a].id
          /\ \A b \in Admin \ {a} : admin'[b] = admin[b]
      BY <1>0, <1>2, AdminAtMoves
    <2> QED BY <1>0, <1>2, <2>1 DEF FilesKnown
  <1>3. CASE FindUser(a)
    <2>1. UNCHANGED <<rows, path, file, cache, actor, client, server, release, accounts, faults>>
      BY <1>3 DEF FindUser
    <2>2. PICK id \in Ids(rows) :
              /\ admin' = [admin EXCEPT ![a] =
                              [pc |-> IF rows[id].isAdmin THEN "remove" ELSE "remove-delete",
                               id |-> id]]
              /\ doomed' = doomed \cup {rows[id].account}
      BY <1>3 DEF FindUser
    <2>3. id \in UserId /\ doomed' \subseteq Account
      BY <1>0, <2>2 DEF TypeOK, Row
    <2>4. [pc |-> IF rows[id].isAdmin THEN "remove" ELSE "remove-delete", id |-> id] \in AdminState
      BY <2>3 DEF AdminState
    <2>5. /\ admin' \in [Admin -> AdminState] /\ admin'[a].id = id
          /\ \A b \in Admin \ {a} : admin'[b] = admin[b]
      BY <1>0, <2>2, <2>4, AdminMoves
    <2>6. TypeOK' /\ FilesKnown'
      BY <1>0, <2>1, <2>3, <2>5 DEF TypeOK, FilesKnown
    <2> QED BY <2>1, <2>6, SameFiles
  <1>4. CASE RemovePool(a)
    <2>1. /\ UNCHANGED <<rows, path, file, actor, server, release, accounts, doomed, faults>>
          /\ Dropped(admin[a].id)
      BY <1>4 DEF RemovePool
    <2>2. /\ admin' \in [Admin -> AdminState]
          /\ \A b \in Admin : admin'[b].pc # "idle" => admin'[b].id \in UserId
      BY <1>2, <1>4 DEF RemovePool
    <2>3. /\ Ids(cache') \subseteq UserId
          /\ \A i \in Ids(cache') : cache'[i] \in File \cup {Nowhere}
          /\ client' \in [Client -> ClientState]
          /\ \A c \in Client : client'[c].pc = "use" => client'[c].id \in Ids(cache')
          /\ \A c \in Client : client'[c].pc # "idle" =>
                client[c].pc # "idle" /\ client'[c].id = client[c].id
      BY <1>0, <2>1, PoolDropped
    <2>4. TypeOK'
      BY <1>0, <2>1, <2>2, <2>3 DEF TypeOK
    <2>5. WithinRelease' /\ PathsDiffer' /\ PoolsApart'
      BY <1>0, <2>1, DroppedKeepsApart DEF WithinRelease, PathsDiffer
    <2>6. FilesKnown'
      BY <1>0, <2>1, <2>2, <2>3 DEF FilesKnown
    <2>7. RecordsMigrated'
      BY <1>0, <2>1, SameRecords DEF Version
    <2> QED BY <2>4, <2>5, <2>6, <2>7 DEF FilesInv
  <1>5. CASE DeleteFile(a)
    <2>1. /\ UNCHANGED <<rows, file, cache, actor, client, server, release, accounts, doomed, faults>>
          /\ Serving /\ actor.pc = "idle" /\ admin[a].pc # "idle"
      BY <1>5 DEF DeleteFile, Free
    <2>2. CASE path' = Without(path, admin[a].id) /\ AdminAt(a, "row")
      <3>1. Ids(path') \subseteq Ids(path) /\ \A i \in Ids(path') : path'[i] = path[i]
        BY <2>2 DEF Without
      <3>2. /\ admin' \in [Admin -> AdminState]
            /\ \A b \in Admin : admin'[b].pc # "idle" => admin'[b].id \in UserId
        BY <1>2, <2>1, <2>2
      <3>3. TypeOK'
        BY <1>0, <2>1, <3>1, <3>2 DEF TypeOK
      <3>4. WithinRelease' /\ PathsDiffer' /\ PoolsApart'
        BY <1>0, <2>1, <3>1 DEF WithinRelease, PathsDiffer, PoolsApart
      <3>5. FilesKnown'
        BY <1>0, <2>1, <3>2 DEF FilesKnown, Serving
      <3>6. RecordsMigrated'
        BY <1>0, <2>1 DEF RecordsMigrated, FilesKnown, Serving
      <3> QED BY <3>3, <3>4, <3>5, <3>6 DEF FilesInv
    <2>3. CASE AdminEnds(a) /\ UNCHANGED path
      <3>1. TypeOK' /\ FilesKnown'
        BY <1>0, <1>1, <2>1, <2>3 DEF AdminEnds, TypeOK, FilesKnown
      <3> QED BY <2>1, <2>3, <3>1, SameFiles
    <2> QED BY <1>5, <2>2, <2>3 DEF DeleteFile
  <1>6. CASE DeleteRow(a)
    <2>1. /\ UNCHANGED <<path, file, cache, actor, client, server, release, accounts, doomed, faults>>
          /\ Ids(rows') \subseteq Ids(rows) /\ \A i \in Ids(rows') : rows'[i] = rows[i]
          /\ admin' \in [Admin -> AdminState]
          /\ \A b \in Admin : admin'[b].pc # "idle" => admin'[b].id \in UserId
      BY <1>1, <1>6 DEF DeleteRow, AdminEnds, Without
    <2>2. TypeOK'
      BY <1>0, <2>1 DEF TypeOK
    <2>3. WithinRelease' /\ PathsDiffer' /\ PoolsApart' /\ FilesKnown'
      BY <1>0, <2>1 DEF WithinRelease, PathsDiffer, PoolsApart, FilesKnown
    <2>4. RecordsMigrated'
      BY <1>0, <2>1, SameRecords DEF Version
    <2> QED BY <2>2, <2>3, <2>4 DEF FilesInv
  <1>7. CASE DeleteFails(a)
    <2>1. /\ UNCHANGED <<rows, path, file, cache, actor, client, server, release, accounts, doomed>>
          /\ faults' \in 0..MaxFaults /\ admin' \in [Admin -> AdminState]
          /\ \A b \in Admin : admin'[b].pc # "idle" => admin'[b].id \in UserId
      BY <1>0, <1>1, <1>7, FaultTyped DEF DeleteFails, AdminEnds
    <2>2. TypeOK' /\ FilesKnown'
      BY <1>0, <2>1 DEF TypeOK, FilesKnown
    <2> QED BY <2>1, <2>2, SameFiles
  <1> QED BY <1>3, <1>4, <1>5, <1>6, <1>7 DEF DeleteUser

LEMMA RequestKeepsFiles == ASSUME FilesInv, NEW c \in Client, Request(c) PROVE FilesInv'
  <1> DEFINE id == client[c].id
  <1>0. /\ TypeOK /\ WithinRelease /\ PathsDiffer /\ PoolsApart /\ FilesKnown
        /\ RecordsMigrated
    BY DEF FilesInv
  <1>1. ASSUME client' = [client EXCEPT ![c] = Idle],
               UNCHANGED <<rows, path, file, cache, actor, admin, server, release, accounts,
                           doomed, faults>>
        PROVE  FilesInv'
    <2>1. /\ client' \in [Client -> ClientState] /\ client'[c] = Idle
          /\ \A b \in Client \ {c} : client'[b] = client[b]
      BY <1>0, <1>1, ClientMoves DEF Idle, ClientState
    <2>2. TypeOK' /\ FilesKnown'
      BY <1>0, <1>1, <2>1 DEF TypeOK, FilesKnown, Idle
    <2> QED BY <1>1, <2>2, SameFiles
  <1>2. CASE Authenticate(c)
    <2>1. PICK i \in Ids(rows) : client' = [client EXCEPT ![c] = [pc |-> "get", id |-> i]]
      BY <1>2 DEF Authenticate
    <2>2. UNCHANGED <<rows, path, file, cache, actor, admin, server, release, accounts,
                      doomed, faults>>
      BY <1>2 DEF Authenticate
    <2>3. i \in UserId /\ [pc |-> "get", id |-> i] \in ClientState
      BY <1>0, <2>1 DEF TypeOK, ClientState
    <2>4. /\ client' \in [Client -> ClientState] /\ client'[c] = [pc |-> "get", id |-> i]
          /\ \A b \in Client \ {c} : client'[b] = client[b]
      BY <1>0, <2>1, <2>3, ClientMoves
    <2>5. TypeOK' /\ FilesKnown'
      BY <1>0, <2>2, <2>3, <2>4 DEF TypeOK, FilesKnown
    <2> QED BY <2>2, <2>5, SameFiles
  <1>3. CASE GetNotesStore(c)
    <2>1. /\ UNCHANGED <<rows, actor, admin, server, release, accounts, doomed, faults>>
          /\ id \in UserId
      BY <1>0, <1>3 DEF GetNotesStore, FilesKnown
    <2>2. ASSUME ClientAt(c, "use")
          PROVE  /\ client' \in [Client -> ClientState]
                 /\ client'[c].pc = "use" /\ client'[c].id = id
                 /\ \A b \in Client \ {c} : client'[b] = client[b]
      BY <1>0, <2>2, ClientAtMoves
    <2>3. CASE id \in Ids(cache) /\ ClientAt(c, "use") /\ UNCHANGED <<path, file, cache>>
      <3>1. TypeOK' /\ FilesKnown'
        BY <1>0, <2>1, <2>2, <2>3 DEF TypeOK, FilesKnown
      <3> QED BY <2>1, <2>3, <3>1, SameFiles
    <2>4. CASE OpenPath(id) /\ cache' = With(cache, id, path'[id]) /\ ClientAt(c, "use")
      <3>1. /\ Ids(path') = Ids(path) \cup {id} /\ \A i \in Ids(path') : path'[i] \in File
            /\ file' \in [File -> 0..MaxRelease] /\ \A f \in File : file'[f] <= release
            /\ \A i, j \in Ids(path') : path'[i] = path'[j] => i = j
            /\ Version' = Version
        BY <1>0, <2>1, <2>4, PathOpens
      <3>2. /\ Ids(cache') = Ids(cache) \cup {id}
            /\ \A i \in Ids(cache') : cache'[i] = IF i = id THEN path'[id] ELSE cache[i]
        BY <2>4 DEF With
      <3>3. TypeOK'
        BY <1>0, <2>1, <2>2, <2>4, <3>1, <3>2 DEF TypeOK
      <3>4. WithinRelease' /\ PathsDiffer'
        BY <1>0, <2>1, <3>1 DEF WithinRelease, PathsDiffer
      <3>5. PoolsApart'
        BY <1>0, <2>1, <2>4, <3>1, <3>2, PoolOpensApart
      <3>6. FilesKnown'
        BY <1>0, <2>1, <2>2, <2>4, <3>1 DEF FilesKnown
      <3>7. RecordsMigrated'
        BY <1>0, <2>1, <3>1, SameRecords
      <3> QED BY <3>3, <3>4, <3>5, <3>6, <3>7 DEF FilesInv
    <2>5. CASE ClientEnds(c) /\ UNCHANGED <<path, file, cache>>
      BY <1>1, <2>1, <2>5 DEF ClientEnds
    <2> QED BY <1>3, <2>3, <2>4, <2>5 DEF GetNotesStore
  <1>4. CASE Reconnect(c)
    <2>1. /\ UNCHANGED <<rows, actor, admin, client, server, release, accounts, doomed, faults>>
          /\ OpenPath(id) /\ cache' = [cache EXCEPT ![id] = path'[id]]
          /\ id \in UserId
      BY <1>0, <1>4 DEF Reconnect, FilesKnown
    <2>2. /\ Ids(path') = Ids(path) \cup {id} /\ \A i \in Ids(path') : path'[i] \in File
          /\ file' \in [File -> 0..MaxRelease] /\ \A f \in File : file'[f] <= release
          /\ \A i, j \in Ids(path') : path'[i] = path'[j] => i = j
          /\ Version' = Version
      BY <1>0, <2>1, PathOpens
    <2>3. /\ Ids(cache') = Ids(cache)
          /\ \A i \in Ids(cache') : cache'[i] = IF i = id THEN path'[id] ELSE cache[i]
      BY <2>1
    <2>4. TypeOK'
      BY <1>0, <2>1, <2>2, <2>3 DEF TypeOK
    <2>5. WithinRelease' /\ PathsDiffer'
      BY <1>0, <2>1, <2>2 DEF WithinRelease, PathsDiffer
    <2>6. PoolsApart'
      BY <1>0, <2>1, <2>2, <2>3, PoolOpensApart
    <2>7. FilesKnown'
      BY <1>0, <2>1, <2>2 DEF FilesKnown
    <2>8. RecordsMigrated'
      BY <1>0, <2>1, <2>2, SameRecords
    <2> QED BY <2>4, <2>5, <2>6, <2>7, <2>8 DEF FilesInv
  <1>5. CASE RequestEnds(c)
    BY <1>1, <1>5 DEF RequestEnds, ClientEnds
  <1> QED BY <1>2, <1>3, <1>4, <1>5 DEF Request

LEMMA PoolsKeepFiles == ASSUME FilesInv, ExpirePool \/ IdleOut PROVE FilesInv'
  <1>0. /\ TypeOK /\ WithinRelease /\ PathsDiffer /\ PoolsApart /\ FilesKnown
        /\ RecordsMigrated
    BY DEF FilesInv
  <1>1. UNCHANGED <<rows, path, file, actor, admin, server, release, accounts, doomed, faults>>
    BY DEF ExpirePool, IdleOut
  <1>2. WithinRelease' /\ PathsDiffer'
    BY <1>0, <1>1 DEF WithinRelease, PathsDiffer
  <1>3. CASE ExpirePool
    <2>1. PICK id \in Ids(cache) : Dropped(id)
      BY <1>3 DEF ExpirePool
    <2>2. /\ Ids(cache') \subseteq UserId
          /\ \A i \in Ids(cache') : cache'[i] \in File \cup {Nowhere}
          /\ client' \in [Client -> ClientState]
          /\ \A c \in Client : client'[c].pc = "use" => client'[c].id \in Ids(cache')
          /\ \A c \in Client : client'[c].pc # "idle" =>
                client[c].pc # "idle" /\ client'[c].id = client[c].id
      BY <1>0, <2>1, PoolDropped
    <2>3. TypeOK' /\ FilesKnown'
      BY <1>0, <1>1, <2>2 DEF TypeOK, FilesKnown
    <2>4. PoolsApart'
      BY <1>0, <1>1, <2>1, DroppedKeepsApart
    <2>5. RecordsMigrated'
      BY <1>0, <1>1, SameRecords DEF Version
    <2> QED BY <1>2, <2>3, <2>4, <2>5 DEF FilesInv
  <1>4. CASE IdleOut
    <2>1. client' = client /\ \E id \in Ids(cache) : cache' = [cache EXCEPT ![id] = Nowhere]
      BY <1>4 DEF IdleOut
    <2>2. TypeOK' /\ FilesKnown'
      BY <1>0, <1>1, <2>1 DEF TypeOK, FilesKnown
    <2>3. PoolsApart'
      BY <1>0, <1>1, <2>1 DEF PoolsApart
    <2>4. RecordsMigrated'
      BY <1>0, <1>1, SameRecords DEF Version
    <2> QED BY <1>2, <2>2, <2>3, <2>4 DEF FilesInv
  <1> QED BY <1>3, <1>4

LEMMA ServerKeepsFiles == ASSUME FilesInv, RunServer PROVE FilesInv'
  <1> DEFINE id == server.at
  <1>0. /\ TypeOK /\ WithinRelease /\ PathsDiffer /\ PoolsApart /\ FilesKnown
        /\ RecordsMigrated
    BY DEF FilesInv
  <1>1. ~Serving => actor.pc = "idle"
    BY <1>0 DEF RecordsMigrated
  <1>2. CASE Start
    <2>1. /\ UNCHANGED <<rows, path, file, cache, actor, admin, client, accounts, doomed, faults>>
          /\ release' \in {release, release + 1} /\ release' <= MaxRelease
          /\ server' = [Down EXCEPT !.phase = "boot", !.todo = Outdated(release')]
      BY <1>2 DEF Start
    <2>2. release' \in 1..MaxRelease /\ release <= release' /\ release \in 1..MaxRelease
      BY <1>0, <2>1, BoundAssumption DEF TypeOK
    <2>3. server' \in ServerState /\ server'.step = "next"
      BY <1>0, <2>1 DEF Down, ServerState, Outdated, HasDatabase, TypeOK
    <2>4. TypeOK'
      BY <1>0, <2>1, <2>2, <2>3 DEF TypeOK
    <2>5. WithinRelease'
      <3>1. \A f \in File : file[f] \in 0..MaxRelease /\ file[f] <= release
        BY <1>0 DEF TypeOK, WithinRelease
      <3>2. \A i \in Ids(rows) : rows[i].version \in 0..MaxRelease /\ rows[i].version <= release
        BY <1>0 DEF TypeOK, WithinRelease, Row
      <3> QED BY <2>1, <2>2, <3>1, <3>2, BoundAssumption DEF WithinRelease
    <2>6. PathsDiffer' /\ PoolsApart' /\ FilesKnown'
      BY <1>0, <2>1, <2>3 DEF PathsDiffer, PoolsApart, FilesKnown
    <2>7. RecordsMigrated'
      <3>1. ~Serving
        BY <1>2 DEF Start, Serving, Down
      <3> QED BY <1>1, <2>1, <2>3, <3>1 DEF RecordsMigrated
    <2> QED BY <2>4, <2>5, <2>6, <2>7 DEF FilesInv
  <1>3. CASE BootOpens
    <2>1. UNCHANGED <<rows, cache, actor, admin, client, release, accounts, doomed, faults>>
      BY <1>3 DEF BootOpens
    <2>2. PICK i \in server.todo :
              /\ OpenPath(i)
              /\ server' = [server EXCEPT !.step = "migrate", !.at = i, !.todo = @ \ {i}]
      BY <1>3 DEF BootOpens
    <2>3. i \in UserId /\ server \in ServerState /\ server.phase = "boot"
      BY <1>0, <1>3, <2>2 DEF TypeOK, ServerState, BootOpens, Booting
    <2>4. /\ Ids(path') = Ids(path) \cup {i} /\ \A j \in Ids(path') : path'[j] \in File
          /\ file' \in [File -> 0..MaxRelease] /\ \A f \in File : file'[f] <= release
          /\ \A j, k \in Ids(path') : path'[j] = path'[k] => j = k
      BY <1>0, <2>2, <2>3, PathOpens
    <2>5. server' \in ServerState /\ server'.phase = "boot" /\ server'.at = i
      BY <2>2, <2>3 DEF ServerState
    <2>6. TypeOK'
      BY <1>0, <2>1, <2>3, <2>4, <2>5 DEF TypeOK
    <2>7. WithinRelease' /\ PathsDiffer'
      BY <1>0, <2>1, <2>4 DEF WithinRelease, PathsDiffer
    <2>8. PoolsApart'
      BY <1>0, <2>1, <2>2, <2>3, PathOpensApart DEF PoolsApart
    <2>9. FilesKnown'
      BY <1>0, <2>1, <2>4, <2>5 DEF FilesKnown
    <2>10. RecordsMigrated'
      <3>1. ~Serving /\ server'.step = "migrate"
        BY <2>2, <2>3 DEF Serving, ServerState
      <3> QED BY <1>1, <2>1, <3>1 DEF RecordsMigrated
    <2> QED BY <2>6, <2>7, <2>8, <2>9, <2>10 DEF FilesInv
  <1>4. CASE BootMigrates
    <2>1. /\ UNCHANGED <<rows, path, cache, actor, admin, client, release, accounts, doomed, faults>>
          /\ server.phase = "boot" /\ server.step = "migrate"
          /\ file' = [file EXCEPT ![path[id]] = release]
          /\ server' = [server EXCEPT !.step = "record"]
      BY <1>4 DEF BootMigrates, Booting
    <2>2. id \in Ids(path) /\ release \in file[path[id]]..release
      BY <1>0, <2>1, BoundAssumption DEF FilesKnown, TypeOK, WithinRelease
    <2>3. /\ file' \in [File -> 0..MaxRelease] /\ \A f \in File : file'[f] <= release
          /\ Version'[id] = release
      BY <2>1, <2>2, OneFileMigrates
    <2>4. server' \in ServerState /\ server'.phase = "boot" /\ server'.at = id
      BY <1>0, <2>1 DEF TypeOK, ServerState
    <2>5. TypeOK'
      BY <1>0, <2>1, <2>3, <2>4 DEF TypeOK
    <2>6. WithinRelease' /\ PathsDiffer' /\ PoolsApart' /\ FilesKnown'
      BY <1>0, <2>1, <2>2, <2>3, <2>4 DEF WithinRelease, PathsDiffer, PoolsApart, FilesKnown
    <2>7. RecordsMigrated'
      BY <1>1, <2>1, <2>3, <2>4 DEF RecordsMigrated, Serving
    <2> QED BY <2>5, <2>6, <2>7 DEF FilesInv
  <1>5. CASE BootRecords
    <2>1. /\ UNCHANGED <<path, file, cache, actor, admin, client, release, accounts, doomed, faults>>
          /\ UpdateDBVersion(id) /\ server' = [server EXCEPT !.step = "next", !.at = 0]
      BY <1>5 DEF BootRecords
    <2>2. /\ Ids(rows') = Ids(rows)
          /\ \A i \in Ids(rows) : rows'[i] \in Row /\ rows'[i].version <= release
      BY <1>0, <2>1, VersionRecordedIfThere
    <2>3. server' \in ServerState /\ server'.step = "next"
      BY <1>0, <2>1 DEF TypeOK, ServerState
    <2>4. TypeOK'
      BY <1>0, <2>1, <2>2, <2>3 DEF TypeOK
    <2>5. WithinRelease' /\ PathsDiffer' /\ PoolsApart' /\ FilesKnown'
      BY <1>0, <2>1, <2>2, <2>3 DEF WithinRelease, PathsDiffer, PoolsApart, FilesKnown
    <2>6. RecordsMigrated'
      <3>1. ~Serving
        BY <1>5 DEF BootRecords, Booting, Serving
      <3> QED BY <1>1, <2>1, <2>3, <3>1 DEF RecordsMigrated
    <2> QED BY <2>4, <2>5, <2>6 DEF FilesInv
  <1>6. CASE BootFails
    <2>1. /\ UNCHANGED <<rows, path, cache, actor, admin, client, release, accounts, doomed>>
          /\ server' = Down /\ faults' \in 0..MaxFaults
      BY <1>0, <1>6, FaultTyped DEF BootFails
    <2>2. file' \in [File -> 0..MaxRelease] /\ \A f \in File : file'[f] <= release
      <3>1. CASE UNCHANGED file
        BY <1>0, <3>1 DEF TypeOK, WithinRelease
      <3>2. CASE /\ Booting("migrate")
                 /\ \E v \in file[path[id]]..release : file' = [file EXCEPT ![path[id]] = v]
        <4>1. id \in Ids(path)
          BY <1>0, <3>2 DEF FilesKnown, Booting
        <4> QED BY <2>1, <3>2, <4>1, OneFileMigrates
      <3> QED BY <1>6, <3>1, <3>2 DEF BootFails
    <2>3. Down \in ServerState /\ Down.step = "next"
      BY DEF Down, ServerState
    <2>4. TypeOK'
      BY <1>0, <2>1, <2>2, <2>3 DEF TypeOK
    <2>5. WithinRelease' /\ PathsDiffer' /\ PoolsApart' /\ FilesKnown'
      BY <1>0, <2>1, <2>2, <2>3 DEF WithinRelease, PathsDiffer, PoolsApart, FilesKnown
    <2>6. RecordsMigrated'
      <3>1. ~Serving
        BY <1>6 DEF BootFails, Serving
      <3> QED BY <1>1, <2>1, <2>3, <3>1 DEF RecordsMigrated
    <2> QED BY <2>4, <2>5, <2>6 DEF FilesInv
  <1>7. CASE BootEnds
    <2>1. /\ UNCHANGED <<rows, path, file, cache, actor, admin, client, release, accounts,
                         doomed, faults>>
          /\ server.step = "next" /\ server' = [server EXCEPT !.phase = "serving"]
      BY <1>7 DEF BootEnds, Booting
    <2>2. server' \in ServerState /\ server'.step = "next"
      BY <1>0, <2>1 DEF TypeOK, ServerState
    <2>3. TypeOK' /\ FilesKnown'
      BY <1>0, <2>1, <2>2 DEF TypeOK, FilesKnown
    <2>4. WithinRelease' /\ PathsDiffer' /\ PoolsApart'
      BY <1>0, <2>1 DEF WithinRelease, PathsDiffer, PoolsApart
    <2>5. RecordsMigrated'
      <3>1. ~Serving
        BY <1>7 DEF BootEnds, Booting, Serving
      <3> QED BY <1>1, <2>1, <2>2, <3>1 DEF RecordsMigrated
    <2> QED BY <2>3, <2>4, <2>5 DEF FilesInv
  <1>8. CASE Crash
    <2>1. /\ UNCHANGED <<rows, path, file, release, accounts, doomed, faults>>
          /\ server' = Down /\ cache' = None /\ actor' = Idle
          /\ admin' = [a \in Admin |-> Idle] /\ client' = [c \in Client |-> Idle]
      BY <1>8 DEF Crash
    <2>2. /\ Idle \in ActorState /\ Idle \in AdminState /\ Idle \in ClientState
          /\ Down \in ServerState /\ Idle.pc = "idle" /\ Down.step = "next"
      BY DEF Idle, Down, ActorState, AdminState, ClientState, ServerState
    <2>3. TypeOK'
      BY <1>0, <2>1, <2>2 DEF TypeOK, None
    <2>4. WithinRelease' /\ PathsDiffer' /\ PoolsApart' /\ FilesKnown'
      BY <1>0, <2>1, <2>2 DEF WithinRelease, PathsDiffer, PoolsApart, FilesKnown, None
    <2>5. RecordsMigrated'
      BY <2>1, <2>2 DEF RecordsMigrated
    <2> QED BY <2>3, <2>4, <2>5 DEF FilesInv
  <1> QED BY <1>2, <1>3, <1>4, <1>5, <1>6, <1>7, <1>8 DEF RunServer

LEMMA NextFiles == ASSUME FilesInv, [Next]_vars PROVE FilesInv'
  <1>1. CASE UNCHANGED vars
    BY <1>1 DEF vars, FilesInv, TypeOK, WithinRelease, PathsDiffer, PoolsApart, FilesKnown,
       RecordsMigrated, Serving, Version
  <1> QED BY <1>1, PostKeepsFiles, DeleteKeepsFiles, RequestKeepsFiles, PoolsKeepFiles,
             ServerKeepsFiles DEF Next

\* The invariant of files and pools, whatever administrators do at the same time.
THEOREM FilesCorrect == Spec => []FilesInv
  <1>1. Init => FilesInv
    <2>1. ASSUME Init PROVE FilesInv
      <3>1. TypeOK /\ WithinRelease /\ PathsDiffer
        BY <2>1, InitInv DEF UsersInv
      <3>2. PoolsApart /\ FilesKnown /\ RecordsMigrated
        BY <2>1 DEF Init, None, PoolsApart, FilesKnown, RecordsMigrated, Idle, Down
      <3> QED BY <3>1, <3>2 DEF FilesInv
    <2> QED BY <2>1
  <1>2. FilesInv /\ [Next]_vars => FilesInv'
    BY NextFiles
  <1> QED BY <1>1, <1>2, PTL DEF Spec

\* Every variable of the handlers, the manager, the files and the start keeps its
\* type, and a handler with an open pool has the cached one.
THEOREM TypeCorrect == Spec => []TypeOK
  <1>1. FilesInv => TypeOK
    BY DEF FilesInv
  <1> QED BY <1>1, FilesCorrect, PTL

\* Users have databases of their own: no two paths lead to the same file, and no pool
\* that createNewConnection or a reconnection has opened is on the file of another id,
\* though rows and files come and go and ids are used again.
THEOREM DatabasesApart == Spec => [](PathsDiffer /\ PoolsApart)
  <1>1. FilesInv => PathsDiffer /\ PoolsApart
    BY DEF FilesInv
  <1> QED BY <1>1, FilesCorrect, PTL

\* Whoever is at work, a version that UpdateDBVersion changes in the index is that of
\* the file the user has at that moment.
OnlyMigratedRecorded ==
    [][\A id \in Ids(rows) :
          id \in Ids(rows') /\ rows'[id].version # rows[id].version =>
              id \in Ids(path) /\ rows'[id].version = file[path[id]]]_vars

LEMMA OneVersionRecorded ==
    ASSUME TypeOK, NEW n, UpdateDBVersion(n),
           NEW id \in Ids(rows), rows'[id].version # rows[id].version
    PROVE  id = n /\ rows'[id].version = release
  <1>1. rows'[id] = IF id = n /\ HasDatabase(id) THEN [rows[id] EXCEPT !.version = release]
                    ELSE rows[id]
    BY DEF UpdateDBVersion
  <1> QED BY <1>1 DEF TypeOK, Row

\* What CreateDB and runMigrations record was migrated before, also while another
\* administrator deletes the user, for whom nothing is recorded then: where the
\* index promises too much without AdminsApart, it is because the file went later.
THEOREM OnlyMigratedRecordedCorrect == Spec => OnlyMigratedRecorded
  <1> DEFINE Recorded ==
                 \A id \in Ids(rows) :
                     id \in Ids(rows') /\ rows'[id].version # rows[id].version =>
                         id \in Ids(path) /\ rows'[id].version = file[path[id]]
  <1>1. ASSUME FilesInv, [Next]_vars PROVE Recorded
    <2>1. ASSUME NEW n \in Ids(path), UpdateDBVersion(n), Version[n] = release PROVE Recorded
      <3>1. n \in UserId /\ file[path[n]] = release
        BY <1>1, <2>1 DEF FilesInv, TypeOK, Version
      <3>2. ASSUME NEW id \in Ids(rows), rows'[id].version # rows[id].version
            PROVE  id = n /\ rows'[id].version = release
        BY <1>1, <2>1, <3>2, OneVersionRecorded DEF FilesInv
      <3> QED BY <3>1, <3>2
    <2>2. ASSUME \A id \in Ids(rows) : id \in Ids(rows') => rows'[id] = rows[id] PROVE Recorded
      BY <2>2
    <2>3. CASE \E a \in Admin : CreateRecords(a)
      BY <1>1, <2>1, <2>3 DEF FilesInv, FilesKnown, RecordsMigrated, CreateRecords
    <2>4. CASE BootRecords
      BY <1>1, <2>1, <2>4 DEF FilesInv, FilesKnown, RecordsMigrated, BootRecords, Booting
    <2>5. CASE \E a \in Admin : InsertUser(a)
      <3>1. NextId \notin Ids(rows)
        BY <1>1, NextIdIsNew DEF FilesInv
      <3>2. \E value : rows' = With(rows, NextId, value)
        BY <2>5 DEF InsertUser
      <3> QED BY <2>2, <3>1, <3>2 DEF With
    <2>6. CASE \E a \in Admin : DeleteRow(a)
      BY <2>2, <2>6 DEF DeleteRow, Without
    <2>7. CASE rows' = rows
      BY <2>2, <2>7
    <2>8. ASSUME NEW a \in Admin, PostUser(a) PROVE Recorded
      BY <2>3, <2>5, <2>7, <2>8 DEF PostUser, CreateOpens, Bootstrap, CreateFails
    <2>9. ASSUME NEW a \in Admin, DeleteUser(a) PROVE Recorded
      BY <2>6, <2>7, <2>9 DEF DeleteUser, FindUser, RemovePool, DeleteFile, DeleteFails
    <2>10. ASSUME NEW c \in Client, Request(c) PROVE Recorded
      BY <2>7, <2>10 DEF Request, Authenticate, GetNotesStore, Reconnect, RequestEnds
    <2>11. CASE ExpirePool \/ IdleOut
      BY <2>7, <2>11 DEF ExpirePool, IdleOut
    <2>12. CASE RunServer
      BY <2>4, <2>7, <2>12 DEF RunServer, Start, BootOpens, BootMigrates, BootFails, BootEnds, Crash
    <2>13. CASE UNCHANGED vars
      BY <2>7, <2>13 DEF vars
    <2> HIDE DEF Recorded
    <2> QED BY <1>1, <2>8, <2>9, <2>10, <2>11, <2>12, <2>13 DEF Next
  <1> HIDE DEF Recorded
  <1>2. FilesInv /\ [Next]_vars => Recorded
    BY <1>1
  <1>3. Spec => [][Recorded]_vars
    BY <1>2, FilesCorrect, PTL DEF Spec
  <1> QED BY <1>3 DEF Recorded, OnlyMigratedRecorded

-----------------------------------------------------------------------------
(* What a comment says of PostUser, and when it is so.                       *)

\* No file is deleted while a pool is cached for its path.
FilesDeletedUnpooled == [][\A id \in Ids(path) \ Ids(path') : id \notin Ids(cache)]_vars

\* Every connection of a cached pool is on the file that the path has.
PoolsOnPath ==
    \A id \in Ids(cache) : cache[id] # Nowhere => id \in Ids(path) /\ cache[id] = path[id]

LEMMA OpenKeepsPaths ==
    ASSUME NEW id, OpenPath(id)
    PROVE  id \in Ids(path') /\ \A i \in Ids(path) : i \in Ids(path') /\ path'[i] = path[i]
  BY DEF OpenPath, With

\* Connections stay where they are, or are on the file of the path now.
LEMMA PoolsStayOnPath ==
    ASSUME PoolsOnPath,
           \A i \in Ids(cache') : \/ cache'[i] = Nowhere
                                  \/ i \in Ids(path') /\ cache'[i] = path'[i]
                                  \/ i \in Ids(cache) /\ cache'[i] = cache[i],
           \A i \in Ids(path) : i \in Ids(cache') => i \in Ids(path') /\ path'[i] = path[i]
    PROVE  PoolsOnPath'
  BY DEF PoolsOnPath

\* The requests of a user who was created work on the database that was bootstrapped
\* for the user (NewUserOnNewDatabase), unless DeleteUser has removed a file under a
\* cached pool: there is no other way to the state that refutes the comment.
THEOREM NewUserOnNewDatabaseCorrect == Spec /\ FilesDeletedUnpooled => []NewUserOnNewDatabase
  <1> DEFINE Unpooled == \A id \in Ids(path) \ Ids(path') : id \notin Ids(cache)
  <1>1. Init => PoolsOnPath
    BY DEF Init, None, PoolsOnPath
  <1>2. ASSUME PoolsOnPath, [Next]_vars, [Unpooled]_vars PROVE PoolsOnPath'
    <2>1. CASE UNCHANGED <<path, cache>>
      BY <1>2, <2>1, PoolsStayOnPath
    <2>2. ASSUME NEW id, OpenPath(id), UNCHANGED cache PROVE PoolsOnPath'
      BY <1>2, <2>2, OpenKeepsPaths, PoolsStayOnPath
    <2>3. ASSUME NEW id, Dropped(id), UNCHANGED path PROVE PoolsOnPath'
      BY <1>2, <2>3, PoolsStayOnPath DEF Dropped, Without
    <2>4. ASSUME NEW a \in Admin, PostUser(a) PROVE PoolsOnPath'
      <3>1. CASE CreateOpens(a)
        BY <2>1, <2>2, <3>1 DEF CreateOpens
      <3>2. CASE InsertUser(a) \/ Bootstrap(a) \/ CreateRecords(a) \/ CreateFails(a)
        BY <2>1, <3>2 DEF InsertUser, Bootstrap, CreateRecords, CreateFails
      <3> QED BY <2>4, <3>1, <3>2 DEF PostUser
    <2>5. ASSUME NEW a \in Admin, DeleteUser(a) PROVE PoolsOnPath'
      <3>1. CASE DeleteFile(a)
        <4>1. CASE UNCHANGED path
          BY <2>1, <3>1, <4>1 DEF DeleteFile
        <4>2. CASE admin[a].id \in Ids(path) /\ path' = Without(path, admin[a].id)
          <5>1. admin[a].id \notin Ids(cache)
            BY <1>2, <4>2 DEF Without, vars
          <5>2. cache' = cache
            BY <3>1 DEF DeleteFile
          <5> QED BY <1>2, <4>2, <5>1, <5>2, PoolsStayOnPath DEF Without
        <4> QED BY <3>1, <4>1, <4>2 DEF DeleteFile
      <3>2. CASE RemovePool(a)
        BY <2>3, <3>2 DEF RemovePool
      <3>3. CASE FindUser(a) \/ DeleteRow(a) \/ DeleteFails(a)
        BY <2>1, <3>3 DEF FindUser, DeleteRow, DeleteFails
      <3> QED BY <2>5, <3>1, <3>2, <3>3 DEF DeleteUser
    <2>6. ASSUME NEW c \in Client, Request(c) PROVE PoolsOnPath'
      <3>1. CASE GetNotesStore(c)
        <4>1. CASE /\ OpenPath(client[c].id)
                   /\ cache' = With(cache, client[c].id, path'[client[c].id])
          BY <1>2, <4>1, OpenKeepsPaths, PoolsStayOnPath DEF With
        <4> QED BY <2>1, <3>1, <4>1 DEF GetNotesStore
      <3>2. CASE Reconnect(c)
        BY <1>2, <3>2, OpenKeepsPaths, PoolsStayOnPath DEF Reconnect
      <3>3. CASE Authenticate(c) \/ RequestEnds(c)
        BY <2>1, <3>3 DEF Authenticate, RequestEnds
      <3> QED BY <2>6, <3>1, <3>2, <3>3 DEF Request
    <2>7. CASE ExpirePool
      BY <2>3, <2>7 DEF ExpirePool
    <2>8. CASE IdleOut
      <3>1. PICK id \in Ids(cache) : cache' = [cache EXCEPT ![id] = Nowhere]
        BY <2>8 DEF IdleOut
      <3>2. path' = path
        BY <2>8 DEF IdleOut
      <3> QED BY <1>2, <3>1, <3>2, PoolsStayOnPath
    <2>9. CASE RunServer
      <3>1. CASE BootOpens
        BY <2>2, <3>1 DEF BootOpens
      <3>2. CASE Crash
        BY <1>2, <3>2, PoolsStayOnPath DEF Crash, None
      <3>3. CASE Start \/ BootMigrates \/ BootRecords \/ BootFails \/ BootEnds
        BY <2>1, <3>3 DEF Start, BootMigrates, BootRecords, BootFails, BootEnds
      <3> QED BY <2>9, <3>1, <3>2, <3>3 DEF RunServer
    <2>10. CASE UNCHANGED vars
      BY <2>1, <2>10 DEF vars
    <2> QED BY <1>2, <2>4, <2>5, <2>6, <2>7, <2>8, <2>9, <2>10 DEF Next
  <1>3. PoolsOnPath => NewUserOnNewDatabase
    BY DEF PoolsOnPath, NewUserOnNewDatabase
  <1>4. PoolsOnPath /\ [Next]_vars /\ [Unpooled]_vars => PoolsOnPath'
    BY <1>2
  <1> HIDE DEF Unpooled
  <1>5. Spec /\ [][Unpooled]_vars => []PoolsOnPath
    BY <1>1, <1>4, PTL DEF Spec
  <1>6. Spec /\ [][Unpooled]_vars => []NewUserOnNewDatabase
    BY <1>3, <1>5, PTL
  <1> QED BY <1>6 DEF FilesDeletedUnpooled, Unpooled
=============================================================================
