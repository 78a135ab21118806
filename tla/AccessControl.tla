--------------------------- MODULE AccessControl ---------------------------
(***************************************************************************)
(* Who a request acts for: the first administrator (PostSetup), login and  *)
(* logout (web/handlers/users.go), the chains of guards in front of the    *)
(* handlers (web/handlers/middleware.go, web/routes.go), and the sessions  *)
(* in the index database (dbx/sqlitex/sessionstore.go).                    *)
(*                                                                         *)
(* Requests run concurrently and nothing holds a session or a user still   *)
(* between two of their steps.  The session manager (scs) is a library:    *)
(* LoadAndSave copies the session into the request, RenewToken deletes its *)
(* row at once and gives the copy a token that nobody has, and a copy that *)
(* was changed is written when the response begins.                        *)
(*                                                                         *)
(* A browser sends any token it was once given: requests and answers of    *)
(* one browser overtake each other.                                        *)
(***************************************************************************)
EXTENDS Integers, FiniteSets, FiniteSetsExt

CONSTANTS
    Request,      \* goroutines of requests
    MaxUser,      \* bound on the ids in use
    MaxAccount,   \* bound on the users ever created
    MaxToken      \* bound on the tokens ever issued

ASSUME BoundAssumption ==
    MaxUser \in Nat /\ MaxAccount \in Nat /\ MaxToken \in Nat

VARIABLES
    users,      \* the rows: id -> account, a new one for every row, and its role
    sessions,   \* the rows: token -> user and whether the expiry lies ahead
    server,     \* the process, with its setupRequired
    request,    \* Request -> where its handler is and its copy of the session
    accounts,   \* how many users were ever created
    issued,     \* how many tokens were ever issued
    renewed     \* history: the tokens that RenewToken has deleted

vars == <<users, sessions, server, request, accounts, issued, renewed>>

UserId == 1..MaxUser
Account == 1..MaxAccount
Token == 1..MaxToken

-----------------------------------------------------------------------------
(* Partial functions.                                                        *)

Ids(f) == DOMAIN f
With(f, id, value) == [i \in Ids(f) \cup {id} |-> IF i = id THEN value ELSE f[i]]
Without(f, id) == [i \in Ids(f) \ {id} |-> f[i]]
None == [i \in {} |-> 0]

-----------------------------------------------------------------------------
(* Users.                                                                    *)

UserRow(account, isAdmin) == [account |-> account, isAdmin |-> isAdmin]

\* Variant: ids are counted, from zero.
NextIdCounted == Cardinality(Ids(users))

\* users.id is an INTEGER PRIMARY KEY without AUTOINCREMENT.
NextId == IF Ids(users) = {} THEN 1 ELSE Max(Ids(users)) + 1

\* CreateAdminUser, CreateUserAndDB.
InsertUser(isAdmin) ==
    /\ accounts < MaxAccount /\ NextId <= MaxUser
    /\ accounts' = accounts + 1
    /\ users' = With(users, NextId, UserRow(accounts + 1, isAdmin))

Administrators == {id \in Ids(users) : users[id].isAdmin}

\* Variant: an empty table is looked for.
InitialSetupNeededWhenEmpty == Ids(users) = {}
InitialSetupNeeded == Administrators = {}

-----------------------------------------------------------------------------
(* Sessions and the copies of them that requests have.                       *)

\* user is the id in the session, 0 for none; by is a history: the account that
\* logged in.
Session(user, by) == [user |-> user, by |-> by]
Nobody == Session(0, 0)

\* Find answers with rows whose expiry lies ahead.
Live(t) == t \in Ids(sessions) /\ sessions[t].live

Deleted(t) == Without(sessions, t)
Committed(t, s) == With(sessions, t, [user |-> s.user, by |-> s.by, live |-> TRUE])

-----------------------------------------------------------------------------
(* The process and its goroutines.                                           *)

\* cut and orphaned are histories of this process: a setup has failed after its
\* INSERT, the last administrator was deleted.
Down == [up |-> FALSE, setupRequired |-> FALSE, cut |-> FALSE, orphaned |-> FALSE]

\* as and found are histories: the account that Authenticate admitted, the account
\* that DeleteUser found under its target.
Idle == [pc |-> "idle", doing |-> "guarded", token |-> 0, session |-> Nobody, as |-> 0,
         target |-> 0, found |-> 0]

At(r, pc) == server.up /\ request[r].pc = pc
Ends(r) == request' = [request EXCEPT ![r] = Idle]

\* The bound: whoever is about to renew will find a token.
TokenLeft == issued + Cardinality({r \in Request : request[r].pc = "renew"}) < MaxToken

-----------------------------------------------------------------------------
(* The chains.                                                               *)

AdminWork == {"create", "delete"}
Guarded == AdminWork \cup {"page", "logout"}

\* Which of the guarded routes a request is for is told apart when the guards do.
Route == {"guarded", "login", "setup"}

\* InitialSetup, and the test of the flag in PostSetup, which only ever goes from
\* true to false; then LoadAndSave.  All else is redirected and leaves no trace, as
\* does a guarded route without a user in the session.
Arrive(r, route) ==
    /\ At(r, "idle")
    /\ server.setupRequired <=> route = "setup"
    /\ \E t \in {0} \cup {u \in Ids(sessions) : Live(u)} :
          /\ route = "guarded" => t # 0 /\ sessions[t].user # 0
          /\ request' = [request EXCEPT ![r] =
                [Idle EXCEPT !.pc = IF route = "guarded" THEN "authenticate" ELSE "handle",
                             !.doing = route, !.token = t,
                             !.session = IF t = 0 THEN Nobody
                                         ELSE Session(sessions[t].user, sessions[t].by)]]
    /\ UNCHANGED <<users, sessions, server, accounts, issued, renewed>>

\* RequireAdmin, RequireAuth with RedirectAdmin, RequireAuth alone.
Admits(doing, isAdmin) ==
    CASE doing \in AdminWork -> isAdmin
      [] doing = "page" -> ~isAdmin
      [] doing = "logout" -> TRUE

\* Authenticate reads the row of the session's user, and the guards of the route
\* look at it.  Whoever is not admitted is redirected, a user without a row is an
\* error: HandlerEnds.  Only logout will look at the token again.
Authenticate(r, doing) ==
    LET user == request[r].session.user IN
    /\ At(r, "authenticate") /\ (doing = "logout" => TokenLeft)
    /\ user \in Ids(users) /\ Admits(doing, users[user].isAdmin)
    /\ request' = [request EXCEPT ![r].as = users[user].account, ![r].doing = doing,
                                  ![r].token = IF doing = "logout" THEN @ ELSE 0,
                                  ![r].pc = IF doing = "logout" THEN "renew" ELSE "handle"]
    /\ UNCHANGED <<users, sessions, server, accounts, issued, renewed>>

-----------------------------------------------------------------------------
(* The handlers.                                                             *)

\* The guards do not admit the request; a page is served; a form is invalid, a name
\* taken, a password wrong; a query fails, or DeleteDB refuses: nothing is left behind.
HandlerEnds(r) ==
    /\ At(r, "authenticate") \/ At(r, "handle") \/ At(r, "remove")
    /\ Ends(r)
    /\ UNCHANGED <<users, sessions, server, accounts, issued, renewed>>

\* PostUser inserts the row; the database of a user is UserLifecycle's.
PostUser(r) ==
    /\ At(r, "handle") /\ request[r].doing = "create"
    /\ \E isAdmin \in BOOLEAN : InsertUser(isAdmin)
    /\ Ends(r)
    /\ UNCHANGED <<sessions, server, issued, renewed>>

\* DeleteUser looks the user up, has the pool and the file removed, ...
DeleteUserFinds(r) ==
    /\ At(r, "handle") /\ request[r].doing = "delete"
    /\ \E id \in Ids(users) : request' =
          [request EXCEPT ![r].pc = "remove", ![r].target = id, ![r].found = users[id].account]
    /\ UNCHANGED <<users, sessions, server, accounts, issued, renewed>>

\* Variant: the user of the request is taken for the user in its path.
DeleteUserRowOwn(r) ==
    LET id == request[r].session.user IN
    /\ At(r, "remove")
    /\ users' = Without(users, id)
    /\ server' = [server EXCEPT !.orphaned = @ \/ Administrators \subseteq {id}]
    /\ Ends(r)
    /\ UNCHANGED <<sessions, accounts, issued, renewed>>

\* ... and deletes the row that now has the id.  The sessions stay.
DeleteUserRow(r) ==
    LET id == request[r].target IN
    /\ At(r, "remove")
    /\ users' = Without(users, id)
    /\ server' = [server EXCEPT !.orphaned = @ \/ Administrators \subseteq {id}]
    /\ Ends(r)
    /\ UNCHANGED <<sessions, accounts, issued, renewed>>

\* PostUserLogin: AuthenticateUser reads the row of the name and compares the
\* password.
PostUserLogin(r) ==
    /\ At(r, "handle") /\ request[r].doing = "login" /\ TokenLeft
    /\ \E id \in Ids(users) :
          request' = [request EXCEPT ![r].pc = "renew", ![r].session = Session(id, users[id].account)]
    /\ UNCHANGED <<users, sessions, server, accounts, issued, renewed>>

\* Variant: the id is that of the first administrator.
PostSetupFirst(r) ==
    /\ At(r, "handle") /\ request[r].doing = "setup" /\ TokenLeft
    /\ InsertUser(TRUE)
    /\ request' = [request EXCEPT ![r].pc = "renew",
                       ![r].session = Session(Min(Administrators \cup {NextId}), accounts + 1)]
    /\ UNCHANGED <<sessions, server, issued, renewed>>

\* PostSetup creates an administrator and will log it in.
PostSetup(r) ==
    /\ At(r, "handle") /\ request[r].doing = "setup" /\ TokenLeft
    /\ InsertUser(TRUE)
    /\ request' = [request EXCEPT ![r].pc = "renew", ![r].session = Session(NextId, accounts + 1)]
    /\ UNCHANGED <<sessions, server, issued, renewed>>

\* Variant: a login keeps the token, if the browser has one.
RenewUnlessLogin(r) ==
    LET q == request[r]
        keep == q.doing = "login" /\ q.token # 0
    IN
    /\ At(r, "renew")
    /\ issued < MaxToken
    /\ issued' = IF keep THEN issued ELSE issued + 1
    /\ sessions' = IF keep THEN sessions ELSE Deleted(q.token)
    /\ renewed' = IF keep THEN renewed ELSE renewed \cup ({q.token} \ {0})
    /\ request' = [request EXCEPT ![r].pc = "commit", ![r].token = IF keep THEN @ ELSE issued + 1,
                       ![r].session = IF q.doing = "logout" THEN Nobody ELSE @]
    /\ server' = [server EXCEPT !.setupRequired = @ /\ q.doing # "setup"]
    /\ UNCHANGED <<users, accounts>>

\* The end of PostUserLogin, PostUserLogout and PostSetup: RenewToken, then the
\* flag, and the user is put into the session or removed from it.
Renew(r) ==
    LET q == request[r] IN
    /\ At(r, "renew")
    /\ issued < MaxToken
    /\ issued' = issued + 1
    /\ sessions' = Deleted(q.token)
    /\ renewed' = renewed \cup ({q.token} \ {0})
    /\ request' = [request EXCEPT ![r].pc = "commit", ![r].token = issued + 1,
                       ![r].session = IF q.doing = "logout" THEN Nobody ELSE @]
    /\ server' = [server EXCEPT !.setupRequired = @ /\ q.doing # "setup"]
    /\ UNCHANGED <<users, accounts>>

\* The response begins: the session is written, the browser gets its token.
Commit(r) ==
    /\ At(r, "commit")
    /\ sessions' = Committed(request[r].token, request[r].session)
    /\ Ends(r)
    /\ UNCHANGED <<users, server, accounts, issued, renewed>>

\* An error of UpdateUserLastLoginToNow, of RenewToken or of the write: a full disk,
\* a query timeout, a client that went away.
LateError(r) ==
    /\ At(r, "renew") \/ At(r, "commit")
    /\ Ends(r)
    /\ server' = [server EXCEPT !.cut = @ \/ (At(r, "renew") /\ request[r].doing = "setup")]
    /\ UNCHANGED <<users, sessions, accounts, issued, renewed>>

-----------------------------------------------------------------------------
(* The session store.                                                        *)

\* Time passes.
Expire(t) ==
    /\ Live(t)
    /\ sessions' = [sessions EXCEPT ![t].live = FALSE]
    /\ UNCHANGED <<users, server, request, accounts, issued, renewed>>

\* Variant: the comparison is the wrong way round.
KeptDead == {t \in Ids(sessions) : ~sessions[t].live}
\* Variant: the cleanup deletes nothing.
KeptAll == Ids(sessions)
Kept == {t \in Ids(sessions) : sessions[t].live}

\* The goroutine of startCleanup, which goes on after an error of deleteExpired.
DeleteExpired ==
    /\ server.up /\ Kept # Ids(sessions)
    /\ sessions' = [t \in Kept |-> sessions[t]]
    /\ UNCHANGED <<users, server, request, accounts, issued, renewed>>

-----------------------------------------------------------------------------
(* The process.                                                              *)

RunServer ==
    /\ ~server.up
    /\ server' = [Down EXCEPT !.up = TRUE, !.setupRequired = InitialSetupNeeded]
    /\ UNCHANGED <<users, sessions, request, accounts, issued, renewed>>

\* The process dies, or is stopped.
Crash ==
    /\ server.up
    /\ server' = Down
    /\ request' = [r \in Request |-> Idle]
    /\ UNCHANGED <<users, sessions, accounts, issued, renewed>>

-----------------------------------------------------------------------------
Init ==
    /\ users = None /\ sessions = None
    /\ server = Down
    /\ request = [r \in Request |-> Idle]
    /\ accounts = 0 /\ issued = 0 /\ renewed = {}

Handle(r) ==
    \/ \E route \in Route : Arrive(r, route)
    \/ \E doing \in Guarded : Authenticate(r, doing)
    \/ HandlerEnds(r)
    \/ PostUser(r) \/ DeleteUserFinds(r) \/ DeleteUserRow(r)
    \/ PostUserLogin(r) \/ PostSetup(r)
    \/ Renew(r) \/ Commit(r) \/ LateError(r)

Next ==
    \/ \E r \in Request : Handle(r)
    \/ \E t \in Token : Expire(t)
    \/ DeleteExpired \/ RunServer \/ Crash

Spec == Init /\ [][Next]_vars

\* Time passes, whoever runs the program starts it again, and a process is not
\* stopped every time before the ticker of startCleanup ticks.
Fairness ==
    /\ \A t \in Token : WF_vars(Expire(t))
    /\ SF_vars(DeleteExpired) /\ WF_vars(RunServer)

FairSpec == Spec /\ Fairness

-----------------------------------------------------------------------------
SessionData == [user : UserId \cup {0}, by : Account \cup {0}]
SessionRow == [user : UserId \cup {0}, by : Account \cup {0}, live : BOOLEAN]
RequestState ==
    [pc : {"idle", "authenticate", "handle", "remove", "renew", "commit"},
     doing : Guarded \cup Route, token : Token \cup {0}, session : SessionData,
     as : Account \cup {0}, target : UserId \cup {0}, found : Account \cup {0}]
ServerState == [up : BOOLEAN, setupRequired : BOOLEAN, cut : BOOLEAN, orphaned : BOOLEAN]

\* Types: every variable stays within what the code can put there.
TypeOK ==
    /\ Ids(users) \subseteq UserId
    /\ \A id \in Ids(users) : users[id] \in [account : Account, isAdmin : BOOLEAN]
    /\ Ids(sessions) \subseteq Token /\ \A t \in Ids(sessions) : sessions[t] \in SessionRow
    /\ server \in ServerState /\ request \in [Request -> RequestState]
    /\ accounts \in 0..MaxAccount /\ issued \in 0..MaxToken /\ renewed \subseteq Token

\* Whatever users come and go between its steps, a request that the guards have
\* admitted acts for the account that logged in, as long as that account exists.
\* (Once it is deleted its id may be another's: the session is not told.)
ActsForItsAccount ==
    \A r \in Request :
        LET q == request[r] IN
        q.as \notin {0, q.session.by} => \A id \in Ids(users) : users[id].account # q.session.by

\* Administrators delete and create users at the same time: a deletion takes the user
\* that it was decided for, as long as that user exists.  (Once another deletion was
\* faster, it takes whoever has got the id.)
DeletionsHitTheirUser ==
    [][ \A id \in Ids(users) :
            id \notin Ids(users)' =>
                \E r \in Request :
                    /\ request[r].pc = "remove" /\ request[r].target = id
                    /\ \A i \in Ids(users) : users[i].account = request[r].found => i = id ]_vars

\* Two requests of one session, one of which logs in or out: the session that was
\* renewed is not written again by the other.
RenewedTokensAreDead == renewed \cap Ids(sessions) = {}

\* While the server runs, setup is asked for exactly as long as there is no
\* administrator, but for the moment that a setup needs from its INSERT to its
\* end, after a setup that failed there, and after the last administrator went.
SetupFlagMatchesUsers ==
    server.up =>
        /\ server.setupRequired /\ Administrators # {} =>
              server.cut \/ \E r \in Request : request[r].pc = "renew" /\ request[r].doing = "setup"
        /\ ~server.setupRequired /\ Administrators = {} => server.orphaned

\* A session that has not expired ends only when a request that carries it logs in
\* or out: not by a cleanup, a crash, a restart or anybody else's request.
LiveSessionsEndOnlyByTheirOwn ==
    [][ \A t \in Ids(sessions) :
            Live(t) /\ t \notin Ids(sessions)' =>
                \E r \in Request : request[r].pc = "renew" /\ request[r].token = t ]_vars

\* Every session goes in the end, also that of a user who was deleted.
SessionsEnd == \A t \in Token : t \in Ids(sessions) ~> t \notin Ids(sessions)
=============================================================================
