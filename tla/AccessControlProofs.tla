------------------------ MODULE AccessControlProofs ------------------------
(***************************************************************************)
(* Proofs about AccessControl for any number of concurrent requests and    *)
(* any bounds.                                                             *)
(***************************************************************************)
EXTENDS AccessControl, WellFoundedInduction, TLAPS

-----------------------------------------------------------------------------
(* The invariant.                                                            *)

\* A row has an account of its own.
AccountsOnce ==
    /\ \A id \in Ids(users) : users[id].account <= accounts
    /\ \A i, j \in Ids(users) : users[i].account = users[j].account => i = j

\* The id in a session is that of the account that logged in, if it still exists; so
\* it is in the copies that requests have.
SessionsFaithful ==
    \A t \in Ids(sessions) :
        /\ sessions[t].by <= accounts
        /\ \A id \in Ids(users) : users[id].account = sessions[t].by => id = sessions[t].user

CopiesFaithful ==
    \A r \in Request :
        /\ request[r].session.by <= accounts
        /\ \A id \in Ids(users) :
              users[id].account = request[r].session.by => id = request[r].session.user

\* Only guarded routes act for anybody.
ActsInv ==
    /\ ActsForItsAccount
    /\ \A r \in Request : request[r].as # 0 => request[r].doing \in Guarded

\* A token that is about to be written is known to nobody else.
TokensInv ==
    /\ \A t \in Ids(sessions) \cup renewed : t <= issued
    /\ \A r \in Request : request[r].token <= issued
    /\ RenewedTokensAreDead
    /\ \A r \in Request : request[r].pc = "commit" =>
          /\ request[r].token # 0 /\ request[r].token \notin Ids(sessions) \cup renewed
          /\ \A s \in Request \ {r} : request[s].token # request[r].token

\* As long as setup is required every request under way is one, so that nobody
\* deletes the administrator of the first that comes to its end.
SetupInv ==
    /\ \A r \in Request : /\ request[r].pc = "remove" => request[r].doing = "delete"
                          /\ request[r].pc = "authenticate" => request[r].doing = "guarded"
    /\ ~server.up => \A r \in Request : request[r].pc = "idle"
    /\ server.setupRequired =>
          \A r \in Request : request[r].pc = "idle" \/ request[r].doing = "setup"
    /\ server.setupRequired /\ Administrators = {} =>
          \A r \in Request : ~(request[r].pc = "renew" /\ request[r].doing = "setup")
    /\ SetupFlagMatchesUsers

AccessInv ==
    /\ TypeOK /\ AccountsOnce /\ SessionsFaithful /\ CopiesFaithful
    /\ ActsInv /\ TokensInv /\ SetupInv

-----------------------------------------------------------------------------
(* What the helpers do.                                                      *)

USE DEF Ids

LEMMA IdleIs ==
    /\ Idle \in RequestState /\ Idle.pc = "idle" /\ Idle.doing = "guarded" /\ Idle.token = 0
    /\ Idle.as = 0 /\ Idle.found = 0 /\ Idle.session.user = 0 /\ Idle.session.by = 0
  BY DEF Idle, RequestState, SessionData, Session, Nobody, Guarded, Route

LEMMA SessionIs ==
    ASSUME NEW user \in UserId \cup {0}, NEW by \in Account \cup {0}
    PROVE  /\ Session(user, by) \in SessionData
           /\ Session(user, by).user = user /\ Session(user, by).by = by
  BY DEF Session, SessionData

LEMMA RequestTyped ==
    ASSUME TypeOK, NEW r \in Request
    PROVE  /\ request[r] \in RequestState
           /\ request[r].token \in Token \cup {0} /\ request[r].as \in Account \cup {0}
           /\ request[r].target \in UserId \cup {0} /\ request[r].found \in Account \cup {0}
           /\ request[r].doing \in Guarded \cup Route
           /\ request[r].session \in SessionData
           /\ request[r].session.user \in UserId \cup {0}
           /\ request[r].session.by \in Account \cup {0}
  <1>1. request[r] \in RequestState
    BY DEF TypeOK
  <1>2. request[r].session \in SessionData
    BY <1>1 DEF RequestState
  <1> QED BY <1>1, <1>2 DEF RequestState, SessionData

LEMMA UsersTyped ==
    ASSUME TypeOK, NEW id \in Ids(users)
    PROVE  id \in UserId /\ users[id].account \in Account /\ users[id].isAdmin \in BOOLEAN
  BY DEF TypeOK

LEMMA SessionsTyped ==
    ASSUME TypeOK, NEW t \in Ids(sessions)
    PROVE  /\ t \in Token /\ sessions[t] \in SessionRow
           /\ sessions[t].user \in UserId \cup {0} /\ sessions[t].by \in Account \cup {0}
           /\ sessions[t].live \in BOOLEAN
  BY DEF TypeOK, SessionRow

LEMMA RequestMoves ==
    ASSUME TypeOK, NEW r \in Request, NEW q \in RequestState, request' = [request EXCEPT ![r] = q]
    PROVE  /\ request' \in [Request -> RequestState] /\ request'[r] = q
           /\ \A s \in Request \ {r} : request'[s] = request[s]
  BY DEF TypeOK

LEMMA RequestEnds ==
    ASSUME TypeOK, NEW r \in Request, Ends(r)
    PROVE  /\ request' \in [Request -> RequestState] /\ request'[r] = Idle
           /\ \A s \in Request \ {r} : request'[s] = request[s]
  BY IdleIs, RequestMoves DEF Ends

LEMMA NextIdIsNew == ASSUME TypeOK PROVE NextId \in Nat \ {0} /\ NextId \notin Ids(users)
  <1>0. Ids(users) \subseteq 1..MaxUser /\ MaxUser \in Nat
    BY BoundAssumption DEF TypeOK, UserId
  <1>1. CASE Ids(users) = {}
    BY <1>1 DEF NextId
  <1>2. CASE Ids(users) # {}
    <2> DEFINE Below == {MaxUser - i : i \in Ids(users)}
    <2>1. Below \subseteq Nat /\ Below # {}
      BY <1>0, <1>2
    <2>2. PICK b \in Below : \A c \in Below : ~(<<c, b>> \in OpToRel(<, Nat))
      BY <2>1, NatLessThanWellFounded, WFMin
    <2>3. \A c \in Below : ~(c < b)
      BY <2>1, <2>2 DEF OpToRel
    <2>4. \E x \in Ids(users) : \A y \in Ids(users) : x >= y
      <3>1. PICK x \in Ids(users) : b = MaxUser - x
        OBVIOUS
      <3>2. ASSUME NEW y \in Ids(users) PROVE x >= y
        <4>1. ~(MaxUser - y < b)
          BY <2>3
        <4> QED BY <1>0, <3>1, <4>1
      <3> QED BY <3>2
    <2>5. Max(Ids(users)) \in Ids(users) /\ \A y \in Ids(users) : Max(Ids(users)) >= y
      BY <2>4 DEF Max
    <2> QED BY <1>0, <1>2, <2>5 DEF NextId
  <1> QED BY <1>1, <1>2

\* The new row has an id and an account that no row, session or request has.
LEMMA UserInserted ==
    ASSUME TypeOK, AccountsOnce, NEW isAdmin \in BOOLEAN, InsertUser(isAdmin)
    PROVE  /\ NextId \in UserId /\ NextId \notin Ids(users)
           /\ Ids(users') = Ids(users) \cup {NextId}
           /\ \A id \in Ids(users) : users'[id] = users[id]
           /\ users'[NextId] = UserRow(accounts + 1, isAdmin)
           /\ users'[NextId].account = accounts + 1 /\ users'[NextId].isAdmin = isAdmin
           /\ users'[NextId] \in [account : Account, isAdmin : BOOLEAN]
           /\ accounts' = accounts + 1 /\ accounts \in Nat
           /\ accounts' \in 0..MaxAccount /\ accounts + 1 \in Account
           /\ AccountsOnce'
  <1> DEFINE n == NextId
  <1>1. n \in UserId /\ n \notin Ids(users)
    BY NextIdIsNew, BoundAssumption DEF InsertUser, UserId
  <1>2. /\ accounts' = accounts + 1 /\ accounts \in Nat
        /\ accounts' \in 0..MaxAccount /\ accounts + 1 \in Account
    BY BoundAssumption DEF InsertUser, TypeOK, Account
  <1>3. users' = With(users, n, UserRow(accounts + 1, isAdmin))
    BY DEF InsertUser
  <1> HIDE DEF n
  <1>4. /\ Ids(users') = Ids(users) \cup {n}
        /\ \A id \in Ids(users) : users'[id] = users[id]
        /\ users'[n] = UserRow(accounts + 1, isAdmin)
    BY <1>1, <1>3 DEF With
  <1>5. /\ users'[n].account = accounts + 1 /\ users'[n].isAdmin = isAdmin
        /\ users'[n] \in [account : Account, isAdmin : BOOLEAN]
    BY <1>2, <1>4 DEF UserRow
  <1>6. \A id \in Ids(users) : users[id].account \in Nat
    BY UsersTyped, BoundAssumption DEF Account
  <1>7. AccountsOnce'
    BY <1>2, <1>4, <1>5, <1>6 DEF AccountsOnce
  <1> QED BY <1>1, <1>2, <1>4, <1>5, <1>7 DEF n

LEMMA SessionDeleted ==
    ASSUME NEW t, sessions' = Deleted(t)
    PROVE  /\ Ids(sessions') = Ids(sessions) \ {t}
           /\ \A u \in Ids(sessions') : sessions'[u] = sessions[u]
  BY DEF Deleted, Without

LEMMA SessionCommitted ==
    ASSUME NEW t \in Token, NEW s \in SessionData, sessions' = Committed(t, s)
    PROVE  /\ Ids(sessions') = Ids(sessions) \cup {t}
           /\ \A u \in Ids(sessions) \ {t} : sessions'[u] = sessions[u]
           /\ sessions'[t] \in SessionRow /\ sessions'[t].by = s.by /\ sessions'[t].user = s.user
  BY DEF Committed, With, SessionData, SessionRow

-----------------------------------------------------------------------------
(* Steps that take a request on and leave users and sessions alone.          *)

\* What is left to show when one request moves: its own part.
LEMMA RequestStep ==
    ASSUME AccessInv, NEW r \in Request, NEW q \in RequestState,
           request' = [request EXCEPT ![r] = q],
           UNCHANGED <<users, sessions, server, accounts, issued, renewed>>,
           q.session.by <= accounts,
           \A id \in Ids(users) : users[id].account = q.session.by => id = q.session.user,
           q.as \notin {0, q.session.by} => \A id \in Ids(users) : users[id].account # q.session.by,
           q.as # 0 => q.doing \in Guarded,
           q.token \in {0, request[r].token} \cup Ids(sessions), q.pc # "commit",
           request[r].pc # "commit",
           q.pc = "remove" => q.doing = "delete",
           q.pc = "authenticate" => q.doing = "guarded",
           server.up,
           server.setupRequired => q.pc = "idle" \/ q.doing = "setup",
           ~(q.pc = "renew" /\ q.doing = "setup"),
           ~(request[r].pc = "renew" /\ request[r].doing = "setup")
    PROVE  AccessInv'
  <1>0. /\ TypeOK /\ AccountsOnce /\ SessionsFaithful /\ CopiesFaithful
        /\ ActsInv /\ TokensInv /\ SetupInv
    BY DEF AccessInv
  <1>1. /\ request' \in [Request -> RequestState] /\ request'[r] = q
        /\ \A s \in Request \ {r} : request'[s] = request[s]
    BY <1>0, RequestMoves
  <1>2. TypeOK'
    BY <1>0, <1>1 DEF TypeOK
  <1>3. AccountsOnce' /\ SessionsFaithful'
    BY <1>0 DEF AccountsOnce, SessionsFaithful
  <1>4. CopiesFaithful'
    BY <1>0, <1>1 DEF CopiesFaithful
  <1>5. ActsInv'
    BY <1>0, <1>1 DEF ActsInv, ActsForItsAccount
  <1>6. TokensInv'
    <2>1. issued \in Nat
      BY <1>0, BoundAssumption DEF TypeOK
    <2>2. \A s \in Request : request'[s].token <= issued
      BY <1>0, <1>1, <2>1 DEF TokensInv
    <2>3. RenewedTokensAreDead'
      BY <1>0 DEF TokensInv, RenewedTokensAreDead
    <2>4. ASSUME NEW s \in Request, request'[s].pc = "commit"
          PROVE  /\ request'[s].token # 0 /\ request'[s].token \notin Ids(sessions) \cup renewed
                 /\ \A u \in Request \ {s} : request'[u].token # request'[s].token
      BY <1>0, <1>1, <2>4 DEF TokensInv
    <2> QED BY <1>0, <2>2, <2>3, <2>4 DEF TokensInv
  <1>7. SetupInv'
    <2>1. Administrators' = Administrators
      BY DEF Administrators
    <2>2. SetupFlagMatchesUsers'
      BY <1>0, <1>1, <2>1 DEF SetupInv, SetupFlagMatchesUsers
    <2> QED BY <1>0, <1>1, <2>1, <2>2 DEF SetupInv
  <1> QED BY <1>2, <1>3, <1>4, <1>5, <1>6, <1>7 DEF AccessInv

LEMMA ArriveStep ==
    ASSUME AccessInv, NEW r \in Request, NEW route \in Route, Arrive(r, route) PROVE AccessInv'
  <1>0. TypeOK /\ SessionsFaithful /\ TokensInv
    BY DEF AccessInv
  <1>1. /\ server.up /\ request[r].pc = "idle" /\ (server.setupRequired <=> route = "setup")
        /\ UNCHANGED <<users, sessions, server, accounts, issued, renewed>>
    BY DEF Arrive, At
  <1>2. PICK t \in {0} \cup {u \in Ids(sessions) : Live(u)} :
            request' = [request EXCEPT ![r] =
                [Idle EXCEPT !.pc = IF route = "guarded" THEN "authenticate" ELSE "handle",
                             !.doing = route, !.token = t,
                             !.session = IF t = 0 THEN Nobody
                                         ELSE Session(sessions[t].user, sessions[t].by)]]
    BY DEF Arrive
  <1> DEFINE c == IF t = 0 THEN Nobody ELSE Session(sessions[t].user, sessions[t].by)
             q == [Idle EXCEPT !.pc = IF route = "guarded" THEN "authenticate" ELSE "handle",
                               !.doing = route, !.token = t, !.session = c]
  <1>3. /\ c \in SessionData /\ c.by <= accounts
        /\ \A id \in Ids(users) : users[id].account = c.by => id = c.user
    <2>1. CASE t = 0
      <3>1. c = Session(0, 0) /\ accounts \in Nat
        BY <1>0, <2>1, BoundAssumption DEF Nobody, TypeOK
      <3>2. \A id \in Ids(users) : users[id].account # 0
        BY <1>0, UsersTyped, BoundAssumption DEF Account
      <3> QED BY <3>1, <3>2, SessionIs
    <2>2. CASE t # 0
      <3>1. t \in Ids(sessions) /\ c = Session(sessions[t].user, sessions[t].by)
        BY <1>2, <2>2
      <3>2. c \in SessionData /\ c.user = sessions[t].user /\ c.by = sessions[t].by
        BY <1>0, <3>1, SessionsTyped, SessionIs
      <3> QED BY <1>0, <3>1, <3>2 DEF SessionsFaithful
    <2> QED BY <2>1, <2>2
  <1> HIDE DEF c
  <1>4. t \in Token \cup {0}
    BY <1>0, SessionsTyped
  <1>5. /\ q \in RequestState /\ q.pc \in {"authenticate", "handle"} /\ q.doing = route
        /\ q.token = t /\ q.session = c /\ q.as = 0
        /\ q.pc = "authenticate" => route = "guarded"
    <2> DEFINE pc == IF route = "guarded" THEN "authenticate" ELSE "handle"
    <2>1. pc \in {"authenticate", "handle"} /\ (pc = "authenticate" => route = "guarded")
      OBVIOUS
    <2>2. q = [Idle EXCEPT !.pc = pc, !.doing = route, !.token = t, !.session = c]
      OBVIOUS
    <2> HIDE DEF pc, q
    <2>3. /\ q \in RequestState /\ q.pc = pc /\ q.doing = route
          /\ q.token = t /\ q.session = c /\ q.as = Idle.as
      BY <1>3, <1>4, <2>1, <2>2, IdleIs DEF RequestState
    <2> QED BY <2>1, <2>3, IdleIs
  <1>6. request' = [request EXCEPT ![r] = q]
    BY <1>2 DEF c
  <1> HIDE DEF q
  <1>7. /\ q.session.by <= accounts
        /\ \A id \in Ids(users) : users[id].account = q.session.by => id = q.session.user
    BY <1>3, <1>5
  <1>8. q.token \in {0, request[r].token} \cup Ids(sessions)
    BY <1>2, <1>5
  <1>9. /\ q.pc # "commit" /\ q.pc # "remove" /\ q.pc # "renew" /\ q.as = 0
        /\ q.pc = "authenticate" => q.doing = "guarded"
        /\ server.setupRequired => q.doing = "setup"
    BY <1>1, <1>5
  <1> QED BY <1>1, <1>5, <1>6, <1>7, <1>8, <1>9, RequestStep

LEMMA AuthenticateStep ==
    ASSUME AccessInv, NEW r \in Request, NEW doing \in Guarded, Authenticate(r, doing)
    PROVE  AccessInv'
  <1>0. TypeOK /\ CopiesFaithful /\ SetupInv /\ AccountsOnce
    BY DEF AccessInv
  <1> DEFINE p == request[r]
             as == users[p.session.user].account
             q == [p EXCEPT !.as = as, !.doing = doing,
                            !.token = IF doing = "logout" THEN @ ELSE 0,
                            !.pc = IF doing = "logout" THEN "renew" ELSE "handle"]
  <1>1. /\ server.up /\ p.pc = "authenticate" /\ p.session.user \in Ids(users)
        /\ UNCHANGED <<users, sessions, server, accounts, issued, renewed>>
    BY DEF Authenticate, At
  <1>2. as \in Account /\ \A id \in Ids(users) : users[id].account = p.session.by => as = p.session.by
    BY <1>0, <1>1, UsersTyped DEF CopiesFaithful
  <1>3. /\ p \in RequestState /\ p.token \in Token \cup {0}
    BY <1>0, RequestTyped
  <1> HIDE DEF as
  <1>4. /\ q \in RequestState /\ q.pc \in {"renew", "handle"} /\ q.doing = doing
        /\ q.token \in {0, p.token} /\ q.session = p.session /\ q.as = as
    BY <1>2, <1>3 DEF RequestState
  <1>5. request' = [request EXCEPT ![r] = q]
    BY <1>0, <1>3 DEF Authenticate, as, TypeOK
  <1>6. p.doing = "guarded" /\ ~server.setupRequired
    BY <1>0, <1>1 DEF SetupInv
  <1>7. doing # "setup"
    BY DEF Guarded, AdminWork
  <1>8. /\ p.session.by <= accounts
        /\ \A id \in Ids(users) : users[id].account = p.session.by => id = p.session.user
    BY <1>0 DEF CopiesFaithful
  <1> HIDE DEF q
  <1>9. /\ q.session.by <= accounts
        /\ \A id \in Ids(users) : users[id].account = q.session.by => id = q.session.user
        /\ q.as \notin {0, q.session.by} => \A id \in Ids(users) : users[id].account # q.session.by
    BY <1>2, <1>4, <1>8
  <1>10. /\ q.token \in {0, request[r].token} \cup Ids(sessions) /\ q.doing \in Guarded
         /\ q.pc # "commit" /\ q.pc # "remove" /\ q.pc # "authenticate" /\ q.doing # "setup"
    BY <1>4, <1>7
  <1> QED BY <1>1, <1>4, <1>5, <1>6, <1>9, <1>10, RequestStep

\* A request that ends, for itself.
LEMMA HandlerEndsStep ==
    ASSUME AccessInv, NEW r \in Request, HandlerEnds(r) PROVE AccessInv'
  <1>0. TypeOK
    BY DEF AccessInv
  <1>1. /\ server.up /\ request[r].pc \in {"authenticate", "handle", "remove"}
        /\ request' = [request EXCEPT ![r] = Idle]
        /\ UNCHANGED <<users, sessions, server, accounts, issued, renewed>>
    BY DEF HandlerEnds, At, Ends
  <1>2. accounts \in Nat /\ \A id \in Ids(users) : users[id].account # 0
    BY <1>0, UsersTyped, BoundAssumption DEF Account, TypeOK
  <1>3. /\ Idle.session.by <= accounts
        /\ \A id \in Ids(users) : users[id].account = Idle.session.by => id = Idle.session.user
        /\ Idle.token = 0 /\ Idle.as = 0 /\ Idle.pc = "idle" /\ Idle \in RequestState
    BY <1>2, IdleIs
  <1> QED BY <1>1, <1>3, RequestStep

LEMMA DeleteUserFindsStep ==
    ASSUME AccessInv, NEW r \in Request, DeleteUserFinds(r) PROVE AccessInv'
  <1>0. TypeOK /\ CopiesFaithful /\ SetupInv /\ ActsInv
    BY DEF AccessInv
  <1> DEFINE p == request[r]
  <1>1. /\ server.up /\ p.pc = "handle" /\ p.doing = "delete"
        /\ UNCHANGED <<users, sessions, server, accounts, issued, renewed>>
    BY DEF DeleteUserFinds, At
  <1>2. PICK id \in Ids(users) :
            request' = [request EXCEPT ![r].pc = "remove", ![r].target = id,
                                       ![r].found = users[id].account]
    BY DEF DeleteUserFinds
  <1> DEFINE q == [p EXCEPT !.pc = "remove", !.target = id, !.found = users[id].account]
  <1>3. p \in RequestState /\ id \in UserId /\ users[id].account \in Account
    BY <1>0, RequestTyped, UsersTyped
  <1>4. /\ q \in RequestState /\ q.pc = "remove" /\ q.doing = p.doing
        /\ q.token = p.token /\ q.session = p.session /\ q.as = p.as
    BY <1>3 DEF RequestState
  <1>5. request' = [request EXCEPT ![r] = q]
    BY <1>0, <1>2, <1>3 DEF TypeOK
  <1>6. ~server.setupRequired
    BY <1>0, <1>1 DEF SetupInv
  <1>7. /\ p.session.by <= accounts
        /\ \A i \in Ids(users) : users[i].account = p.session.by => i = p.session.user
        /\ p.as \notin {0, p.session.by} => \A i \in Ids(users) : users[i].account # p.session.by
        /\ p.as # 0 => p.doing \in Guarded
    BY <1>0 DEF CopiesFaithful, ActsInv, ActsForItsAccount
  <1> HIDE DEF q
  <1> QED BY <1>1, <1>4, <1>5, <1>6, <1>7, RequestStep

LEMMA PostUserLoginStep ==
    ASSUME AccessInv, NEW r \in Request, PostUserLogin(r) PROVE AccessInv'
  <1>0. TypeOK /\ AccountsOnce /\ SetupInv /\ ActsInv
    BY DEF AccessInv
  <1> DEFINE p == request[r]
  <1>1. /\ server.up /\ p.pc = "handle" /\ p.doing = "login"
        /\ UNCHANGED <<users, sessions, server, accounts, issued, renewed>>
    BY DEF PostUserLogin, At
  <1>2. PICK id \in Ids(users) : request' =
            [request EXCEPT ![r].pc = "renew", ![r].session = Session(id, users[id].account)]
    BY DEF PostUserLogin
  <1> DEFINE c == Session(id, users[id].account)
             q == [p EXCEPT !.pc = "renew", !.session = c]
  <1>3. p \in RequestState /\ id \in UserId /\ users[id].account \in Account
    BY <1>0, RequestTyped, UsersTyped
  <1>4. c \in SessionData /\ c.user = id /\ c.by = users[id].account
    BY <1>3, SessionIs
  <1> HIDE DEF c
  <1>5. /\ q \in RequestState /\ q.pc = "renew" /\ q.doing = p.doing
        /\ q.token = p.token /\ q.session = c /\ q.as = p.as
    BY <1>3, <1>4 DEF RequestState
  <1>6. request' = [request EXCEPT ![r] = q]
    BY <1>0, <1>2, <1>3 DEF TypeOK, c
  <1>7. ~server.setupRequired
    BY <1>0, <1>1 DEF SetupInv
  <1>8. p.as = 0
    BY <1>0, <1>1 DEF ActsInv, Guarded, AdminWork
  <1>9. /\ users[id].account <= accounts
        /\ \A i \in Ids(users) : users[i].account = users[id].account => i = id
    BY <1>0 DEF AccountsOnce
  <1> HIDE DEF q
  <1> QED BY <1>1, <1>4, <1>5, <1>6, <1>7, <1>8, <1>9, RequestStep

-----------------------------------------------------------------------------
(* Steps that end a request.                                                 *)

\* The end of a request takes nothing from what is known of the copies, the tokens
\* and who acts.
LEMMA CopiesAfterEnd ==
    ASSUME AccessInv, NEW r \in Request, Ends(r), users' = users, accounts' = accounts
    PROVE  CopiesFaithful' /\ ActsInv'
  <1>0. TypeOK /\ CopiesFaithful /\ ActsInv
    BY DEF AccessInv
  <1>1. /\ request' \in [Request -> RequestState] /\ request'[r] = Idle
        /\ \A s \in Request \ {r} : request'[s] = request[s]
    BY <1>0, RequestEnds
  <1>2. accounts \in Nat /\ \A id \in Ids(users) : users[id].account # 0
    BY <1>0, UsersTyped, BoundAssumption DEF Account, TypeOK
  <1>3. CopiesFaithful'
    BY <1>0, <1>1, <1>2, IdleIs DEF CopiesFaithful
  <1>4. ActsInv'
    BY <1>0, <1>1, IdleIs DEF ActsInv, ActsForItsAccount
  <1> QED BY <1>3, <1>4

LEMMA TokensAfterEnd ==
    ASSUME AccessInv, NEW r \in Request, Ends(r), UNCHANGED <<sessions, issued, renewed>>
    PROVE  TokensInv'
  <1>0. TypeOK /\ TokensInv
    BY DEF AccessInv
  <1>1. /\ request'[r] = Idle
        /\ \A s \in Request \ {r} : request'[s] = request[s]
    BY <1>0, RequestEnds
  <1>2. issued \in Nat
    BY <1>0, BoundAssumption DEF TypeOK
  <1>3. \A s \in Request : request'[s].token <= issued
    BY <1>0, <1>1, <1>2, IdleIs DEF TokensInv
  <1>4. ASSUME NEW s \in Request, request'[s].pc = "commit"
        PROVE  /\ request'[s].token # 0 /\ request'[s].token \notin Ids(sessions) \cup renewed
               /\ \A u \in Request \ {s} : request'[u].token # request'[s].token
    BY <1>0, <1>1, <1>4, IdleIs DEF TokensInv
  <1> QED BY <1>0, <1>3, <1>4 DEF TokensInv, RenewedTokensAreDead

LEMMA PostUserStep ==
    ASSUME AccessInv, NEW r \in Request, PostUser(r) PROVE AccessInv'
  <1>0. TypeOK /\ AccountsOnce /\ SessionsFaithful /\ CopiesFaithful /\ ActsInv /\ SetupInv
    BY DEF AccessInv
  <1>1. /\ server.up /\ request[r].pc = "handle" /\ request[r].doing = "create" /\ Ends(r)
        /\ UNCHANGED <<sessions, server, issued, renewed>>
    BY DEF PostUser, At
  <1>2. PICK isAdmin \in BOOLEAN : InsertUser(isAdmin)
    BY DEF PostUser
  <1>3. /\ NextId \in UserId /\ NextId \notin Ids(users)
        /\ Ids(users') = Ids(users) \cup {NextId}
        /\ \A id \in Ids(users) : users'[id] = users[id]
        /\ users'[NextId].account = accounts + 1 /\ users'[NextId].isAdmin = isAdmin
        /\ users'[NextId] \in [account : Account, isAdmin : BOOLEAN]
        /\ accounts' = accounts + 1 /\ accounts \in Nat
        /\ accounts' \in 0..MaxAccount /\ AccountsOnce'
    BY <1>0, <1>2, UserInserted
  <1>4. /\ request' \in [Request -> RequestState] /\ request'[r] = Idle
        /\ \A s \in Request \ {r} : request'[s] = request[s]
    BY <1>0, <1>1, RequestEnds
  <1>5. /\ \A t \in Ids(sessions) : sessions[t].by \in Nat
        /\ \A s \in Request : request[s].session.by \in Nat
    BY <1>0, SessionsTyped, RequestTyped, BoundAssumption DEF Account
  <1>6. TypeOK'
    BY <1>0, <1>1, <1>3, <1>4 DEF TypeOK
  <1>7. SessionsFaithful'
    BY <1>0, <1>1, <1>3, <1>5 DEF SessionsFaithful
  <1>8. CopiesFaithful'
    <2>1. ASSUME NEW s \in Request \ {r}
          PROVE  /\ request'[s].session.by <= accounts'
                 /\ \A id \in Ids(users') :
                       users'[id].account = request'[s].session.by => id = request'[s].session.user
      BY <1>0, <1>3, <1>4, <1>5 DEF CopiesFaithful
    <2>2. \A id \in Ids(users') : users'[id].account # 0
      BY <1>0, <1>3, UsersTyped, BoundAssumption DEF Account
    <2> QED BY <1>3, <1>4, <2>1, <2>2, IdleIs DEF CopiesFaithful
  <1>9. ActsInv'
    <2>1. ASSUME NEW s \in Request, request'[s].as \notin {0, request'[s].session.by}
          PROVE  \A id \in Ids(users') : users'[id].account # request'[s].session.by
      <3>1. s # r
        BY <1>4, <2>1, IdleIs
      <3>2. /\ \A id \in Ids(users) : users[id].account # request[s].session.by
            /\ request'[s] = request[s] /\ request[s].session.by <= accounts
        BY <1>0, <1>4, <2>1, <3>1 DEF ActsInv, ActsForItsAccount, CopiesFaithful
      <3> QED BY <1>3, <1>5, <3>2
    <2>2. \A s \in Request : request'[s].as # 0 => request'[s].doing \in Guarded
      BY <1>0, <1>4, IdleIs DEF ActsInv
    <2> QED BY <2>1, <2>2 DEF ActsInv, ActsForItsAccount
  <1>10. TokensInv'
    BY <1>1, TokensAfterEnd
  <1>11. SetupInv'
    <2>1. ~server.setupRequired
      BY <1>0, <1>1 DEF SetupInv
    <2>2. Administrators \subseteq Administrators'
      BY <1>3 DEF Administrators
    <2>3. SetupFlagMatchesUsers'
      BY <1>0, <1>1, <2>1, <2>2 DEF SetupInv, SetupFlagMatchesUsers
    <2> QED BY <1>0, <1>1, <1>4, <2>1, <2>3, IdleIs DEF SetupInv
  <1> QED BY <1>3, <1>6, <1>7, <1>8, <1>9, <1>10, <1>11 DEF AccessInv

LEMMA DeleteUserRowStep ==
    ASSUME AccessInv, NEW r \in Request, DeleteUserRow(r) PROVE AccessInv'
  <1>0. /\ TypeOK /\ AccountsOnce /\ SessionsFaithful /\ CopiesFaithful /\ ActsInv /\ SetupInv
    BY DEF AccessInv
  <1> DEFINE id == request[r].target
  <1>1. /\ server.up /\ request[r].pc = "remove" /\ Ends(r) /\ users' = Without(users, id)
        /\ server' = [server EXCEPT !.orphaned = @ \/ Administrators \subseteq {id}]
        /\ UNCHANGED <<sessions, accounts, issued, renewed>>
    BY DEF DeleteUserRow, At
  <1> HIDE DEF id
  <1>2. Ids(users') = Ids(users) \ {id} /\ \A i \in Ids(users') : users'[i] = users[i]
    BY <1>1 DEF Without
  <1>3. /\ request' \in [Request -> RequestState] /\ request'[r] = Idle
        /\ \A s \in Request \ {r} : request'[s] = request[s]
    BY <1>0, <1>1, RequestEnds
  <1>4. /\ server' \in ServerState /\ server'.up /\ server'.setupRequired = server.setupRequired
        /\ server'.cut = server.cut
        /\ server'.orphaned = (server.orphaned \/ Administrators \subseteq {id})
    BY <1>0, <1>1, Zenon DEF TypeOK, ServerState
  <1>5. TypeOK'
    BY <1>0, <1>1, <1>2, <1>3, <1>4 DEF TypeOK
  <1>6. AccountsOnce' /\ SessionsFaithful'
    BY <1>0, <1>1, <1>2 DEF AccountsOnce, SessionsFaithful
  <1>7. CopiesFaithful'
    <2>1. accounts \in Nat /\ \A i \in Ids(users) : users[i].account # 0
      BY <1>0, UsersTyped, BoundAssumption DEF Account, TypeOK
    <2> QED BY <1>0, <1>1, <1>2, <1>3, <2>1, IdleIs DEF CopiesFaithful
  <1>8. ActsInv'
    BY <1>0, <1>2, <1>3, IdleIs DEF ActsInv, ActsForItsAccount
  <1>9. TokensInv'
    BY <1>1, TokensAfterEnd
  <1>10. SetupInv'
    <2>1. ~server.setupRequired
      BY <1>0, <1>1 DEF SetupInv
    <2>2. Administrators' = Administrators \ {id}
      BY <1>2 DEF Administrators
    <2>3. SetupFlagMatchesUsers'
      BY <1>0, <1>1, <1>4, <2>1, <2>2 DEF SetupInv, SetupFlagMatchesUsers
    <2> QED BY <1>0, <1>3, <1>4, <2>1, <2>3, IdleIs DEF SetupInv
  <1> QED BY <1>5, <1>6, <1>7, <1>8, <1>9, <1>10 DEF AccessInv

LEMMA LateErrorStep ==
    ASSUME AccessInv, NEW r \in Request, LateError(r) PROVE AccessInv'
  <1>0. TypeOK /\ AccountsOnce /\ SessionsFaithful /\ SetupInv
    BY DEF AccessInv
  <1> DEFINE late == At(r, "renew") /\ request[r].doing = "setup"
  <1>1. /\ server.up /\ request[r].pc \in {"renew", "commit"} /\ Ends(r)
        /\ server' = [server EXCEPT !.cut = @ \/ late]
        /\ UNCHANGED <<users, sessions, accounts, issued, renewed>>
    BY DEF LateError, At
  <1>2. late <=> request[r].pc = "renew" /\ request[r].doing = "setup"
    BY <1>1 DEF At
  <1> HIDE DEF late
  <1>3. /\ request' \in [Request -> RequestState] /\ request'[r] = Idle
        /\ \A s \in Request \ {r} : request'[s] = request[s]
    BY <1>0, <1>1, RequestEnds
  <1>4. /\ server'.up /\ server'.setupRequired = server.setupRequired
        /\ server'.cut = (server.cut \/ late) /\ server'.orphaned = server.orphaned
    BY <1>0, <1>1 DEF TypeOK, ServerState
  <1>5. server' \in ServerState
    <2>1. late \in BOOLEAN
      BY <1>2
    <2> QED BY <1>0, <1>1, <2>1 DEF TypeOK, ServerState
  <1>6. TypeOK'
    BY <1>0, <1>1, <1>3, <1>5 DEF TypeOK
  <1>7. AccountsOnce' /\ SessionsFaithful'
    BY <1>0, <1>1 DEF AccountsOnce, SessionsFaithful
  <1>8. CopiesFaithful' /\ ActsInv' /\ TokensInv'
    BY <1>1, CopiesAfterEnd, TokensAfterEnd
  <1>9. SetupInv'
    <2>1. Administrators' = Administrators
      BY <1>1 DEF Administrators
    <2>2. SetupFlagMatchesUsers'
      BY <1>0, <1>1, <1>2, <1>3, <1>4, <2>1 DEF SetupInv, SetupFlagMatchesUsers
    <2> QED BY <1>0, <1>3, <1>4, <2>1, <2>2, IdleIs DEF SetupInv
  <1> QED BY <1>6, <1>7, <1>8, <1>9 DEF AccessInv

LEMMA CommitStep ==
    ASSUME AccessInv, NEW r \in Request, Commit(r) PROVE AccessInv'
  <1>0. TypeOK /\ AccountsOnce /\ SessionsFaithful /\ CopiesFaithful /\ TokensInv /\ SetupInv
    BY DEF AccessInv
  <1> DEFINE t == request[r].token
             c == request[r].session
  <1>1. /\ server.up /\ request[r].pc = "commit" /\ Ends(r) /\ sessions' = Committed(t, c)
        /\ UNCHANGED <<users, server, accounts, issued, renewed>>
    BY DEF Commit, At
  <1>2. /\ t \in Token /\ t \notin Ids(sessions) \cup renewed
        /\ \A s \in Request \ {r} : request[s].token # t
        /\ t <= issued /\ c \in SessionData
    BY <1>0, <1>1, RequestTyped DEF TokensInv
  <1>3. /\ Ids(sessions') = Ids(sessions) \cup {t}
        /\ \A u \in Ids(sessions) : sessions'[u] = sessions[u]
        /\ sessions'[t] \in SessionRow /\ sessions'[t].by = c.by /\ sessions'[t].user = c.user
    BY <1>1, <1>2, SessionCommitted
  <1>4. /\ request' \in [Request -> RequestState] /\ request'[r] = Idle
        /\ \A s \in Request \ {r} : request'[s] = request[s]
    BY <1>0, <1>1, RequestEnds
  <1>5. TypeOK'
    BY <1>0, <1>1, <1>2, <1>3, <1>4 DEF TypeOK
  <1>6. AccountsOnce'
    BY <1>0, <1>1 DEF AccountsOnce
  <1>7. SessionsFaithful'
    <2>1. c.by <= accounts /\ \A id \in Ids(users) : users[id].account = c.by => id = c.user
      BY <1>0 DEF CopiesFaithful
    <2>2. \A u \in Ids(sessions) :
              /\ sessions[u].by <= accounts
              /\ \A id \in Ids(users) : users[id].account = sessions[u].by => id = sessions[u].user
      BY <1>0 DEF SessionsFaithful
    <2>3. users' = users /\ accounts' = accounts
      BY <1>1
    <2> QED BY <1>3, <2>1, <2>2, <2>3 DEF SessionsFaithful
  <1>8. CopiesFaithful' /\ ActsInv'
    BY <1>1, CopiesAfterEnd
  <1>9. TokensInv'
    <2>1. issued \in Nat
      BY <1>0, BoundAssumption DEF TypeOK
    <2>2. \A s \in Request : request'[s].token <= issued
      BY <1>0, <1>4, <2>1, IdleIs DEF TokensInv
    <2>3. ASSUME NEW s \in Request, request'[s].pc = "commit"
          PROVE  /\ request'[s].token # 0 /\ request'[s].token \notin Ids(sessions') \cup renewed
                 /\ \A u \in Request \ {s} : request'[u].token # request'[s].token
      <3>1. s # r /\ request[s].pc = "commit"
        BY <1>4, <2>3, IdleIs
      <3> QED BY <1>0, <1>2, <1>3, <1>4, <3>1, IdleIs DEF TokensInv
    <2>4. RenewedTokensAreDead'
      BY <1>0, <1>1, <1>2, <1>3 DEF TokensInv, RenewedTokensAreDead
    <2> QED BY <1>0, <1>1, <1>2, <1>3, <2>2, <2>3, <2>4 DEF TokensInv
  <1>10. SetupInv'
    <2>1. Administrators' = Administrators
      BY <1>1 DEF Administrators
    <2>2. SetupFlagMatchesUsers'
      BY <1>0, <1>1, <1>4, <2>1 DEF SetupInv, SetupFlagMatchesUsers
    <2> QED BY <1>0, <1>1, <1>4, <2>1, <2>2, IdleIs DEF SetupInv
  <1> QED BY <1>5, <1>6, <1>7, <1>8, <1>9, <1>10 DEF AccessInv

-----------------------------------------------------------------------------
(* Setup, and the change of tokens.                                          *)

LEMMA PostSetupStep ==
    ASSUME AccessInv, NEW r \in Request, PostSetup(r) PROVE AccessInv'
  <1>0. /\ TypeOK /\ AccountsOnce /\ SessionsFaithful /\ CopiesFaithful
        /\ ActsInv /\ TokensInv /\ SetupInv
    BY DEF AccessInv
  <1> DEFINE p == request[r]
             c == Session(NextId, accounts + 1)
             q == [p EXCEPT !.pc = "renew", !.session = c]
  <1>1. /\ server.up /\ p.pc = "handle" /\ p.doing = "setup" /\ InsertUser(TRUE)
        /\ request' = [request EXCEPT ![r].pc = "renew", ![r].session = Session(NextId, accounts + 1)]
        /\ UNCHANGED <<sessions, server, issued, renewed>>
    BY DEF PostSetup, At
  <1>2. /\ NextId \in UserId /\ NextId \notin Ids(users)
        /\ Ids(users') = Ids(users) \cup {NextId}
        /\ \A id \in Ids(users) : users'[id] = users[id]
        /\ users'[NextId].account = accounts + 1 /\ users'[NextId].isAdmin = TRUE
        /\ users'[NextId] \in [account : Account, isAdmin : BOOLEAN]
        /\ accounts' = accounts + 1 /\ accounts \in Nat
        /\ accounts' \in 0..MaxAccount /\ accounts + 1 \in Account /\ AccountsOnce'
    BY <1>0, <1>1, UserInserted
  <1>3. p \in RequestState /\ p.as = 0
    BY <1>0, <1>1, RequestTyped DEF ActsInv, Guarded, AdminWork
  <1>4. c \in SessionData /\ c.user = NextId /\ c.by = accounts + 1
    BY <1>2, SessionIs
  <1>5. request' = [request EXCEPT ![r] = q]
    BY <1>0, <1>1, <1>3 DEF TypeOK
  <1> HIDE DEF c
  <1>6. /\ q \in RequestState /\ q.pc = "renew" /\ q.doing = "setup"
        /\ q.token = p.token /\ q.session = c /\ q.as = 0
    BY <1>1, <1>3, <1>4 DEF RequestState
  <1> HIDE DEF q
  <1>7. /\ request' \in [Request -> RequestState] /\ request'[r] = q
        /\ \A s \in Request \ {r} : request'[s] = request[s]
    BY <1>0, <1>5, <1>6, RequestMoves
  <1>8. /\ \A t \in Ids(sessions) : sessions[t].by \in Nat
        /\ \A s \in Request : request[s].session.by \in Nat
        /\ \A id \in Ids(users) : users[id].account \in Nat /\ users[id].account <= accounts
    BY <1>0, SessionsTyped, RequestTyped, UsersTyped, BoundAssumption DEF Account, AccountsOnce
  <1>9. TypeOK'
    BY <1>0, <1>1, <1>2, <1>7 DEF TypeOK
  <1>10. SessionsFaithful'
    BY <1>0, <1>1, <1>2, <1>8 DEF SessionsFaithful
  <1>11. CopiesFaithful'
    <2>1. ASSUME NEW s \in Request \ {r}
          PROVE  /\ request'[s].session.by <= accounts'
                 /\ \A id \in Ids(users') :
                       users'[id].account = request'[s].session.by => id = request'[s].session.user
      BY <1>0, <1>2, <1>7, <1>8 DEF CopiesFaithful
    <2>2. /\ c.by <= accounts'
          /\ \A id \in Ids(users') : users'[id].account = c.by => id = c.user
      BY <1>2, <1>4, <1>8
    <2> QED BY <1>6, <1>7, <2>1, <2>2 DEF CopiesFaithful
  <1>12. ActsInv'
    <2>1. ASSUME NEW s \in Request, request'[s].as \notin {0, request'[s].session.by}
          PROVE  \A id \in Ids(users') : users'[id].account # request'[s].session.by
      <3>1. s # r
        BY <1>6, <1>7, <2>1
      <3>2. /\ \A id \in Ids(users) : users[id].account # request[s].session.by
            /\ request'[s] = request[s] /\ request[s].session.by <= accounts
        BY <1>0, <1>7, <2>1, <3>1 DEF ActsInv, ActsForItsAccount, CopiesFaithful
      <3> QED BY <1>2, <1>8, <3>2
    <2>2. \A s \in Request : request'[s].as # 0 => request'[s].doing \in Guarded
      BY <1>0, <1>6, <1>7 DEF ActsInv
    <2> QED BY <2>1, <2>2 DEF ActsInv, ActsForItsAccount
  <1>13. TokensInv'
    <2>1. \A s \in Request : request'[s].token = request[s].token
      BY <1>6, <1>7
    <2>2. ASSUME NEW s \in Request, request'[s].pc = "commit"
          PROVE  /\ request'[s].token # 0 /\ request'[s].token \notin Ids(sessions) \cup renewed
                 /\ \A u \in Request \ {s} : request'[u].token # request'[s].token
      <3>1. request[s].pc = "commit"
        BY <1>6, <1>7, <2>2
      <3> QED BY <1>0, <2>1, <3>1 DEF TokensInv
    <2> QED BY <1>0, <1>1, <2>1, <2>2 DEF TokensInv, RenewedTokensAreDead
  <1>14. SetupInv'
    <2>1. NextId \in Administrators' /\ Administrators' # {}
      BY <1>2 DEF Administrators
    <2>2. SetupFlagMatchesUsers'
      BY <1>1, <1>6, <1>7, <2>1 DEF SetupFlagMatchesUsers
    <2> QED BY <1>0, <1>1, <1>6, <1>7, <2>1, <2>2 DEF SetupInv
  <1> QED BY <1>2, <1>9, <1>10, <1>11, <1>12, <1>13, <1>14 DEF AccessInv

LEMMA RenewStep ==
    ASSUME AccessInv, NEW r \in Request, Renew(r) PROVE AccessInv'
  <1>0. /\ TypeOK /\ AccountsOnce /\ SessionsFaithful /\ CopiesFaithful
        /\ ActsInv /\ TokensInv /\ SetupInv
    BY DEF AccessInv
  <1> DEFINE p == request[r]
             c == IF p.doing = "logout" THEN Nobody ELSE p.session
             q == [p EXCEPT !.pc = "commit", !.token = issued + 1, !.session = c]
  <1>1. /\ server.up /\ p.pc = "renew" /\ issued < MaxToken /\ issued' = issued + 1
        /\ sessions' = Deleted(p.token) /\ renewed' = renewed \cup ({p.token} \ {0})
        /\ server' = [server EXCEPT !.setupRequired = @ /\ p.doing # "setup"]
        /\ UNCHANGED <<users, accounts>>
    BY DEF Renew, At
  <1>2. /\ p \in RequestState /\ p.token \in Token \cup {0} /\ p.session \in SessionData
    BY <1>0, RequestTyped
  <1>3. issued \in Nat /\ issued + 1 \in Token /\ issued' \in 0..MaxToken
    BY <1>0, <1>1, BoundAssumption DEF TypeOK, Token
  <1>4. request' = [request EXCEPT ![r] = q]
    BY <1>0, <1>2 DEF Renew, TypeOK
  <1>5. /\ c \in SessionData /\ c.by <= accounts
        /\ \A id \in Ids(users) : users[id].account = c.by => id = c.user
        /\ p.as \notin {0, c.by} => \A id \in Ids(users) : users[id].account # c.by
    <2>1. CASE p.doing = "logout"
      <3>1. c = Session(0, 0) /\ accounts \in Nat
        BY <1>0, <2>1, BoundAssumption DEF Nobody, TypeOK
      <3>2. \A id \in Ids(users) : users[id].account # 0
        BY <1>0, UsersTyped, BoundAssumption DEF Account
      <3> QED BY <3>1, <3>2, SessionIs
    <2>2. CASE p.doing # "logout"
      BY <1>0, <1>2, <2>2 DEF CopiesFaithful, ActsInv, ActsForItsAccount
    <2> QED BY <2>1, <2>2
  <1> HIDE DEF c
  <1>6. /\ q \in RequestState /\ q.pc = "commit" /\ q.doing = p.doing
        /\ q.token = issued + 1 /\ q.session = c /\ q.as = p.as
    BY <1>2, <1>3, <1>5 DEF RequestState
  <1> HIDE DEF q
  <1>7. /\ request' \in [Request -> RequestState] /\ request'[r] = q
        /\ \A s \in Request \ {r} : request'[s] = request[s]
    BY <1>0, <1>4, <1>6, RequestMoves
  <1>8. /\ Ids(sessions') = Ids(sessions) \ {p.token}
        /\ \A u \in Ids(sessions') : sessions'[u] = sessions[u]
    BY <1>1, SessionDeleted
  <1>9. /\ server' \in ServerState /\ server'.up
        /\ server'.setupRequired = (server.setupRequired /\ p.doing # "setup")
        /\ server'.cut = server.cut /\ server'.orphaned = server.orphaned
    BY <1>0, <1>1 DEF TypeOK, ServerState
  <1>10. TypeOK'
    <2>1. renewed' \subseteq Token
      BY <1>0, <1>1, <1>2 DEF TypeOK
    <2> QED BY <1>0, <1>1, <1>3, <1>7, <1>8, <1>9, <2>1 DEF TypeOK
  <1>11. AccountsOnce' /\ SessionsFaithful'
    BY <1>0, <1>1, <1>8 DEF AccountsOnce, SessionsFaithful
  <1>12. CopiesFaithful'
    BY <1>0, <1>1, <1>5, <1>6, <1>7 DEF CopiesFaithful
  <1>13. ActsInv'
    BY <1>0, <1>1, <1>5, <1>6, <1>7 DEF ActsInv, ActsForItsAccount
  <1>14. TokensInv'
    <2>1. \A t \in Token \cup {0} : t \in Int
      BY BoundAssumption DEF Token
    <2>2. /\ \A t \in Ids(sessions) \cup renewed : t \in Token /\ t <= issued
          /\ \A s \in Request : request[s].token \in Token \cup {0} /\ request[s].token <= issued
      BY <1>0, RequestTyped DEF TokensInv, TypeOK
    <2>3. /\ \A t \in Ids(sessions') \cup renewed' : t \in Ids(sessions) \cup renewed \cup ({p.token} \ {0})
          /\ \A s \in Request \ {r} : request'[s].token = request[s].token
          /\ request'[r].token = issued + 1
      BY <1>0, <1>1, <1>6, <1>7, <1>8, SessionsTyped, BoundAssumption DEF Token
    <2>4. /\ \A t \in Ids(sessions') \cup renewed' : t <= issued' /\ t # issued + 1
          /\ \A s \in Request \ {r} : request'[s].token <= issued' /\ request'[s].token # issued + 1
      BY <1>1, <1>3, <2>1, <2>2, <2>3
    <2>5. RenewedTokensAreDead'
      BY <1>0, <1>1, <1>8 DEF TokensInv, RenewedTokensAreDead
    <2>6. ASSUME NEW s \in Request \ {r}, request'[s].pc = "commit"
          PROVE  /\ request'[s].token # 0 /\ request'[s].token \notin Ids(sessions') \cup renewed'
                 /\ \A u \in Request \ {s} : request'[u].token # request'[s].token
      <3>1. /\ request[s].token # 0 /\ request[s].token \notin Ids(sessions) \cup renewed
            /\ \A u \in Request \ {s} : request[u].token # request[s].token
        BY <1>0, <1>7, <2>6 DEF TokensInv
      <3>2. p.token # request[s].token
        BY <3>1
      <3> QED BY <1>1, <1>8, <2>3, <2>4, <3>1, <3>2
    <2>7. /\ request'[r].token # 0 /\ request'[r].token \notin Ids(sessions') \cup renewed'
          /\ \A u \in Request \ {r} : request'[u].token # request'[r].token
      BY <1>3, <2>3, <2>4
    <2>8. \A s \in Request : request'[s].token <= issued'
      BY <1>1, <1>3, <2>3, <2>4
    <2> QED BY <2>4, <2>5, <2>6, <2>7, <2>8 DEF TokensInv
  <1>15. SetupInv'
    <2>1. Administrators' = Administrators
      BY <1>1 DEF Administrators
    <2>2. SetupFlagMatchesUsers'
      <3>1. CASE p.doing = "setup"
        BY <1>0, <1>1, <1>9, <2>1, <3>1 DEF SetupInv, SetupFlagMatchesUsers
      <3>2. CASE p.doing # "setup"
        BY <1>0, <1>1, <1>7, <1>9, <2>1, <3>2 DEF SetupInv, SetupFlagMatchesUsers
      <3> QED BY <3>1, <3>2
    <2>3. \A s \in Request : /\ request'[s].pc = "remove" => request'[s].doing = "delete"
                             /\ request'[s].pc = "authenticate" => request'[s].doing = "guarded"
      BY <1>0, <1>6, <1>7 DEF SetupInv
    <2>4. server'.setupRequired =>
              \A s \in Request : request'[s].pc = "idle" \/ request'[s].doing = "setup"
      BY <1>0, <1>1, <1>6, <1>7, <1>9 DEF SetupInv
    <2>5. server'.setupRequired /\ Administrators' = {} =>
              \A s \in Request : ~(request'[s].pc = "renew" /\ request'[s].doing = "setup")
      BY <1>0, <1>6, <1>7, <1>9, <2>1 DEF SetupInv
    <2> QED BY <1>9, <2>2, <2>3, <2>4, <2>5 DEF SetupInv
  <1> QED BY <1>10, <1>11, <1>12, <1>13, <1>14, <1>15 DEF AccessInv

-----------------------------------------------------------------------------
(* The session store and the process.                                        *)

\* Rows that change nothing but their expiry, or go.
LEMMA SessionsAge ==
    ASSUME AccessInv, UNCHANGED <<users, server, request, accounts, issued, renewed>>,
           Ids(sessions') \subseteq Ids(sessions),
           \A t \in Ids(sessions') : /\ sessions'[t] \in SessionRow
                                     /\ sessions'[t].user = sessions[t].user
                                     /\ sessions'[t].by = sessions[t].by
    PROVE  AccessInv'
  <1>0. /\ TypeOK /\ AccountsOnce /\ SessionsFaithful /\ CopiesFaithful
        /\ ActsInv /\ TokensInv /\ SetupInv
    BY DEF AccessInv
  <1>1. TypeOK'
    BY <1>0 DEF TypeOK
  <1>2. AccountsOnce' /\ SessionsFaithful' /\ CopiesFaithful'
    BY <1>0 DEF AccountsOnce, SessionsFaithful, CopiesFaithful
  <1>3. ActsInv'
    BY <1>0 DEF ActsInv, ActsForItsAccount
  <1>4. TokensInv'
    BY <1>0 DEF TokensInv, RenewedTokensAreDead
  <1>5. SetupInv'
    BY <1>0 DEF SetupInv, SetupFlagMatchesUsers, Administrators
  <1> QED BY <1>1, <1>2, <1>3, <1>4, <1>5 DEF AccessInv

LEMMA ExpireStep ==
    ASSUME AccessInv, NEW t \in Token, Expire(t) PROVE AccessInv'
  <1>0. TypeOK
    BY DEF AccessInv
  <1>1. /\ t \in Ids(sessions) /\ sessions' = [sessions EXCEPT ![t].live = FALSE]
        /\ UNCHANGED <<users, server, request, accounts, issued, renewed>>
    BY DEF Expire, Live
  <1>2. \A u \in Ids(sessions) : sessions[u] \in SessionRow
    BY <1>0, SessionsTyped
  <1>3. /\ Ids(sessions') = Ids(sessions) /\ sessions'[t] = [sessions[t] EXCEPT !.live = FALSE]
        /\ \A u \in Ids(sessions) \ {t} : sessions'[u] = sessions[u]
    BY <1>1
  <1>4. /\ sessions'[t] \in SessionRow /\ sessions'[t].user = sessions[t].user
        /\ sessions'[t].by = sessions[t].by
    BY <1>1, <1>2, <1>3 DEF SessionRow
  <1> QED BY <1>1, <1>2, <1>3, <1>4, SessionsAge

LEMMA DeleteExpiredStep ==
    ASSUME AccessInv, DeleteExpired PROVE AccessInv'
  <1>0. TypeOK
    BY DEF AccessInv
  <1>1. /\ Ids(sessions') = Kept /\ Kept \subseteq Ids(sessions)
        /\ \A u \in Kept : sessions'[u] = sessions[u]
        /\ UNCHANGED <<users, server, request, accounts, issued, renewed>>
    BY DEF DeleteExpired, Kept
  <1>2. \A u \in Ids(sessions) : sessions[u] \in SessionRow
    BY <1>0, SessionsTyped
  <1> QED BY <1>1, <1>2, SessionsAge

LEMMA RunServerStep ==
    ASSUME AccessInv, RunServer PROVE AccessInv'
  <1>0. /\ TypeOK /\ AccountsOnce /\ SessionsFaithful /\ CopiesFaithful
        /\ ActsInv /\ TokensInv /\ SetupInv
    BY DEF AccessInv
  <1>1. /\ ~server.up /\ server' = [Down EXCEPT !.up = TRUE, !.setupRequired = InitialSetupNeeded]
        /\ UNCHANGED <<users, sessions, request, accounts, issued, renewed>>
    BY DEF RunServer
  <1>2. /\ server' \in ServerState /\ server'.up
        /\ server'.setupRequired = (Administrators = {})
    BY <1>1 DEF Down, ServerState, InitialSetupNeeded
  <1>3. Administrators' = Administrators /\ \A r \in Request : request[r].pc = "idle"
    BY <1>0, <1>1 DEF Administrators, SetupInv
  <1>4. TypeOK'
    BY <1>0, <1>1, <1>2 DEF TypeOK
  <1>5. AccountsOnce' /\ SessionsFaithful' /\ CopiesFaithful'
    BY <1>0, <1>1 DEF AccountsOnce, SessionsFaithful, CopiesFaithful
  <1>6. ActsInv' /\ TokensInv'
    BY <1>0, <1>1 DEF ActsInv, ActsForItsAccount, TokensInv, RenewedTokensAreDead
  <1>7. SetupInv'
    BY <1>1, <1>2, <1>3 DEF SetupInv, SetupFlagMatchesUsers
  <1> QED BY <1>4, <1>5, <1>6, <1>7 DEF AccessInv

LEMMA CrashStep ==
    ASSUME AccessInv, Crash PROVE AccessInv'
  <1>0. /\ TypeOK /\ AccountsOnce /\ SessionsFaithful /\ CopiesFaithful
        /\ ActsInv /\ TokensInv /\ SetupInv
    BY DEF AccessInv
  <1>1. /\ server' = Down /\ request' = [r \in Request |-> Idle]
        /\ UNCHANGED <<users, sessions, accounts, issued, renewed>>
    BY DEF Crash
  <1>2. server' \in ServerState /\ ~server'.up /\ ~server'.setupRequired
    BY <1>1 DEF Down, ServerState
  <1>3. request' \in [Request -> RequestState] /\ \A r \in Request : request'[r] = Idle
    BY <1>1, IdleIs
  <1>4. accounts \in Nat /\ issued \in Nat /\ \A id \in Ids(users) : users[id].account # 0
    BY <1>0, UsersTyped, BoundAssumption DEF Account, TypeOK
  <1>5. TypeOK'
    BY <1>0, <1>1, <1>2, <1>3 DEF TypeOK
  <1>6. AccountsOnce' /\ SessionsFaithful'
    BY <1>0, <1>1 DEF AccountsOnce, SessionsFaithful
  <1>7. CopiesFaithful' /\ ActsInv'
    BY <1>1, <1>3, <1>4, IdleIs DEF CopiesFaithful, ActsInv, ActsForItsAccount
  <1>8. TokensInv'
    BY <1>0, <1>1, <1>3, <1>4, IdleIs DEF TokensInv, RenewedTokensAreDead
  <1>9. SetupInv'
    BY <1>2, <1>3, IdleIs DEF SetupInv, SetupFlagMatchesUsers
  <1> QED BY <1>5, <1>6, <1>7, <1>8, <1>9 DEF AccessInv

-----------------------------------------------------------------------------
(* The targets of deletions.                                                 *)

\* The id of a target is that of the account that was found, if it still exists.
TargetsFaithful ==
    \A r \in Request :
        /\ request[r].found <= accounts
        /\ \A id \in Ids(users) : users[id].account = request[r].found => id = request[r].target

\* A step leaves a target alone, forgets it, or has looked it up.
TargetMoves(r) ==
    \/ request'[r].target = request[r].target /\ request'[r].found = request[r].found
    \/ request'[r].found = 0
    \/ /\ UNCHANGED users
       /\ \E id \in Ids(users) :
             request'[r].target = id /\ request'[r].found = users[id].account

LEMMA HandleMovesTarget ==
    ASSUME TypeOK, NEW r \in Request, Handle(r) PROVE \A s \in Request : TargetMoves(s)
  <1>1. CASE Ends(r)
    BY <1>1, RequestEnds, IdleIs DEF TargetMoves
  <1>2. CASE DeleteUserFinds(r)
    <2>1. PICK id \in Ids(users) : request' =
              [request EXCEPT ![r].pc = "remove", ![r].target = id, ![r].found = users[id].account]
      BY <1>2 DEF DeleteUserFinds
    <2>2. request \in [Request -> RequestState]
      BY DEF TypeOK
    <2>3. /\ request'[r].target = id /\ request'[r].found = users[id].account
          /\ \A s \in Request \ {r} : request'[s] = request[s]
      BY <2>1, <2>2 DEF RequestState
    <2> QED BY <1>2, <2>3 DEF DeleteUserFinds, TargetMoves
  <1>3. CASE \E route \in Route : Arrive(r, route)
    <2>1. PICK route \in Route, t \in {0} \cup {u \in Ids(sessions) : Live(u)} :
              request' = [request EXCEPT ![r] =
                  [Idle EXCEPT !.pc = IF route = "guarded" THEN "authenticate" ELSE "handle",
                               !.doing = route, !.token = t,
                               !.session = IF t = 0 THEN Nobody
                                           ELSE Session(sessions[t].user, sessions[t].by)]]
      BY <1>3 DEF Arrive
    <2>2. request \in [Request -> RequestState]
      BY DEF TypeOK
    <2>3. /\ request'[r].found = 0
          /\ \A s \in Request \ {r} : request'[s] = request[s]
      BY <2>1, <2>2, IdleIs DEF RequestState
    <2> QED BY <2>3 DEF TargetMoves
  <1>4. ASSUME NEW q, request' = [request EXCEPT ![r] = q],
               q.target = request[r].target, q.found = request[r].found
        PROVE  \A s \in Request : TargetMoves(s)
    BY <1>4 DEF TargetMoves, TypeOK
  <1>5. request[r] \in RequestState
    BY DEF TypeOK
  <1>6. CASE \E doing \in Guarded : Authenticate(r, doing)
    <2>1. PICK doing \in Guarded : Authenticate(r, doing)
      BY <1>6
    <2> DEFINE as == users[request[r].session.user].account
               q == [request[r] EXCEPT !.as = as, !.doing = doing,
                        !.token = IF doing = "logout" THEN @ ELSE 0,
                        !.pc = IF doing = "logout" THEN "renew" ELSE "handle"]
    <2>2. request' = [request EXCEPT ![r] = q]
      BY <1>5, <2>1 DEF Authenticate, TypeOK
    <2>3. q.target = request[r].target /\ q.found = request[r].found
      BY <1>5 DEF RequestState
    <2> QED BY <1>4, <2>2, <2>3
  <1>7. CASE PostUserLogin(r) \/ PostSetup(r)
    <2>1. PICK c : request' = [request EXCEPT ![r].pc = "renew", ![r].session = c]
      BY <1>7 DEF PostUserLogin, PostSetup
    <2> DEFINE q == [request[r] EXCEPT !.pc = "renew", !.session = c]
    <2>2. request' = [request EXCEPT ![r] = q]
      BY <1>5, <2>1 DEF TypeOK
    <2>3. q.target = request[r].target /\ q.found = request[r].found
      BY <1>5 DEF RequestState
    <2> QED BY <1>4, <2>2, <2>3
  <1>8. CASE Renew(r)
    <2> DEFINE q == [request[r] EXCEPT !.pc = "commit", !.token = issued + 1,
                        !.session = IF request[r].doing = "logout" THEN Nobody ELSE @]
    <2>1. request' = [request EXCEPT ![r] = q]
      BY <1>5, <1>8 DEF Renew, TypeOK
    <2>2. q.target = request[r].target /\ q.found = request[r].found
      BY <1>5 DEF RequestState
    <2> QED BY <1>4, <2>1, <2>2
  <1> QED BY <1>1, <1>2, <1>3, <1>6, <1>7, <1>8 DEF Handle, HandlerEnds, PostUser, DeleteUserRow, Commit, LateError

LEMMA NextMovesTargets ==
    ASSUME TypeOK, Next PROVE \A s \in Request : TargetMoves(s)
  <1>1. CASE \E r \in Request : Handle(r)
    BY <1>1, HandleMovesTarget
  <1>2. CASE UNCHANGED request
    BY <1>2 DEF TargetMoves
  <1>3. CASE Crash
    BY <1>3, IdleIs DEF Crash, TargetMoves
  <1> QED BY <1>1, <1>2, <1>3 DEF Next, Expire, DeleteExpired, RunServer

\* A row is new, with an account of its own, or was there before.
LEMMA NextMovesUsers ==
    ASSUME AccessInv, Next
    PROVE  /\ accounts' \in Nat /\ accounts <= accounts'
           /\ \A id \in Ids(users') :
                 \/ users'[id].account = accounts + 1
                 \/ id \in Ids(users) /\ users'[id] = users[id]
  <1>0. TypeOK /\ AccountsOnce /\ accounts \in Nat
    BY BoundAssumption DEF AccessInv, TypeOK
  <1>1. ASSUME NEW isAdmin \in BOOLEAN, InsertUser(isAdmin)
        PROVE  /\ accounts' \in Nat /\ accounts <= accounts'
               /\ \A id \in Ids(users') :
                     \/ users'[id].account = accounts + 1
                     \/ id \in Ids(users) /\ users'[id] = users[id]
    BY <1>0, <1>1, UserInserted
  <1>2. ASSUME NEW id, users' = Without(users, id)
        PROVE  \A i \in Ids(users') : i \in Ids(users) /\ users'[i] = users[i]
    BY <1>2 DEF Without
  <1>3. CASE \E r \in Request : PostUser(r) \/ PostSetup(r)
    BY <1>1, <1>3 DEF PostUser, PostSetup
  <1>4. CASE \E r \in Request : DeleteUserRow(r)
    BY <1>0, <1>2, <1>4 DEF DeleteUserRow
  <1>5. CASE UNCHANGED <<users, accounts>>
    BY <1>0, <1>5
  <1>6. ASSUME NEW r \in Request, Handle(r)
        PROVE  PostUser(r) \/ PostSetup(r) \/ DeleteUserRow(r) \/ UNCHANGED <<users, accounts>>
    BY <1>6 DEF Handle, Arrive, Authenticate, HandlerEnds, DeleteUserFinds, PostUserLogin,
       Renew, Commit, LateError
  <1> QED BY <1>3, <1>4, <1>5, <1>6 DEF Next, Expire, DeleteExpired, RunServer, Crash

LEMMA TargetsStep == AccessInv /\ TargetsFaithful /\ [Next]_vars => TargetsFaithful'
  <1> SUFFICES ASSUME AccessInv, TargetsFaithful, [Next]_vars PROVE TargetsFaithful'
    OBVIOUS
  <1>0. TypeOK /\ AccountsOnce
    BY DEF AccessInv
  <1>1. CASE Next
    <2> SUFFICES ASSUME NEW r \in Request
                 PROVE  /\ request'[r].found <= accounts'
                        /\ \A id \in Ids(users') :
                              users'[id].account = request'[r].found => id = request'[r].target
      BY DEF TargetsFaithful
    <2>1. /\ accounts' \in Nat /\ accounts \in Nat /\ accounts <= accounts'
          /\ \A id \in Ids(users') :
                \/ users'[id].account = accounts + 1
                \/ id \in Ids(users) /\ users'[id] = users[id]
      BY <1>0, <1>1, NextMovesUsers, BoundAssumption DEF TypeOK
    <2>2. /\ request[r].found \in Nat /\ request[r].found <= accounts
          /\ \A id \in Ids(users) : users[id].account = request[r].found => id = request[r].target
      BY <1>0, RequestTyped, BoundAssumption DEF TargetsFaithful, Account
    <2>3. \A id \in Ids(users) : /\ users[id].account \in Nat \ {0}
                                 /\ users[id].account <= accounts
      BY <1>0, UsersTyped, BoundAssumption DEF Account, AccountsOnce
    <2>4. TargetMoves(r)
      BY <1>0, <1>1, NextMovesTargets
    <2>5. CASE request'[r].target = request[r].target /\ request'[r].found = request[r].found
      BY <2>1, <2>2, <2>5
    <2>6. CASE request'[r].found = 0
      BY <2>1, <2>3, <2>6
    <2>7. CASE UNCHANGED users /\ \E id \in Ids(users) :
                  request'[r].target = id /\ request'[r].found = users[id].account
      BY <1>0, <2>1, <2>3, <2>7 DEF AccountsOnce
    <2> QED BY <2>4, <2>5, <2>6, <2>7 DEF TargetMoves
  <1>2. CASE UNCHANGED vars
    BY <1>2 DEF vars, TargetsFaithful
  <1> QED BY <1>1, <1>2

LEMMA TargetsInit == Init => TargetsFaithful
  BY IdleIs DEF Init, None, TargetsFaithful

-----------------------------------------------------------------------------
(* The theorems.                                                             *)

LEMMA InitInv == Init => AccessInv
  <1> SUFFICES ASSUME Init PROVE AccessInv
    OBVIOUS
  <1>1. /\ Ids(users) = {} /\ Ids(sessions) = {}
        /\ server = Down /\ request \in [Request -> RequestState]
        /\ \A r \in Request : request[r] = Idle
        /\ accounts = 0 /\ issued = 0 /\ renewed = {}
    BY IdleIs DEF Init, None
  <1>2. server \in ServerState /\ ~server.up /\ ~server.setupRequired
    BY <1>1 DEF Down, ServerState
  <1>3. TypeOK
    BY <1>1, <1>2, BoundAssumption DEF TypeOK
  <1>4. AccountsOnce /\ SessionsFaithful /\ CopiesFaithful /\ ActsInv /\ TokensInv
    BY <1>1, IdleIs DEF AccountsOnce, SessionsFaithful, CopiesFaithful, ActsInv,
       ActsForItsAccount, TokensInv, RenewedTokensAreDead
  <1>5. SetupInv
    BY <1>1, <1>2, IdleIs DEF SetupInv, SetupFlagMatchesUsers
  <1> QED BY <1>3, <1>4, <1>5 DEF AccessInv

LEMMA NextInv == AccessInv /\ [Next]_vars => AccessInv'
  <1> SUFFICES ASSUME AccessInv, [Next]_vars PROVE AccessInv'
    OBVIOUS
  <1>1. ASSUME NEW r \in Request, Handle(r) PROVE AccessInv'
    <2>1. CASE \E route \in Route : Arrive(r, route)
      BY <2>1, ArriveStep
    <2>2. CASE \E doing \in Guarded : Authenticate(r, doing)
      BY <2>2, AuthenticateStep
    <2>3. CASE HandlerEnds(r)
      BY <2>3, HandlerEndsStep
    <2>4. CASE PostUser(r) \/ DeleteUserFinds(r) \/ DeleteUserRow(r)
      BY <2>4, PostUserStep, DeleteUserFindsStep, DeleteUserRowStep
    <2>5. CASE PostUserLogin(r) \/ PostSetup(r)
      BY <2>5, PostUserLoginStep, PostSetupStep
    <2>6. CASE Renew(r) \/ Commit(r) \/ LateError(r)
      BY <2>6, RenewStep, CommitStep, LateErrorStep
    <2> QED BY <1>1, <2>1, <2>2, <2>3, <2>4, <2>5, <2>6 DEF Handle
  <1>2. CASE \E t \in Token : Expire(t)
    BY <1>2, ExpireStep
  <1>3. CASE DeleteExpired \/ RunServer \/ Crash
    BY <1>3, DeleteExpiredStep, RunServerStep, CrashStep
  <1>4. CASE UNCHANGED vars
    BY <1>4 DEF vars, AccessInv, TypeOK, AccountsOnce, SessionsFaithful, CopiesFaithful,
       ActsInv, ActsForItsAccount, TokensInv, RenewedTokensAreDead, SetupInv,
       SetupFlagMatchesUsers, Administrators
  <1> QED BY <1>1, <1>2, <1>3, <1>4 DEF Next

\* The invariant of users, sessions, requests and the flag.
THEOREM AccessCorrect == Spec => []AccessInv
  <1> QED BY InitInv, NextInv, PTL DEF Spec

\* Every variable keeps its type.
THEOREM TypeCorrect == Spec => []TypeOK
  <1>1. AccessInv => TypeOK
    BY DEF AccessInv
  <1> QED BY <1>1, AccessCorrect, PTL

\* Authenticate: whatever users come and go, a request acts for the account that
\* logged in, as long as that account exists.
THEOREM ActsForItsAccountCorrect == Spec => []ActsForItsAccount
  <1>1. AccessInv => ActsForItsAccount
    BY DEF AccessInv, ActsInv
  <1> QED BY <1>1, AccessCorrect, PTL

\* DeleteUser: whoever else deletes and creates users meanwhile, a deletion takes the
\* user it was decided for, as long as that user exists.
THEOREM DeletionsHitTheirUserCorrect == Spec => DeletionsHitTheirUser
  <1> DEFINE Hit == \A id \in Ids(users) :
                        id \notin Ids(users)' =>
                            \E r \in Request :
                                /\ request[r].pc = "remove" /\ request[r].target = id
                                /\ \A i \in Ids(users) :
                                      users[i].account = request[r].found => i = id
  <1>1. ASSUME AccessInv, TargetsFaithful, Next PROVE Hit
    <2>0. TypeOK /\ AccountsOnce
      BY <1>1 DEF AccessInv
    <2>1. ASSUME NEW r \in Request, DeleteUserRow(r) PROVE Hit
      <3>1. users' = Without(users, request[r].target) /\ request[r].pc = "remove"
        BY <2>1 DEF DeleteUserRow, At
      <3>2. Ids(users)' = Ids(users) \ {request[r].target}
        BY <3>1 DEF Without
      <3> QED BY <1>1, <3>1, <3>2 DEF TargetsFaithful
    <2>2. CASE UNCHANGED users
      BY <2>2
    <2>3. ASSUME NEW isAdmin \in BOOLEAN, InsertUser(isAdmin) PROVE Hit
      <3>1. Ids(users)' = Ids(users) \cup {NextId}
        BY <2>0, <2>3, UserInserted
      <3> QED BY <3>1
    <2>4. ASSUME NEW r \in Request, Handle(r) PROVE Hit
      <3>1. \/ DeleteUserRow(r) \/ UNCHANGED users
            \/ \E isAdmin \in BOOLEAN : InsertUser(isAdmin)
        BY <2>4 DEF Handle, Arrive, Authenticate, HandlerEnds, PostUser, DeleteUserFinds,
           PostUserLogin, PostSetup, Renew, Commit, LateError
      <3> QED BY <2>1, <2>2, <2>3, <3>1
    <2> QED
      BY <1>1, <2>2, <2>4 DEF Next, Expire, DeleteExpired, RunServer, Crash
  <1>2. AccessInv /\ TargetsFaithful /\ [Next]_vars => [Hit]_vars
    BY <1>1
  <1>3. Spec => []TargetsFaithful
    BY TargetsInit, TargetsStep, AccessCorrect, PTL DEF Spec
  <1> QED BY <1>2, <1>3, AccessCorrect, PTL DEF Spec, DeletionsHitTheirUser

\* RenewToken: a session that was renewed is never written again.
THEOREM RenewedTokensAreDeadCorrect == Spec => []RenewedTokensAreDead
  <1>1. AccessInv => RenewedTokensAreDead
    BY DEF AccessInv, TokensInv
  <1> QED BY <1>1, AccessCorrect, PTL

\* setupRequired says whether there is an administrator, but for setups that are not
\* through or were cut, and for administrators who delete the last of them.
THEOREM SetupFlagMatchesUsersCorrect == Spec => []SetupFlagMatchesUsers
  <1>1. AccessInv => SetupFlagMatchesUsers
    BY DEF AccessInv, SetupInv
  <1> QED BY <1>1, AccessCorrect, PTL

\* A live session goes only when a request that carries it logs in or out.
THEOREM LiveSessionsEndOnlyByTheirOwnCorrect == Spec => LiveSessionsEndOnlyByTheirOwn
  <1> DEFINE Own == \A t \in Ids(sessions) :
                        Live(t) /\ t \notin Ids(sessions)' =>
                            \E r \in Request : request[r].pc = "renew" /\ request[r].token = t
  <1>1. ASSUME TypeOK, Next PROVE Own
    <2>1. ASSUME NEW r \in Request, Handle(r) PROVE Own
      <3>1. CASE Renew(r)
        BY <3>1, SessionDeleted DEF Renew, At
      <3>2. CASE Commit(r)
        <4>1. Ids(sessions)' = Ids(sessions) \cup {request[r].token}
          BY <3>2 DEF Commit, Committed, With
        <4> QED BY <4>1
      <3>3. CASE UNCHANGED sessions
        BY <3>3
      <3> QED
        BY <2>1, <3>1, <3>2, <3>3 DEF Handle, Arrive, Authenticate, HandlerEnds, PostUser,
           DeleteUserFinds, DeleteUserRow, PostUserLogin, PostSetup, LateError
    <2>2. ASSUME NEW t \in Token, Expire(t) PROVE Own
      BY <2>2 DEF Expire
    <2>3. CASE DeleteExpired
      <3>1. Ids(sessions)' = Kept
        BY <2>3 DEF DeleteExpired
      <3> QED BY <3>1 DEF Kept, Live
    <2>4. CASE RunServer \/ Crash
      BY <2>4 DEF RunServer, Crash
    <2> QED BY <1>1, <2>1, <2>2, <2>3, <2>4 DEF Next
  <1>2. TypeOK /\ [Next]_vars => [Own]_vars
    BY <1>1
  <1> QED BY <1>2, TypeCorrect, PTL DEF Spec, LiveSessionsEndOnlyByTheirOwn
=============================================================================
