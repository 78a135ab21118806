----------------------------- MODULE PoolLease -----------------------------
(***************************************************************************)
(* What a request handler may rely on when GetNotesStore has given it a    *)
(* pool of connections: the user has at most one live pool, no two users   *)
(* share one, and the pool stays live as long as it was handed out within  *)
(* the last TTL ticks, nobody asked for its removal and the server is not  *)
(* being stopped.  How the manager achieves that is not said.              *)
(***************************************************************************)
EXTENDS Integers

CONSTANTS User, Conn, NoConn, TTL

VARIABLES
    live,     \* the live pool of a user
    idle,     \* ticks since it was last handed out, up to TTL + 1
    asked,    \* users for which a removal is under way
    stopping  \* is Stop closing everything?

lease == <<live, idle, asked, stopping>>

LInit ==
    /\ live = [u \in User |-> NoConn]
    /\ idle = [u \in User |-> 0]
    /\ asked = {}
    /\ stopping = FALSE

\* Removals are requested and answered at any time; a stop is never undone.
Environment == asked' \subseteq User /\ (stopping => stopping')

Acquire(u, c) ==
    /\ live[u] = NoConn
    /\ \A v \in User : live[v] # c
    /\ live' = [live EXCEPT ![u] = c]
    /\ idle' = [idle EXCEPT ![u] = 0]

Renew(u) ==
    /\ live[u] # NoConn
    /\ idle' = [idle EXCEPT ![u] = 0]
    /\ UNCHANGED live

Release(u) ==
    /\ live[u] # NoConn
    /\ idle[u] > TTL \/ u \in asked \/ stopping
    /\ live' = [live EXCEPT ![u] = NoConn]
    /\ idle' = [idle EXCEPT ![u] = 0]

Pass ==
    /\ idle' = [u \in User |-> IF live[u] = NoConn \/ idle[u] > TTL THEN idle[u] ELSE idle[u] + 1]
    /\ UNCHANGED live

LNext ==
    /\ Environment
    /\ \/ \E u \in User : Renew(u) \/ Release(u) \/ \E c \in Conn : Acquire(u, c)
       \/ Pass
       \/ UNCHANGED <<live, idle>>

LSpec == LInit /\ [][LNext]_lease
=============================================================================
