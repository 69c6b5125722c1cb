---------------------------- MODULE ConnectionPool ----------------------------
(* What the connection pool promises: a connection has one owner at a time,   *)
(* who has no other, and the pool closes when all are back or the process     *)
(* dies.  Nobody who waits for a connection holds one.                        *)
CONSTANTS Users, Connections, Nobody

VARIABLES open, owner

poolVars == <<open, owner>>

AllBack == [c \in Connections |-> Nobody]

PoolInit == open = FALSE /\ owner = AllBack

Open == ~open /\ open' = TRUE /\ UNCHANGED owner

Take(u, c) ==
    /\ open /\ owner[c] = Nobody
    /\ \A d \in Connections : owner[d] # u
    /\ owner' = [owner EXCEPT ![c] = u]
    /\ UNCHANGED open

Give(c) ==
    /\ owner[c] # Nobody
    /\ owner' = [owner EXCEPT ![c] = Nobody]
    /\ UNCHANGED open

Close == open /\ owner = AllBack /\ open' = FALSE /\ UNCHANGED owner

Lose == open /\ open' = FALSE /\ owner' = AllBack

PoolNext ==
    \/ Open \/ Close \/ Lose
    \/ \E u \in Users, c \in Connections : Take(u, c)
    \/ \E c \in Connections : Give(c)

PoolSpec == PoolInit /\ [][PoolNext]_poolVars
=============================================================================
