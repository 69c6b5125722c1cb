----------------------------- MODULE SessionStore -----------------------------
(* What the session endpoints promise together, with no requests, statements  *)
(* or clocks of their own: a session is issued once, to one user; while it is *)
(* live its deadline is moved, never beyond Ttl from now; once revoked it     *)
(* stays revoked.                                                             *)
EXTENDS Integers

CONSTANTS
    Tokens, Users,
    Ttl,
    None,      \* never issued
    Revoked    \* in place of the deadline of a revoked session

VARIABLES now, store

storeVars == <<now, store>>

Deadlines(t) == {d \in Int : d <= t + Ttl}

StoreTypeOK ==
    /\ now \in Nat
    /\ store \in [Tokens -> {None} \union [owner : Users, deadline : Int \union {Revoked}]]

StoreInit ==
    /\ now = 0
    /\ StoreTypeOK
    /\ \A t \in Tokens : store[t] # None => store[t].deadline \in Deadlines(0)

IssueSession(t) ==
    /\ store[t] = None
    /\ store[t]' # None
    /\ store[t]'.deadline \in Deadlines(now)

ExtendSession(t) ==
    /\ store[t] # None /\ store[t].deadline # Revoked
    /\ store[t]' # None
    /\ store[t]'.owner = store[t].owner
    /\ store[t]'.deadline \in Deadlines(now)

Revoke(t) ==
    /\ store[t] # None
    /\ store[t]' # None
    /\ store[t]'.owner = store[t].owner
    /\ store[t]'.deadline = Revoked

(* One session changes at a time.                                             *)
StoreNext ==
    /\ StoreTypeOK'
    /\ \/ now' = now + 1 /\ UNCHANGED store
       \/ /\ UNCHANGED now
          /\ \E t \in Tokens :
               /\ IssueSession(t) \/ ExtendSession(t) \/ Revoke(t)
               /\ \A o \in Tokens \ {t} : store[o]' = store[o]

StoreSpec == StoreInit /\ [][StoreNext]_storeVars
=============================================================================
