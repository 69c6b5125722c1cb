----------------------------- MODULE SpaceRegistry ----------------------------
(* What POST /spaces promises: a space comes into being together with its     *)
(* only owner, in one step, and stays.                                        *)
CONSTANTS Spaces, Users

VARIABLE registry   \* of each space: whether it exists, and its owners

Nothing == [exists |-> FALSE, owners |-> {}]

RegistryInit == registry = [s \in Spaces |-> Nothing]

Create(s, u) ==
    /\ registry[s] = Nothing
    /\ registry' = [registry EXCEPT ![s] = [exists |-> TRUE, owners |-> {u}]]

RegistryNext == \E s \in Spaces, u \in Users : Create(s, u)

RegistrySpec == RegistryInit /\ [][RegistryNext]_registry
=============================================================================
