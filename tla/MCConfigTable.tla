---------------------------- MODULE MCConfigTable ----------------------------
(* The instances of ConfigTable that TLC checks. *)
EXTENDS ConfigTable, TLC

CONSTANTS ks, kd, l1, l2, c1, c2

MCDirect(k)  == [kind |-> "direct", key |-> k, list |-> None, cooldown |-> None]
MCRouter(l)  == [kind |-> "router", key |-> None, list |-> l, cooldown |-> None]
MCPool(l, c) == [kind |-> "pool", key |-> None, list |-> l, cooldown |-> c]

MCKeys == {ks, kd}
MCStatics == {None, MCDirect(ks), MCRouter(l1), MCPool(l1, c2)}

MCBodies(lists, endpoints, keys, cooldowns) ==
    [members : lists, routes : lists, endpoints : endpoints, key : keys, cooldown : cooldowns]

\* Every body one admin can send.
MCAllPayloads ==
    MCBodies({None, EmptyList, l2}, BOOLEAN, {None, NoKey, kd}, {None, c1})

\* One body per intention: keep, become Direct with or without a key, Router, Pool.
MCPayloads ==
    MCBodies({None}, {TRUE}, {None, kd}, {None})
        \cup MCBodies({EmptyList}, {TRUE}, {None}, {None})
        \cup {p \in MCBodies({None, l2}, {TRUE}, {None}, {None}) :
                 Explicit(p.members) # Explicit(p.routes)}

MCAllModes == DecisionModes

MCSymmetry == Permutations(Admins)
=============================================================================
