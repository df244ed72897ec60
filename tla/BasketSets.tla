----------------------------- MODULE BasketSets -----------------------------
(***************************************************************************)
(* What the baskets of a cache promise the code that holds their locks: a  *)
(* basket is a set of nodes with different keys.  OnCacheMLRU is written   *)
(* in these terms; HashBasket is the code that implements them.            *)
(***************************************************************************)
EXTENDS Naturals, FiniteSets

CONSTANTS Node, Key, NoKey, Capacity, Hash

Basket == 0 .. Capacity - 1

BasketId(k) == Hash[k] % Capacity

VARIABLES linked,              \* per basket: the nodes in it
          key                  \* per node: its key, NoKey if it is empty

vars == <<linked, key>>

Init == /\ linked = [b \in Basket |-> {}]
        /\ key = [n \in Node |-> NoKey]

\* An empty node is given a key that no linked node has.
Link(n, k) ==
    /\ key[n] = NoKey
    /\ \A m \in Node : key[m] # k
    /\ key' = [key EXCEPT ![n] = k]
    /\ linked' = [linked EXCEPT ![BasketId(k)] = @ \cup {n}]

\* A node with a key is emptied.
Unlink(n) ==
    /\ key[n] # NoKey
    /\ key' = [key EXCEPT ![n] = NoKey]
    /\ linked' = [linked EXCEPT ![BasketId(key[n])] = @ \ {n}]

Next == \E n \in Node : Unlink(n) \/ \E k \in Key : Link(n, k)

Spec == Init /\ [][Next]_vars
=============================================================================
