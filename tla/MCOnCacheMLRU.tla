--------------------------- MODULE MCOnCacheMLRU ---------------------------
(***************************************************************************)
(* OnCacheMLRU for TLC: k1 and k2 share a basket with different hashes.    *)
(***************************************************************************)
EXTENDS OnCacheMLRU, TLC

CONSTANTS k1, k2, k3

MCHash == [k \in Key |-> CASE k = k1 -> 0 [] k = k2 -> 2 [] OTHER -> 1]
Symmetry == Permutations(Thread) \cup Permutations(Value)
=============================================================================
