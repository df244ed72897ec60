--------------------------- MODULE MCOnCacheMMRU ---------------------------
(***************************************************************************)
(* OnCacheMMRU for TLC: keys in different baskets, or two in one basket.   *)
(***************************************************************************)
EXTENDS OnCacheMMRU, TLC

CONSTANTS k1, k2

MCHash == [k \in Key |-> IF k = k1 THEN 0 ELSE IF k = k2 THEN 2 ELSE 1]
Symmetry == Permutations(Thread) \cup Permutations(Value)
=============================================================================
