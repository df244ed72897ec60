---------------------------- MODULE MCHashBasket ----------------------------
(***************************************************************************)
(* HashBasket for TLC.  All keys but the first and the last share one      *)
(* hash, so that their queue is at times first in its basket and at times  *)
(* behind and before another one: with Capacity = 1 they meet in a basket. *)
(***************************************************************************)
EXTENDS HashBasket, TLC

MCHash == [k \in Key |-> CASE k = Min(Key) -> 1 [] k = Max(Key) -> 3 [] OTHER -> 2]
Symmetry == Permutations(Node)
=============================================================================
