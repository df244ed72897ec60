------------------------- MODULE MCConcurrentHashMap -------------------------
(***************************************************************************)
(* ConcurrentHashMap for TLC.                                              *)
(***************************************************************************)
EXTENDS ConcurrentHashMap, TLC

CONSTANTS k1, k2, k3

\* With two buckets, all three items are in bucket 0; with four, two are in
\* bucket 2, a child of 0; with eight, one of these is in its child 6.
MCHash == (k1 :> 2) @@ (k2 :> 6) @@ (k3 :> 4)

\* Threads are alike.
MCSymmetry == Permutations(Thread)
==============================================================================
