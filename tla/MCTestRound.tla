---------------------------- MODULE MCTestRound ----------------------------
(***************************************************************************)
(* TestRound for TLC: one node, two insert threads and one find thread,   *)
(* each with all three items.                                              *)
(***************************************************************************)
EXTENDS TestRound, TLC

CONSTANTS k1, k2, k3, v1

MCHash == k1 :> 0 @@ k2 :> 2 @@ k3 :> 1
MCTestData == <<<<k1, v1>>, <<k2, v1>>, <<k3, v1>>>>
=============================================================================
