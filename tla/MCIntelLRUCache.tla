--------------------------- MODULE MCIntelLRUCache ---------------------------
(***************************************************************************)
(* IntelLRUCache for TLC.                                                  *)
(***************************************************************************)
EXTENDS IntelLRUCache, TLC
==============================================================================
