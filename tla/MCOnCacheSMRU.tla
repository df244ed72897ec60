--------------------------- MODULE MCOnCacheSMRU ---------------------------
(***************************************************************************)
(* OnCacheSMRU for TLC: all keys are in basket 0.                          *)
(***************************************************************************)
EXTENDS OnCacheSMRU, TLC

\* Two hashes with one key each, and a greatest hash for all other keys.
SharedLast == [k \in Key |-> CASE k = 1 -> 0 [] k = 2 -> Capacity [] OTHER -> 2 * Capacity]

\* The greatest key has a hash of its own, behind that of all others.
SharedFirst == [k \in Key |-> IF k = Max(Key) THEN Capacity ELSE 0]
=============================================================================
