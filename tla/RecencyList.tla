----------------------------- MODULE RecencyList -----------------------------
(***************************************************************************)
(* What "least recently used" means for a cache that several threads use   *)
(* at once: keys in the order of their last use, the most recent first.    *)
(* Each thread makes room before it adds a key, so that all threads but    *)
(* one may be between the two: their number is the Slack by which the      *)
(* cache may miss its size, and with one thread it is exact.               *)
(***************************************************************************)
EXTENDS Naturals, Sequences

CONSTANTS Key, MaxSize, Slack

VARIABLE recency               \* the keys, most recently used first

Keys == {recency[i] : i \in DOMAIN recency}

Init == recency = << >>

\* A key that was found moves to the front.
Use(k) == \E i \in DOMAIN recency :
    /\ recency[i] = k
    /\ recency' = <<k>> \o SubSeq(recency, 1, i - 1)
                       \o SubSeq(recency, i + 1, Len(recency))

\* Only a full cache evicts, and only the key used least recently.
Evict == /\ recency # << >>
         /\ Len(recency) + Slack >= MaxSize
         /\ recency' = SubSeq(recency, 1, Len(recency) - 1)

\* A new key goes to the front of a cache that has room for it.
Put(k) == /\ k \notin Keys
          /\ Len(recency) < MaxSize + Slack
          /\ recency' = <<k>> \o recency

Clear == recency' = << >>

Next == Clear \/ Evict \/ \E k \in Key : Use(k) \/ Put(k)

Spec == Init /\ [][Next]_recency
=============================================================================
