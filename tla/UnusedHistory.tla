---------------------------- MODULE UnusedHistory ----------------------------
(***************************************************************************)
(* What a concurrent_lru_cache promises: an item stays for as long as it   *)
(* is in use, and the last N of those that are not in use stay as well.    *)
(***************************************************************************)
EXTENDS SequencesExt

CONSTANTS Thread, Key, Nothing, N

VARIABLES
    held,                      \* per thread: the item it uses, or Nothing
    history                    \* the items not in use, the last used first

Init == held = [t \in Thread |-> Nothing] /\ history = << >>

\* An item that is used again leaves the history.
Retrieve(t, k) ==
    /\ held[t] = Nothing
    /\ held' = [held EXCEPT ![t] = k]
    /\ IF \E i \in DOMAIN history : history[i] = k
       THEN \E i \in DOMAIN history : history[i] = k /\ history' = RemoveAt(history, i)
       ELSE UNCHANGED history

\* The last user of an item puts it first, and the oldest has to make room.
EndUsage(t) ==
    /\ held[t] # Nothing
    /\ held' = [held EXCEPT ![t] = Nothing]
    /\ history' = IF \E u \in Thread \ {t} : held[u] = held[t] THEN history
                  ELSE <<held[t]>> \o (IF Len(history) < N THEN history
                                       ELSE SubSeq(history, 1, N - 1))

Next == \E t \in Thread : EndUsage(t) \/ \E k \in Key : Retrieve(t, k)

Spec == Init /\ [][Next]_<<held, history>>
==============================================================================
