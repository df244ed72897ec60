------------------------------- MODULE ItemMap -------------------------------
(***************************************************************************)
(* What a concurrent_hash_map promises: a map from keys to items that many *)
(* may read, or one may write, through accessors.  A removed item stays    *)
(* until the last accessor to it is gone.                                  *)
(***************************************************************************)
CONSTANTS Thread, Key, Item, Nil

VARIABLES
    map,                       \* the item of each key, or Nil
    accessor,                  \* per thread: the item it has access to, or Nil
    writes,                    \* per thread: whether that is write access
    missed                     \* per thread: the key it was told is missing

vars == <<map, accessor, writes, missed>>

Init ==
    /\ map = [k \in Key |-> Nil]
    /\ accessor = [t \in Thread |-> Nil]
    /\ writes = [t \in Thread |-> FALSE]
    /\ missed = [t \in Thread |-> Nil]

Access(t, i, w) ==
    /\ accessor[t] = Nil /\ missed[t] = Nil
    /\ \A u \in Thread : accessor[u] = i => ~w /\ ~writes[u]
    /\ accessor' = [accessor EXCEPT ![t] = i]
    /\ writes' = [writes EXCEPT ![t] = w]
    /\ UNCHANGED missed

Find(t, k, w) == map[k] # Nil /\ Access(t, map[k], w) /\ UNCHANGED map

Miss(t, k) ==
    /\ accessor[t] = Nil /\ missed[t] = Nil
    /\ map[k] = Nil
    /\ missed' = [missed EXCEPT ![t] = k]
    /\ UNCHANGED <<map, accessor, writes>>

Insert(t, k, i) ==
    /\ map[k] = Nil
    /\ \A j \in Key : map[j] # i
    /\ map' = [map EXCEPT ![k] = i]
    /\ Access(t, i, TRUE)

Remove(t, k) ==
    /\ map[k] # Nil /\ accessor[t] = map[k]
    /\ map' = [map EXCEPT ![k] = Nil]
    /\ UNCHANGED <<accessor, writes, missed>>

Release(t) ==
    /\ accessor' = [accessor EXCEPT ![t] = Nil]
    /\ writes' = [writes EXCEPT ![t] = FALSE]
    /\ missed' = [missed EXCEPT ![t] = Nil]
    /\ UNCHANGED map

Next == \E t \in Thread :
    \/ Release(t)
    \/ \E k \in Key : \/ Miss(t, k) \/ Remove(t, k)
                      \/ \E w \in BOOLEAN : Find(t, k, w)
                      \/ \E i \in Item : Insert(t, k, i)

Spec == Init /\ [][Next]_vars
==============================================================================
