------------------------------ MODULE CacheMap ------------------------------
(***************************************************************************)
(* What a thread-safe bounded cache promises its callers, whatever its     *)
(* data structure: a lossy map that never holds more than Capacity items.  *)
(* Every call takes effect at one instant between its invocation and its   *)
(* return.  An item disappears only while some insertion is under way, and *)
(* one insertion evicts one item at most.  Which item is evicted is left   *)
(* open here: the caches of the repository differ in exactly that.         *)
(***************************************************************************)
EXTENDS Naturals, FiniteSets

CONSTANTS Thread, Key, Value, Capacity, NoData

Data == Key \X Value           \* an item carries its key: "TKey part of TData"

VARIABLES store,               \* the item stored under each key, or NoData
          call                 \* what each thread is in the middle of

vars == <<store, call>>

Idle == [type |-> "idle"]

Put(t, type) == [type |-> type, data |-> call[t].data]
Got(t, d)    == [type |-> "got", key |-> call[t].key, data |-> d]

Stored == {k \in Key : store[k] # NoData}

Init == /\ store = [k \in Key |-> NoData]
        /\ call = [t \in Thread |-> Idle]

CallInsert(t, d) ==
    /\ call[t] = Idle
    /\ call' = [call EXCEPT ![t] = [type |-> "put", data |-> d]]
    /\ UNCHANGED store

\* Room is made for the new item; it may cost one of the stored ones.
MakeRoom(t) ==
    /\ call[t].type = "put"
    /\ \/ UNCHANGED store
       \/ \E k \in Stored : store' = [store EXCEPT ![k] = NoData]
    /\ call' = [call EXCEPT ![t] = Put(t, "room")]

\* The item becomes visible and replaces the one with the same key.
Store(t) ==
    /\ call[t].type = "room"
    /\ store' = [store EXCEPT ![call[t].data[1]] = call[t].data]
    /\ Cardinality(Stored') <= Capacity
    /\ call' = [call EXCEPT ![t] = Put(t, "stored")]

CallGet(t, k) ==
    /\ call[t] = Idle
    /\ call' = [call EXCEPT ![t] = [type |-> "get", key |-> k]]
    /\ UNCHANGED store

Read(t) ==
    /\ call[t].type = "get"
    /\ call' = [call EXCEPT ![t] = Got(t, store[call[t].key])]
    /\ UNCHANGED store

Return(t) ==
    /\ call[t].type \in {"stored", "got"}
    /\ call' = [call EXCEPT ![t] = Idle]
    /\ UNCHANGED store

Next == \E t \in Thread :
    \/ \E d \in Data : CallInsert(t, d)
    \/ MakeRoom(t)
    \/ Store(t)
    \/ \E k \in Key : CallGet(t, k)
    \/ Read(t)
    \/ Return(t)

Spec == Init /\ [][Next]_vars
=============================================================================
