---------------------------- MODULE IntelLRUCache ----------------------------
(***************************************************************************)
(* The cache that the IntelCache testers measure:                          *)
(* tbb::interface6::concurrent_lru_cache                                   *)
(* (src/src/intel/include/tbb/concurrent_lru_cache.h), whose map and list  *)
(* are only touched by operations that an Aggregator executes.             *)
(*                                                                         *)
(* Each tester thread (src/src/testers/testintelcache.cpp) makes a number  *)
(* of calls cache[e]: the item is retrieved, its value computed by the     *)
(* thread that found it missing while the others wait for it, and the      *)
(* handle, a temporary, ends its use at once.                              *)
(***************************************************************************)
EXTENDS Aggregator, SequencesExt

CONSTANTS
    Key,
    NoKey,                     \* no item
    HistoryItems,              \* my_number_of_lru_history_items
    MaxCalls                   \* calls that a tester thread makes

ASSUME HistoryAssumption == HistoryItems \in Nat \ {0}
ASSUME CallsAssumption == MaxCalls \in Nat /\ NoKey \notin Key

VARIABLES
    my_map_storage,            \* the keys in the map
    my_ref_counter,            \* per item: its uses
    my_lru_list_iterator,      \* per item: FALSE for my_lru_list.end()
    my_is_ready,               \* per item: its value was stored
    my_value,                  \* per item: a value was computed for it
    my_lru_list,               \* the items not in use, the last used first
    operation,                 \* per operation: retrieve or signal_end_of_usage
    my_key,                    \* per operation and handle: the item it is about
    my_is_new_value_needed,    \* per operation: the item was inserted
    calls                      \* per thread: the calls it has made

items   == <<my_map_storage, my_ref_counter, my_lru_list_iterator, my_lru_list>>
values  == <<my_is_ready, my_value>>
request == <<operation, my_key, my_is_new_value_needed>>
vars    == <<aggVars, items, values, request, calls>>

Init ==
    /\ AggInit
    /\ my_map_storage = {}
    /\ my_ref_counter = [k \in Key |-> 0]
    /\ my_lru_list_iterator = [k \in Key |-> FALSE]
    /\ my_is_ready = [k \in Key |-> FALSE]
    /\ my_value = [k \in Key |-> FALSE]
    /\ my_lru_list = << >>
    /\ operation = [t \in Thread |-> "retrieve"]
    /\ my_key = [t \in Thread |-> NoKey]
    /\ my_is_new_value_needed = [t \in Thread |-> FALSE]
    /\ calls = [t \in Thread |-> 0]

(***************************************************************************)
(* The serial operations, executed by the handler.                         *)
(***************************************************************************)
\* erase(my_lru_list_iterator)
Without(k) == RemoveAt(my_lru_list, CHOOSE i \in DOMAIN my_lru_list : my_lru_list[i] = k)

\* Mutant: an item that is used again stays in the history.
retrieve_serialInHistory(t) ==
    LET k == my_key[t] IN
    /\ my_map_storage' = my_map_storage \cup {k}
    /\ my_ref_counter' = [my_ref_counter EXCEPT ![k] = @ + 1]
    /\ my_is_new_value_needed' =
          [my_is_new_value_needed EXCEPT ![t] = k \notin my_map_storage]
    /\ my_is_ready' = [my_is_ready EXCEPT ![k] = @ /\ k \in my_map_storage]
    /\ my_value' = [my_value EXCEPT ![k] = @ /\ k \in my_map_storage]
    /\ UNCHANGED <<my_lru_list, my_lru_list_iterator, operation, my_key>>

\* A missing item is inserted without a value; an item in the history of
\* unused ones leaves it, for "it is not a subject for eviction".
retrieve_serial(t) ==
    LET k == my_key[t]
        new == k \notin my_map_storage
        unused == ~new /\ my_lru_list_iterator[k]
    IN
    /\ my_map_storage' = my_map_storage \cup {k}
    /\ my_ref_counter' = [my_ref_counter EXCEPT ![k] = IF new THEN 1 ELSE @ + 1]
    /\ my_is_new_value_needed' = [my_is_new_value_needed EXCEPT ![t] = new]
    /\ my_is_ready' = [my_is_ready EXCEPT ![k] = ~new /\ @]
    /\ my_value' = [my_value EXCEPT ![k] = ~new /\ @]
    /\ my_lru_list' = IF unused THEN Without(k) ELSE my_lru_list
    /\ my_lru_list_iterator' = [my_lru_list_iterator EXCEPT ![k] = FALSE]
    /\ UNCHANGED <<operation, my_key>>

\* Mutant: as many stay as the history may hold.
surplusLate == IF Len(my_lru_list) <= HistoryItems THEN 0
               ELSE Len(my_lru_list) - HistoryItems

\* How many of them have to go before another one comes in front.
surplus == IF Len(my_lru_list) < HistoryItems THEN 0
           ELSE 1 + Len(my_lru_list) - HistoryItems

\* The items at the back of the history that are evicted.
evicted == {my_lru_list[i] :
              i \in Len(my_lru_list) - surplus + 1 .. Len(my_lru_list)}

\* The last use ended: the item goes to the front of the history.
signal_end_of_usage_serial(t) ==
    LET k == my_key[t]
        last == my_ref_counter[k] = 1
        gone == IF last THEN evicted ELSE {}
    IN
    /\ my_ref_counter' = [my_ref_counter EXCEPT ![k] = @ - 1]
    /\ my_map_storage' = my_map_storage \ gone
    /\ my_lru_list' =
          IF last THEN <<k>> \o SubSeq(my_lru_list, 1, Len(my_lru_list) - surplus)
          ELSE my_lru_list
    /\ my_lru_list_iterator' = [j \in Key |->
          IF j = k THEN last ELSE my_lru_list_iterator[j] /\ j \notin gone]
    /\ UNCHANGED <<values, request>>

\* cast_and_handle
HandleRetrieve(t) ==
    /\ HandleOperation(t)
    /\ operation[op_list[t]] = "retrieve"
    /\ retrieve_serial(op_list[t])
    /\ UNCHANGED calls

HandleEndOfUsage(t) ==
    /\ HandleOperation(t)
    /\ operation[op_list[t]] = "signal_end_of_usage"
    /\ signal_end_of_usage_serial(op_list[t])
    /\ UNCHANGED calls

(***************************************************************************)
(* A call of a tester: operator[] and the end of the handle.               *)
(***************************************************************************)
CallRetrieve(t, k) ==
    /\ calls[t] < MaxCalls
    /\ NewOperation(t, "idle")
    /\ calls' = [calls EXCEPT ![t] = @ + 1]
    /\ operation' = [operation EXCEPT ![t] = "retrieve"]
    /\ my_key' = [my_key EXCEPT ![t] = k]
    /\ my_is_new_value_needed' = [my_is_new_value_needed EXCEPT ![t] = FALSE]
    /\ UNCHANGED <<items, values>>

\* my_value = my_value_function(k), outside the aggregator
ComputeValue(t) ==
    /\ operation[t] = "retrieve" /\ my_is_new_value_needed[t]
    /\ Goto(t, "executed", "ready")
    /\ my_value' = [my_value EXCEPT ![my_key[t]] = TRUE]
    /\ UNCHANGED <<lists, ops, res, handler, items, my_is_ready, request, calls>>

StoreReady(t) ==
    /\ Goto(t, "ready", "using")
    /\ my_is_ready' = [my_is_ready EXCEPT ![my_key[t]] = TRUE]
    /\ UNCHANGED <<lists, ops, res, handler, items, my_value, request, calls>>

\* Mutant: the handle is returned whether the value is there or not.
AwaitReadyNot(t) ==
    /\ operation[t] = "retrieve" /\ ~my_is_new_value_needed[t]
    /\ Goto(t, "executed", "using")
    /\ UNCHANGED <<lists, ops, res, handler, items, values, request, calls>>

\* spin_wait_while_eq(my_is_ready, false)
AwaitReady(t) ==
    /\ operation[t] = "retrieve" /\ ~my_is_new_value_needed[t]
    /\ Goto(t, "executed", "using")
    /\ my_is_ready[my_key[t]]
    /\ UNCHANGED <<lists, ops, res, handler, items, values, request, calls>>

\* ~handle_object
EndUsage(t) ==
    /\ NewOperation(t, "using")
    /\ operation' = [operation EXCEPT ![t] = "signal_end_of_usage"]
    /\ UNCHANGED <<items, values, my_key, my_is_new_value_needed, calls>>

Return(t) ==
    /\ operation[t] = "signal_end_of_usage"
    /\ Goto(t, "executed", "idle")
    /\ my_key' = [my_key EXCEPT ![t] = NoKey]
    /\ UNCHANGED <<lists, ops, res, handler, items, values, operation,
                   my_is_new_value_needed, calls>>

(***************************************************************************)
(* The specification: every thread keeps running until its calls are made. *)
(***************************************************************************)
Aggregate(t) == AggStep(t) /\ UNCHANGED <<items, values, request, calls>>

Step(t) ==
    \/ Aggregate(t) \/ HandleRetrieve(t) \/ HandleEndOfUsage(t)
    \/ ComputeValue(t) \/ StoreReady(t) \/ AwaitReady(t)
    \/ EndUsage(t) \/ Return(t)
    \/ \E k \in Key : CallRetrieve(t, k)

Next == \E t \in Thread : Step(t)

Spec == Init /\ [][Next]_vars /\ \A t \in Thread : WF_vars(Step(t))

(***************************************************************************)
(* Properties.                                                             *)
(***************************************************************************)
TypeOK ==
    /\ AggTypeOK
    /\ pc \in [Thread -> AggPC \cup {"idle", "ready", "using"}]
    /\ my_map_storage \subseteq Key
    /\ my_ref_counter \in [Key -> 0 .. Cardinality(Thread)]
    /\ my_lru_list_iterator \in [Key -> BOOLEAN]
    /\ my_is_ready \in [Key -> BOOLEAN]
    /\ my_value \in [Key -> BOOLEAN]
    /\ my_lru_list \in Seq(Key)
    /\ operation \in [Thread -> {"retrieve", "signal_end_of_usage"}]
    /\ my_key \in [Thread -> Key \cup {NoKey}]
    /\ my_is_new_value_needed \in [Thread -> BOOLEAN]
    /\ calls \in [Thread -> 0 .. MaxCalls]

\* The operation of t was executed, whether t knows it yet or not.
Executed(t) ==
    \/ pc[t] = "executed" \/ status[t] = 1
    \/ \E u \in Thread : pc[u] = "store" /\ tmp[u] = t

\* The item that t uses in the eyes of the cache.
Uses(t) ==
    IF \/ pc[t] \in {"ready", "using"}
       \/ pc[t] # "idle" /\ (Executed(t) <=> operation[t] = "retrieve")
    THEN my_key[t] ELSE NoKey

\* The reference counter of an item is the number of handles and of finished
\* retrievals of it, so that nothing in use is evicted from under a handle;
\* the history holds the other items, and never more than it should.
UsesCounted ==
    /\ \A k \in Key :
          my_ref_counter[k] = Cardinality({t \in Thread : Uses(t) = k})
    /\ my_map_storage = {k \in Key : my_ref_counter[k] > 0 \/ my_lru_list_iterator[k]}
    /\ Len(my_lru_list) <= HistoryItems

\* The iterators that the items keep into the list are not stale.
IteratorsExact ==
    /\ \A k \in Key : my_lru_list_iterator[k] =
                         (\E i \in DOMAIN my_lru_list : my_lru_list[i] = k)
    /\ \A i, j \in DOMAIN my_lru_list : my_lru_list[i] = my_lru_list[j] => i = j

\* The items, their counters and the history agree.
ItemsExact == TypeOK /\ UsesCounted /\ IteratorsExact

\* A handle gives access to a value that was computed, and one thread only
\* computes it, however many share the item and whenever they came.
Computes(t) == \/ pc[t] = "ready"
               \/ pc[t] = "executed" /\ operation[t] = "retrieve"
                  /\ my_is_new_value_needed[t]

ValueReady ==
    /\ \A t \in Thread : pc[t] = "using" => my_value[my_key[t]]
    /\ \A t, u \in Thread :
          Computes(t) /\ Computes(u) /\ my_key[t] = my_key[u] => t = u

\* The cache behaves as if each operation were one step of its own thread.
History == INSTANCE UnusedHistory WITH
    Nothing <- NoKey, N <- HistoryItems,
    held <- [t \in Thread |-> Uses(t)], history <- my_lru_list

ImplementsHistory == History!Spec

\* Every call of every tester ends, although no thread waits for more than a
\* flag that another one sets.
TestersEnd == <>(\A t \in Thread : pc[t] = "idle" /\ calls[t] = MaxCalls)
==============================================================================
