------------------------- MODULE ConcurrentLRUCache -------------------------
(***************************************************************************)
(* The cache that the FacebookCache testers measure                        *)
(* (src/src/caches/facebook/concurrent-lru-cache.h): a concurrent hash map *)
(* whose elements own the nodes of one doubly linked list, kept in order   *)
(* of use, and an atomic count that tells insert() when to evict.          *)
(*                                                                         *)
(* Every element of the hash map carries a reader-writer lock, which an    *)
(* accessor holds from the access to its destruction.  The list is only    *)
(* touched under m_listMutex, by transactions that wait for nothing: each  *)
(* is one step here, and find(), which only tries the mutex, may miss it   *)
(* when another thread is at such a step.                                  *)
(***************************************************************************)
EXTENDS Naturals, Sequences, FiniteSets

CONSTANTS
    Thread, Key,
    Node,                      \* addresses of list nodes
    MaxSize,                   \* m_maxSize
    m_head, m_tail,            \* the two ends of the list
    OutOfListMarker, NullNode,
    NoKey, NoThread            \* a freed node; an element nobody writes

ASSUME SizeAssumption == MaxSize \in Nat \ {0}
ASSUME ThreadAssumption == IsFiniteSet(Thread)
ASSUME EndsAssumption ==
    /\ m_head # m_tail /\ m_head \notin Node /\ m_tail \notin Node
    /\ OutOfListMarker \notin Node \cup {m_head, m_tail}
    /\ NullNode \notin Node
    /\ NoKey \notin Key /\ NoThread \notin Thread

ListEnd == {m_head, m_tail}

VARIABLES
    m_size,                    \* the atomic count
    m_map,                     \* m_listNode of each element of the hash map
    writer, readers,           \* the accessors that exist for each element
    m_key,                     \* the key of each allocated list node
    m_prev, m_next,            \* the links of the list
    pc,                        \* per thread: its next step
    arg,                       \* per thread: the key it works for
    node,                      \* per thread: its new node, or the one found
    size,                      \* per thread: what it read from m_size
    moribund,                  \* per thread: the node it evicts
    caller                     \* per thread: where evict() returns to

elements == <<m_map, writer, readers>>
list     == <<m_prev, m_next>>
frame    == <<arg, node, size, moribund, caller>>
vars     == <<m_size, elements, m_key, list, pc, frame>>

(***************************************************************************)
(* Initial state: an empty map and a list of its two ends.                 *)
(***************************************************************************)
Init ==
    /\ m_size = 0
    /\ m_map = [k \in Key |-> NullNode]
    /\ writer = [k \in Key |-> NoThread]
    /\ readers = [k \in Key |-> {}]
    /\ m_key = [n \in Node |-> NoKey]
    /\ m_prev = [n \in Node \cup ListEnd |->
                   CASE n = m_tail -> m_head [] n = m_head -> NullNode
                     [] OTHER -> OutOfListMarker]
    /\ m_next = [n \in Node \cup ListEnd |->
                   IF n = m_head THEN m_tail ELSE NullNode]
    /\ pc = [t \in Thread |-> "idle"]
    /\ arg = [t \in Thread |-> NoKey]
    /\ node = [t \in Thread |-> NullNode]
    /\ size = [t \in Thread |-> 0]
    /\ moribund = [t \in Thread |-> NullNode]
    /\ caller = [t \in Thread |-> "exit"]

(***************************************************************************)
(* The list, the accessors and the mutex.                                  *)
(***************************************************************************)
Goto(t, from, to) == pc[t] = from /\ pc' = [pc EXCEPT ![t] = to]

isInList(n) == m_prev[n] # OutOfListMarker

\* Mutant: the node is unlinked but not marked.
delinkUnmarked(n) ==
    /\ m_next' = [m_next EXCEPT ![m_prev[n]] = m_next[n]]
    /\ m_prev' = [m_prev EXCEPT ![m_next[n]] = m_prev[n]]

delink(n) ==
    /\ m_next' = [m_next EXCEPT ![m_prev[n]] = m_next[n]]
    /\ m_prev' = [m_prev EXCEPT ![m_next[n]] = m_prev[n], ![n] = OutOfListMarker]

pushFront(n) ==
    /\ m_prev' = [m_prev EXCEPT ![n] = m_head, ![m_next[m_head]] = n]
    /\ m_next' = [m_next EXCEPT ![n] = m_next[m_head], ![m_head] = n]

\* delink and pushFront of a node that is in the list.
MoveToFront(n) ==
    IF m_prev[n] = m_head THEN UNCHANGED list
    ELSE /\ m_next' = [m_next EXCEPT ![m_prev[n]] = m_next[n],
                                     ![n] = m_next[m_head], ![m_head] = n]
         /\ m_prev' = [m_prev EXCEPT ![m_next[n]] = m_prev[n],
                                     ![n] = m_head, ![m_next[m_head]] = n]

Unlocked(k) == writer[k] = NoThread /\ readers[k] = {}

\* Another thread may be inside a list transaction.
ListBusy(t) == \E u \in Thread \ {t} : pc[u] \in {"evict", "push", "use", "snapshot"}

(***************************************************************************)
(* find: the const accessor is filled, and the caller drops it later.      *)
(***************************************************************************)
CallFind(t, k) ==
    /\ Goto(t, "idle", "find")
    /\ arg' = [arg EXCEPT ![t] = k]
    /\ UNCHANGED <<m_size, elements, m_key, list, node, size, moribund, caller>>

FindMiss(t) ==
    /\ Goto(t, "find", "idle")
    /\ m_map[arg[t]] = NullNode
    /\ arg' = [arg EXCEPT ![t] = NoKey]
    /\ UNCHANGED <<m_size, elements, m_key, list, node, size, moribund, caller>>

\* m_map.find waits for the thread that writes the element.
FindHit(t) ==
    /\ Goto(t, "find", "use")
    /\ m_map[arg[t]] # NullNode
    /\ writer[arg[t]] = NoThread
    /\ readers' = [readers EXCEPT ![arg[t]] = @ \cup {t}]
    /\ node' = [node EXCEPT ![t] = m_map[arg[t]]]
    /\ UNCHANGED <<m_size, m_map, writer, m_key, list, arg, size, moribund, caller>>

\* Mutant: the node is moved without a look at whether it is in the list.
UseNodeUnchecked(t) ==
    /\ Goto(t, "use", "held")
    /\ IF isInList(node[t]) THEN MoveToFront(node[t]) ELSE pushFront(node[t])
    /\ UNCHANGED <<m_size, elements, m_key, frame>>

\* The mutex is free: a node that is in the list moves to its front.
UseNode(t) ==
    /\ Goto(t, "use", "held")
    /\ IF isInList(node[t]) THEN MoveToFront(node[t]) ELSE UNCHANGED list
    /\ UNCHANGED <<m_size, elements, m_key, frame>>

\* std::try_to_lock failed
SkipUse(t) ==
    /\ Goto(t, "use", "held")
    /\ ListBusy(t)
    /\ UNCHANGED <<m_size, elements, m_key, list, frame>>

ReleaseConstAccessor(t) ==
    /\ Goto(t, "held", "idle")
    /\ readers' = [readers EXCEPT ![arg[t]] = @ \ {t}]
    /\ arg' = [arg EXCEPT ![t] = NoKey]
    /\ node' = [node EXCEPT ![t] = NullNode]
    /\ UNCHANGED <<m_size, m_map, writer, m_key, list, size, moribund, caller>>

(***************************************************************************)
(* insert.                                                                 *)
(***************************************************************************)
CallInsert(t, k) ==
    /\ Goto(t, "idle", "insert")
    /\ arg' = [arg EXCEPT ![t] = k]
    /\ UNCHANGED <<m_size, elements, m_key, list, node, size, moribund, caller>>

\* The key is there: m_map.insert waits for its element, and returns false.
InsertPresent(t) ==
    /\ Goto(t, "insert", "idle")
    /\ m_map[arg[t]] # NullNode
    /\ Unlocked(arg[t])
    /\ arg' = [arg EXCEPT ![t] = NoKey]
    /\ UNCHANGED <<m_size, elements, m_key, list, node, size, moribund, caller>>

\* The new element is locked by its inserter, its node not yet in the list.
InsertNew(t) ==
    /\ Goto(t, "insert", "load")
    /\ m_map[arg[t]] = NullNode
    /\ \E n \in Node :
          /\ m_key[n] = NoKey
          /\ m_key' = [m_key EXCEPT ![n] = arg[t]]
          /\ m_map' = [m_map EXCEPT ![arg[t]] = n]
          /\ node' = [node EXCEPT ![t] = n]
    /\ writer' = [writer EXCEPT ![arg[t]] = t]
    /\ UNCHANGED <<m_size, readers, list, arg, size, moribund, caller>>

\* size = m_size.load(): evict if the container is at or over capacity
LoadSize(t) ==
    /\ pc[t] = "load"
    /\ size' = [size EXCEPT ![t] = m_size]
    /\ IF m_size >= MaxSize
       THEN /\ pc' = [pc EXCEPT ![t] = "evict"]
            /\ caller' = [caller EXCEPT ![t] = "push"]
       ELSE /\ pc' = [pc EXCEPT ![t] = "push"]
            /\ UNCHANGED caller
    /\ UNCHANGED <<m_size, elements, m_key, list, arg, node, moribund>>

\* evictionDone, as the local size tells it.
evictionDone(t) == size[t] >= MaxSize

\* Mutant: the new element is counted although one was evicted for it.
PushNodeCounts(t) ==
    /\ Goto(t, "push", "count")
    /\ pushFront(node[t])
    /\ UNCHANGED <<m_size, elements, m_key, frame>>

\* pushFront under the mutex, and the branches that touch only locals
PushNode(t) ==
    /\ pc[t] = "push"
    /\ pushFront(node[t])
    /\ pc' = [pc EXCEPT ![t] = IF ~evictionDone(t) THEN "count"
                               ELSE IF size[t] > MaxSize THEN "reduce"
                               ELSE "exit"]
    /\ UNCHANGED <<m_size, elements, m_key, frame>>

\* size = m_size++
CountNode(t) ==
    /\ pc[t] = "count"
    /\ size' = [size EXCEPT ![t] = m_size]
    /\ m_size' = m_size + 1
    /\ pc' = [pc EXCEPT ![t] = IF m_size > MaxSize THEN "reduce" ELSE "exit"]
    /\ UNCHANGED <<elements, m_key, list, arg, node, moribund, caller>>

\* Mutant: the size is decremented without a comparison.
ReduceUncompared(t) ==
    /\ pc[t] = "reduce"
    /\ m_size' = m_size - 1
    /\ pc' = [pc EXCEPT ![t] = "evict"]
    /\ caller' = [caller EXCEPT ![t] = "exit"]
    /\ UNCHANGED <<elements, m_key, list, arg, node, size, moribund>>

\* Mutant: an extra element is evicted without the right to do so.
ReduceEvictsOnly(t) ==
    /\ Goto(t, "reduce", "evict")
    /\ caller' = [caller EXCEPT ![t] = "exit"]
    /\ UNCHANGED <<m_size, elements, m_key, list, arg, node, size, moribund>>

\* m_size.compare_exchange_strong(size, size - 1), and one extra eviction
Reduce(t) ==
    /\ pc[t] = "reduce"
    /\ IF m_size = size[t]
       THEN /\ m_size' = m_size - 1
            /\ pc' = [pc EXCEPT ![t] = "evict"]
            /\ caller' = [caller EXCEPT ![t] = "exit"]
       ELSE /\ pc' = [pc EXCEPT ![t] = "exit"]
            /\ UNCHANGED <<m_size, caller>>
    /\ UNCHANGED <<elements, m_key, list, arg, node, size, moribund>>

\* insert() returns true and its accessor dies.
ReleaseAccessor(t) ==
    /\ Goto(t, "exit", "idle")
    /\ writer' = [writer EXCEPT ![arg[t]] = NoThread]
    /\ arg' = [arg EXCEPT ![t] = NoKey]
    /\ node' = [node EXCEPT ![t] = NullNode]
    /\ size' = [size EXCEPT ![t] = 0]
    /\ caller' = [caller EXCEPT ![t] = "exit"]
    /\ UNCHANGED <<m_size, m_map, readers, m_key, list, moribund>>

(***************************************************************************)
(* evict, called from two places of insert.                                *)
(***************************************************************************)
\* The list is empty: evict() returns.
EvictNothing(t) ==
    /\ Goto(t, "evict", caller[t])
    /\ m_prev[m_tail] = m_head
    /\ UNCHANGED <<m_size, elements, m_key, list, frame>>

\* Mutant: the most recently used node is delinked.
EvictHead(t) ==
    /\ Goto(t, "evict", "erase")
    /\ m_next[m_head] # m_tail
    /\ delink(m_next[m_head])
    /\ moribund' = [moribund EXCEPT ![t] = m_next[m_head]]
    /\ UNCHANGED <<m_size, elements, m_key, arg, node, size, caller>>

\* The last node of the list is delinked.
EvictTail(t) ==
    /\ Goto(t, "evict", "erase")
    /\ m_prev[m_tail] # m_head
    /\ delink(m_prev[m_tail])
    /\ moribund' = [moribund EXCEPT ![t] = m_prev[m_tail]]
    /\ UNCHANGED <<m_size, elements, m_key, arg, node, size, caller>>

\* Mutant: the element is erased while finders still hold it.
EraseElementInUse(t) ==
    LET k == m_key[moribund[t]] IN
    /\ pc[t] = "erase"
    /\ IF m_map[k] = NullNode
       THEN /\ pc' = [pc EXCEPT ![t] = caller[t]]
            /\ moribund' = [moribund EXCEPT ![t] = NullNode]
            /\ UNCHANGED m_map
       ELSE /\ writer[k] = NoThread
            /\ pc' = [pc EXCEPT ![t] = "free"]
            /\ m_map' = [m_map EXCEPT ![k] = NullNode]
            /\ UNCHANGED moribund
    /\ UNCHANGED <<m_size, writer, readers, m_key, list, arg, node, size, caller>>

\* The accessor of m_map.find waits for every other accessor of the element,
\* those of this very thread included; then the element is erased.  Where
\* the element is missing evict() returns, "Presumably unreachable".
EraseElement(t) ==
    LET k == m_key[moribund[t]] IN
    /\ pc[t] = "erase"
    /\ IF m_map[k] = NullNode
       THEN /\ pc' = [pc EXCEPT ![t] = caller[t]]
            /\ moribund' = [moribund EXCEPT ![t] = NullNode]
            /\ UNCHANGED m_map
       ELSE /\ Unlocked(k)
            /\ pc' = [pc EXCEPT ![t] = "free"]
            /\ m_map' = [m_map EXCEPT ![k] = NullNode]
            /\ UNCHANGED moribund
    /\ UNCHANGED <<m_size, writer, readers, m_key, list, arg, node, size, caller>>

\* delete moribund
FreeNode(t) ==
    /\ Goto(t, "free", caller[t])
    /\ m_key' = [m_key EXCEPT ![moribund[t]] = NoKey]
    /\ m_next' = [m_next EXCEPT ![moribund[t]] = NullNode]
    /\ moribund' = [moribund EXCEPT ![t] = NullNode]
    /\ UNCHANGED <<m_size, elements, m_prev, arg, node, size, caller>>

(***************************************************************************)
(* snapshotKeys copies the list under the mutex; clear, "NOT THREAD SAFE", *)
(* runs when no other call does.                                           *)
(***************************************************************************)
CallSnapshot(t) ==
    /\ Goto(t, "idle", "snapshot")
    /\ UNCHANGED <<m_size, elements, m_key, list, frame>>

snapshotKeys(t) ==
    /\ Goto(t, "snapshot", "idle")
    /\ UNCHANGED <<m_size, elements, m_key, list, frame>>

AtRest == \A t \in Thread : pc[t] = "idle"

clear ==
    /\ AtRest
    /\ m_map' = [k \in Key |-> NullNode]
    /\ m_key' = [n \in Node |-> IF isInList(n) THEN NoKey ELSE m_key[n]]
    /\ m_prev' = [n \in Node \cup ListEnd |->
                    CASE n = m_tail -> m_head [] n = m_head -> NullNode
                      [] OTHER -> OutOfListMarker]
    /\ m_next' = [n \in Node \cup ListEnd |->
                    IF n = m_head THEN m_tail ELSE NullNode]
    /\ m_size' = 0
    /\ UNCHANGED <<writer, readers, pc, frame>>

(***************************************************************************)
(* The specification.                                                      *)
(***************************************************************************)
evict(t) == \/ EvictNothing(t) \/ EvictTail(t) \/ EraseElement(t)
            \/ FreeNode(t)

insert(t) == \/ InsertPresent(t) \/ InsertNew(t) \/ LoadSize(t) \/ PushNode(t)
             \/ CountNode(t) \/ Reduce(t) \/ ReleaseAccessor(t) \/ evict(t)

find(t) == \/ FindMiss(t) \/ FindHit(t) \/ UseNode(t) \/ SkipUse(t)
           \/ ReleaseConstAccessor(t)

Call(t) == \/ \E k \in Key : CallFind(t, k) \/ CallInsert(t, k)
           \/ CallSnapshot(t)

Step(t) == insert(t) \/ find(t) \/ snapshotKeys(t)

Next == (\E t \in Thread : Call(t) \/ Step(t)) \/ clear

Spec == Init /\ [][Next]_vars

(***************************************************************************)
(* Type correctness.                                                       *)
(***************************************************************************)
PC == {"idle", "find", "use", "held", "insert", "load", "push", "count",
       "reduce", "exit", "evict", "erase", "free", "snapshot"}

\* Type invariant: links lead to nodes or ends, keys are those of live nodes.
TypeOK ==
    /\ m_size \in Nat
    /\ m_map \in [Key -> Node \cup {NullNode}]
    /\ writer \in [Key -> Thread \cup {NoThread}]
    /\ readers \in [Key -> SUBSET Thread]
    /\ m_key \in [Node -> Key \cup {NoKey}]
    /\ m_prev \in [Node \cup ListEnd -> Node \cup {m_head, OutOfListMarker, NullNode}]
    /\ m_next \in [Node \cup ListEnd -> Node \cup {m_tail, NullNode}]
    /\ pc \in [Thread -> PC]
    /\ arg \in [Thread -> Key \cup {NoKey}]
    /\ node \in [Thread -> Node \cup {NullNode}]
    /\ size \in [Thread -> Nat]
    /\ moribund \in [Thread -> Node \cup {NullNode}]
    /\ caller \in [Thread -> {"push", "exit"}]

(***************************************************************************)
(* Safety.                                                                 *)
(***************************************************************************)
InList == {n \in Node : isInList(n)}
Stored == {k \in Key : m_map[k] # NullNode}

\* The thread has put its element into the map and not yet into the list.
Pushing(t) == \/ pc[t] \in {"load", "push"}
              \/ pc[t] \in {"evict", "erase", "free"} /\ caller[t] = "push"

\* The links of the list agree in both directions and lead from end to end
\* over nodes that are in the list, each the node of an element.
ListIntact ==
    /\ \A n \in InList \cup {m_head} :
          m_next[n] \in InList \cup {m_tail} /\ m_prev[m_next[n]] = n
    /\ \A n \in InList \cup {m_tail} :
          m_prev[n] \in InList \cup {m_head} /\ m_next[m_prev[n]] = n
    /\ \A n \in InList : m_key[n] \in Stored /\ m_map[m_key[n]] = n

\* An element of the map is in the list, or with the one thread that is about
\* to push its node, or with the one that delinked it and is about to erase
\* it: none is lost to eviction, none is evicted twice.
ElementsTracked == \A k \in Stored :
    LET n == m_map[k]
        holders == {t \in Thread : \/ Pushing(t) /\ node[t] = n
                                   \/ pc[t] = "erase" /\ moribund[t] = n}
    IN  m_key[n] = k /\ Cardinality(holders) = IF isInList(n) THEN 0 ELSE 1

\* No list node is leaked: it belongs to an element, or is being deleted.
NoNodeLeaked == \A n \in Node : m_key[n] # NoKey =>
    \/ m_map[m_key[n]] = n
    \/ \E t \in Thread : pc[t] = "free" /\ moribund[t] = n

\* A thread with an accessor keeps the element and its list node, however
\* many evictions run meanwhile; "destruction of the value is deferred".
AccessorsPin == \A t \in Thread :
    pc[t] \in {"use", "held"} \/ Pushing(t) => m_map[arg[t]] = node[t]

\* The eviction finds the element of the node it delinked, so that the
\* return marked "Presumably unreachable" is unreachable.
EvictionFinds == \A t \in Thread :
    pc[t] = "erase" => /\ m_key[moribund[t]] \in Stored
                       /\ m_map[m_key[moribund[t]]] = moribund[t]

\* Threads that fill the cache together all read m_size before they count,
\* and may find nothing to evict: but the surplus is at most one element for
\* each thread but one, and those that are not pushed yet.
OverfillBounded ==
    /\ m_size < MaxSize + Cardinality(Thread)
    /\ Cardinality(Stored) < MaxSize + Cardinality(Thread)
                             + Cardinality({t \in Thread : Pushing(t)})

\* At rest the container holds what m_size counts, so that threads that
\* evict the surplus together do not leave it underfilled.
NotUnderfilled == AtRest => m_size <= Cardinality(Stored)

\* Once the cache is full it stays full: only a surplus is reduced.
StaysFull == [][m_size >= MaxSize => m_size' >= MaxSize \/ clear]_vars

(***************************************************************************)
(* The inductive invariant behind the safety properties.                   *)
(***************************************************************************)
Reading(t)  == pc[t] \in {"use", "held"}
Writing(t)  == pc[t] \in {"load", "push", "count", "reduce", "exit",
                          "evict", "erase", "free"}
Evicting(t) == pc[t] \in {"erase", "free"}

ArgumentsKept == \A t \in Thread : pc[t] \notin {"idle", "snapshot"} => arg[t] \in Key

\* The accessors that exist are those of the calls that are in progress.
LocksOwned == \A k \in Key :
    /\ \A t \in Thread : writer[k] = t <=> Writing(t) /\ arg[t] = k
    /\ \A t \in Thread : t \in readers[k] <=> Reading(t) /\ arg[t] = k
    /\ writer[k] # NoThread => readers[k] = {}

\* An insertion keeps its element as long as its accessor, not only until it
\* has pushed the node.
HeldPinned == \A t \in Thread :
    Reading(t) \/ Writing(t) => node[t] \in Node /\ m_map[arg[t]] = node[t]

KeysExact == \A k \in Stored : m_key[m_map[k]] = k

\* A delinked node has one thread that evicts it, and keeps its key until it
\* is deleted; its element may by then have been inserted anew.
MoribundApart == \A t \in Thread : Evicting(t) =>
    /\ moribund[t] \in Node /\ m_key[moribund[t]] \in Key
    /\ ~isInList(moribund[t])
    /\ pc[t] = "free" => m_map[m_key[moribund[t]]] # moribund[t]
    /\ \A u \in Thread : Evicting(u) /\ moribund[u] = moribund[t] => u = t

PushedApart == \A t \in Thread : Pushing(t) =>
    /\ ~isInList(node[t])
    /\ \A u \in Thread : pc[u] = "erase" => moribund[u] # node[t]

NoneLost == \A k \in Stored :
    \/ isInList(m_map[k])
    \/ \E t \in Thread : \/ Pushing(t) /\ node[t] = m_map[k]
                         \/ pc[t] = "erase" /\ moribund[t] = m_map[k]

SurplusSeen == \A t \in Thread : pc[t] = "reduce" => size[t] > MaxSize

IInv ==
    /\ TypeOK
    /\ ArgumentsKept
    /\ LocksOwned
    /\ HeldPinned
    /\ KeysExact
    /\ MoribundApart
    /\ EvictionFinds
    /\ PushedApart
    /\ NoneLost
    /\ NoNodeLeaked
    /\ ListIntact
    /\ SurplusSeen

(***************************************************************************)
(* The inductive invariant behind the sizes: m_size, the list and the map  *)
(* differ by what the threads are in the middle of.                        *)
(***************************************************************************)
Counting == {t \in Thread : pc[t] = "count"}
Willing  == {t \in Thread : pc[t] = "push" /\ size[t] < MaxSize} \cup Counting
Paid     == {t \in Thread : \/ pc[t] = "push" /\ size[t] >= MaxSize
                            \/ pc[t] \in {"erase", "free"} /\ caller[t] = "push"}
Afloat   == {t \in Thread : pc[t] \in {"push", "erase", "free"}}
Owing    == {t \in Thread : pc[t] = "evict" /\ caller[t] = "exit"}

\* No nodes form a loop beside the list: each is reached from m_head.
Rooted == \A S \in SUBSET InList : (\A n \in S : m_prev[n] \in S) => S = {}

\* An eviction before the push is one that LoadSize decided on.
EvictsForPush == \A t \in Thread :
    pc[t] \in {"evict", "erase", "free"} /\ caller[t] = "push" => size[t] >= MaxSize

\* Until the cache is full nobody evicts.
FillsFirst == m_size < MaxSize =>
    /\ \A t \in Thread : /\ pc[t] \notin {"reduce", "evict", "erase", "free"}
                         /\ pc[t] = "push" => size[t] < MaxSize
    /\ Cardinality(InList) <= m_size + Cardinality(Counting)

\* Who counts has read a size below the maximum.
CountBounded == m_size + Cardinality(Willing) < MaxSize + Cardinality(Thread)

\* A node in the list has taken the place of one that was delinked, or was
\* pushed while the cache filled, or by a thread that found nothing to evict.
ListBounded == Cardinality(InList) + Cardinality(Afloat) < MaxSize + Cardinality(Thread)

\* What is counted is in the list, or its place is owed or taken.
CountCovered == m_size + Cardinality(Counting) + Cardinality(Owing)
                    <= Cardinality(InList) + Cardinality(Paid)

SizeInv ==
    /\ IsFiniteSet(InList)
    /\ Rooted
    /\ EvictsForPush
    /\ FillsFirst
    /\ CountBounded
    /\ ListBounded
    /\ CountCovered

(***************************************************************************)
(* Whatever the threads do, the list is one of keys in order of use.       *)
(***************************************************************************)
keysFrom[n \in InList \cup {m_tail}] ==
    IF n = m_tail THEN << >> ELSE <<m_key[n]>> \o keysFrom[m_next[n]]

Order == INSTANCE RecencyList WITH recency <- keysFrom[m_next[m_head]],
                                   Slack <- Cardinality(Thread) - 1

\* "When it is full, insert() evicts the least recently used item": a step of
\* one thread may come between any two of another's, and still a key leaves
\* the list only from its end, only when the list is full but for one key of
\* each other thread, and a find that races evictions moves no other key.
ImplementsLRU == Order!Spec

(***************************************************************************)
(* What comments of the source promise, and the code does not keep.        *)
(***************************************************************************)
\* "thread-safe": a thread never waits for an accessor it holds itself.
NeverWaitsForItself == \A t \in Thread :
    pc[t] = "erase" => writer[m_key[moribund[t]]] # t
=============================================================================
