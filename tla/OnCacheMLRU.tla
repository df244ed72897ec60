---------------------------- MODULE OnCacheMLRU ----------------------------
(***************************************************************************)
(* The multithreaded cache OnCacheMLRU (src/src/caches/oncachemlru.h):     *)
(* threads call insertNode and getData on one cache.  A cache is a fixed   *)
(* pool of Capacity nodes, as many baskets, and one std::shared_mutex per  *)
(* basket.  allocNode hands out pool nodes in a circle, with an atomic     *)
(* counter and an atomic flag per node and no lock; a node that still      *)
(* holds an item is first unlinked from its basket.                        *)
(*                                                                         *)
(* A basket is here the set of the nodes linked in it; the lists that      *)
(* implement it are the subject of HashBasket, which implements this set.  *)
(* Steps are the accesses to shared state that can interleave; a critical  *)
(* section is two steps, the search on entry and the update on exit, so    *)
(* that what it found could be stale by the time it is used.               *)
(***************************************************************************)
EXTENDS Naturals, FiniteSets

CONSTANTS
    Thread, Key, Value,
    Capacity,                  \* l_capacity
    Hash,                      \* get_hash: key -> hash
    NoKey, NoData,             \* nullptr for a TKey, for a shared_ptr<TData>
    NoNode, NoThread           \* nullptr for a TONode3 *, an unlocked mutex

ASSUME CapacityAssumption == Capacity \in Nat \ {0}
ASSUME HashAssumption == Hash \in [Key -> Nat]
ASSUME NullAssumption ==
    /\ NoKey \notin Key
    /\ NoData \notin Key \X Value
    /\ NoNode \notin Nat
    /\ NoThread \notin Thread

Node   == 0 .. Capacity - 1
Basket == 0 .. Capacity - 1
Data   == Key \X Value         \* the key is a part of the stored data

BasketId(h) == h % Capacity

VARIABLES
    node3_pool_id,             \* the shared allocation counter
    in_use,                    \* per node: its atomic_flag
    key, hash, data,           \* per node: its fields
    baskets,                   \* per basket: the nodes linked in it
    writer, readers,           \* per basket: who holds its shared_mutex
    pc,                        \* per thread: its next step
    item,                      \* per thread: arguments of insertNode
    arg,                       \* per thread: the key it works for
    re,                        \* per thread: id and node of allocNode
    cur,                       \* per thread: the node its search stopped at
    ret                        \* per thread: what getData returns

pool  == <<node3_pool_id, in_use>>
nodes == <<key, hash, data, baskets>>
locks == <<writer, readers>>
frame == <<item, arg, re, cur, ret>>
vars  == <<pool, nodes, locks, pc, frame>>

(***************************************************************************)
(* Initial state: init() constructs an empty pool with every flag clear.   *)
(***************************************************************************)
Init ==
    /\ node3_pool_id = 0
    /\ in_use = [n \in Node |-> FALSE]
    /\ key  = [n \in Node |-> NoKey]
    /\ hash = [n \in Node |-> 0]
    /\ data = [n \in Node |-> NoData]
    /\ baskets = [b \in Basket |-> {}]
    /\ writer  = [b \in Basket |-> NoThread]
    /\ readers = [b \in Basket |-> {}]
    /\ pc   = [t \in Thread |-> "idle"]
    /\ item = [t \in Thread |-> NoData]
    /\ arg  = [t \in Thread |-> NoKey]
    /\ re   = [t \in Thread |-> 0]
    /\ cur  = [t \in Thread |-> NoNode]
    /\ ret  = [t \in Thread |-> NoData]

(***************************************************************************)
(* Locks, searches and steps.                                              *)
(***************************************************************************)
Goto(t, from, to) == pc[t] = from /\ pc' = [pc EXCEPT ![t] = to]

LockExclusive(t, b) ==
    /\ writer[b] = NoThread
    /\ readers[b] = {}
    /\ writer' = [writer EXCEPT ![b] = t]
    /\ UNCHANGED readers

UnlockExclusive(b) ==
    /\ writer' = [writer EXCEPT ![b] = NoThread]
    /\ UNCHANGED readers

LockShared(t, b) ==
    /\ writer[b] = NoThread
    /\ readers' = [readers EXCEPT ![b] = @ \cup {t}]
    /\ UNCHANGED writer

UnlockShared(t, b) ==
    /\ readers' = [readers EXCEPT ![b] = @ \ {t}]
    /\ UNCHANGED writer

\* The node the walk along hashes and keys of basket b ends at, if any.
Matches(b, k) == {n \in baskets[b] : hash[n] = Hash[k] /\ key[n] = k}
Found(b, k) == IF Matches(b, k) = {} THEN NoNode
               ELSE CHOOSE n \in Matches(b, k) : TRUE

MyBasket(t) == BasketId(Hash[arg[t]])      \* basketID, from the key
NodeBasket(n) == BasketId(hash[n])         \* basketID, from the node

(***************************************************************************)
(* insertNode and allocNode.                                               *)
(***************************************************************************)
CallInsert(t, d) ==
    /\ Goto(t, "idle", "fetch")
    /\ item' = [item EXCEPT ![t] = d]
    /\ arg' = [arg EXCEPT ![t] = d[1]]
    /\ UNCHANGED <<pool, nodes, locks, re, cur, ret>>

\* id = node3_pool_id.fetch_add(1)
FetchId(t) ==
    /\ pc[t] = "fetch"
    /\ node3_pool_id' = node3_pool_id + 1
    /\ IF node3_pool_id >= Capacity
       THEN /\ pc' = [pc EXCEPT ![t] = "wrap"]
            /\ UNCHANGED re
       ELSE /\ pc' = [pc EXCEPT ![t] = "take"]
            /\ re' = [re EXCEPT ![t] = node3_pool_id]
    /\ UNCHANGED <<in_use, nodes, locks, item, arg, cur, ret>>

\* Mutant: the counter is not stored back.
WrapIdNoStore(t) ==
    /\ Goto(t, "wrap", "take")
    /\ re' = [re EXCEPT ![t] = 0]
    /\ UNCHANGED <<node3_pool_id, in_use, nodes, locks, item, arg, cur, ret>>

\* node3_pool_id.store(0); id = 0: the counter does not step past node 0
WrapId(t) ==
    /\ Goto(t, "wrap", "take")
    /\ node3_pool_id' = 0
    /\ re' = [re EXCEPT ![t] = 0]
    /\ UNCHANGED <<in_use, nodes, locks, item, arg, cur, ret>>

\* Mutant: the flag is set but its old value is not tested.
TakeNodeUntested(t) ==
    /\ Goto(t, "take", "check")
    /\ in_use' = [in_use EXCEPT ![re[t]] = TRUE]
    /\ UNCHANGED <<node3_pool_id, nodes, locks, frame>>

\* while (re->in_use.test_and_set())
TakeNode(t) ==
    /\ pc[t] = "take"
    /\ pc' = [pc EXCEPT ![t] = IF in_use[re[t]] THEN "fetch" ELSE "check"]
    /\ in_use' = [in_use EXCEPT ![re[t]] = TRUE]
    /\ UNCHANGED <<node3_pool_id, nodes, locks, frame>>

\* if (re->key), read without the lock of the basket
CheckKey(t) ==
    /\ pc[t] = "check"
    /\ pc' = [pc EXCEPT ![t] = IF key[re[t]] = NoKey THEN "fill" ELSE "evict"]
    /\ UNCHANGED <<pool, nodes, locks, frame>>

LockToEvict(t) ==
    /\ Goto(t, "evict", "unlink")
    /\ LockExclusive(t, NodeBasket(re[t]))
    /\ UNCHANGED <<pool, nodes, frame>>

\* delOnBasketHead or delWithOtherHash, then the lock is released
Unlink(t) ==
    /\ Goto(t, "unlink", "clear")
    /\ baskets' = [baskets EXCEPT ![NodeBasket(re[t])] = @ \ {re[t]}]
    /\ UnlockExclusive(NodeBasket(re[t]))
    /\ UNCHANGED <<pool, key, hash, data, frame>>

\* re->clear(): the data stays behind
ClearNode(t) ==
    /\ Goto(t, "clear", "fill")
    /\ key' = [key EXCEPT ![re[t]] = NoKey]
    /\ UNCHANGED <<pool, hash, data, baskets, locks, frame>>

\* new_node->hash, ->key, ->data = ..., without a lock
FillNode(t) ==
    /\ Goto(t, "fill", "link")
    /\ hash' = [hash EXCEPT ![re[t]] = Hash[arg[t]]]
    /\ key'  = [key EXCEPT ![re[t]] = arg[t]]
    /\ data' = [data EXCEPT ![re[t]] = item[t]]
    /\ UNCHANGED <<pool, baskets, locks, frame>>

\* Mutant: the search runs before the lock, which is then not needed.
LockToInsertUnlocked(t) ==
    /\ Goto(t, "link", "insert")
    /\ cur' = [cur EXCEPT ![t] = Found(MyBasket(t), arg[t])]
    /\ UNCHANGED <<pool, nodes, locks, item, arg, re, ret>>

\* insertN: the lock, then the search for the place or the equal key
LockToInsert(t) ==
    /\ Goto(t, "link", "insert")
    /\ LockExclusive(t, MyBasket(t))
    /\ cur' = [cur EXCEPT ![t] = Found(MyBasket(t), arg[t])]
    /\ UNCHANGED <<pool, nodes, item, arg, re, ret>>

\* The key is new: the node is linked.
Link(t) ==
    /\ cur[t] = NoNode
    /\ baskets' = [baskets EXCEPT ![MyBasket(t)] = @ \cup {re[t]}]
    /\ UNCHANGED <<key, data>>

\* Mutant: new_node->clear() is forgotten.
ReplaceNoClear(t) ==
    /\ cur[t] # NoNode
    /\ data' = [data EXCEPT ![cur[t]] = data[re[t]], ![re[t]] = NoData]
    /\ UNCHANGED <<key, baskets>>

\* Mutant: the item that is there already is kept.
ReplaceKeepsOld(t) ==
    /\ cur[t] # NoNode
    /\ data' = [data EXCEPT ![re[t]] = NoData]
    /\ key' = [key EXCEPT ![re[t]] = NoKey]
    /\ UNCHANGED baskets

\* 0 == cmp: the item moves into the node that has the key, the new node
\* stays unlinked and is cleared
Replace(t) ==
    /\ cur[t] # NoNode
    /\ data' = [data EXCEPT ![cur[t]] = data[re[t]], ![re[t]] = NoData]
    /\ key' = [key EXCEPT ![cur[t]] = key[re[t]], ![re[t]] = NoKey]
    /\ UNCHANGED baskets

InsertN(t) ==
    /\ Goto(t, "insert", "release")
    /\ Link(t) \/ Replace(t)
    /\ UnlockExclusive(MyBasket(t))
    /\ cur' = [cur EXCEPT ![t] = NoNode]
    /\ UNCHANGED <<pool, hash, item, arg, re, ret>>

\* Mutant: the flag is not cleared.
ReleaseNoClear(t) ==
    /\ Goto(t, "release", "idle")
    /\ item' = [item EXCEPT ![t] = NoData]
    /\ arg' = [arg EXCEPT ![t] = NoKey]
    /\ re' = [re EXCEPT ![t] = 0]
    /\ UNCHANGED <<pool, nodes, locks, cur, ret>>

\* new_node->in_use.clear(), and insertNode returns
Release(t) ==
    /\ Goto(t, "release", "idle")
    /\ in_use' = [in_use EXCEPT ![re[t]] = FALSE]
    /\ item' = [item EXCEPT ![t] = NoData]
    /\ arg' = [arg EXCEPT ![t] = NoKey]
    /\ re' = [re EXCEPT ![t] = 0]
    /\ UNCHANGED <<node3_pool_id, nodes, locks, cur, ret>>

(***************************************************************************)
(* getData.                                                                *)
(***************************************************************************)
CallGet(t, k) ==
    /\ Goto(t, "idle", "get")
    /\ arg' = [arg EXCEPT ![t] = k]
    /\ UNCHANGED <<pool, nodes, locks, item, re, cur, ret>>

\* Mutant: the basket is walked without its lock.
LockToGetUnlocked(t) ==
    /\ Goto(t, "get", "read")
    /\ cur' = [cur EXCEPT ![t] = Found(MyBasket(t), arg[t])]
    /\ UNCHANGED <<pool, nodes, locks, item, arg, re, ret>>

LockToGet(t) ==
    /\ Goto(t, "get", "read")
    /\ LockShared(t, MyBasket(t))
    /\ cur' = [cur EXCEPT ![t] = Found(MyBasket(t), arg[t])]
    /\ UNCHANGED <<pool, nodes, item, arg, re, ret>>

\* return cur->data, or nullptr; the shared lock ends with the scope
ReadData(t) ==
    /\ Goto(t, "read", "got")
    /\ ret' = [ret EXCEPT ![t] = IF cur[t] = NoNode THEN NoData ELSE data[cur[t]]]
    /\ UnlockShared(t, MyBasket(t))
    /\ cur' = [cur EXCEPT ![t] = NoNode]
    /\ UNCHANGED <<pool, nodes, item, arg, re>>

ReturnData(t) ==
    /\ Goto(t, "got", "idle")
    /\ arg' = [arg EXCEPT ![t] = NoKey]
    /\ ret' = [ret EXCEPT ![t] = NoData]
    /\ UNCHANGED <<pool, nodes, locks, item, re, cur>>

(***************************************************************************)
(* The specification.  Step(t) is what the code does once it is called.    *)
(***************************************************************************)
Call(t) == \/ \E d \in Data : CallInsert(t, d)
           \/ \E k \in Key : CallGet(t, k)

Insertion(t) ==
    \/ FetchId(t) \/ WrapId(t) \/ TakeNode(t) \/ CheckKey(t)
    \/ LockToEvict(t) \/ Unlink(t) \/ ClearNode(t)
    \/ FillNode(t) \/ LockToInsert(t) \/ InsertN(t) \/ Release(t)

Lookup(t) == LockToGet(t) \/ ReadData(t) \/ ReturnData(t)

Step(t) == Insertion(t) \/ Lookup(t)

Next == \E t \in Thread : Call(t) \/ Step(t)

Spec == Init /\ [][Next]_vars

(***************************************************************************)
(* Type correctness.                                                       *)
(***************************************************************************)
PC == {"idle", "fetch", "wrap", "take", "check", "evict", "unlink", "clear",
       "fill", "link", "insert", "release", "get", "read", "got"}

\* Type invariant: every field holds a value of its C++ type.
TypeOK ==
    /\ node3_pool_id \in Nat
    /\ in_use \in [Node -> BOOLEAN]
    /\ key  \in [Node -> Key \cup {NoKey}]
    /\ hash \in [Node -> Nat]
    /\ data \in [Node -> Data \cup {NoData}]
    /\ baskets \in [Basket -> SUBSET Node]
    /\ writer  \in [Basket -> Thread \cup {NoThread}]
    /\ readers \in [Basket -> SUBSET Thread]
    /\ pc   \in [Thread -> PC]
    /\ item \in [Thread -> Data \cup {NoData}]
    /\ arg  \in [Thread -> Key \cup {NoKey}]
    /\ re   \in [Thread -> Node]
    /\ cur  \in [Thread -> Node \cup {NoNode}]
    /\ ret  \in [Thread -> Data \cup {NoData}]

(***************************************************************************)
(* Safety.                                                                 *)
(***************************************************************************)
Linked == {n \in Node : \E b \in Basket : n \in baskets[b]}

\* The thread is between winning in_use.test_and_set and in_use.clear.
Holding == {"check", "evict", "unlink", "clear", "fill", "link", "insert", "release"}
Holds(t, n) == pc[t] \in Holding /\ re[t] = n

\* The counter and the flags replace a lock: a pool node is never handed to
\* two insertions, and no flag stays set once the insertion that set it is over.
OneHolder == \A n \in Node :
    /\ \A t, u \in Thread : Holds(t, n) /\ Holds(u, n) => t = u
    /\ in_use[n] <=> \E t \in Thread : Holds(t, n)

\* insertNode writes hash, key and data of its node, and allocNode clears
\* them, without a lock: no list may reach the node at that time.
UnlockedWritesUnseen == \A t \in Thread :
    pc[t] \in {"clear", "fill", "link", "insert"} => re[t] \notin Linked

\* delOnBasketHead and delWithOtherHash dereference the basket and its list
\* without a null test: the node to evict must be in the list of the basket
\* that was locked for it, although its key was tested before the lock.
EvictedIsLinked == \A t \in Thread :
    pc[t] \in {"evict", "unlink"} => re[t] \in baskets[NodeBasket(re[t])]

\* A node with an item that no insertion holds is linked where getData and
\* allocNode look for it; no item is lost in the pool or lies in two lists.
ItemsAreLinked == \A n \in Node : key[n] # NoKey /\ ~in_use[n] =>
    \A b \in Basket : n \in baskets[b] <=> b = BasketId(Hash[key[n]])

\* Two concurrent insertNode calls with one key end up in one node.
KeysUnique == \A m, n \in Linked : key[m] = key[n] => m = n

\* What getData returns belongs to the key that was asked for, although
\* nodes are recycled for other keys all the time.
GetsOwnKey == \A t \in Thread :
    pc[t] = "got" /\ ret[t] # NoData => ret[t][1] = arg[t]

\* fetch_add goes past l_capacity by one for each thread that has not yet
\* stored 0, so the 32 bit counter cannot run away.
PoolIdBounded ==
    node3_pool_id <= Capacity + Cardinality({t \in Thread : pc[t] = "wrap"})

(***************************************************************************)
(* The inductive invariant behind the safety properties.                   *)
(***************************************************************************)
Inserting == {"fetch", "wrap", "take"} \cup Holding

ArgumentsKept == \A t \in Thread :
    /\ pc[t] \in Inserting => item[t] \in Data /\ arg[t] = item[t][1]
    /\ pc[t] \in {"get", "read", "got"} => arg[t] \in Key

LinkedFields == \A b \in Basket : \A n \in baskets[b] :
    /\ key[n] \in Key
    /\ hash[n] = Hash[key[n]]
    /\ b = BasketId(hash[n])
    /\ data[n] \in Data /\ data[n][1] = key[n]

\* What the holder of a node knows of it at each step.
HeldFields == \A t \in Thread :
    /\ pc[t] = "fill" => key[re[t]] = NoKey
    /\ pc[t] \in {"link", "insert"} => /\ key[re[t]] = arg[t]
                                       /\ hash[re[t]] = Hash[arg[t]]
                                       /\ data[re[t]] = item[t]

\* A node with a key is linked, unless its holder is about to link or clear it.
FilledAreLinked == \A n \in Node : key[n] # NoKey =>
    \/ n \in baskets[NodeBasket(n)]
    \/ \E t \in Thread : Holds(t, n) /\ pc[t] \in {"clear", "link", "insert"}

LocksHeld ==
    /\ \A t \in Thread :
          /\ pc[t] = "unlink" => writer[NodeBasket(re[t])] = t
          /\ pc[t] = "insert" => writer[MyBasket(t)] = t
          /\ pc[t] = "read" => t \in readers[MyBasket(t)]
    /\ \A b \in Basket : writer[b] # NoThread => readers[b] = {}

\* What a search found still holds at the end of its critical section.
SearchCurrent == \A t \in Thread : pc[t] \in {"insert", "read"} =>
    IF cur[t] = NoNode THEN \A n \in baskets[MyBasket(t)] : key[n] # arg[t]
    ELSE cur[t] \in baskets[MyBasket(t)] /\ key[cur[t]] = arg[t]

IInv ==
    /\ TypeOK
    /\ ArgumentsKept
    /\ OneHolder
    /\ UnlockedWritesUnseen
    /\ EvictedIsLinked
    /\ LinkedFields
    /\ HeldFields
    /\ FilledAreLinked
    /\ KeysUnique
    /\ LocksHeld
    /\ SearchCurrent
    /\ GetsOwnKey

(***************************************************************************)
(* The cache implements the bounded lossy map: an insertion takes effect   *)
(* where it links or replaces, an eviction where it unlinks, a lookup      *)
(* where it copies the data.                                               *)
(***************************************************************************)
StoredUnder(k) == {n \in Linked : key[n] = k}

mapStore == [k \in Key |-> IF StoredUnder(k) = {} THEN NoData
                           ELSE data[CHOOSE n \in StoredUnder(k) : TRUE]]

PutPhase(p) == CASE p \in {"fetch", "wrap", "take", "check", "evict", "unlink"} -> "put"
                 [] p \in {"clear", "fill", "link", "insert"} -> "room"
                 [] p = "release" -> "stored"

mapCall == [t \in Thread |->
    CASE pc[t] = "idle" -> [type |-> "idle"]
      [] pc[t] \in {"get", "read"} -> [type |-> "get", key |-> arg[t]]
      [] pc[t] = "got" -> [type |-> "got", key |-> arg[t], data |-> ret[t]]
      [] OTHER -> [type |-> PutPhase(pc[t]), data |-> item[t]]]

Map == INSTANCE CacheMap WITH store <- mapStore, call <- mapCall

\* Every call of a thread-safe cache behaves as if it ran alone at one
\* instant, at most l_capacity items are stored, and an insertion evicts
\* at most one of them.
ImplementsMap == Map!Spec
=============================================================================
