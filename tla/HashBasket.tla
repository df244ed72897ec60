----------------------------- MODULE HashBasket -----------------------------
(***************************************************************************)
(* The linked lists behind the baskets of OnCacheMLRU                      *)
(* (src/src/caches/oncachemlru.h), as the threads that hold the basket     *)
(* locks see and change them.                                              *)
(*                                                                         *)
(* baskets[b] starts a list, along fwdPtrH, of one node per hash in        *)
(* ascending order: the heads of the hash queues.  A head starts a skip    *)
(* list, along fwdPtrsL[0..2], of all nodes with its hash in ascending key *)
(* order.  A head has height 2; the height of another node is taken from   *)
(* the landscape at a position that is thread local and shared by all      *)
(* caches of the thread, so any height is possible at any time.            *)
(*                                                                         *)
(* An operation is one step here: it runs under the exclusive lock of the  *)
(* basket, and OnCacheMLRU is about what may happen between operations.    *)
(***************************************************************************)
EXTENDS Naturals, FiniteSetsExt

CONSTANTS
    Node,                      \* node3_pool
    Key,                       \* a set of numbers: compare is their order
    Capacity,                  \* l_capacity, the number of baskets
    Hash,                      \* get_hash: key -> hash
    NoKey, Null

ASSUME CapacityAssumption == Capacity \in Nat \ {0}
ASSUME KeyAssumption == Key \subseteq Nat /\ Hash \in [Key -> Nat]
ASSUME NullAssumption == NoKey \notin Key /\ Null \notin Node
ASSUME NodeAssumption == IsFiniteSet(Node)

Basket == 0 .. Capacity - 1
Level  == 0 .. 2

BasketId(h) == h % Capacity

VARIABLES baskets,             \* per basket: the first head
          fwdPtrH,             \* per node: the next head
          fwdPtrsL,            \* per node and level: the next node of the queue
          curHeight, hash, key

vars == <<baskets, fwdPtrH, fwdPtrsL, curHeight, hash, key>>

NoLevels == [h \in Level |-> Null]

Init ==
    /\ baskets = [b \in Basket |-> Null]
    /\ fwdPtrH = [n \in Node |-> Null]
    /\ fwdPtrsL = [n \in Node |-> NoLevels]
    /\ curHeight = [n \in Node |-> 0]
    /\ hash = [n \in Node |-> 0]
    /\ key = [n \in Node |-> NoKey]

(***************************************************************************)
(* Walks.                                                                  *)
(***************************************************************************)
\* while (cur && cur->hash != l_hash) cur = cur->fwdPtrH
HeadWithHash(first, h) ==
    LET walk[c \in Node \cup {Null}] ==
            IF c = Null \/ hash[c] = h THEN c ELSE walk[fwdPtrH[c]]
    IN  walk[first]

\* while (cur->fwdPtrH && hash > cur->fwdPtrH->hash) cur = cur->fwdPtrH
LastBelowHash(first, h) ==
    LET walk[c \in Node] ==
            IF fwdPtrH[c] # Null /\ hash[fwdPtrH[c]] < h THEN walk[fwdPtrH[c]] ELSE c
    IN  walk[first]

\* while (cur->fwdPtrH && cur->fwdPtrH->hash != hash) cur = cur->fwdPtrH
BeforeHash(first, h) ==
    LET walk[c \in Node] ==
            IF fwdPtrH[c] # Null /\ hash[fwdPtrH[c]] # h THEN walk[fwdPtrH[c]] ELSE c
    IN  walk[first]

\* The last node on level h, from start, whose key is smaller than k.
LastBelowKey(start, h, k) ==
    LET walk[c \in Node] ==
            IF fwdPtrsL[c][h] # Null /\ key[fwdPtrsL[c][h]] < k
            THEN walk[fwdPtrsL[c][h]] ELSE c
    IN  walk[start]

\* updatePathOutL and updatePath: where the walk leaves each level, from 2
\* down to 0, each level begun where the one above it was left.
Path(head, k) ==
    LET on2 == LastBelowKey(head, 2, k)
        on1 == LastBelowKey(on2, 1, k)
        on0 == LastBelowKey(on1, 0, k)
    IN  [h \in Level |-> CASE h = 2 -> on2 [] h = 1 -> on1 [] h = 0 -> on0]

\* The node with key k that the walk down from head meets on its highest level.
Below(head, k) ==
    LET path == Path(head, k)
        hits == {h \in Level : fwdPtrsL[path[h]][h] # Null
                               /\ key[fwdPtrsL[path[h]][h]] = k}
    IN  IF hits = {} THEN Null ELSE fwdPtrsL[path[Max(hits)]][Max(hits)]

\* The node whose data getData returns, Null if it returns nullptr.
GetData(k) ==
    LET head == HeadWithHash(baskets[BasketId(Hash[k])], Hash[k])
    IN  IF head = Null \/ (head # Null /\ k < key[head]) THEN Null
        ELSE IF key[head] = k THEN head
        ELSE Below(head, k)

(***************************************************************************)
(* insertN for node n with key k.  A queue hangs from its basket or from   *)
(* the fwdPtrH of the head before it; ht is a height from the landscape.   *)
(***************************************************************************)
\* Mutant: > where the code has >=.
LowerHeadOffByOne(n, old, ht) ==
    /\ curHeight' = [curHeight EXCEPT ![n] = 2, ![old] = ht]
    /\ fwdPtrsL' = [fwdPtrsL EXCEPT
           ![n]   = [h \in Level |-> IF h < ht THEN old ELSE fwdPtrsL[old][h]],
           ![old] = [h \in Level |-> IF h < ht THEN fwdPtrsL[old][h] ELSE Null]]

\* n starts the queue in place of its head old, which sinks to height ht: on
\* the levels above it, n takes over the pointers of old.
LowerHead(n, old, ht) ==
    /\ curHeight' = [curHeight EXCEPT ![n] = 2, ![old] = ht]
    /\ fwdPtrsL' = [fwdPtrsL EXCEPT
           ![n]   = [h \in Level |-> IF h <= ht THEN old ELSE fwdPtrsL[old][h]],
           ![old] = [h \in Level |-> IF h <= ht THEN fwdPtrsL[old][h] ELSE Null]]

\* n is linked behind the nodes of the path on the levels up to ht.
LinkBelow(n, path, ht) ==
    /\ curHeight' = [curHeight EXCEPT ![n] = ht]
    /\ fwdPtrsL' = [m \in Node |-> [h \in Level |->
           CASE h <= ht /\ m = n       -> fwdPtrsL[path[h]][h]
             [] h <= ht /\ m = path[h] -> n
             [] OTHER                  -> fwdPtrsL[m][h]]]
    /\ UNCHANGED <<baskets, fwdPtrH>>

\* n is the only node of a new queue.
StartQueue(n) ==
    /\ curHeight' = [curHeight EXCEPT ![n] = 2]
    /\ UNCHANGED fwdPtrsL

Keep(n, k) ==
    /\ hash' = [hash EXCEPT ![n] = Hash[k]]
    /\ key'  = [key EXCEPT ![n] = k]

\* 0 == cmp: the item goes into the node that has the key, new_node->clear()
Drop(n, k) ==
    /\ hash' = [hash EXCEPT ![n] = Hash[k]]
    /\ UNCHANGED <<baskets, fwdPtrH, fwdPtrsL, curHeight, key>>

\* Mutant: equal keys are not told apart.
InsertInQueueTwice(n, k, head) ==
    Keep(n, k) /\ \E ht \in Level : LinkBelow(n, Path(head, k), ht)

\* The queue that starts at head already has key k, or gets node n behind head.
InsertInQueue(n, k, head) ==
    IF key[head] = k \/ Below(head, k) # Null
    THEN Drop(n, k)
    ELSE Keep(n, k) /\ \E ht \in Level : LinkBelow(n, Path(head, k), ht)

SetOnBasketHead(n, k, b, head) ==
    \/ /\ k < key[head]
       /\ Keep(n, k)
       /\ \E ht \in Level : LowerHead(n, head, ht)
       /\ baskets' = [baskets EXCEPT ![b] = n]
       /\ fwdPtrH' = [fwdPtrH EXCEPT ![n] = fwdPtrH[head], ![head] = Null]
    \/ k >= key[head] /\ InsertInQueue(n, k, head)

SetOther(n, k, c) ==
    LET head == fwdPtrH[c]
        same == head # Null /\ hash[head] = Hash[k]
    IN  \/ /\ same /\ k < key[head]
           /\ Keep(n, k)
           /\ \E ht \in Level : LowerHead(n, head, ht)
           /\ fwdPtrH' = [fwdPtrH EXCEPT ![c] = n, ![n] = fwdPtrH[head], ![head] = Null]
           /\ UNCHANGED baskets
        \/ same /\ k >= key[head] /\ InsertInQueue(n, k, head)
        \/ /\ ~same
           /\ Keep(n, k) /\ StartQueue(n)
           /\ fwdPtrH' = [fwdPtrH EXCEPT ![n] = head, ![c] = n]
           /\ UNCHANGED baskets

InsertN(n, k) ==
    LET b == BasketId(Hash[k])
        first == baskets[b]
    IN  /\ key[n] = NoKey
        /\ \/ /\ first = Null \/ (first # Null /\ hash[first] > Hash[k])
              /\ Keep(n, k) /\ StartQueue(n)
              /\ baskets' = [baskets EXCEPT ![b] = n]
              /\ fwdPtrH' = [fwdPtrH EXCEPT ![n] = first]
           \/ first # Null /\ hash[first] = Hash[k] /\ SetOnBasketHead(n, k, b, first)
           \/ first # Null /\ hash[first] < Hash[k]
              /\ SetOther(n, k, LastBelowHash(first, Hash[k]))

(***************************************************************************)
(* The deletion of node n by allocNode, and re->clear().                   *)
(***************************************************************************)
\* Mutant: the second node keeps only the levels it had.
PromoteSecondBare(n, second) ==
    /\ curHeight' = [curHeight EXCEPT ![second] = 2]
    /\ fwdPtrsL' = [fwdPtrsL EXCEPT ![n] = NoLevels]

\* The queue of head n goes on with its second node, which now sees, on the
\* levels above its own, what n saw; prev names the head before n, if any.
PromoteSecond(n, second) ==
    /\ curHeight' = [curHeight EXCEPT ![second] = 2]
    /\ fwdPtrsL' = [fwdPtrsL EXCEPT
           ![second] = [h \in Level |-> IF h > curHeight[second] THEN fwdPtrsL[n][h] ELSE @[h]],
           ![n] = NoLevels]

DelInSameHashCmp3(n, head) ==
    LET path == Path(head, key[n])
    IN  /\ fwdPtrsL' = [m \in Node |-> [h \in Level |->
               CASE m = n -> Null
                 [] h <= curHeight[n] /\ m = path[h] -> fwdPtrsL[n][h]
                 [] OTHER -> fwdPtrsL[m][h]]]
        /\ fwdPtrH' = [fwdPtrH EXCEPT ![n] = Null]
        /\ UNCHANGED <<baskets, curHeight>>

DelOnBasketHead(n, b) ==
    LET second == fwdPtrsL[n][0]
    IN  \/ /\ n = baskets[b] /\ second # Null
           /\ PromoteSecond(n, second)
           /\ baskets' = [baskets EXCEPT ![b] = second]
           /\ fwdPtrH' = [fwdPtrH EXCEPT ![second] = fwdPtrH[n], ![n] = Null]
        \/ /\ n = baskets[b] /\ second = Null
           /\ baskets' = [baskets EXCEPT ![b] = fwdPtrH[n]]
           /\ fwdPtrH' = [fwdPtrH EXCEPT ![n] = Null]
           /\ fwdPtrsL' = [fwdPtrsL EXCEPT ![n] = NoLevels]
           /\ UNCHANGED curHeight
        \/ n # baskets[b] /\ DelInSameHashCmp3(n, baskets[b])

DelWithOtherHash(n, c) ==
    LET second == fwdPtrsL[n][0]
    IN  \/ /\ n = fwdPtrH[c] /\ second # Null
           /\ PromoteSecond(n, second)
           /\ fwdPtrH' = [fwdPtrH EXCEPT ![c] = second, ![second] = fwdPtrH[n], ![n] = Null]
           /\ UNCHANGED baskets
        \/ /\ n = fwdPtrH[c] /\ second = Null
           /\ fwdPtrH' = [fwdPtrH EXCEPT ![c] = fwdPtrH[n], ![n] = Null]
           /\ fwdPtrsL' = [fwdPtrsL EXCEPT ![n] = NoLevels]
           /\ UNCHANGED <<baskets, curHeight>>
        \/ n # fwdPtrH[c] /\ DelInSameHashCmp3(n, fwdPtrH[c])

Evict(n) ==
    LET b == BasketId(hash[n])
    IN  /\ key[n] # NoKey
        /\ \/ hash[baskets[b]] = hash[n] /\ DelOnBasketHead(n, b)
           \/ hash[baskets[b]] # hash[n]
              /\ DelWithOtherHash(n, BeforeHash(baskets[b], hash[n]))
        /\ key' = [key EXCEPT ![n] = NoKey]
        /\ UNCHANGED hash

Next == \E n \in Node : Evict(n) \/ \E k \in Key : InsertN(n, k)

Spec == Init /\ [][Next]_vars

(***************************************************************************)
(* Correctness.                                                            *)
(***************************************************************************)
\* Type invariant: pointers point to pool nodes, heights are levels.
TypeOK ==
    /\ baskets \in [Basket -> Node \cup {Null}]
    /\ fwdPtrH \in [Node -> Node \cup {Null}]
    /\ fwdPtrsL \in [Node -> [Level -> Node \cup {Null}]]
    /\ curHeight \in [Node -> Level]
    /\ hash \in [Node -> Nat]
    /\ key \in [Node -> Key \cup {NoKey}]

Filled == {n \in Node : key[n] # NoKey}

IsHead(n) == \A m \in Filled : hash[m] = hash[n] => key[n] <= key[m]
Heads(b) == {n \in Filled : BasketId(hash[n]) = b /\ IsHead(n)}

\* The node of S that a measure f puts first, Null if S is empty.
First(S, f) == IF S = {} THEN Null ELSE CHOOSE n \in S : \A m \in S : f[n] <= f[m]

\* The hash lists are exact: a basket starts at its smallest hash, each head
\* points to the next greater one, no other node points to a head.
HashListsExact ==
    /\ \A b \in Basket : baskets[b] = First(Heads(b), hash)
    /\ \A n \in Node : fwdPtrH[n] =
          IF n \in Filled /\ IsHead(n)
          THEN First({m \in Heads(BasketId(hash[n])) : hash[m] > hash[n]}, hash)
          ELSE Null

\* The skip lists are exact through every demotion and promotion of a head:
\* on each level up to its height a node points to the next greater key among
\* the nodes of its hash that reach the level, and above it to nothing.
SkipListsExact ==
    /\ \A n \in Filled : IsHead(n) => curHeight[n] = 2
    /\ \A n \in Node, h \in Level : fwdPtrsL[n][h] =
          IF n \in Filled /\ h <= curHeight[n]
          THEN First({m \in Filled : /\ hash[m] = hash[n] /\ key[m] > key[n]
                                     /\ curHeight[m] >= h}, key)
          ELSE Null

\* Every pointer of the pool is as the items of the basket ask for.
ListsExact == TypeOK /\ HashListsExact /\ SkipListsExact

\* The walk of getData over the lists finds a key if and only if a node holds
\* it, for whichever heights the landscape gave.
FindsFilled == \A k \in Key :
    LET n == GetData(k)
    IN  IF n = Null THEN \A m \in Node : key[m] # k ELSE key[n] = k

\* The nodes that the pointers reach from basket b.
Reached(b) ==
    LET queue[c \in Node \cup {Null}] ==
            IF c = Null THEN {} ELSE {c} \cup queue[fwdPtrsL[c][0]]
        heads[c \in Node \cup {Null}] ==
            IF c = Null THEN {} ELSE queue[c] \cup heads[fwdPtrH[c]]
    IN  heads[baskets[b]]

Sets == INSTANCE BasketSets WITH linked <- [b \in Basket |-> Reached(b)]

\* The lists implement sets of nodes with unique keys: insertN adds one node
\* or, for a key that is present, none, a deletion takes out one node.
ImplementsSets == Sets!Spec
=============================================================================
