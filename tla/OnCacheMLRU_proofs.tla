-------------------------- MODULE OnCacheMLRU_proofs --------------------------
(***************************************************************************)
(* Proofs about OnCacheMLRU, for every number of threads, keys and values, *)
(* every capacity and every hash function.  The argument: IInv says who    *)
(* may touch a node at each program counter (OneHolder, LocksHeld), and    *)
(* where the node is meanwhile (UnlockedWritesUnseen, EvictedIsLinked,     *)
(* FilledAreLinked); so whatever a thread found or wrote is still as it    *)
(* left it when it takes its next step.                                    *)
(*                                                                         *)
(* The last section is about OnCacheMMRU, which is OnCacheMLRU with use    *)
(* counts; nothing before it uses the counts.                              *)
(***************************************************************************)
EXTENDS OnCacheMMRU, TLAPS, FiniteSetTheorems

(***************************************************************************)
(* Facts about single operators.                                           *)
(***************************************************************************)
\* A hash is always mapped to one of the baskets.
LEMMA BasketIdType == \A h \in Nat : BasketId(h) \in Basket
  BY CapacityAssumption DEF BasketId, Basket

LEMMA ZeroIsNode == 0 \in Node
  BY CapacityAssumption DEF Node

LEMMA NoNodeIsNotNode == NoNode \notin Node
  BY NullAssumption DEF Node

\* What the walk through a basket returns.
LEMMA FoundFacts ==
    ASSUME TypeOK, LinkedFields, NEW b \in Basket, NEW k \in Key
    PROVE  /\ Found(b, k) \in Node \cup {NoNode}
           /\ IF Found(b, k) = NoNode THEN \A n \in baskets[b] : key[n] # k
              ELSE Found(b, k) \in baskets[b] /\ key[Found(b, k)] = k
  <1>1. Matches(b, k) = {n \in baskets[b] : key[n] = k}
    BY DEF Matches, LinkedFields
  <1>2. Matches(b, k) \subseteq Node
    BY <1>1 DEF TypeOK
  <1>3. CASE Matches(b, k) = {}
    BY <1>1, <1>3 DEF Found
  <1>4. CASE Matches(b, k) # {}
    <2>1. Found(b, k) \in Matches(b, k)
      BY <1>4 DEF Found
    <2> QED
      BY <2>1, <1>1, <1>2, NoNodeIsNotNode
  <1> QED
    BY <1>3, <1>4

\* A thread that is about to lock, or reads, a basket has a key.
LEMMA MyBasketType ==
    ASSUME ArgumentsKept, NEW t \in Thread, pc[t] \in {"link", "insert", "get", "read"}
    PROVE  /\ arg[t] \in Key
           /\ Hash[arg[t]] \in Nat
           /\ MyBasket(t) \in Basket
  <1>1. arg[t] \in Key
    BY DEF ArgumentsKept, Inserting, Holding, Data
  <1> QED
    BY <1>1, HashAssumption, BasketIdType DEF MyBasket

\* in_use makes allocNode exclusive.
LEMMA HolderAlone ==
    ASSUME TypeOK, OneHolder, NEW t \in Thread, pc[t] \in Holding
    PROVE  \A u \in Thread : pc[u] \in Holding /\ re[u] = re[t] => u = t
  BY DEF TypeOK, OneHolder, Holds

\* The unlocked writes of a holder touch no linked node.
LEMMA HeldUnlinked ==
    ASSUME TypeOK, UnlockedWritesUnseen, NEW t \in Thread,
           pc[t] \in {"clear", "fill", "link", "insert"}
    PROVE  \A b \in Basket : re[t] \notin baskets[b]
  BY DEF TypeOK, UnlockedWritesUnseen, Linked

\* What is known where insertN has found the place: the fields of the new node,
\* and, if the key is there already, the node that has it.
LEMMA InsertFacts ==
    ASSUME IInv, NEW t \in Thread, pc[t] = "insert"
    PROVE  /\ re[t] \in Node /\ MyBasket(t) \in Basket
           /\ arg[t] \in Key /\ item[t] \in Data /\ item[t][1] = arg[t]
           /\ key[re[t]] = arg[t] /\ hash[re[t]] = Hash[arg[t]] /\ data[re[t]] = item[t]
           /\ \A b \in Basket : re[t] \notin baskets[b]
           /\ cur[t] = NoNode => \A n \in Linked : key[n] # arg[t]
           /\ cur[t] # NoNode => /\ cur[t] \in baskets[MyBasket(t)]
                                 /\ cur[t] # re[t]
                                 /\ key[cur[t]] = arg[t]
  <1>1. MyBasket(t) \in Basket /\ arg[t] \in Key
    BY MyBasketType DEF IInv
  <1>2. item[t] \in Data /\ item[t][1] = arg[t]
    BY DEF IInv, ArgumentsKept, Inserting, Holding
  <1>3. \A b \in Basket : re[t] \notin baskets[b]
    BY HeldUnlinked DEF IInv
  <1>4. ASSUME cur[t] = NoNode, NEW n \in Linked, key[n] = arg[t] PROVE FALSE
    <2>1. n \in baskets[MyBasket(t)]
      BY <1>4 DEF IInv, LinkedFields, Linked, MyBasket
    <2> QED
      BY <2>1, <1>4 DEF IInv, SearchCurrent
  <1> QED
    BY <1>1, <1>2, <1>3, <1>4 DEF IInv, TypeOK, HeldFields, SearchCurrent

\* How insertN changes the nodes and the baskets, whichever way it ends.
LEMMA InsertEffect ==
    ASSUME IInv, NEW t \in Thread, InsertN(t)
    PROVE  /\ hash' = hash
           /\ \A n \in Node : n # re[t] => key'[n] = key[n]
           /\ \A n \in Node : n # re[t] /\ n # cur[t] => data'[n] = data[n]
           /\ cur[t] = NoNode =>
                 /\ key' = key /\ data' = data
                 /\ baskets' = [baskets EXCEPT ![MyBasket(t)] = @ \cup {re[t]}]
           /\ cur[t] # NoNode =>
                 /\ data'[cur[t]] = item[t] /\ key'[re[t]] = NoKey
                 /\ baskets' = baskets
  <1>1. pc[t] = "insert" /\ hash' = hash /\ (Link(t) \/ Replace(t))
    BY DEF InsertN, Goto
  <1>2. re[t] \in Node /\ data[re[t]] = item[t] /\ (cur[t] # NoNode => cur[t] # re[t])
    BY <1>1, InsertFacts
  <1>3. CASE Link(t)
    BY <1>1, <1>3 DEF Link
  <1>4. CASE Replace(t)
    <2>1. cur[t] \in Node
      BY <1>4 DEF Replace, IInv, TypeOK
    <2>2. /\ data \in [Node -> Data \cup {NoData}]
          /\ key \in [Node -> Key \cup {NoKey}]
      BY DEF IInv, TypeOK
    <2>3. /\ cur[t] # NoNode /\ cur[t] # re[t] /\ baskets' = baskets
          /\ data' = [data EXCEPT ![cur[t]] = data[re[t]], ![re[t]] = NoData]
          /\ key' = [key EXCEPT ![cur[t]] = key[re[t]], ![re[t]] = NoKey]
      BY <1>2, <1>4 DEF Replace
    <2>4. key[cur[t]] = key[re[t]]
      BY <1>1, <2>3, InsertFacts
    <2>5. /\ data'[cur[t]] = item[t] /\ key'[re[t]] = NoKey
          /\ \A n \in Node : n # re[t] => key'[n] = key[n]
          /\ \A n \in Node : n # re[t] /\ n # cur[t] => data'[n] = data[n]
      BY <1>2, <2>1, <2>2, <2>3, <2>4
    <2> QED
      BY <1>1, <2>3, <2>5
  <1> QED
    BY <1>1, <1>3, <1>4

\* insertN links at most the new node and unlinks none.
LEMMA BasketsGrow ==
    ASSUME IInv, NEW t \in Thread, InsertN(t)
    PROVE  /\ \A b \in Basket : \A n : n \in baskets'[b] =>
                 \/ n \in baskets[b]
                 \/ n = re[t] /\ b = MyBasket(t) /\ cur[t] = NoNode
           /\ \A b \in Basket : \A n : n \in baskets[b] => n \in baskets'[b]
           /\ \A n \in Linked' : n \in Linked \/ (n = re[t] /\ cur[t] = NoNode)
  <1>1. baskets \in [Basket -> SUBSET Node]
    BY DEF IInv, TypeOK
  <1>2. /\ \A b \in Basket : \A n : n \in baskets'[b] =>
              \/ n \in baskets[b]
              \/ n = re[t] /\ b = MyBasket(t) /\ cur[t] = NoNode
        /\ \A b \in Basket : \A n : n \in baskets[b] => n \in baskets'[b]
    BY <1>1, InsertEffect
  <1> QED
    BY <1>2 DEF Linked

(***************************************************************************)
(* Every step preserves the inductive invariant: one lemma per action, one *)
(* step per conjunct.                                                      *)
(***************************************************************************)
LEMMA CallInsertInv == ASSUME IInv, NEW t \in Thread, NEW d \in Data, CallInsert(t, d) PROVE IInv'
  <1> USE DEF IInv, CallInsert, pool, nodes, locks, frame, Goto
  <1>1. TypeOK'
    BY DEF TypeOK, PC, Data
  <1>2. ArgumentsKept'
    BY DEF ArgumentsKept, TypeOK, Inserting, Holding
  <1>3. OneHolder'
    <2>1. \A u \in Thread : \A n : Holds(u, n)' <=> Holds(u, n)
      BY DEF TypeOK, Holds, Holding
    <2> QED
      BY <2>1 DEF OneHolder, TypeOK
  <1>4. UnlockedWritesUnseen'
    BY DEF UnlockedWritesUnseen, Linked
  <1>5. EvictedIsLinked'
    BY DEF EvictedIsLinked, NodeBasket, Holds, Holding
  <1>6. LinkedFields'
    BY DEF LinkedFields
  <1>7. HeldFields'
    BY DEF HeldFields
  <1>8. FilledAreLinked'
    BY DEF FilledAreLinked, NodeBasket, Holds, Holding
  <1>9. KeysUnique'
    BY DEF KeysUnique, Linked
  <1>10. LocksHeld'
    BY DEF LocksHeld, NodeBasket, MyBasket, Holds, Holding
  <1>11. SearchCurrent'
    BY DEF SearchCurrent, MyBasket
  <1>12. GetsOwnKey'
    BY DEF GetsOwnKey
  <1> QED
    BY <1>1, <1>2, <1>3, <1>4, <1>5, <1>6, <1>7, <1>8, <1>9, <1>10, <1>11, <1>12

LEMMA FetchIdInv == ASSUME IInv, NEW t \in Thread, FetchId(t) PROVE IInv'
  <1> USE DEF IInv, FetchId, pool, nodes, locks, frame
  <1>1. TypeOK'
    <2>1. node3_pool_id < Capacity => node3_pool_id \in Node
      BY CapacityAssumption DEF TypeOK, Node
    <2>2. node3_pool_id' \in Nat
      BY DEF TypeOK
    <2>3. re' \in [Thread -> Node]
      BY <2>1, CapacityAssumption DEF TypeOK
    <2>4. pc' \in [Thread -> PC]
      BY DEF TypeOK, PC
    <2> QED
      BY <2>2, <2>3, <2>4 DEF TypeOK
  <1>2. ArgumentsKept'
    BY DEF ArgumentsKept, TypeOK, Inserting, Holding
  <1>3. OneHolder'
    <2>1. \A u \in Thread : \A n : Holds(u, n)' <=> Holds(u, n)
      BY DEF TypeOK, Holds, Holding
    <2> QED
      BY <2>1 DEF OneHolder, TypeOK
  <1>4. UnlockedWritesUnseen'
    BY DEF UnlockedWritesUnseen, TypeOK, Linked
  <1>5. EvictedIsLinked'
    BY DEF EvictedIsLinked, TypeOK, NodeBasket, Holds, Holding
  <1>6. LinkedFields'
    BY DEF LinkedFields
  <1>7. HeldFields'
    BY DEF HeldFields, TypeOK, Holds, Holding
  <1>8. FilledAreLinked'
    BY DEF FilledAreLinked, TypeOK, NodeBasket, Holds, Holding
  <1>9. KeysUnique'
    BY DEF KeysUnique, Linked
  <1>10. LocksHeld'
    BY DEF LocksHeld, TypeOK, NodeBasket, MyBasket, Holds, Holding
  <1>11. SearchCurrent'
    BY DEF SearchCurrent, TypeOK, MyBasket
  <1>12. GetsOwnKey'
    BY DEF GetsOwnKey, TypeOK
  <1> QED
    BY <1>1, <1>2, <1>3, <1>4, <1>5, <1>6, <1>7, <1>8, <1>9, <1>10, <1>11, <1>12

LEMMA WrapIdInv == ASSUME IInv, NEW t \in Thread, WrapId(t) PROVE IInv'
  <1> USE DEF IInv, WrapId, pool, nodes, locks, frame, Goto
  <1>1. TypeOK'
    BY ZeroIsNode DEF TypeOK, PC
  <1>2. ArgumentsKept'
    BY DEF ArgumentsKept, Inserting, Holding
  <1>3. OneHolder'
    <2>1. \A u \in Thread : \A n : Holds(u, n)' <=> Holds(u, n)
      BY DEF TypeOK, Holds, Holding
    <2> QED
      BY <2>1 DEF OneHolder, TypeOK
  <1>4. UnlockedWritesUnseen'
    BY DEF UnlockedWritesUnseen, Linked
  <1>5. EvictedIsLinked'
    BY DEF EvictedIsLinked, NodeBasket, Holds, Holding
  <1>6. LinkedFields'
    BY DEF LinkedFields
  <1>7. HeldFields'
    BY DEF HeldFields
  <1>8. FilledAreLinked'
    BY DEF FilledAreLinked, NodeBasket, Holds, Holding
  <1>9. KeysUnique'
    BY DEF KeysUnique, Linked
  <1>10. LocksHeld'
    BY DEF LocksHeld, NodeBasket, MyBasket, Holds, Holding
  <1>11. SearchCurrent'
    BY DEF SearchCurrent, MyBasket
  <1>12. GetsOwnKey'
    BY DEF GetsOwnKey
  <1> QED
    BY <1>1, <1>2, <1>3, <1>4, <1>5, <1>6, <1>7, <1>8, <1>9, <1>10, <1>11, <1>12

LEMMA TakeNodeInv == ASSUME IInv, NEW t \in Thread, TakeNode(t) PROVE IInv'
  <1> USE DEF IInv, TakeNode, pool, nodes, locks, frame
  <1>1. TypeOK'
    BY DEF TypeOK, PC
  <1>2. ArgumentsKept'
    BY DEF ArgumentsKept, Inserting, Holding
  <1>3. OneHolder'
    <2>1. CASE in_use[re[t]]
      <3>1. \A u \in Thread : \A n : Holds(u, n)' <=> Holds(u, n)
        BY <2>1 DEF TypeOK, Holds, Holding
      <3> QED
        BY <2>1, <3>1 DEF OneHolder, TypeOK
    <2>2. CASE ~in_use[re[t]]
      <3>1. \A u \in Thread : \A n : Holds(u, n)' <=> Holds(u, n) \/ (u = t /\ n = re[t])
        BY <2>2 DEF TypeOK, Holds, Holding
      <3> QED
        BY <2>2, <3>1 DEF OneHolder, TypeOK
    <2> QED
      BY <2>1, <2>2
  <1>4. UnlockedWritesUnseen'
    BY DEF UnlockedWritesUnseen, Linked
  <1>5. EvictedIsLinked'
    BY DEF EvictedIsLinked, NodeBasket, Holds, Holding
  <1>6. LinkedFields'
    BY DEF LinkedFields
  <1>7. HeldFields'
    BY DEF HeldFields
  <1>8. FilledAreLinked'
    BY DEF FilledAreLinked, NodeBasket, Holds, Holding
  <1>9. KeysUnique'
    BY DEF KeysUnique, Linked
  <1>10. LocksHeld'
    BY DEF LocksHeld, NodeBasket, MyBasket, Holds, Holding
  <1>11. SearchCurrent'
    BY DEF SearchCurrent, MyBasket
  <1>12. GetsOwnKey'
    BY DEF GetsOwnKey
  <1> QED
    BY <1>1, <1>2, <1>3, <1>4, <1>5, <1>6, <1>7, <1>8, <1>9, <1>10, <1>11, <1>12

LEMMA CheckKeyInv == ASSUME IInv, NEW t \in Thread, CheckKey(t) PROVE IInv'
  <1> USE DEF IInv, CheckKey, pool, nodes, locks, frame
  <1>1. TypeOK'
    BY DEF TypeOK, PC
  <1>2. ArgumentsKept'
    BY DEF ArgumentsKept, Inserting, Holding
  <1>3. OneHolder'
    BY DEF OneHolder, Holds, Holding
  <1>4. UnlockedWritesUnseen'
    <2>1. key[re[t]] = NoKey => re[t] \notin Linked
      BY NullAssumption DEF LinkedFields, Linked
    <2> QED
      BY <2>1 DEF UnlockedWritesUnseen, TypeOK, Linked
  <1>5. EvictedIsLinked'
    <2>1. key[re[t]] # NoKey => re[t] \in baskets[NodeBasket(re[t])]
      BY HolderAlone DEF FilledAreLinked, Holds, Holding, TypeOK
    <2> QED
      BY <2>1 DEF EvictedIsLinked, TypeOK, NodeBasket
  <1>6. LinkedFields'
    BY DEF LinkedFields
  <1>7. HeldFields'
    BY DEF HeldFields
  <1>8. FilledAreLinked'
    BY DEF FilledAreLinked, NodeBasket, Holds, Holding
  <1>9. KeysUnique'
    BY DEF KeysUnique, Linked
  <1>10. LocksHeld'
    BY DEF LocksHeld, NodeBasket, MyBasket, Holds, Holding
  <1>11. SearchCurrent'
    BY DEF SearchCurrent, MyBasket
  <1>12. GetsOwnKey'
    BY DEF GetsOwnKey
  <1> QED
    BY <1>1, <1>2, <1>3, <1>4, <1>5, <1>6, <1>7, <1>8, <1>9, <1>10, <1>11, <1>12

LEMMA LockToEvictInv == ASSUME IInv, NEW t \in Thread, LockToEvict(t) PROVE IInv'
  <1> USE DEF IInv, LockToEvict, pool, nodes, locks, frame, Goto, LockExclusive
  <1>1. TypeOK'
    BY DEF TypeOK, PC
  <1>2. ArgumentsKept'
    BY DEF ArgumentsKept, Inserting, Holding
  <1>3. OneHolder'
    BY DEF OneHolder, Holds, Holding
  <1>4. UnlockedWritesUnseen'
    BY DEF UnlockedWritesUnseen, Linked
  <1>5. EvictedIsLinked'
    BY DEF EvictedIsLinked, NodeBasket, Holds, Holding
  <1>6. LinkedFields'
    BY DEF LinkedFields
  <1>7. HeldFields'
    BY DEF HeldFields
  <1>8. FilledAreLinked'
    BY DEF FilledAreLinked, NodeBasket, Holds, Holding
  <1>9. KeysUnique'
    BY DEF KeysUnique, Linked
  <1>10. LocksHeld'
    BY NullAssumption, BasketIdType DEF LocksHeld, TypeOK, NodeBasket, MyBasket, Holds, Holding
  <1>11. SearchCurrent'
    BY DEF SearchCurrent, MyBasket
  <1>12. GetsOwnKey'
    BY DEF GetsOwnKey
  <1> QED
    BY <1>1, <1>2, <1>3, <1>4, <1>5, <1>6, <1>7, <1>8, <1>9, <1>10, <1>11, <1>12

LEMMA UnlinkInv == ASSUME IInv, NEW t \in Thread, Unlink(t) PROVE IInv'
  <1> USE DEF IInv, Unlink, pool, nodes, locks, frame, Goto, UnlockExclusive
  <1>1. TypeOK'
    BY DEF TypeOK, PC
  <1>2. ArgumentsKept'
    BY DEF ArgumentsKept, Inserting, Holding
  <1>3. OneHolder'
    BY DEF OneHolder, Holds, Holding
  <1>4. UnlockedWritesUnseen'
    <2>1. re[t] \in Node /\ NodeBasket(re[t]) \in Basket
      BY BasketIdType DEF TypeOK, NodeBasket
    <2>2. \A b \in Basket : re[t] \in baskets[b] => b = NodeBasket(re[t])
      BY DEF LinkedFields, NodeBasket
    <2>3. re[t] \notin Linked'
      BY <2>1, <2>2 DEF Linked, TypeOK
    <2>4. Linked' \subseteq Linked
      BY <2>1 DEF Linked, TypeOK
    <2> QED
      BY <2>3, <2>4 DEF UnlockedWritesUnseen, TypeOK
  <1>5. EvictedIsLinked'
    <2>1. \A u \in Thread : u # t /\ pc[u] \in {"evict", "unlink"} => re[u] # re[t]
      BY HolderAlone DEF Holding
    <2>2. \A n \in Node : NodeBasket(n)' = NodeBasket(n)
      BY DEF NodeBasket
    <2>3. \A b \in Basket, n \in Node : n # re[t] /\ n \in baskets[b] => n \in baskets'[b]
      BY DEF TypeOK
    <2>4. \A n \in Node : NodeBasket(n) \in Basket
      BY BasketIdType DEF NodeBasket, TypeOK
    <2> QED
      BY <2>1, <2>2, <2>3, <2>4 DEF EvictedIsLinked, TypeOK
  <1>6. LinkedFields'
    BY DEF LinkedFields
  <1>7. HeldFields'
    BY DEF HeldFields
  <1>8. FilledAreLinked'
    BY DEF FilledAreLinked, TypeOK, NodeBasket, Holds, Holding
  <1>9. KeysUnique'
    BY DEF KeysUnique, Linked
  <1>10. LocksHeld'
    BY DEF LocksHeld, TypeOK, NodeBasket, MyBasket, Holds, Holding
  <1>11. SearchCurrent'
    <2> SUFFICES ASSUME NEW u \in Thread, pc'[u] \in {"insert", "read"}
                 PROVE  baskets'[MyBasket(u)] = baskets[MyBasket(u)]
      BY DEF SearchCurrent, MyBasket, TypeOK
    <2>1. u # t /\ pc[u] = pc'[u]
      BY DEF TypeOK
    <2>2. MyBasket(u) \in Basket
      BY <2>1, MyBasketType
    <2>3. MyBasket(u) # NodeBasket(re[t])
      BY <2>1, <2>2, NullAssumption DEF LocksHeld
    <2> QED
      BY <2>2, <2>3 DEF TypeOK
  <1>12. GetsOwnKey'
    BY DEF GetsOwnKey
  <1> QED
    BY <1>1, <1>2, <1>3, <1>4, <1>5, <1>6, <1>7, <1>8, <1>9, <1>10, <1>11, <1>12

LEMMA ClearNodeInv == ASSUME IInv, NEW t \in Thread, ClearNode(t) PROVE IInv'
  <1> USE DEF IInv, ClearNode, pool, nodes, locks, frame, Goto
  <1>1. TypeOK'
    BY DEF TypeOK, PC
  <1>2. ArgumentsKept'
    BY DEF ArgumentsKept, Inserting, Holding
  <1>3. OneHolder'
    BY DEF OneHolder, Holds, Holding
  <1>4. UnlockedWritesUnseen'
    BY DEF UnlockedWritesUnseen, Linked
  <1>5. EvictedIsLinked'
    BY DEF EvictedIsLinked, NodeBasket, Holds, Holding
  <1>6. LinkedFields'
    BY HeldUnlinked DEF LinkedFields, TypeOK
  <1>7. HeldFields'
    <2>1. \A u \in Thread : u # t /\ pc[u] \in {"fill", "link", "insert"} => re[u] # re[t]
      BY HolderAlone DEF Holding
    <2> QED
      BY <2>1 DEF HeldFields, TypeOK
  <1>8. FilledAreLinked'
    BY DEF FilledAreLinked, TypeOK, NodeBasket, Holds, Holding
  <1>9. KeysUnique'
    <2>1. Linked' = Linked
      BY DEF Linked
    <2>2. \A n \in Linked : key'[n] = key[n]
      BY HeldUnlinked DEF Linked, TypeOK
    <2> QED
      BY <2>1, <2>2 DEF KeysUnique
  <1>10. LocksHeld'
    BY DEF LocksHeld, NodeBasket, MyBasket, Holds, Holding
  <1>11. SearchCurrent'
    <2>1. \A u \in Thread : pc'[u] \in {"insert", "read"} => pc[u] = pc'[u] /\ MyBasket(u) \in Basket
      BY MyBasketType DEF TypeOK
    <2>2. \A b \in Basket : \A n \in baskets[b] : key'[n] = key[n]
      BY HeldUnlinked DEF TypeOK
    <2>3. \A u : MyBasket(u)' = MyBasket(u)
      BY DEF MyBasket
    <2> QED
      BY <2>1, <2>2, <2>3 DEF SearchCurrent, TypeOK
  <1>12. GetsOwnKey'
    BY DEF GetsOwnKey
  <1> QED
    BY <1>1, <1>2, <1>3, <1>4, <1>5, <1>6, <1>7, <1>8, <1>9, <1>10, <1>11, <1>12

LEMMA FillNodeInv == ASSUME IInv, NEW t \in Thread, FillNode(t) PROVE IInv'
  <1> USE DEF IInv, FillNode, pool, nodes, locks, frame, Goto
  <1>1. TypeOK'
    <2>1. item[t] \in Data /\ arg[t] \in Key
      BY DEF ArgumentsKept, Inserting, Holding, Data
    <2>2. Hash[arg[t]] \in Nat
      BY <2>1, HashAssumption
    <2> QED
      BY <2>1, <2>2 DEF TypeOK, PC
  <1>2. ArgumentsKept'
    BY DEF ArgumentsKept, Inserting, Holding
  <1>3. OneHolder'
    BY DEF OneHolder, Holds, Holding
  <1>4. UnlockedWritesUnseen'
    BY DEF UnlockedWritesUnseen, Linked
  <1>5. EvictedIsLinked'
    <2>1. \A u \in Thread : u # t /\ pc[u] \in {"evict", "unlink"} => re[u] # re[t]
      BY HolderAlone DEF Holding
    <2> QED
      BY <2>1 DEF EvictedIsLinked, NodeBasket, TypeOK
  <1>6. LinkedFields'
    BY HeldUnlinked DEF LinkedFields, TypeOK
  <1>7. HeldFields'
    <2>1. \A u \in Thread : u # t /\ pc[u] \in {"fill", "link", "insert"} => re[u] # re[t]
      BY HolderAlone DEF Holding
    <2> QED
      BY <2>1 DEF HeldFields, TypeOK
  <1>8. FilledAreLinked'
    BY DEF FilledAreLinked, TypeOK, NodeBasket, Holds, Holding
  <1>9. KeysUnique'
    <2>1. Linked' = Linked
      BY DEF Linked
    <2>2. \A n \in Linked : key'[n] = key[n]
      BY HeldUnlinked DEF Linked, TypeOK
    <2> QED
      BY <2>1, <2>2 DEF KeysUnique
  <1>10. LocksHeld'
    <2>1. \A u \in Thread : u # t /\ pc[u] = "unlink" => re[u] # re[t]
      BY HolderAlone DEF Holding
    <2> QED
      BY <2>1 DEF LocksHeld, NodeBasket, MyBasket, TypeOK
  <1>11. SearchCurrent'
    <2>1. \A u \in Thread : pc'[u] \in {"insert", "read"} => pc[u] = pc'[u] /\ MyBasket(u) \in Basket
      BY MyBasketType DEF TypeOK
    <2>2. \A b \in Basket : \A n \in baskets[b] : key'[n] = key[n]
      BY HeldUnlinked DEF TypeOK
    <2>3. \A u : MyBasket(u)' = MyBasket(u)
      BY DEF MyBasket
    <2> QED
      BY <2>1, <2>2, <2>3 DEF SearchCurrent, TypeOK
  <1>12. GetsOwnKey'
    BY DEF GetsOwnKey
  <1> QED
    BY <1>1, <1>2, <1>3, <1>4, <1>5, <1>6, <1>7, <1>8, <1>9, <1>10, <1>11, <1>12

LEMMA LockToInsertInv == ASSUME IInv, NEW t \in Thread, LockToInsert(t) PROVE IInv'
  <1> USE DEF IInv, LockToInsert, pool, nodes, locks, frame, Goto, LockExclusive
  <1>1. TypeOK'
    BY MyBasketType, FoundFacts DEF TypeOK, PC
  <1>2. ArgumentsKept'
    BY DEF ArgumentsKept, Inserting, Holding
  <1>3. OneHolder'
    BY DEF OneHolder, Holds, Holding
  <1>4. UnlockedWritesUnseen'
    BY DEF UnlockedWritesUnseen, Linked
  <1>5. EvictedIsLinked'
    BY DEF EvictedIsLinked, NodeBasket, Holds, Holding
  <1>6. LinkedFields'
    BY DEF LinkedFields
  <1>7. HeldFields'
    BY DEF HeldFields
  <1>8. FilledAreLinked'
    BY DEF FilledAreLinked, NodeBasket, Holds, Holding
  <1>9. KeysUnique'
    BY DEF KeysUnique, Linked
  <1>10. LocksHeld'
    <2>1. MyBasket(t) \in Basket /\ \A u : MyBasket(u)' = MyBasket(u)
      BY MyBasketType DEF MyBasket
    <2>2. \A n \in Node : NodeBasket(n)' = NodeBasket(n)
      BY DEF NodeBasket
    <2> QED
      BY <2>1, <2>2, NullAssumption DEF LocksHeld, TypeOK
  <1>11. SearchCurrent'
    <2>1. \A u : MyBasket(u)' = MyBasket(u)
      BY DEF MyBasket
    <2>2. MyBasket(t) \in Basket /\ arg[t] \in Key
      BY MyBasketType
    <2>3. cur'[t] = Found(MyBasket(t), arg[t])
      BY DEF TypeOK
    <2> QED
      BY <2>1, <2>2, <2>3, FoundFacts DEF SearchCurrent, TypeOK
  <1>12. GetsOwnKey'
    BY DEF GetsOwnKey
  <1> QED
    BY <1>1, <1>2, <1>3, <1>4, <1>5, <1>6, <1>7, <1>8, <1>9, <1>10, <1>11, <1>12

LEMMA InsertNInv == ASSUME IInv, NEW t \in Thread, InsertN(t) PROVE IInv'
  <1> USE DEF IInv, InsertN, pool, nodes, locks, frame, Goto, Link, Replace, UnlockExclusive
  <1>1. TypeOK'
    <2>1. key' \in [Node -> Key \cup {NoKey}] /\ data' \in [Node -> Data \cup {NoData}]
      BY NoNodeIsNotNode DEF TypeOK
    <2>2. baskets' \in [Basket -> SUBSET Node]
      BY DEF TypeOK
    <2> QED
      BY <2>1, <2>2 DEF TypeOK, PC
  <1>2. ArgumentsKept'
    BY DEF ArgumentsKept, Inserting, Holding
  <1>3. OneHolder'
    BY DEF OneHolder, Holds, Holding
  <1>4. UnlockedWritesUnseen'
    <2>1. \A u \in Thread : u # t /\ pc[u] \in Holding => re[u] # re[t]
      BY HolderAlone DEF Holding
    <2>2. \A n \in Linked' : n \in Linked \/ n = re[t]
      BY BasketsGrow
    <2> QED
      BY <2>1, <2>2 DEF UnlockedWritesUnseen, TypeOK, Holding
  <1>5. EvictedIsLinked'
    BY NullAssumption, BasketIdType DEF EvictedIsLinked, TypeOK, NodeBasket, Holds, Holding
  <1>6. LinkedFields'
    <2> SUFFICES ASSUME NEW b \in Basket, NEW n \in baskets'[b]
                 PROVE  /\ key'[n] \in Key /\ hash'[n] = Hash[key'[n]] /\ b = BasketId(hash'[n])
                        /\ data'[n] \in Data /\ data'[n][1] = key'[n]
      BY DEF LinkedFields
    <2>1. CASE n \in baskets[b]
      <3>1. n \in Node /\ n # re[t] /\ key'[n] = key[n]
        BY <2>1, InsertFacts, InsertEffect DEF TypeOK
      <3>2. data'[n] = data[n] \/ (n = cur[t] /\ cur[t] # NoNode /\ data'[n] = item[t])
        BY <3>1, InsertEffect, NoNodeIsNotNode
      <3> QED
        BY <2>1, <3>1, <3>2, InsertFacts, InsertEffect DEF LinkedFields
    <2>2. CASE n \notin baskets[b]
      <3>1. n = re[t] /\ cur[t] = NoNode /\ b = MyBasket(t)
        BY <2>2, BasketsGrow
      <3> QED
        BY <3>1, InsertFacts, InsertEffect DEF MyBasket
    <2> QED
      BY <2>1, <2>2
  <1>7. HeldFields'
    <2>1. \A u \in Thread : u # t /\ pc[u] \in {"fill", "link", "insert"} => re[u] # re[t]
      BY HolderAlone DEF Holding
    <2>2. \A u \in Thread : pc[u] \in {"fill", "link", "insert"} => re[u] # cur[t]
      BY InsertFacts, HeldUnlinked, NoNodeIsNotNode DEF TypeOK
    <2> QED
      BY <2>1, <2>2, InsertEffect, BasketsGrow DEF HeldFields, TypeOK
  <1>8. FilledAreLinked'
    <2> SUFFICES ASSUME NEW n \in Node, key'[n] # NoKey
                 PROVE  \/ n \in baskets'[NodeBasket(n)]
                        \/ \E u \in Thread : Holds(u, n)' /\ pc'[u] \in {"clear", "link", "insert"}
      BY DEF FilledAreLinked, NodeBasket
    <2>1. CASE n = re[t]
      <3>1. cur[t] = NoNode /\ MyBasket(t) \in Basket /\ MyBasket(t) = NodeBasket(n)
        BY <2>1, InsertFacts, InsertEffect, BasketsGrow DEF NodeBasket, MyBasket
      <3> QED
        BY <2>1, <3>1, InsertEffect DEF TypeOK
    <2>2. CASE n # re[t] /\ n \in baskets[NodeBasket(n)]
      <3>1. NodeBasket(n) \in Basket
        BY BasketIdType DEF NodeBasket, TypeOK
      <3> QED
        BY <2>2, <3>1, InsertEffect, BasketsGrow
    <2>3. CASE n # re[t] /\ n \notin baskets[NodeBasket(n)]
      <3>1. PICK u \in Thread : Holds(u, n) /\ pc[u] \in {"clear", "link", "insert"}
        BY <2>3, InsertEffect, BasketsGrow DEF FilledAreLinked
      <3> QED
        BY <2>3, <3>1 DEF Holds, TypeOK
    <2> QED
      BY <2>1, <2>2, <2>3
  <1>9. KeysUnique'
    <2>1. re[t] \notin Linked
      BY InsertFacts DEF Linked
    <2>2. \A n \in Linked : key'[n] = key[n]
      BY <2>1, InsertEffect DEF Linked
    <2>3. CASE cur[t] = NoNode
      <3>1. \A n \in Linked' : n \in Linked \/ n = re[t]
        BY BasketsGrow
      <3> QED
        BY <2>2, <2>3, <3>1, InsertFacts, InsertEffect, BasketsGrow DEF KeysUnique
    <2>4. CASE cur[t] # NoNode
      <3>1. Linked' = Linked
        BY <2>4, InsertEffect, BasketsGrow DEF Linked
      <3> QED
        BY <2>2, <3>1 DEF KeysUnique
    <2> QED
      BY <2>3, <2>4
  <1>10. LocksHeld'
    BY DEF LocksHeld, TypeOK, NodeBasket, MyBasket, Holds, Holding
  <1>11. SearchCurrent'
    <2> SUFFICES ASSUME NEW u \in Thread, pc'[u] \in {"insert", "read"}
                 PROVE  /\ baskets'[MyBasket(u)] = baskets[MyBasket(u)]
                        /\ \A n \in baskets[MyBasket(u)] : key'[n] = key[n]
                        /\ cur'[u] = cur[u] /\ pc[u] = pc'[u]
      BY DEF SearchCurrent, MyBasket
    <2>1. u # t /\ pc[u] = pc'[u] /\ cur'[u] = cur[u]
      BY DEF TypeOK
    <2>2. MyBasket(u) \in Basket
      BY <2>1, MyBasketType
    <2>3. MyBasket(u) # MyBasket(t)
      BY <2>1, <2>2, NullAssumption DEF LocksHeld
    <2>4. \A n \in baskets[MyBasket(u)] : n \in Node /\ n # re[t]
      BY <2>2, InsertFacts DEF TypeOK
    <2>5. baskets'[MyBasket(u)] = baskets[MyBasket(u)]
      BY <2>2, <2>3, InsertEffect DEF TypeOK
    <2>6. \A n \in baskets[MyBasket(u)] : key'[n] = key[n]
      BY <2>4, InsertEffect
    <2> QED
      BY <2>1, <2>5, <2>6
  <1>12. GetsOwnKey'
    BY DEF GetsOwnKey
  <1> QED
    BY <1>1, <1>2, <1>3, <1>4, <1>5, <1>6, <1>7, <1>8, <1>9, <1>10, <1>11, <1>12

LEMMA ReleaseInv == ASSUME IInv, NEW t \in Thread, Release(t) PROVE IInv'
  <1> USE DEF IInv, Release, pool, nodes, locks, frame, Goto
  <1>1. TypeOK'
    BY ZeroIsNode DEF TypeOK, PC
  <1>2. ArgumentsKept'
    BY DEF ArgumentsKept, TypeOK, Inserting, Holding
  <1>3. OneHolder'
    BY DEF OneHolder, TypeOK, Holds, Holding
  <1>4. UnlockedWritesUnseen'
    BY DEF UnlockedWritesUnseen, Linked
  <1>5. EvictedIsLinked'
    BY DEF EvictedIsLinked, NodeBasket, Holds, Holding
  <1>6. LinkedFields'
    BY DEF LinkedFields
  <1>7. HeldFields'
    BY DEF HeldFields
  <1>8. FilledAreLinked'
    BY DEF FilledAreLinked, NodeBasket, Holds, Holding
  <1>9. KeysUnique'
    BY DEF KeysUnique, Linked
  <1>10. LocksHeld'
    BY DEF LocksHeld, NodeBasket, MyBasket, Holds, Holding
  <1>11. SearchCurrent'
    BY DEF SearchCurrent, MyBasket
  <1>12. GetsOwnKey'
    BY DEF GetsOwnKey
  <1> QED
    BY <1>1, <1>2, <1>3, <1>4, <1>5, <1>6, <1>7, <1>8, <1>9, <1>10, <1>11, <1>12

LEMMA CallGetInv == ASSUME IInv, NEW t \in Thread, NEW k \in Key, CallGet(t, k) PROVE IInv'
  <1> USE DEF IInv, CallGet, pool, nodes, locks, frame, Goto
  <1>1. TypeOK'
    BY DEF TypeOK, PC
  <1>2. ArgumentsKept'
    BY DEF ArgumentsKept, TypeOK, Inserting, Holding
  <1>3. OneHolder'
    <2>1. \A u \in Thread : \A n : Holds(u, n)' <=> Holds(u, n)
      BY DEF TypeOK, Holds, Holding
    <2> QED
      BY <2>1 DEF OneHolder, TypeOK
  <1>4. UnlockedWritesUnseen'
    BY DEF UnlockedWritesUnseen, Linked
  <1>5. EvictedIsLinked'
    BY DEF EvictedIsLinked, NodeBasket, Holds, Holding
  <1>6. LinkedFields'
    BY DEF LinkedFields
  <1>7. HeldFields'
    BY DEF HeldFields
  <1>8. FilledAreLinked'
    BY DEF FilledAreLinked, NodeBasket, Holds, Holding
  <1>9. KeysUnique'
    BY DEF KeysUnique, Linked
  <1>10. LocksHeld'
    BY DEF LocksHeld, NodeBasket, MyBasket, Holds, Holding
  <1>11. SearchCurrent'
    BY DEF SearchCurrent, MyBasket
  <1>12. GetsOwnKey'
    BY DEF GetsOwnKey
  <1> QED
    BY <1>1, <1>2, <1>3, <1>4, <1>5, <1>6, <1>7, <1>8, <1>9, <1>10, <1>11, <1>12

LEMMA LockToGetInv == ASSUME IInv, NEW t \in Thread, LockToGet(t) PROVE IInv'
  <1> USE DEF IInv, LockToGet, pool, nodes, locks, frame, Goto, LockShared
  <1>1. TypeOK'
    BY MyBasketType, FoundFacts DEF TypeOK, PC
  <1>2. ArgumentsKept'
    BY DEF ArgumentsKept, Inserting, Holding
  <1>3. OneHolder'
    <2>1. \A u \in Thread : \A n : Holds(u, n)' <=> Holds(u, n)
      BY DEF TypeOK, Holds, Holding
    <2> QED
      BY <2>1 DEF OneHolder, TypeOK
  <1>4. UnlockedWritesUnseen'
    BY DEF UnlockedWritesUnseen, Linked
  <1>5. EvictedIsLinked'
    BY DEF EvictedIsLinked, NodeBasket, Holds, Holding
  <1>6. LinkedFields'
    BY DEF LinkedFields
  <1>7. HeldFields'
    BY DEF HeldFields
  <1>8. FilledAreLinked'
    BY DEF FilledAreLinked, NodeBasket, Holds, Holding
  <1>9. KeysUnique'
    BY DEF KeysUnique, Linked
  <1>10. LocksHeld'
    <2>1. MyBasket(t) \in Basket /\ \A u : MyBasket(u)' = MyBasket(u)
      BY MyBasketType DEF MyBasket
    <2>2. \A n \in Node : NodeBasket(n)' = NodeBasket(n)
      BY DEF NodeBasket
    <2> QED
      BY <2>1, <2>2, NullAssumption DEF LocksHeld, TypeOK
  <1>11. SearchCurrent'
    <2>1. \A u : MyBasket(u)' = MyBasket(u)
      BY DEF MyBasket
    <2>2. MyBasket(t) \in Basket /\ arg[t] \in Key
      BY MyBasketType
    <2>3. cur'[t] = Found(MyBasket(t), arg[t])
      BY DEF TypeOK
    <2> QED
      BY <2>1, <2>2, <2>3, FoundFacts DEF SearchCurrent, TypeOK
  <1>12. GetsOwnKey'
    BY DEF GetsOwnKey
  <1> QED
    BY <1>1, <1>2, <1>3, <1>4, <1>5, <1>6, <1>7, <1>8, <1>9, <1>10, <1>11, <1>12

LEMMA ReadDataInv == ASSUME IInv, NEW t \in Thread, ReadData(t) PROVE IInv'
  <1> USE DEF IInv, ReadData, pool, nodes, locks, frame, Goto, UnlockShared
  <1>1. TypeOK'
    BY DEF TypeOK, PC
  <1>2. ArgumentsKept'
    BY DEF ArgumentsKept, Inserting, Holding
  <1>3. OneHolder'
    <2>1. \A u \in Thread : \A n : Holds(u, n)' <=> Holds(u, n)
      BY DEF TypeOK, Holds, Holding
    <2> QED
      BY <2>1 DEF OneHolder, TypeOK
  <1>4. UnlockedWritesUnseen'
    BY DEF UnlockedWritesUnseen, Linked
  <1>5. EvictedIsLinked'
    BY DEF EvictedIsLinked, NodeBasket, Holds, Holding
  <1>6. LinkedFields'
    BY DEF LinkedFields
  <1>7. HeldFields'
    BY DEF HeldFields
  <1>8. FilledAreLinked'
    BY DEF FilledAreLinked, NodeBasket, Holds, Holding
  <1>9. KeysUnique'
    BY DEF KeysUnique, Linked
  <1>10. LocksHeld'
    BY DEF LocksHeld, TypeOK, NodeBasket, MyBasket, Holds, Holding
  <1>11. SearchCurrent'
    BY DEF SearchCurrent, TypeOK, MyBasket
  <1>12. GetsOwnKey'
    <2>1. MyBasket(t) \in Basket
      BY MyBasketType
    <2>2. cur[t] # NoNode => data[cur[t]][1] = arg[t]
      BY <2>1 DEF SearchCurrent, LinkedFields
    <2> QED
      BY <2>2 DEF GetsOwnKey, TypeOK
  <1> QED
    BY <1>1, <1>2, <1>3, <1>4, <1>5, <1>6, <1>7, <1>8, <1>9, <1>10, <1>11, <1>12

LEMMA ReturnDataInv == ASSUME IInv, NEW t \in Thread, ReturnData(t) PROVE IInv'
  <1> USE DEF IInv, ReturnData, pool, nodes, locks, frame, Goto
  <1>1. TypeOK'
    BY DEF TypeOK, PC
  <1>2. ArgumentsKept'
    BY DEF ArgumentsKept, TypeOK, Inserting, Holding
  <1>3. OneHolder'
    <2>1. \A u \in Thread : \A n : Holds(u, n)' <=> Holds(u, n)
      BY DEF TypeOK, Holds, Holding
    <2> QED
      BY <2>1 DEF OneHolder, TypeOK
  <1>4. UnlockedWritesUnseen'
    BY DEF UnlockedWritesUnseen, Linked
  <1>5. EvictedIsLinked'
    BY DEF EvictedIsLinked, NodeBasket, Holds, Holding
  <1>6. LinkedFields'
    BY DEF LinkedFields
  <1>7. HeldFields'
    BY DEF HeldFields
  <1>8. FilledAreLinked'
    BY DEF FilledAreLinked, NodeBasket, Holds, Holding
  <1>9. KeysUnique'
    BY DEF KeysUnique, Linked
  <1>10. LocksHeld'
    BY DEF LocksHeld, NodeBasket, MyBasket, Holds, Holding
  <1>11. SearchCurrent'
    BY DEF SearchCurrent, MyBasket
  <1>12. GetsOwnKey'
    BY DEF GetsOwnKey, TypeOK
  <1> QED
    BY <1>1, <1>2, <1>3, <1>4, <1>5, <1>6, <1>7, <1>8, <1>9, <1>10, <1>11, <1>12

(***************************************************************************)
(* The invariant, and what follows from it.                                *)
(***************************************************************************)
LEMMA InitInv == Init => IInv
  <1> SUFFICES ASSUME Init PROVE IInv
    OBVIOUS
  <1>1. TypeOK
    BY ZeroIsNode DEF Init, TypeOK, PC
  <1>2. ArgumentsKept /\ HeldFields /\ SearchCurrent /\ GetsOwnKey
    BY DEF Init, ArgumentsKept, HeldFields, SearchCurrent, GetsOwnKey, Inserting, Holding
  <1>3. OneHolder /\ UnlockedWritesUnseen /\ EvictedIsLinked /\ FilledAreLinked
    BY DEF Init, OneHolder, UnlockedWritesUnseen, EvictedIsLinked, FilledAreLinked, Holds, Holding
  <1>4. LinkedFields /\ KeysUnique /\ LocksHeld
    BY DEF Init, LinkedFields, KeysUnique, LocksHeld, Linked
  <1> QED
    BY <1>1, <1>2, <1>3, <1>4 DEF IInv

LEMMA StutterInv == IInv /\ UNCHANGED vars => IInv'
  <1> SUFFICES ASSUME IInv, UNCHANGED vars PROVE IInv'
    OBVIOUS
  <1> USE DEF IInv, vars, pool, nodes, locks, frame
  <1>1. TypeOK' /\ ArgumentsKept' /\ LinkedFields' /\ HeldFields' /\ GetsOwnKey'
    BY DEF TypeOK, ArgumentsKept, LinkedFields, HeldFields, GetsOwnKey
  <1>2. OneHolder' /\ FilledAreLinked'
    BY DEF OneHolder, FilledAreLinked, Holds, NodeBasket
  <1>3. UnlockedWritesUnseen' /\ EvictedIsLinked' /\ KeysUnique'
    BY DEF UnlockedWritesUnseen, EvictedIsLinked, KeysUnique, Linked, NodeBasket
  <1>4. LocksHeld' /\ SearchCurrent'
    BY DEF LocksHeld, SearchCurrent, MyBasket, NodeBasket
  <1> QED
    BY <1>1, <1>2, <1>3, <1>4

LEMMA NextInv == IInv /\ [Next]_vars => IInv'
  <1> SUFFICES ASSUME IInv, [Next]_vars PROVE IInv'
    OBVIOUS
  <1>1. CASE UNCHANGED vars
    BY <1>1, StutterInv
  <1>2. ASSUME NEW t \in Thread, Call(t) PROVE IInv'
    BY <1>2, CallInsertInv, CallGetInv DEF Call
  <1>3. ASSUME NEW t \in Thread, Insertion(t) PROVE IInv'
    BY <1>3, FetchIdInv, WrapIdInv, TakeNodeInv, CheckKeyInv, LockToEvictInv, UnlinkInv,
       ClearNodeInv, FillNodeInv, LockToInsertInv, InsertNInv, ReleaseInv DEF Insertion
  <1>4. ASSUME NEW t \in Thread, Lookup(t) PROVE IInv'
    BY <1>4, LockToGetInv, ReadDataInv, ReturnDataInv DEF Lookup
  <1> QED
    BY <1>1, <1>2, <1>3, <1>4 DEF Next, Step

\* IInv holds in every reachable state of the cache.
THEOREM Invariance == Spec => []IInv
  <1> QED
    BY InitInv, NextInv, PTL DEF Spec

\* Every field of the cache keeps a value of its type, whatever the threads do.
THEOREM TypeCorrectness == Spec => []TypeOK
  <1>1. IInv => TypeOK
    BY DEF IInv
  <1> QED
    BY <1>1, Invariance, PTL

\* in_use alone, without a lock, hands each pool node to one insertion at a
\* time and is always given back.
THEOREM AllocationExclusive == Spec => []OneHolder
  <1>1. IInv => OneHolder
    BY DEF IInv
  <1> QED
    BY <1>1, Invariance, PTL

\* No list reaches a node while insertNode or clear() writes it without a lock.
THEOREM NoUnlockedSharing == Spec => []UnlockedWritesUnseen
  <1>1. IInv => UnlockedWritesUnseen
    BY DEF IInv
  <1> QED
    BY <1>1, Invariance, PTL

\* A node to evict is in the list that is locked to evict it, although its key
\* was read before the lock.
THEOREM EvictionFindsItsNode == Spec => []EvictedIsLinked
  <1>1. IInv => EvictedIsLinked
    BY DEF IInv
  <1> QED
    BY <1>1, Invariance, PTL

\* A key is in one linked node at most, whoever inserts it concurrently.
THEOREM KeysStayUnique == Spec => []KeysUnique
  <1>1. IInv => KeysUnique
    BY DEF IInv
  <1> QED
    BY <1>1, Invariance, PTL

\* getData never returns the data of another key.
THEOREM LookupReturnsOwnKey == Spec => []GetsOwnKey
  <1>1. IInv => GetsOwnKey
    BY DEF IInv
  <1> QED
    BY <1>1, Invariance, PTL

\* Outside an insertion, a node with a key is in its own basket and no other.
THEOREM NoItemLost == Spec => []ItemsAreLinked
  <1>1. IInv => ItemsAreLinked
    <2> SUFFICES ASSUME IInv, NEW n \in Node, key[n] # NoKey, ~in_use[n], NEW b \in Basket
                 PROVE  n \in baskets[b] <=> b = BasketId(Hash[key[n]])
      BY DEF ItemsAreLinked
    <2>1. \A t \in Thread : ~Holds(t, n)
      BY DEF IInv, OneHolder
    <2>2. n \in baskets[NodeBasket(n)] /\ NodeBasket(n) \in Basket
      BY <2>1, BasketIdType DEF IInv, FilledAreLinked, NodeBasket, TypeOK
    <2>3. NodeBasket(n) = BasketId(Hash[key[n]])
      BY <2>2 DEF IInv, LinkedFields, NodeBasket
    <2>4. n \in baskets[b] => b = NodeBasket(n)
      BY DEF IInv, LinkedFields, NodeBasket
    <2> QED
      BY <2>2, <2>3, <2>4
  <1> QED
    BY <1>1, Invariance, PTL

(***************************************************************************)
(* The allocation counter.                                                 *)
(***************************************************************************)
\* node3_pool_id exceeds l_capacity by no more than the number of threads that
\* still have to store 0; the bound is inductive with the type invariant.
THEOREM CounterBounded ==
    ASSUME IsFiniteSet(Thread)
    PROVE  Spec => []PoolIdBounded
  <1> DEFINE Wrapping == {t \in Thread : pc[t] = "wrap"}
  <1>1. Init => PoolIdBounded
    <2> SUFFICES ASSUME Init PROVE PoolIdBounded
      OBVIOUS
    <2>1. Wrapping = {}
      BY DEF Init
    <2>2. Cardinality(Wrapping) = 0
      BY <2>1, FS_EmptySet
    <2>3. node3_pool_id = 0
      BY DEF Init
    <2> QED
      BY <2>2, <2>3, CapacityAssumption DEF PoolIdBounded
  <1>2. TypeOK /\ PoolIdBounded /\ [Next]_vars => PoolIdBounded'
    <2> SUFFICES ASSUME TypeOK, PoolIdBounded, [Next]_vars PROVE PoolIdBounded'
      OBVIOUS
    <2> USE DEF pool, nodes, locks, frame
    <2>1. /\ IsFiniteSet(Wrapping) /\ Cardinality(Wrapping) \in Nat
          /\ IsFiniteSet(Wrapping') /\ Cardinality(Wrapping') \in Nat
      BY FS_Subset, FS_CardinalityType
    <2>2. ASSUME NEW t \in Thread, FetchId(t) PROVE PoolIdBounded'
      <3>1. CASE node3_pool_id < Capacity
        BY <2>1, <2>2, <3>1, CapacityAssumption DEF FetchId, PoolIdBounded, TypeOK
      <3>2. CASE node3_pool_id >= Capacity
        <4>1. t \notin Wrapping /\ Wrapping' = Wrapping \cup {t}
          BY <2>2, <3>2 DEF FetchId, TypeOK
        <4>2. Cardinality(Wrapping') = Cardinality(Wrapping) + 1
          BY <2>1, <4>1, FS_AddElement
        <4> QED
          BY <2>1, <2>2, <4>2, CapacityAssumption DEF FetchId, PoolIdBounded, TypeOK
      <3> QED
        BY <3>1, <3>2, CapacityAssumption DEF TypeOK
    <2>3. ASSUME NEW t \in Thread, WrapId(t) PROVE PoolIdBounded'
      BY <2>1, <2>3, CapacityAssumption DEF WrapId, PoolIdBounded
    <2>4. CASE Wrapping' = Wrapping /\ node3_pool_id' = node3_pool_id
      BY <2>4 DEF PoolIdBounded
    <2>5. ASSUME NEW t \in Thread, Call(t) PROVE PoolIdBounded'
      BY <2>4, <2>5 DEF Call, CallInsert, CallGet, Goto, TypeOK
    <2>6. ASSUME NEW t \in Thread, TakeNode(t) \/ CheckKey(t) PROVE PoolIdBounded'
      BY <2>4, <2>6 DEF TakeNode, CheckKey, TypeOK
    <2>7. ASSUME NEW t \in Thread,
                 LockToEvict(t) \/ Unlink(t) \/ ClearNode(t) \/ FillNode(t)
          PROVE  PoolIdBounded'
      BY <2>4, <2>7 DEF LockToEvict, Unlink, ClearNode, FillNode, Goto, TypeOK
    <2>8. ASSUME NEW t \in Thread, LockToInsert(t) \/ InsertN(t) \/ Release(t)
          PROVE  PoolIdBounded'
      BY <2>4, <2>8 DEF LockToInsert, InsertN, Release, Goto, TypeOK
    <2>9. ASSUME NEW t \in Thread, Lookup(t) PROVE PoolIdBounded'
      BY <2>4, <2>9 DEF Lookup, LockToGet, ReadData, ReturnData, Goto, TypeOK
    <2>10. CASE UNCHANGED vars
      BY <2>4, <2>10 DEF vars
    <2> QED
      BY <2>2, <2>3, <2>5, <2>6, <2>7, <2>8, <2>9, <2>10 DEF Next, Step, Insertion
  <1> QED
    BY <1>1, <1>2, TypeCorrectness, PTL DEF Spec

(***************************************************************************)
(* OnCacheMLRU implements CacheMap.  Two steps change what is stored:      *)
(* Unlink takes one item away, and InsertN puts the item of its thread in, *)
(* linked or moved into the node that has the key.  All other writes go to *)
(* nodes that no list reaches (IInv), and are not seen.                    *)
(***************************************************************************)

\* What a linked node holds is what is stored under its key, and nothing else
\* is stored.
StoreExact ==
    /\ \A n \in Linked : key[n] \in Key /\ data[n] \in Data /\ mapStore[key[n]] = data[n]
    /\ \A k \in Key : mapStore[k] # NoData => \E n \in Linked : key[n] = k

\* One linked node has the key, by KeysUnique.
LEMMA StoreIsExact == IInv => StoreExact
  <1> SUFFICES ASSUME IInv PROVE StoreExact
    OBVIOUS
  <1>1. ASSUME NEW n \in Linked
        PROVE  key[n] \in Key /\ data[n] \in Data /\ mapStore[key[n]] = data[n]
    <2>1. key[n] \in Key /\ data[n] \in Data
      BY <1>1 DEF IInv, LinkedFields, Linked
    <2>2. n \in StoredUnder(key[n])
      BY <1>1 DEF StoredUnder
    <2>3. (CHOOSE m \in StoredUnder(key[n]) : TRUE) \in StoredUnder(key[n])
      BY <2>2
    <2>4. (CHOOSE m \in StoredUnder(key[n]) : TRUE) = n
      BY <1>1, <2>3 DEF StoredUnder, IInv, KeysUnique
    <2> QED
      BY <2>1, <2>2, <2>4 DEF mapStore
  <1>2. ASSUME NEW k \in Key, mapStore[k] # NoData
        PROVE  \E n \in Linked : key[n] = k
    <2>1. StoredUnder(k) # {}
      BY <1>2 DEF mapStore
    <2> QED
      BY <2>1 DEF StoredUnder
  <1> QED
    BY <1>1, <1>2 DEF StoreExact

LEMMA NoDataIsNoItem == NoData \notin Data
  BY NullAssumption DEF Data

\* The number of items is bounded by the pool, as each has a node of its own.
\* (Cardinality is taken from CacheMap, as its Store(t) means that one.)
StoreBounded == Map!Cardinality(Map!Stored) <= Capacity

LEMMA StoredFits == StoreExact => StoreBounded
  <1> SUFFICES ASSUME StoreExact PROVE Cardinality(Map!Stored) <= Capacity
    BY DEF StoreBounded, Map!Cardinality, Cardinality
  <1> DEFINE S == Map!Stored
             f == [k \in S |-> CHOOSE n \in Linked : key[n] = k]
  <1>1. \A k \in S : f[k] \in Linked /\ key[f[k]] = k
    BY DEF StoreExact, Map!Stored
  <1>2. f \in [S -> Node]
    BY <1>1 DEF Linked
  <1>3. \A k, l \in S : f[k] = f[l] => k = l
    BY <1>1
  <1>4. f \in Injection(S, Node)
    BY <1>2, <1>3 DEF Injection, IsInjective
  <1>5. IsFiniteSet(Node) /\ Cardinality(Node) = Capacity
    BY CapacityAssumption, FS_Interval DEF Node
  <1>6. Cardinality(S) <= Cardinality(Node)
    <2> HIDE DEF S, f
    <2> QED
      BY <1>4, <1>5, FS_Injection
  <1> QED
    BY <1>5, <1>6

(***************************************************************************)
(* How the steps change what is stored.                                    *)
(***************************************************************************)
\* Writes to nodes that no list reaches are not seen.
LEMMA StoreKept ==
    ASSUME StoreExact, StoreExact', Linked' = Linked,
           \A n \in Linked : key'[n] = key[n] /\ data'[n] = data[n]
    PROVE  mapStore' = mapStore
  <1>1. \A k \in Key : mapStore'[k] = mapStore[k]
    <2> SUFFICES ASSUME NEW k \in Key PROVE mapStore'[k] = mapStore[k]
      OBVIOUS
    <2>1. CASE \E n \in Linked : key[n] = k
      BY <2>1 DEF StoreExact
    <2>2. CASE ~ \E n \in Linked : key[n] = k
      BY <2>2 DEF StoreExact
    <2> QED
      BY <2>1, <2>2
  <1> QED
    BY <1>1 DEF mapStore

\* An eviction removes the item of its node.
LEMMA UnlinkStore ==
    ASSUME IInv, StoreExact, StoreExact', NEW t \in Thread, Unlink(t)
    PROVE  \E k \in Map!Stored : mapStore' = [mapStore EXCEPT ![k] = NoData]
  <1> DEFINE n == re[t]
  <1>1. /\ pc[t] = "unlink" /\ key' = key /\ data' = data
        /\ baskets' = [baskets EXCEPT ![NodeBasket(n)] = @ \ {n}]
    BY DEF Unlink, Goto
  <1>2. n \in Node /\ NodeBasket(n) \in Basket /\ n \in baskets[NodeBasket(n)]
    BY <1>1, BasketIdType DEF IInv, TypeOK, EvictedIsLinked, NodeBasket
  <1>3. n \in Linked /\ \A b \in Basket : n \in baskets[b] => b = NodeBasket(n)
    BY <1>2 DEF Linked, IInv, LinkedFields, NodeBasket
  <1>4. Linked' = Linked \ {n}
    BY <1>1, <1>2, <1>3 DEF Linked, IInv, TypeOK
  <1>5. \A m \in Linked \ {n} : key[m] # key[n]
    BY <1>3 DEF IInv, KeysUnique
  <1>6. key[n] \in Map!Stored
    BY <1>3, NoDataIsNoItem DEF StoreExact, Map!Stored
  <1>7. \A k \in Key : mapStore'[k] = IF k = key[n] THEN NoData ELSE mapStore[k]
    <2>1. mapStore'[key[n]] = NoData
      BY <1>1, <1>4, <1>5, <1>6 DEF StoreExact, Map!Stored
    <2>2. ASSUME NEW k \in Key, k # key[n] PROVE mapStore'[k] = mapStore[k]
      <3>1. CASE \E m \in Linked : key[m] = k
        BY <1>1, <1>4, <2>2, <3>1 DEF StoreExact
      <3>2. CASE ~ \E m \in Linked : key[m] = k
        BY <1>1, <1>4, <3>2 DEF StoreExact
      <3> QED
        BY <3>1, <3>2
    <2> QED
      BY <2>1, <2>2
  <1>8. /\ mapStore = [k \in Key |-> mapStore[k]]
        /\ mapStore' = [k \in Key |-> mapStore'[k]]
    BY DEF mapStore
  <1>9. mapStore' = [mapStore EXCEPT ![key[n]] = NoData]
    BY <1>7, <1>8
  <1> QED
    BY <1>6, <1>9

\* An insertion stores its item under its key.
LEMMA InsertNStore ==
    ASSUME IInv, StoreExact, StoreExact', NEW t \in Thread, InsertN(t)
    PROVE  mapStore' = [mapStore EXCEPT ![item[t][1]] = item[t]]
  <1>1. pc[t] = "insert"
    BY DEF InsertN, Goto
  <1>2. PICK n \in Linked' : /\ key'[n] = arg[t] /\ data'[n] = item[t]
                             /\ Linked' = Linked \cup {n}
                             /\ \A m \in Linked \ {n} : key'[m] = key[m] /\ data'[m] = data[m]
                             /\ n \in Linked => key[n] = arg[t]
    <2>1. CASE cur[t] = NoNode
      <3>1. /\ key' = key /\ data' = data
            /\ baskets' = [baskets EXCEPT ![MyBasket(t)] = @ \cup {re[t]}]
        BY <2>1, InsertEffect
      <3>2. Linked' = Linked \cup {re[t]}
        BY <1>1, <3>1, InsertFacts DEF Linked, IInv, TypeOK
      <3> QED
        BY <1>1, <2>1, <3>1, <3>2, InsertFacts
    <2>2. CASE cur[t] # NoNode
      <3>1. /\ baskets' = baskets /\ data'[cur[t]] = item[t]
            /\ \A m \in Node : m # re[t] => key'[m] = key[m]
            /\ \A m \in Node : m # re[t] /\ m # cur[t] => data'[m] = data[m]
        BY <2>2, InsertEffect
      <3>2. /\ cur[t] \in baskets[MyBasket(t)] /\ MyBasket(t) \in Basket /\ cur[t] # re[t]
            /\ key[cur[t]] = arg[t]
        BY <1>1, <2>2, InsertFacts
      <3>3. cur[t] \in Linked /\ Linked' = Linked /\ re[t] \notin Linked /\ Linked \subseteq Node
        BY <1>1, <3>1, <3>2, InsertFacts DEF Linked, IInv, TypeOK
      <3> QED
        BY <3>1, <3>2, <3>3
    <2> QED
      BY <2>1, <2>2
  <1>3. arg[t] \in Key /\ item[t][1] = arg[t]
    BY <1>1, InsertFacts
  <1>4. \A k \in Key : mapStore'[k] = IF k = arg[t] THEN item[t] ELSE mapStore[k]
    <2>1. mapStore'[arg[t]] = item[t]
      BY <1>2 DEF StoreExact
    <2>2. ASSUME NEW k \in Key, k # arg[t] PROVE mapStore'[k] = mapStore[k]
      <3>1. CASE \E m \in Linked : key[m] = k
        <4>1. PICK m \in Linked : key[m] = k
          BY <3>1
        <4>2. m # n => m \in Linked' /\ key'[m] = k /\ data'[m] = data[m]
          BY <1>2, <4>1
        <4>3. CASE m # n
          BY <4>1, <4>2, <4>3 DEF StoreExact
        <4>4. CASE m = n
          BY <1>2, <2>2, <4>1, <4>4
        <4> QED
          BY <4>3, <4>4
      <3>2. CASE ~ \E m \in Linked : key[m] = k
        <4>1. ~ \E m \in Linked' : key'[m] = k
          BY <1>2, <2>2, <3>2
        <4> QED
          BY <3>2, <4>1 DEF StoreExact
      <3> QED
        BY <3>1, <3>2
    <2> QED
      BY <2>1, <2>2
  <1> QED
    BY <1>3, <1>4 DEF mapStore

(***************************************************************************)
(* The calls, as CacheMap sees them.                                       *)
(***************************************************************************)
CallOf(p, k, d, r) ==
    CASE p = "idle" -> [type |-> "idle"]
      [] p \in {"get", "read"} -> [type |-> "get", key |-> k]
      [] p = "got" -> [type |-> "got", key |-> k, data |-> r]
      [] OTHER -> [type |-> PutPhase(p), data |-> d]

LEMMA MapCallIs ==
    mapCall = [t \in Thread |-> CallOf(pc[t], arg[t], item[t], ret[t])]
  BY DEF mapCall, CallOf

LEMMA MapCallWillBe ==
    mapCall' = [t \in Thread |-> CallOf(pc'[t], arg'[t], item'[t], ret'[t])]
  BY DEF mapCall, CallOf

\* A step moves its own call on, and no other.
LEMMA CallMoves ==
    ASSUME TypeOK, NEW t \in Thread, Call(t) \/ Step(t)
    PROVE  mapCall' = [mapCall EXCEPT ![t] = CallOf(pc'[t], arg'[t], item'[t], ret'[t])]
  <1>1. \A u \in Thread \ {t} : /\ pc'[u] = pc[u] /\ arg'[u] = arg[u]
                                /\ item'[u] = item[u] /\ ret'[u] = ret[u]
    <2>1. CASE Call(t)
      BY <2>1 DEF Call, CallInsert, CallGet, Goto, TypeOK
    <2>2. CASE FetchId(t) \/ WrapId(t) \/ TakeNode(t) \/ CheckKey(t)
      BY <2>2 DEF FetchId, WrapId, TakeNode, CheckKey, Goto, TypeOK, frame
    <2>3. CASE LockToEvict(t) \/ Unlink(t) \/ ClearNode(t) \/ FillNode(t)
      BY <2>3 DEF LockToEvict, Unlink, ClearNode, FillNode, Goto, TypeOK, frame
    <2>4. CASE LockToInsert(t) \/ InsertN(t) \/ Release(t)
      BY <2>4 DEF LockToInsert, InsertN, Release, Goto, TypeOK, frame
    <2>5. CASE Lookup(t)
      BY <2>5 DEF Lookup, LockToGet, ReadData, ReturnData, Goto, TypeOK
    <2> QED
      BY <2>1, <2>2, <2>3, <2>4, <2>5 DEF Step, Insertion
  <1> QED
    BY <1>1, MapCallIs, MapCallWillBe

(***************************************************************************)
(* Every step is one of CacheMap or none.                                  *)
(***************************************************************************)
LEMMA StepIsMap ==
    ASSUME IInv, StoreExact, StoreExact', StoreBounded', NEW t \in Thread, Call(t) \/ Step(t)
    PROVE  Map!Next \/ UNCHANGED <<mapStore, mapCall>>
  <1> DEFINE c == CallOf(pc[t], arg[t], item[t], ret[t])
             d == CallOf(pc'[t], arg'[t], item'[t], ret'[t])
  <1>1. TypeOK /\ mapCall' = [mapCall EXCEPT ![t] = d] /\ mapCall[t] = c
    BY CallMoves, MapCallIs DEF IInv
  <1>2. mapCall = [u \in Thread |-> mapCall[u]]
    BY MapCallIs
  <1>3. ASSUME UNCHANGED nodes PROVE mapStore' = mapStore
    BY <1>3, StoreKept DEF nodes, Linked
  <1>4. ASSUME UNCHANGED nodes, c = d PROVE UNCHANGED <<mapStore, mapCall>>
    BY <1>1, <1>2, <1>3, <1>4
  <1> HIDE DEF c, d
  <1>5. CASE Call(t)
    <2>1. ASSUME NEW x \in Data, CallInsert(t, x) PROVE Map!CallInsert(t, x)
      <3>1. UNCHANGED nodes /\ c = [type |-> "idle"] /\ d = [type |-> "put", data |-> x]
        BY <1>1, <2>1 DEF CallInsert, Goto, TypeOK, c, d, CallOf, PutPhase
      <3> QED
        BY <1>1, <1>3, <3>1 DEF Map!CallInsert, Map!Idle
    <2>2. ASSUME NEW k \in Key, CallGet(t, k) PROVE Map!CallGet(t, k)
      <3>1. UNCHANGED nodes /\ c = [type |-> "idle"] /\ d = [type |-> "get", key |-> k]
        BY <1>1, <2>2 DEF CallGet, Goto, TypeOK, c, d, CallOf
      <3> QED
        BY <1>1, <1>3, <3>1 DEF Map!CallGet, Map!Idle
    <2> QED
      BY <1>5, <2>1, <2>2 DEF Call, Map!Next, Map!Data, Data
  <1>6. CASE FetchId(t) \/ WrapId(t) \/ TakeNode(t) \/ LockToEvict(t)
    <2>1. UNCHANGED nodes /\ c = d
      BY <1>1, <1>6 DEF FetchId, WrapId, TakeNode, LockToEvict, Goto, TypeOK, frame,
                       c, d, CallOf, PutPhase
    <2> QED
      BY <1>4, <2>1
  <1>7. CASE CheckKey(t)
    <2>1. /\ UNCHANGED nodes /\ c = [type |-> "put", data |-> item[t]]
          /\ c = d \/ d = [type |-> "room", data |-> item[t]]
      BY <1>1, <1>7 DEF CheckKey, Goto, TypeOK, frame, c, d, CallOf, PutPhase
    <2>2. ASSUME c # d PROVE Map!MakeRoom(t)
      <3>1. mapCall[t].type = "put" /\ mapCall[t].data = item[t]
        BY <1>1, <2>1
      <3>2. mapCall' = [mapCall EXCEPT ![t] = Map!Put(t, "room")]
        BY <1>1, <2>1, <2>2, <3>1 DEF Map!Put
      <3> QED
        BY <1>3, <2>1, <3>1, <3>2 DEF Map!MakeRoom
    <2> QED
      BY <1>4, <2>1, <2>2 DEF Map!Next
  <1>8. CASE Unlink(t)
    <2>1. c = [type |-> "put", data |-> item[t]] /\ d = [type |-> "room", data |-> item[t]]
      BY <1>1, <1>8 DEF Unlink, Goto, TypeOK, frame, c, d, CallOf, PutPhase
    <2>2. Map!MakeRoom(t)
      BY <1>1, <1>8, <2>1, UnlinkStore DEF Map!MakeRoom, Map!Put
    <2> QED
      BY <2>2 DEF Map!Next
  <1>9. CASE ClearNode(t) \/ FillNode(t) \/ LockToInsert(t)
    <2>1. c = d
      BY <1>1, <1>9 DEF ClearNode, FillNode, LockToInsert, Goto, TypeOK, frame,
                       c, d, CallOf, PutPhase
    <2>2. re[t] \notin Linked
      BY <1>9 DEF ClearNode, FillNode, LockToInsert, Goto, IInv, UnlockedWritesUnseen
    <2>3. Linked' = Linked /\ \A n \in Linked : key'[n] = key[n] /\ data'[n] = data[n]
      BY <1>1, <1>9, <2>2 DEF ClearNode, FillNode, LockToInsert, nodes, Linked, TypeOK
    <2> QED
      BY <1>1, <1>2, <2>1, <2>3, StoreKept
  <1>10. CASE InsertN(t)
    <2>1. c = [type |-> "room", data |-> item[t]] /\ d = [type |-> "stored", data |-> item[t]]
      BY <1>1, <1>10 DEF InsertN, Goto, TypeOK, c, d, CallOf, PutPhase
    <2>2. Map!Cardinality(Map!Stored') <= Capacity
      BY DEF StoreBounded
    <2>3. mapCall[t].type = "room" /\ mapCall[t].data = item[t]
      BY <1>1, <2>1
    <2>4. mapCall' = [mapCall EXCEPT ![t] = Map!Put(t, "stored")]
      BY <1>1, <2>1, <2>3 DEF Map!Put
    <2>5. Map!Store(t)
      BY <1>10, <2>2, <2>3, <2>4, InsertNStore DEF Map!Store
    <2> QED
      BY <2>5 DEF Map!Next
  <1>11. CASE Release(t) \/ ReturnData(t)
    <2>1. /\ UNCHANGED nodes /\ d = [type |-> "idle"]
          /\ c.type = "stored" \/ c.type = "got"
      BY <1>1, <1>11 DEF Release, ReturnData, Goto, TypeOK, c, d, CallOf, PutPhase
    <2>2. Map!Return(t)
      BY <1>1, <1>3, <2>1 DEF Map!Return, Map!Idle
    <2> QED
      BY <2>2 DEF Map!Next
  <1>12. CASE LockToGet(t)
    <2>1. UNCHANGED nodes /\ c = d
      BY <1>1, <1>12 DEF LockToGet, Goto, TypeOK, c, d, CallOf
    <2> QED
      BY <1>4, <2>1
  <1>13. CASE ReadData(t)
    <2>1. /\ UNCHANGED nodes /\ c = [type |-> "get", key |-> arg[t]]
          /\ d = [type |-> "got", key |-> arg[t], data |-> ret'[t]]
          /\ ret'[t] = IF cur[t] = NoNode THEN NoData ELSE data[cur[t]]
      BY <1>1, <1>13 DEF ReadData, Goto, TypeOK, c, d, CallOf
    <2>2. ret'[t] = mapStore[arg[t]]
      <3>1. pc[t] = "read" /\ arg[t] \in Key /\ MyBasket(t) \in Basket
        BY <1>13, MyBasketType DEF ReadData, Goto, IInv
      <3>2. CASE cur[t] = NoNode
        <4>1. \A n \in Linked : key[n] # arg[t]
          BY <3>1, <3>2 DEF IInv, SearchCurrent, LinkedFields, Linked, MyBasket
        <4> QED
          BY <2>1, <3>1, <3>2, <4>1 DEF StoreExact
      <3>3. CASE cur[t] # NoNode
        <4>1. cur[t] \in Linked /\ key[cur[t]] = arg[t]
          BY <1>1, <3>1, <3>3 DEF IInv, SearchCurrent, Linked, TypeOK
        <4> QED
          BY <2>1, <3>3, <4>1 DEF StoreExact
      <3> QED
        BY <3>2, <3>3
    <2>3. mapCall[t].type = "get" /\ mapCall[t].key = arg[t]
      BY <1>1, <2>1
    <2>4. mapCall' = [mapCall EXCEPT ![t] = Map!Got(t, mapStore[mapCall[t].key])]
      BY <1>1, <2>1, <2>2, <2>3 DEF Map!Got
    <2>5. Map!Read(t)
      BY <1>3, <2>1, <2>3, <2>4 DEF Map!Read
    <2> QED
      BY <2>5 DEF Map!Next
  <1> QED
    BY <1>5, <1>6, <1>7, <1>8, <1>9, <1>10, <1>11, <1>12, <1>13
       DEF Step, Insertion, Lookup

\* Whatever the threads do, the callers see a bounded lossy map whose calls
\* take effect one at a time, and an insertion costs at most one item.
THEOREM CacheIsMap == Spec => ImplementsMap
  <1>1. Init => Map!Init
    <2> SUFFICES ASSUME Init PROVE Map!Init
      OBVIOUS
    <2>1. \A k \in Key : StoredUnder(k) = {}
      BY DEF Init, StoredUnder, Linked
    <2>2. mapStore = [k \in Key |-> NoData]
      BY <2>1 DEF mapStore
    <2>3. mapCall = [t \in Thread |-> [type |-> "idle"]]
      BY DEF Init, mapCall
    <2> QED
      BY <2>2, <2>3 DEF Map!Init, Map!Idle
  <1>2. IInv /\ StoreExact /\ StoreExact' /\ StoreBounded' /\ [Next]_vars => [Map!Next]_Map!vars
    <2> SUFFICES ASSUME IInv, StoreExact, StoreExact', StoreBounded', [Next]_vars
                 PROVE  [Map!Next]_Map!vars
      OBVIOUS
    <2>1. CASE UNCHANGED vars
      <3>1. UNCHANGED mapStore
        BY <2>1, StoreKept DEF vars, nodes, Linked
      <3>2. UNCHANGED mapCall
        BY <2>1, MapCallIs, MapCallWillBe DEF vars, frame
      <3> QED
        BY <3>1, <3>2 DEF Map!vars
    <2>2. ASSUME NEW t \in Thread, Call(t) \/ Step(t) PROVE [Map!Next]_Map!vars
      BY <2>2, StepIsMap DEF Map!vars
    <2> QED
      BY <2>1, <2>2 DEF Next
  <1> QED
    BY <1>1, <1>2, StoreIsExact, StoredFits, Invariance, PTL DEF Spec, ImplementsMap, Map!Spec

(***************************************************************************)
(* OnCacheMMRU.  Hiding the use counts maps each of its steps to a step of *)
(* OnCacheMLRU or to no step, so that every invariant proved of            *)
(* OnCacheMLRU holds of OnCacheMMRU too.                                   *)
(***************************************************************************)
\* A step of OnCacheMMRU is a step of OnCacheMLRU or changes only the counts.
LEMMA StepMaps == [MMRUNext]_mmruVars => [Next]_vars
  <1> SUFFICES ASSUME [MMRUNext]_mmruVars PROVE [Next]_vars
    OBVIOUS
  <1>1. ASSUME NEW t \in Thread, LoadUsed(t) \/ StoreUsed(t) PROVE UNCHANGED vars
    BY <1>1 DEF LoadUsed, StoreUsed
  <1>2. ASSUME NEW t \in Thread, TakeUsed(t) \/ ClearUsed(t) \/ InsertUsed(t) PROVE Next
    BY <1>2 DEF TakeUsed, ClearUsed, InsertUsed, Next, Step, Insertion
  <1>3. ASSUME NEW t \in Thread, AllocNode(t) PROVE Next
    BY <1>3 DEF AllocNode, Next, Step, Insertion
  <1>4. ASSUME NEW t \in Thread, InsertNode(t) PROVE Next
    BY <1>4 DEF InsertNode, Next, Call, Step, Insertion
  <1>5. ASSUME NEW t \in Thread, CountUse(t) \/ GetData(t) PROVE Next
    BY <1>5 DEF CountUse, GetData, Next, Step, Lookup
  <1>6. ASSUME NEW t \in Thread, NEW k \in Key, CallGetUsed(t, k) PROVE Next
    BY <1>6 DEF CallGetUsed, Next, Call
  <1>7. CASE UNCHANGED mmruVars
    BY <1>7 DEF mmruVars
  <1> QED
    BY <1>1, <1>2, <1>3, <1>4, <1>5, <1>6, <1>7 DEF MMRUNext

\* OnCacheMMRU implements OnCacheMLRU, whatever the counts and the limit are.
THEOREM MMRUImplementsMLRU == MMRUSpec => ImplementsMLRU
  <1>1. MMRUInit => Init
    BY DEF MMRUInit
  <1> QED
    BY <1>1, StepMaps, PTL DEF MMRUSpec, ImplementsMLRU, Spec

\* OnCacheMMRU too is a bounded lossy map to its callers.
THEOREM MMRUIsMap == MMRUSpec => ImplementsMap
  BY MMRUImplementsMLRU, CacheIsMap, PTL DEF ImplementsMLRU

\* The safety of the node pool, of the lists and of the results carries over.
THEOREM MMRUSafety ==
    MMRUSpec => [](OneHolder /\ UnlockedWritesUnseen /\ EvictedIsLinked
                   /\ KeysUnique /\ GetsOwnKey)
  <1>1. IInv => OneHolder /\ UnlockedWritesUnseen /\ EvictedIsLinked
                /\ KeysUnique /\ GetsOwnKey
    BY DEF IInv
  <1> QED
    BY <1>1, MMRUImplementsMLRU, Invariance, PTL DEF ImplementsMLRU

\* No count is ever negative: what is subtracted is subtracted from the value
\* that was compared, and not from the one that is there by then.
THEOREM CountsNeverUnderflow == MMRUSpec => []UsedTypeOK
  <1>1. MMRUInit => UsedTypeOK
    BY UselessnessAssumption DEF MMRUInit, Init, UsedTypeOK
  <1>2. TypeOK /\ UsedTypeOK /\ [MMRUNext]_mmruVars => UsedTypeOK'
    <2> SUFFICES ASSUME TypeOK, UsedTypeOK, [MMRUNext]_mmruVars PROVE UsedTypeOK'
      OBVIOUS
    <2> USE DEF UsedTypeOK
    <2>1. ASSUME NEW t \in Thread, LoadUsed(t) PROVE UsedTypeOK'
      <3>1. used[re[t]] \in Nat
        BY DEF TypeOK
      <3>2. surplus'[t] \in Nat
        BY <2>1, <3>1, UselessnessAssumption DEF LoadUsed
      <3> QED
        BY <2>1, <3>2 DEF LoadUsed, vars
    <2>2. ASSUME NEW t \in Thread, StoreUsed(t) PROVE UsedTypeOK'
      BY <2>2 DEF StoreUsed, vars, TypeOK
    <2>3. ASSUME NEW t \in Thread, TakeUsed(t) PROVE UsedTypeOK'
      BY <2>3 DEF TakeUsed, TakeNode, TypeOK
    <2>4. ASSUME NEW t \in Thread, ClearUsed(t) PROVE UsedTypeOK'
      BY <2>4 DEF ClearUsed, ClearNode, Goto, TypeOK
    <2>5. ASSUME NEW t \in Thread, InsertUsed(t) PROVE UsedTypeOK'
      BY <2>5 DEF InsertUsed, InsertN, Goto, TypeOK
    <2>6. ASSUME NEW t \in Thread, CountUse(t) PROVE UsedTypeOK'
      <3>1. CASE cur[t] = NoNode
        BY <2>6, <3>1 DEF CountUse, ReadData, Goto, TypeOK
      <3>2. CASE cur[t] # NoNode
        BY <2>6, <3>2 DEF CountUse, ReadData, Goto, TypeOK
      <3> QED
        BY <3>1, <3>2
    <2>7. ASSUME NEW t \in Thread, AllocNode(t) PROVE UsedTypeOK'
      <3> USE DEF AllocNode, uses
      <3>1. ASSUME FetchId(t) PROVE UsedTypeOK'
        BY <2>7, <3>1 DEF FetchId, TypeOK
      <3>2. ASSUME WrapId(t) \/ LockToEvict(t) \/ Unlink(t) PROVE UsedTypeOK'
        BY <2>7, <3>2 DEF WrapId, LockToEvict, Unlink, Goto, TypeOK
      <3>3. ASSUME CheckKey(t) PROVE UsedTypeOK'
        BY <2>7, <3>3 DEF CheckKey, TypeOK
      <3> QED
        BY <2>7, <3>1, <3>2, <3>3
    <2>8. ASSUME NEW t \in Thread, InsertNode(t) PROVE UsedTypeOK'
      BY <2>8 DEF InsertNode, uses, CallInsert, FillNode, LockToInsert, Release, Goto, TypeOK
    <2>9. ASSUME NEW t \in Thread, GetData(t) PROVE UsedTypeOK'
      BY <2>9 DEF GetData, uses, LockToGet, ReturnData, Goto, TypeOK
    <2>10. ASSUME NEW t \in Thread, NEW k \in Key, CallGetUsed(t, k) PROVE UsedTypeOK'
      BY <2>10 DEF CallGetUsed, uses, CallGet, Goto, TypeOK
    <2>11. CASE UNCHANGED mmruVars
      BY <2>11 DEF mmruVars, vars, uses
    <2> QED
      BY <2>1, <2>2, <2>3, <2>4, <2>5, <2>6, <2>7, <2>8, <2>9, <2>10, <2>11 DEF MMRUNext
  <1>3. MMRUSpec => []TypeOK
    BY MMRUImplementsMLRU, TypeCorrectness, PTL DEF ImplementsMLRU
  <1> QED
    BY <1>1, <1>2, <1>3, PTL DEF MMRUSpec
=============================================================================
