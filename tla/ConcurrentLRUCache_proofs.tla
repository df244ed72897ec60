----------------------- MODULE ConcurrentLRUCache_proofs -----------------------
(***************************************************************************)
(* Proofs about ConcurrentLRUCache, for every number of threads, keys and  *)
(* nodes and every m_maxSize.  The argument: the accessors that exist are  *)
(* those of calls in progress (LocksOwned), so that an element and its     *)
(* node stay while a call works with them (HeldPinned), and a node on its  *)
(* way into the list or out of it belongs to one thread (PushedApart,      *)
(* MoribundApart).  The links need nothing more than themselves: that they *)
(* agree in both directions is kept by each transaction on the list.  For  *)
(* the order of use the nodes of the list are numbered from m_head to      *)
(* m_tail (Ordered), and the keys are read from that numbering.            *)
(***************************************************************************)
EXTENDS ConcurrentLRUCache, TLAPS, FiniteSetTheorems, WellFoundedInduction,
        NaturalsInduction

(***************************************************************************)
(* The transactions on the list.                                           *)
(***************************************************************************)
LinksAgree ==
    /\ \A n \in InList \cup {m_head} :
          m_next[n] \in InList \cup {m_tail} /\ m_prev[m_next[n]] = n
    /\ \A n \in InList \cup {m_tail} :
          m_prev[n] \in InList \cup {m_head} /\ m_next[m_prev[n]] = n

LinksTyped ==
    /\ m_prev \in [Node \cup ListEnd -> Node \cup {m_head, OutOfListMarker, NullNode}]
    /\ m_next \in [Node \cup ListEnd -> Node \cup {m_tail, NullNode}]

\* pushFront of a node that is not in the list adds that node to it.
LEMMA PushKeepsLinks ==
  ASSUME LinksTyped, LinksAgree, NEW x \in Node, ~isInList(x), pushFront(x)
  PROVE  LinksTyped' /\ LinksAgree' /\ InList' = InList \cup {x}
<1> DEFINE f == m_next[m_head]
<1>1. /\ InList \subseteq Node /\ x \notin InList
      /\ m_head \in Node \cup ListEnd /\ m_tail \in Node \cup ListEnd
      /\ m_head \notin Node /\ m_tail \notin Node /\ m_head # m_tail
      /\ OutOfListMarker \notin Node \cup ListEnd
  BY EndsAssumption DEF InList, ListEnd
<1>2. f \in InList \cup {m_tail} /\ m_prev[f] = m_head /\ f # x
  BY <1>1 DEF LinksAgree
<1>3. /\ m_prev' = [m_prev EXCEPT ![x] = m_head, ![f] = x]
      /\ m_next' = [m_next EXCEPT ![x] = f, ![m_head] = x]
  BY DEF pushFront
<1>4. LinksTyped'
  BY <1>1, <1>2, <1>3 DEF LinksTyped, ListEnd
<1>5. /\ m_prev'[x] = m_head /\ m_prev'[f] = x
      /\ \A n \in (Node \cup ListEnd) \ {x, f} : m_prev'[n] = m_prev[n]
      /\ m_next'[x] = f /\ m_next'[m_head] = x
      /\ \A n \in (Node \cup ListEnd) \ {x, m_head} : m_next'[n] = m_next[n]
  BY <1>1, <1>2, <1>3 DEF LinksTyped
<1>6. InList' = InList \cup {x}
  BY <1>1, <1>2, <1>5 DEF InList, isInList
<1>7. ASSUME NEW n \in InList \cup {x, m_head}
      PROVE  m_next'[n] \in InList \cup {x, m_tail} /\ m_prev'[m_next'[n]] = n
  <2>1. CASE n = x
    BY <1>2, <1>5, <2>1
  <2>2. CASE n = m_head
    BY <1>5, <2>2
  <2>3. CASE n \in InList
    <3>1. m_next'[n] = m_next[n]
      BY <1>1, <1>5, <2>3
    <3>2. m_next[n] \in InList \cup {m_tail} /\ m_prev[m_next[n]] = n
      BY <2>3 DEF LinksAgree
    <3>3. m_next[n] # f /\ m_next[n] # x
      BY <1>1, <1>2, <2>3, <3>2
    <3> QED
      BY <1>1, <1>5, <3>1, <3>2, <3>3
  <2> QED
    BY <2>1, <2>2, <2>3
<1>8. ASSUME NEW n \in InList \cup {x, m_tail}
      PROVE  m_prev'[n] \in InList \cup {x, m_head} /\ m_next'[m_prev'[n]] = n
  <2>1. CASE n = x
    BY <1>5, <2>1
  <2>2. CASE n = f
    BY <1>5, <2>2
  <2>3. CASE n \notin {x, f}
    <3>1. m_prev'[n] = m_prev[n]
      BY <1>1, <1>5, <2>3
    <3>2. m_prev[n] \in InList \cup {m_head} /\ m_next[m_prev[n]] = n
      BY <2>3 DEF LinksAgree
    <3>3. m_prev[n] # m_head
      BY <2>3, <3>2
    <3> QED
      BY <1>1, <1>5, <3>1, <3>2, <3>3
  <2> QED
    BY <2>1, <2>2, <2>3
<1> QED
  BY <1>4, <1>6, <1>7, <1>8 DEF LinksAgree

\* delink of the last node takes that node out.
LEMMA DelinkKeepsLinks ==
  ASSUME LinksTyped, LinksAgree, m_prev[m_tail] # m_head, delink(m_prev[m_tail])
  PROVE  /\ LinksTyped' /\ LinksAgree'
         /\ m_prev[m_tail] \in InList
         /\ InList' = InList \ {m_prev[m_tail]}
<1> DEFINE x == m_prev[m_tail]
           p == m_prev[x]
<1>1. /\ InList \subseteq Node
      /\ m_head \in Node \cup ListEnd /\ m_tail \in Node \cup ListEnd
      /\ m_head \notin Node /\ m_tail \notin Node /\ m_head # m_tail
      /\ OutOfListMarker \notin Node \cup ListEnd
  BY EndsAssumption DEF InList, ListEnd
<1>2. x \in InList /\ m_next[x] = m_tail
  BY DEF LinksAgree
<1>3. p \in InList \cup {m_head} /\ m_next[p] = x /\ p # x
  BY <1>1, <1>2 DEF LinksAgree
<1>4. /\ m_next' = [m_next EXCEPT ![p] = m_tail]
      /\ m_prev' = [m_prev EXCEPT ![m_tail] = p, ![x] = OutOfListMarker]
  BY <1>2 DEF delink
<1>5. LinksTyped'
  BY <1>1, <1>2, <1>3, <1>4 DEF LinksTyped, ListEnd
<1>6. /\ m_prev'[m_tail] = p /\ m_prev'[x] = OutOfListMarker
      /\ \A n \in (Node \cup ListEnd) \ {x, m_tail} : m_prev'[n] = m_prev[n]
      /\ m_next'[p] = m_tail
      /\ \A n \in (Node \cup ListEnd) \ {p} : m_next'[n] = m_next[n]
  BY <1>1, <1>2, <1>3, <1>4 DEF LinksTyped
<1>7. InList' = InList \ {x}
  BY <1>1, <1>2, <1>6 DEF InList, isInList
<1>8. ASSUME NEW n \in (InList \ {x}) \cup {m_head}
      PROVE  m_next'[n] \in (InList \ {x}) \cup {m_tail} /\ m_prev'[m_next'[n]] = n
  <2>1. CASE n = p
    BY <1>6, <2>1
  <2>2. CASE n # p
    <3>1. m_next'[n] = m_next[n]
      BY <1>1, <1>6, <2>2
    <3>2. m_next[n] \in InList \cup {m_tail} /\ m_prev[m_next[n]] = n
      BY DEF LinksAgree
    <3>3. m_next[n] # x /\ m_next[n] # m_tail
      BY <1>1, <1>2, <2>2, <3>2
    <3> QED
      BY <1>1, <1>6, <3>1, <3>2, <3>3
  <2> QED
    BY <2>1, <2>2
<1>9. ASSUME NEW n \in (InList \ {x}) \cup {m_tail}
      PROVE  m_prev'[n] \in (InList \ {x}) \cup {m_head} /\ m_next'[m_prev'[n]] = n
  <2>1. CASE n = m_tail
    BY <1>3, <1>6, <2>1
  <2>2. CASE n # m_tail
    <3>1. m_prev'[n] = m_prev[n]
      BY <1>1, <1>6, <2>2
    <3>2. m_prev[n] \in InList \cup {m_head} /\ m_next[m_prev[n]] = n
      BY DEF LinksAgree
    <3>3. m_prev[n] # x /\ m_prev[n] # p
      BY <1>1, <1>2, <1>3, <2>2, <3>2
    <3> QED
      BY <1>1, <1>6, <3>1, <3>2, <3>3
  <2> QED
    BY <2>1, <2>2
<1> QED
  BY <1>2, <1>5, <1>7, <1>8, <1>9 DEF LinksAgree

\* A node that moves to the front leaves the list as it was, but for the order.
LEMMA MoveKeepsLinks ==
  ASSUME LinksTyped, LinksAgree, NEW x \in Node, isInList(x), MoveToFront(x)
  PROVE  LinksTyped' /\ LinksAgree' /\ InList' = InList
<1>1. CASE m_prev[x] = m_head
  BY <1>1 DEF MoveToFront, list, LinksTyped, LinksAgree, InList, isInList
<1>2. CASE m_prev[x] # m_head
  <2> DEFINE p == m_prev[x]
             q == m_next[x]
             f == m_next[m_head]
  <2>1. /\ InList \subseteq Node /\ x \in InList
        /\ m_head \in Node \cup ListEnd /\ m_tail \in Node \cup ListEnd
        /\ m_head \notin Node /\ m_tail \notin Node /\ m_head # m_tail
        /\ OutOfListMarker \notin Node \cup ListEnd
    BY EndsAssumption DEF InList, ListEnd
  <2>2. /\ p \in InList /\ m_next[p] = x
        /\ q \in InList \cup {m_tail} /\ m_prev[q] = x
        /\ f \in InList \cup {m_tail} /\ m_prev[f] = m_head
    BY <1>2, <2>1 DEF LinksAgree
  <2>3. f # x /\ f # q
    BY <1>2, <2>1, <2>2
  <2>4. /\ m_next' = [m_next EXCEPT ![p] = q, ![x] = f, ![m_head] = x]
        /\ m_prev' = [m_prev EXCEPT ![q] = p, ![x] = m_head, ![f] = x]
    BY <1>2 DEF MoveToFront
  <2>5. LinksTyped'
    BY <2>1, <2>2, <2>4 DEF LinksTyped, ListEnd
  <2>6. /\ m_prev'[x] = m_head /\ m_prev'[f] = x
        /\ q # x => m_prev'[q] = p
        /\ \A n \in (Node \cup ListEnd) \ {x, f, q} : m_prev'[n] = m_prev[n]
        /\ m_next'[x] = f /\ m_next'[m_head] = x
        /\ p # x => m_next'[p] = q
        /\ \A n \in (Node \cup ListEnd) \ {x, p, m_head} : m_next'[n] = m_next[n]
    BY <2>1, <2>2, <2>3, <2>4 DEF LinksTyped
  <2>7. InList' = InList
    BY <2>1, <2>2, <2>6 DEF InList, isInList
  <2>8. ASSUME NEW n \in InList \cup {m_head}
        PROVE  m_next'[n] \in InList \cup {m_tail} /\ m_prev'[m_next'[n]] = n
    <3>1. CASE n \in {x, m_head}
      BY <2>1, <2>2, <2>6, <3>1
    <3>2. CASE n = p /\ p # x
      BY <2>1, <2>2, <2>6, <3>2
    <3>3. CASE n \notin {x, p, m_head}
      <4>1. m_next'[n] = m_next[n]
        BY <2>1, <2>6, <3>3
      <4>2. m_next[n] \in InList \cup {m_tail} /\ m_prev[m_next[n]] = n
        BY DEF LinksAgree
      <4>3. m_next[n] \notin {x, f, q}
        BY <2>2, <3>3, <4>2
      <4> QED
        BY <2>1, <2>6, <4>1, <4>2, <4>3
    <3> QED
      BY <3>1, <3>2, <3>3
  <2>9. ASSUME NEW n \in InList \cup {m_tail}
        PROVE  m_prev'[n] \in InList \cup {m_head} /\ m_next'[m_prev'[n]] = n
    <3>1. CASE n \in {x, f}
      BY <2>1, <2>2, <2>6, <3>1
    <3>2. CASE n = q /\ q # x
      <4>1. p # x
        BY <2>1, <2>2, <3>2
      <4> QED
        BY <2>1, <2>2, <2>6, <3>2, <4>1
    <3>3. CASE n \notin {x, f, q}
      <4>1. m_prev'[n] = m_prev[n]
        BY <2>1, <2>6, <3>3
      <4>2. m_prev[n] \in InList \cup {m_head} /\ m_next[m_prev[n]] = n
        BY DEF LinksAgree
      <4>3. m_prev[n] \notin {x, p, m_head}
        BY <2>2, <3>3, <4>2
      <4> QED
        BY <2>1, <2>6, <4>1, <4>2, <4>3
    <3> QED
      BY <3>1, <3>2, <3>3
  <2> QED
    BY <2>5, <2>7, <2>8, <2>9 DEF LinksAgree
<1> QED
  BY <1>1, <1>2

LEMMA LinksOfIInv ==
  ASSUME IInv
  PROVE  LinksTyped /\ LinksAgree
BY DEF IInv, TypeOK, ListIntact, LinksTyped, LinksAgree

(***************************************************************************)
(* What an accessor, a push and an eviction know of their nodes.           *)
(***************************************************************************)
LEMMA HolderFacts ==
  ASSUME IInv, NEW t \in Thread, Reading(t) \/ Writing(t)
  PROVE  /\ arg[t] \in Key /\ arg[t] \in Stored /\ node[t] \in Node
         /\ m_map[arg[t]] = node[t] /\ m_key[node[t]] = arg[t]
<1>1. arg[t] \in Key /\ node[t] \in Node /\ m_map[arg[t]] = node[t]
  BY DEF IInv, ArgumentsKept, HeldPinned, Reading, Writing
<1>2. arg[t] \in Stored
  BY <1>1, EndsAssumption DEF Stored
<1> QED
  BY <1>1, <1>2 DEF IInv, KeysExact

\* An inserter is alone with its element.
LEMMA WriterAlone ==
  ASSUME IInv, NEW t \in Thread, Writing(t)
  PROVE  \A u \in Thread \ {t} :
            Reading(u) \/ Writing(u) => arg[u] # arg[t] /\ node[u] # node[t]
<1>1. ASSUME NEW u \in Thread \ {t}, Reading(u) \/ Writing(u), arg[u] = arg[t]
      PROVE  FALSE
  <2>1. arg[t] \in Key
    BY HolderFacts
  <2>2. writer[arg[t]] = t /\ readers[arg[t]] = {}
    BY <2>1, EndsAssumption DEF IInv, LocksOwned
  <2> QED
    BY <1>1, <2>1, <2>2 DEF IInv, LocksOwned
<1>2. ASSUME NEW u \in Thread \ {t}, Reading(u) \/ Writing(u)
      PROVE  arg[u] # arg[t] /\ node[u] # node[t]
  BY <1>1, <1>2, HolderFacts
<1> QED
  BY <1>2

LEMMA PushingWrites ==
  ASSUME NEW t \in Thread, Pushing(t) \/ Evicting(t)
  PROVE  Writing(t)
BY DEF Pushing, Evicting, Writing

\* The node of an element that is being written is not one that is evicted.
LEMMA MoribundElement ==
  ASSUME IInv, NEW t \in Thread, pc[t] = "erase"
  PROVE  /\ moribund[t] \in Node /\ m_key[moribund[t]] \in Stored
         /\ m_map[m_key[moribund[t]]] = moribund[t]
         /\ ~isInList(moribund[t])
BY DEF IInv, EvictionFinds, MoribundApart, Evicting

(***************************************************************************)
(* Steps that change neither elements nor nodes nor who holds them.        *)
(***************************************************************************)
LEMMA LocalStep ==
  ASSUME IInv, TypeOK', NEW t \in Thread, ~Evicting(t), ~(Evicting(t)'),
         UNCHANGED <<elements, m_key, node, moribund>>,
         LinksAgree', InList' = InList,
         Reading(t)' <=> Reading(t), Writing(t)' <=> Writing(t),
         Pushing(t)' <=> Pushing(t),
         pc'[t] \notin {"idle", "snapshot"} => arg'[t] \in Key,
         Reading(t) \/ Writing(t) => arg'[t] = arg[t],
         pc'[t] = "reduce" => size'[t] > MaxSize,
         \A u \in Thread \ {t} : /\ pc'[u] = pc[u] /\ arg'[u] = arg[u]
                                 /\ caller'[u] = caller[u] /\ size'[u] = size[u]
  PROVE  IInv'
<1>1. \A u \in Thread : /\ Reading(u)' <=> Reading(u)
                        /\ Writing(u)' <=> Writing(u)
                        /\ Pushing(u)' <=> Pushing(u)
                        /\ Evicting(u)' <=> Evicting(u)
                        /\ pc'[u] = "erase" <=> pc[u] = "erase"
                        /\ pc'[u] = "free" <=> pc[u] = "free"
                        /\ Reading(u) \/ Writing(u) => arg'[u] = arg[u]
  BY DEF Reading, Writing, Pushing, Evicting
<1>2. Stored' = Stored /\ \A n \in Node : isInList(n)' <=> isInList(n)
  BY DEF Stored, elements, InList
<1>3. ArgumentsKept' /\ SurplusSeen'
  BY DEF IInv, ArgumentsKept, SurplusSeen
<1>4. LocksOwned' /\ HeldPinned'
  BY <1>1 DEF IInv, LocksOwned, HeldPinned, elements
<1>5. KeysExact'
  BY <1>2 DEF IInv, KeysExact, elements
<1>6. MoribundApart' /\ EvictionFinds'
  BY <1>1, <1>2 DEF IInv, MoribundApart, EvictionFinds, elements
<1>7. PushedApart'
  BY <1>1, <1>2, PushingWrites DEF IInv, PushedApart, HeldPinned
<1>8. NoneLost'
  <2> SUFFICES ASSUME NEW k \in Stored
               PROVE  \/ isInList(m_map[k])'
                      \/ \E u \in Thread : \/ Pushing(u)' /\ node[u] = m_map[k]
                                           \/ pc'[u] = "erase" /\ moribund[u] = m_map[k]
    BY <1>2 DEF NoneLost, elements
  <2>1. m_map[k] \in Node
    BY DEF IInv, TypeOK, Stored
  <2> QED
    BY <1>1, <1>2, <2>1 DEF IInv, NoneLost, elements
<1>9. NoNodeLeaked'
  BY <1>1 DEF IInv, NoNodeLeaked, elements
<1>10. ListIntact'
  BY <1>2 DEF IInv, ListIntact, LinksAgree, elements
<1> QED
  BY <1>3, <1>4, <1>5, <1>6, <1>7, <1>8, <1>9, <1>10 DEF IInv

(***************************************************************************)
(* Type correctness.                                                       *)
(***************************************************************************)
LEMMA LinksTypedOf ==
  ASSUME IInv, LinksTyped', NEW t \in Thread,
         m_size' \in Nat, UNCHANGED <<elements, m_key, arg, node, size, caller>>,
         pc' \in [Thread -> PC],
         moribund' \in [Thread -> Node \cup {NullNode}]
  PROVE  TypeOK'
BY DEF IInv, TypeOK, LinksTyped, elements

LEMMA CallType ==
  ASSUME IInv, NEW t \in Thread, Call(t) \/ FindMiss(t) \/ FindHit(t) \/ SkipUse(t)
                                 \/ ReleaseConstAccessor(t) \/ snapshotKeys(t)
  PROVE  TypeOK'
<1> USE DEF elements, list, frame, Goto, PC
<1>1. CASE Call(t)
  BY <1>1 DEF Call, CallFind, CallInsert, CallSnapshot, IInv, TypeOK
<1>2. CASE FindMiss(t) \/ SkipUse(t) \/ snapshotKeys(t)
  BY <1>2 DEF FindMiss, SkipUse, snapshotKeys, IInv, TypeOK
<1>3. CASE FindHit(t)
  <2>1. arg[t] \in Key
    BY <1>3 DEF FindHit, IInv, ArgumentsKept
  <2> QED
    BY <1>3, <2>1 DEF FindHit, IInv, TypeOK
<1>4. CASE ReleaseConstAccessor(t)
  BY <1>4 DEF ReleaseConstAccessor, IInv, TypeOK
<1> QED
  BY <1>1, <1>2, <1>3, <1>4

LEMMA InsertType ==
  ASSUME IInv, NEW t \in Thread, InsertPresent(t) \/ InsertNew(t) \/ LoadSize(t)
                                 \/ CountNode(t) \/ Reduce(t) \/ ReleaseAccessor(t)
  PROVE  TypeOK'
<1> USE DEF elements, list, frame, Goto, PC
<1>1. CASE InsertPresent(t)
  BY <1>1 DEF InsertPresent, IInv, TypeOK
<1>2. CASE InsertNew(t)
  <2>1. arg[t] \in Key
    BY <1>2 DEF InsertNew, IInv, ArgumentsKept
  <2> QED
    BY <1>2, <2>1 DEF InsertNew, IInv, TypeOK
<1>3. CASE LoadSize(t)
  BY <1>3 DEF LoadSize, IInv, TypeOK
<1>4. CASE CountNode(t)
  BY <1>4 DEF CountNode, IInv, TypeOK
<1>5. CASE Reduce(t)
  <2>1. m_size \in Nat /\ (m_size = size[t] => m_size > MaxSize)
    BY <1>5 DEF Reduce, IInv, TypeOK, SurplusSeen
  <2>2. m_size = size[t] => m_size - 1 \in Nat
    BY <2>1, SizeAssumption
  <2> QED
    BY <1>5, <2>2 DEF Reduce, IInv, TypeOK
<1>6. CASE ReleaseAccessor(t)
  BY <1>6 DEF ReleaseAccessor, IInv, TypeOK
<1> QED
  BY <1>1, <1>2, <1>3, <1>4, <1>5, <1>6

LEMMA EvictType ==
  ASSUME IInv, NEW t \in Thread, EvictNothing(t) \/ EraseElement(t) \/ FreeNode(t)
  PROVE  TypeOK'
<1> USE DEF elements, list, frame, Goto, PC
<1>1. caller[t] \in PC
  BY DEF IInv, TypeOK
<1>2. CASE EvictNothing(t)
  BY <1>1, <1>2 DEF EvictNothing, IInv, TypeOK
<1>3. CASE EraseElement(t)
  BY <1>1, <1>3 DEF EraseElement, IInv, TypeOK
<1>4. CASE FreeNode(t)
  BY <1>1, <1>4 DEF FreeNode, IInv, TypeOK
<1> QED
  BY <1>2, <1>3, <1>4

(***************************************************************************)
(* The steps that LocalStep covers.                                        *)
(***************************************************************************)
LEMMA LinksUnchanged ==
  ASSUME IInv, UNCHANGED list
  PROVE  LinksAgree' /\ InList' = InList
BY LinksOfIInv DEF LinksAgree, InList, isInList, list

LEMMA CallKeepsInv ==
  ASSUME IInv, NEW t \in Thread, Call(t) \/ FindMiss(t) \/ SkipUse(t)
                                 \/ snapshotKeys(t) \/ InsertPresent(t)
  PROVE  IInv'
<1>1. TypeOK'
  BY CallType, InsertType
<1>2. UNCHANGED <<elements, m_key, list, node, moribund, caller, size>>
  BY DEF Call, CallFind, CallInsert, CallSnapshot, FindMiss, SkipUse, snapshotKeys,
         InsertPresent, elements, frame
<1>3. LinksAgree' /\ InList' = InList
  BY <1>2, LinksUnchanged
<1>4. \A u \in Thread \ {t} : arg'[u] = arg[u]
  BY DEF Call, CallFind, CallInsert, CallSnapshot, FindMiss, SkipUse, snapshotKeys,
         InsertPresent, frame, IInv, TypeOK
<1>5. CASE \E k \in Key : CallFind(t, k) \/ CallInsert(t, k)
  <2>1. PICK q \in {"find", "insert"} :
           /\ pc[t] = "idle" /\ pc' = [pc EXCEPT ![t] = q]
           /\ arg'[t] \in Key
    BY <1>5 DEF CallFind, CallInsert, Goto, IInv, TypeOK
  <2> QED
    BY <1>1, <1>2, <1>3, <1>4, <2>1, LocalStep, Zenon
    DEF Reading, Writing, Pushing, Evicting, IInv, TypeOK
<1>6. CASE FindMiss(t) \/ InsertPresent(t) \/ snapshotKeys(t) \/ CallSnapshot(t)
  <2>1. /\ pc[t] \in {"idle", "find", "insert", "snapshot"}
        /\ pc'[t] \in {"idle", "snapshot"}
        /\ \A u \in Thread \ {t} : pc'[u] = pc[u]
    BY <1>6 DEF FindMiss, InsertPresent, snapshotKeys, CallSnapshot, Goto, IInv, TypeOK
  <2>2. /\ ~Evicting(t) /\ ~(Evicting(t)')
        /\ Reading(t)' <=> Reading(t)
        /\ Writing(t)' <=> Writing(t)
        /\ Pushing(t)' <=> Pushing(t)
    BY <2>1 DEF Reading, Writing, Pushing, Evicting
  <2>3. ~(Reading(t) \/ Writing(t)) /\ pc'[t] # "reduce"
    BY <2>1 DEF Reading, Writing
  <2> QED
    BY <1>1, <1>2, <1>3, <1>4, <2>1, <2>2, <2>3, LocalStep
<1>7. CASE SkipUse(t)
  <2>1. pc[t] = "use" /\ pc' = [pc EXCEPT ![t] = "held"] /\ arg' = arg
    BY <1>7 DEF SkipUse, Goto, frame
  <2>2. arg'[t] \in Key
    BY <2>1 DEF IInv, ArgumentsKept
  <2>3. /\ ~Evicting(t) /\ ~(Evicting(t)')
        /\ Reading(t)' <=> Reading(t)
        /\ Writing(t)' <=> Writing(t)
        /\ Pushing(t)' <=> Pushing(t)
    BY <2>1 DEF Reading, Writing, Pushing, Evicting, IInv, TypeOK
  <2> QED
    BY <1>1, <1>2, <1>3, <1>4, <2>1, <2>2, <2>3, LocalStep
<1> QED
  BY <1>5, <1>6, <1>7 DEF Call

LEMMA UseNodeKeepsInv ==
  ASSUME IInv, NEW t \in Thread, UseNode(t)
  PROVE  IInv'
<1>1. /\ pc[t] = "use" /\ pc' = [pc EXCEPT ![t] = "held"]
      /\ UNCHANGED <<m_size, elements, m_key, arg, node, size, moribund, caller>>
      /\ IF isInList(node[t]) THEN MoveToFront(node[t]) ELSE UNCHANGED list
  BY DEF UseNode, Goto, frame
<1>2. node[t] \in Node /\ arg[t] \in Key
  BY <1>1, HolderFacts DEF Reading
<1>3. LinksTyped' /\ LinksAgree' /\ InList' = InList
  <2>1. CASE isInList(node[t])
    BY <1>1, <1>2, <2>1, LinksOfIInv, MoveKeepsLinks
  <2>2. CASE ~isInList(node[t])
    BY <1>1, <2>2, LinksOfIInv, LinksUnchanged DEF LinksTyped, list
  <2> QED
    BY <2>1, <2>2
<1>4. TypeOK'
  BY <1>1, <1>3, LinksTypedOf DEF IInv, TypeOK, PC
<1>5. /\ ~Evicting(t) /\ ~(Evicting(t)')
      /\ Reading(t)' <=> Reading(t)
      /\ Writing(t)' <=> Writing(t)
      /\ Pushing(t)' <=> Pushing(t)
  BY <1>1 DEF Reading, Writing, Pushing, Evicting, IInv, TypeOK
<1> QED
  BY <1>1, <1>2, <1>3, <1>4, <1>5, LocalStep

LEMMA CountingKeepsInv ==
  ASSUME IInv, NEW t \in Thread,
         LoadSize(t) \/ CountNode(t) \/ Reduce(t) \/ EvictNothing(t)
  PROVE  IInv'
<1>1. TypeOK'
  BY InsertType, EvictType
<1>2. UNCHANGED <<elements, m_key, list, arg, node, moribund>>
      /\ \A u \in Thread \ {t} : caller'[u] = caller[u] /\ size'[u] = size[u]
  BY DEF LoadSize, CountNode, Reduce, EvictNothing, elements, frame, IInv, TypeOK
<1>3. LinksAgree' /\ InList' = InList
  BY <1>2, LinksUnchanged
<1>4. Writing(t) /\ ~Evicting(t)
  BY DEF LoadSize, CountNode, Reduce, EvictNothing, Goto, Writing, Evicting
<1>5. arg'[t] \in Key /\ arg' = arg
  BY <1>2, <1>4, HolderFacts
<1>6. CASE LoadSize(t)
  <2>1. PICK q \in {"evict", "push"} :
           /\ pc[t] = "load" /\ pc' = [pc EXCEPT ![t] = q]
           /\ q = "evict" => caller'[t] = "push"
    BY <1>6 DEF LoadSize, IInv, TypeOK
  <2> QED
    BY <1>1, <1>2, <1>3, <1>4, <1>5, <2>1, LocalStep, Zenon
    DEF Reading, Writing, Pushing, Evicting, IInv, TypeOK
<1>7. CASE CountNode(t)
  <2>1. PICK q \in {"reduce", "exit"} :
           /\ pc[t] = "count" /\ pc' = [pc EXCEPT ![t] = q]
           /\ q = "reduce" => size'[t] > MaxSize
    BY <1>7 DEF CountNode, IInv, TypeOK
  <2> QED
    BY <1>1, <1>2, <1>3, <1>4, <1>5, <2>1, LocalStep, Zenon
    DEF Reading, Writing, Pushing, Evicting, IInv, TypeOK
<1>8. CASE Reduce(t)
  <2>1. PICK q \in {"evict", "exit"} :
           /\ pc[t] = "reduce" /\ pc' = [pc EXCEPT ![t] = q]
           /\ q = "evict" => caller'[t] = "exit"
    BY <1>8 DEF Reduce, IInv, TypeOK
  <2> QED
    BY <1>1, <1>2, <1>3, <1>4, <1>5, <2>1, LocalStep, Zenon
    DEF Reading, Writing, Pushing, Evicting, IInv, TypeOK
<1>9. CASE EvictNothing(t)
  <2>1. /\ pc[t] = "evict" /\ pc' = [pc EXCEPT ![t] = caller[t]]
        /\ caller[t] \in {"push", "exit"}
        /\ caller' = caller
    BY <1>9 DEF EvictNothing, Goto, frame, IInv, TypeOK
  <2> QED
    BY <1>1, <1>2, <1>3, <1>4, <1>5, <2>1, LocalStep, Zenon
    DEF Reading, Writing, Pushing, Evicting, IInv, TypeOK
<1> QED
  BY <1>6, <1>7, <1>8, <1>9

(***************************************************************************)
(* Accessors come and go.                                                  *)
(***************************************************************************)
\* A step that leaves the list, the nodes and the elements but for their
\* accessors, of a thread that does not push or evict.
LEMMA AccessorStep ==
  ASSUME IInv, NEW t \in Thread, TypeOK', UNCHANGED <<m_map, m_key, list, moribund>>,
         ~Pushing(t), ~(Pushing(t)'), ~Evicting(t), ~(Evicting(t)'),
         pc'[t] # "reduce", LocksOwned',
         pc'[t] \notin {"idle", "snapshot"} => arg'[t] \in Key,
         Reading(t)' \/ Writing(t)' => node'[t] \in Node /\ m_map[arg'[t]] = node'[t],
         \A u \in Thread \ {t} : /\ pc'[u] = pc[u] /\ arg'[u] = arg[u]
                                 /\ node'[u] = node[u] /\ size'[u] = size[u]
                                 /\ caller'[u] = caller[u]
  PROVE  IInv'
<1>1. \A u \in Thread : /\ Pushing(u)' <=> Pushing(u)
                        /\ Evicting(u)' <=> Evicting(u)
                        /\ Pushing(u) => node'[u] = node[u]
                        /\ pc'[u] = "erase" <=> pc[u] = "erase"
                        /\ pc'[u] = "free" <=> pc[u] = "free"
  BY DEF Pushing, Evicting
<1>2. Stored' = Stored /\ LinksAgree' /\ InList' = InList
      /\ \A n : isInList(n)' <=> isInList(n)
  BY LinksUnchanged DEF Stored, isInList, list
<1>3. ArgumentsKept' /\ SurplusSeen' /\ HeldPinned'
  BY DEF IInv, ArgumentsKept, SurplusSeen, HeldPinned, Reading, Writing
<1>4. KeysExact'
  BY <1>2 DEF IInv, KeysExact
<1>5. MoribundApart' /\ EvictionFinds'
  BY <1>1, <1>2 DEF IInv, MoribundApart, EvictionFinds
<1>6. PushedApart'
  BY <1>1, <1>2 DEF IInv, PushedApart
<1>7. NoneLost'
  <2> SUFFICES ASSUME NEW k \in Stored
               PROVE  \/ isInList(m_map[k])
                      \/ \E u \in Thread : \/ Pushing(u)' /\ node'[u] = m_map[k]
                                           \/ pc'[u] = "erase" /\ moribund[u] = m_map[k]
    BY <1>2 DEF NoneLost
  <2> QED
    BY <1>1 DEF IInv, NoneLost
<1>8. NoNodeLeaked'
  BY <1>1 DEF IInv, NoNodeLeaked
<1>9. ListIntact'
  BY <1>2 DEF IInv, ListIntact, LinksAgree
<1> QED
  BY <1>3, <1>4, <1>5, <1>6, <1>7, <1>8, <1>9 DEF IInv

LEMMA FindHitKeepsInv ==
  ASSUME IInv, NEW t \in Thread, FindHit(t)
  PROVE  IInv'
<1>1. /\ pc[t] = "find" /\ pc'[t] = "use" /\ m_map[arg[t]] # NullNode
      /\ writer[arg[t]] = NoThread /\ writer' = writer
      /\ readers' = [readers EXCEPT ![arg[t]] = @ \cup {t}]
      /\ node'[t] = m_map[arg[t]] /\ arg' = arg
      /\ UNCHANGED <<m_map, m_key, list, moribund>>
      /\ \A u \in Thread \ {t} : /\ pc'[u] = pc[u] /\ node'[u] = node[u]
                                 /\ size'[u] = size[u] /\ caller'[u] = caller[u]
  BY DEF FindHit, Goto, IInv, TypeOK
<1>2. arg[t] \in Key
  BY <1>1 DEF IInv, ArgumentsKept
<1>3. /\ ~Pushing(t) /\ ~(Pushing(t)') /\ ~Evicting(t) /\ ~(Evicting(t)')
      /\ ~Reading(t) /\ Reading(t)' /\ ~Writing(t) /\ ~(Writing(t)')
      /\ pc'[t] \notin {"reduce"}
  BY <1>1 DEF Pushing, Evicting, Reading, Writing
<1>4. \A u \in Thread \ {t} : (Reading(u)' <=> Reading(u)) /\ (Writing(u)' <=> Writing(u))
  BY <1>1 DEF Reading, Writing
<1>5. LocksOwned'
  <2> SUFFICES ASSUME NEW k \in Key
               PROVE  /\ \A u \in Thread : writer[k] = u <=> Writing(u)' /\ arg[u] = k
                      /\ \A u \in Thread : u \in readers'[k] <=> Reading(u)' /\ arg[u] = k
                      /\ writer[k] # NoThread => readers'[k] = {}
    BY <1>1 DEF LocksOwned
  <2>1. \A u \in Thread : u \in readers'[k] <=> u \in readers[k] \/ (u = t /\ k = arg[t])
    BY <1>1, <1>2 DEF IInv, TypeOK
  <2>2. writer[k] # NoThread => readers'[k] = readers[k]
    BY <1>1, <1>2 DEF IInv, TypeOK
  <2> QED
    BY <1>3, <1>4, <2>1, <2>2 DEF IInv, LocksOwned
<1>6. TypeOK'
  BY CallType
<1>7. node'[t] \in Node /\ m_map[arg'[t]] = node'[t]
  BY <1>1, <1>2 DEF IInv, TypeOK
<1> QED
  BY <1>1, <1>2, <1>3, <1>5, <1>6, <1>7, AccessorStep

LEMMA ReleaseConstAccessorKeepsInv ==
  ASSUME IInv, NEW t \in Thread, ReleaseConstAccessor(t)
  PROVE  IInv'
<1>1. /\ pc[t] = "held" /\ pc'[t] = "idle" /\ writer' = writer
      /\ readers' = [readers EXCEPT ![arg[t]] = @ \ {t}]
      /\ UNCHANGED <<m_map, m_key, list, moribund>>
      /\ \A u \in Thread \ {t} : /\ pc'[u] = pc[u] /\ arg'[u] = arg[u]
                                 /\ node'[u] = node[u]
                                 /\ size'[u] = size[u] /\ caller'[u] = caller[u]
  BY DEF ReleaseConstAccessor, Goto, IInv, TypeOK
<1>2. /\ ~Pushing(t) /\ ~(Pushing(t)') /\ ~Evicting(t) /\ ~(Evicting(t)')
      /\ Reading(t) /\ ~(Reading(t)') /\ ~Writing(t) /\ ~(Writing(t)')
      /\ pc'[t] # "reduce"
  BY <1>1 DEF Pushing, Evicting, Reading, Writing
<1>3. arg[t] \in Key
  BY <1>2, HolderFacts
<1>4. \A u \in Thread \ {t} : (Reading(u)' <=> Reading(u)) /\ (Writing(u)' <=> Writing(u))
  BY <1>1 DEF Reading, Writing
<1>5. LocksOwned'
  <2> SUFFICES ASSUME NEW k \in Key
               PROVE  /\ \A u \in Thread : writer[k] = u <=> Writing(u)' /\ arg'[u] = k
                      /\ \A u \in Thread : u \in readers'[k] <=> Reading(u)' /\ arg'[u] = k
                      /\ writer[k] # NoThread => readers'[k] = {}
    BY <1>1 DEF LocksOwned
  <2>1. \A u \in Thread : u \in readers'[k] <=> u \in readers[k] /\ ~(u = t /\ k = arg[t])
    BY <1>1, <1>3 DEF IInv, TypeOK
  <2>2. readers'[k] \subseteq readers[k]
    BY <1>1, <1>3 DEF IInv, TypeOK
  <2> QED
    BY <1>1, <1>2, <1>4, <2>1, <2>2 DEF IInv, LocksOwned
<1>6. TypeOK'
  BY CallType
<1> QED
  BY <1>1, <1>2, <1>5, <1>6, AccessorStep

LEMMA ReleaseAccessorKeepsInv ==
  ASSUME IInv, NEW t \in Thread, ReleaseAccessor(t)
  PROVE  IInv'
<1>1. /\ pc[t] = "exit" /\ pc'[t] = "idle" /\ readers' = readers
      /\ writer' = [writer EXCEPT ![arg[t]] = NoThread]
      /\ UNCHANGED <<m_map, m_key, list, moribund>>
      /\ \A u \in Thread \ {t} : /\ pc'[u] = pc[u] /\ arg'[u] = arg[u]
                                 /\ node'[u] = node[u]
                                 /\ size'[u] = size[u] /\ caller'[u] = caller[u]
  BY DEF ReleaseAccessor, Goto, IInv, TypeOK
<1>2. /\ ~Pushing(t) /\ ~(Pushing(t)') /\ ~Evicting(t) /\ ~(Evicting(t)')
      /\ ~Reading(t) /\ ~(Reading(t)') /\ Writing(t) /\ ~(Writing(t)')
      /\ pc'[t] # "reduce"
  BY <1>1 DEF Pushing, Evicting, Reading, Writing
<1>3. arg[t] \in Key
  BY <1>2, HolderFacts
<1>4. \A u \in Thread \ {t} : (Reading(u)' <=> Reading(u)) /\ (Writing(u)' <=> Writing(u))
  BY <1>1 DEF Reading, Writing
<1>5. LocksOwned'
  <2> SUFFICES ASSUME NEW k \in Key
               PROVE  /\ \A u \in Thread : writer'[k] = u <=> Writing(u)' /\ arg'[u] = k
                      /\ \A u \in Thread : u \in readers[k] <=> Reading(u)' /\ arg'[u] = k
                      /\ writer'[k] # NoThread => readers[k] = {}
    BY <1>1 DEF LocksOwned
  <2>1. CASE k = arg[t]
    BY <1>1, <1>2, <1>3, <1>4, <2>1, WriterAlone, EndsAssumption DEF IInv, TypeOK, LocksOwned
  <2>2. CASE k # arg[t]
    BY <1>1, <1>2, <1>3, <1>4, <2>2 DEF IInv, TypeOK, LocksOwned
  <2> QED
    BY <2>1, <2>2
<1>6. TypeOK'
  BY InsertType
<1> QED
  BY <1>1, <1>2, <1>5, <1>6, AccessorStep

(***************************************************************************)
(* An element comes: it enters the map, and its node the list.             *)
(***************************************************************************)
LEMMA InsertNewKeepsInv ==
  ASSUME IInv, NEW t \in Thread, InsertNew(t)
  PROVE  IInv'
<1>1. PICK n \in Node :
         /\ m_key[n] = NoKey
         /\ m_key' = [m_key EXCEPT ![n] = arg[t]]
         /\ m_map' = [m_map EXCEPT ![arg[t]] = n]
         /\ node' = [node EXCEPT ![t] = n]
  BY DEF InsertNew
<1>2. /\ pc[t] = "insert" /\ pc'[t] = "load" /\ m_map[arg[t]] = NullNode
      /\ writer' = [writer EXCEPT ![arg[t]] = t]
      /\ UNCHANGED <<m_size, readers, list, arg, size, moribund, caller>>
      /\ \A u \in Thread \ {t} : pc'[u] = pc[u] /\ node'[u] = node[u]
      /\ node'[t] = n /\ t # NoThread
  BY <1>1, EndsAssumption DEF InsertNew, Goto, IInv, TypeOK
<1>3. arg[t] \in Key /\ arg[t] # NoKey
  BY <1>2, EndsAssumption DEF IInv, ArgumentsKept
<1>4. /\ m_key'[n] = arg[t] /\ m_map'[arg[t]] = n /\ writer'[arg[t]] = t
      /\ \A m \in Node \ {n} : m_key'[m] = m_key[m]
      /\ \A k \in Key \ {arg[t]} : m_map'[k] = m_map[k] /\ writer'[k] = writer[k]
  BY <1>1, <1>2, <1>3 DEF IInv, TypeOK
<1>5. /\ ~Pushing(t) /\ Pushing(t)' /\ ~Evicting(t) /\ ~(Evicting(t)')
      /\ ~Reading(t) /\ ~(Reading(t)') /\ ~Writing(t) /\ Writing(t)'
      /\ pc'[t] # "reduce"
  BY <1>2 DEF Pushing, Evicting, Reading, Writing
<1>6. \A u \in Thread \ {t} : /\ Reading(u)' <=> Reading(u)
                              /\ Writing(u)' <=> Writing(u)
                              /\ Pushing(u)' <=> Pushing(u)
                              /\ Evicting(u)' <=> Evicting(u)
  BY <1>2 DEF Pushing, Evicting, Reading, Writing
\* No thread has an accessor of the key, none holds the node.
<1>7. \A u \in Thread : Reading(u) \/ Writing(u) => arg[u] # arg[t] /\ node[u] # n
  BY <1>1, <1>2, <1>3, HolderFacts, EndsAssumption DEF Stored
<1>8. writer[arg[t]] = NoThread /\ readers[arg[t]] = {}
  BY <1>3, <1>7 DEF IInv, LocksOwned, TypeOK
<1>9. \A u \in Thread : Evicting(u) => moribund[u] # n
  BY <1>1, EndsAssumption DEF IInv, MoribundApart
<1>10. Stored' = Stored \cup {arg[t]} /\ arg[t] \notin Stored /\ NullNode \notin Node
  BY <1>2, <1>3, <1>4, EndsAssumption DEF Stored
<1>11. ~isInList(n) /\ LinksAgree' /\ InList' = InList
       /\ \A m : isInList(m)' <=> isInList(m)
  <2>1. LinksAgree' /\ InList' = InList /\ \A m : isInList(m)' <=> isInList(m)
    BY <1>2, LinksUnchanged DEF isInList, list
  <2>2. ~isInList(n)
    BY <1>1, EndsAssumption DEF IInv, ListIntact, InList, Stored
  <2> QED
    BY <2>1, <2>2
<1>12. TypeOK'
  BY InsertType
<1>13. ArgumentsKept' /\ SurplusSeen'
  BY <1>2, <1>3, <1>5 DEF IInv, ArgumentsKept, SurplusSeen
<1>14. LocksOwned'
  <2> SUFFICES ASSUME NEW k \in Key
               PROVE  /\ \A u \in Thread : writer'[k] = u <=> Writing(u)' /\ arg[u] = k
                      /\ \A u \in Thread : u \in readers[k] <=> Reading(u)' /\ arg[u] = k
                      /\ writer'[k] # NoThread => readers[k] = {}
    BY <1>2 DEF LocksOwned
  <2>1. CASE k = arg[t]
    BY <1>4, <1>5, <1>6, <1>7, <1>8, <2>1 DEF IInv, LocksOwned
  <2>2. CASE k # arg[t]
    BY <1>4, <1>5, <1>6, <2>2 DEF IInv, LocksOwned
  <2> QED
    BY <2>1, <2>2
<1>15. HeldPinned'
  <2> SUFFICES ASSUME NEW u \in Thread, Reading(u)' \/ Writing(u)'
               PROVE  node'[u] \in Node /\ m_map'[arg[u]] = node'[u]
    BY <1>2 DEF HeldPinned
  <2>1. CASE u = t
    BY <1>2, <1>4, <2>1
  <2>2. CASE u # t
    BY <1>2, <1>4, <1>6, <1>7, <2>2, HolderFacts
  <2> QED
    BY <2>1, <2>2
<1>16. KeysExact'
  <2> SUFFICES ASSUME NEW k \in Stored \cup {arg[t]}
               PROVE  m_key'[m_map'[k]] = k
    BY <1>10 DEF KeysExact
  <2>1. CASE k = arg[t]
    BY <1>4, <2>1
  <2>2. CASE k # arg[t]
    <3>1. m_map'[k] = m_map[k] /\ m_key[m_map[k]] = k /\ k \in Key /\ m_map[k] \in Node
      BY <1>4, <2>2 DEF IInv, KeysExact, Stored, TypeOK
    <3> QED
      BY <1>1, <1>4, <3>1, EndsAssumption
  <2> QED
    BY <2>1, <2>2
<1>17. MoribundApart'
  <2> SUFFICES ASSUME NEW u \in Thread, Evicting(u)'
               PROVE  /\ moribund[u] \in Node /\ m_key'[moribund[u]] \in Key
                      /\ ~isInList(moribund[u])
                      /\ pc'[u] = "free" => m_map'[m_key'[moribund[u]]] # moribund[u]
                      /\ \A v \in Thread :
                            Evicting(v)' /\ moribund[v] = moribund[u] => v = u
    BY <1>2, <1>11 DEF MoribundApart
  <2>1. u # t /\ Evicting(u) /\ pc'[u] = pc[u]
    BY <1>2, <1>5, <1>6
  <2>2. /\ moribund[u] \in Node /\ m_key[moribund[u]] \in Key /\ ~isInList(moribund[u])
        /\ pc[u] = "free" => m_map[m_key[moribund[u]]] # moribund[u]
        /\ \A v \in Thread : Evicting(v) /\ moribund[v] = moribund[u] => v = u
    BY <2>1 DEF IInv, MoribundApart
  <2>3. moribund[u] # n /\ m_key'[moribund[u]] = m_key[moribund[u]]
    BY <1>4, <1>9, <2>1, <2>2
  <2>4. pc'[u] = "free" => m_map'[m_key[moribund[u]]] # moribund[u]
    BY <1>4, <2>1, <2>2, <2>3
  <2> QED
    BY <1>5, <1>6, <2>2, <2>3, <2>4
<1>18. EvictionFinds'
  <2> SUFFICES ASSUME NEW u \in Thread, pc'[u] = "erase"
               PROVE  /\ m_key'[moribund[u]] \in Stored'
                      /\ m_map'[m_key'[moribund[u]]] = moribund[u]
    BY <1>2 DEF EvictionFinds
  <2>1. u # t /\ pc[u] = "erase" /\ Evicting(u)
    BY <1>2 DEF Evicting
  <2>2. /\ moribund[u] \in Node /\ m_key[moribund[u]] \in Stored
        /\ m_map[m_key[moribund[u]]] = moribund[u]
    BY <2>1, MoribundElement
  <2>3. m_key'[moribund[u]] = m_key[moribund[u]]
    BY <1>4, <1>9, <2>1, <2>2
  <2> QED
    BY <1>4, <1>10, <2>2, <2>3 DEF Stored
<1>19. PushedApart'
  <2> SUFFICES ASSUME NEW u \in Thread, Pushing(u)'
               PROVE  /\ ~isInList(node'[u])
                      /\ \A v \in Thread : pc'[v] = "erase" => moribund[v] # node'[u]
    BY <1>2, <1>11 DEF PushedApart
  <2>1. CASE u = t
    BY <1>2, <1>9, <1>11, <2>1 DEF Evicting
  <2>2. CASE u # t
    BY <1>2, <1>6, <2>2 DEF IInv, PushedApart
  <2> QED
    BY <2>1, <2>2
<1>20. NoneLost'
  <2> SUFFICES ASSUME NEW k \in Stored \cup {arg[t]}
               PROVE  \/ isInList(m_map'[k])
                      \/ \E u \in Thread : \/ Pushing(u)' /\ node'[u] = m_map'[k]
                                           \/ pc'[u] = "erase" /\ moribund[u] = m_map'[k]
    BY <1>2, <1>10, <1>11 DEF NoneLost
  <2>1. CASE k = arg[t]
    BY <1>2, <1>4, <1>5, <2>1
  <2>2. CASE k # arg[t]
    <3>1. m_map'[k] = m_map[k] /\ k \in Stored
      BY <1>4, <2>2 DEF Stored
    <3>2. \/ isInList(m_map[k])
          \/ \E u \in Thread \ {t} : \/ Pushing(u) /\ node[u] = m_map[k]
                                     \/ pc[u] = "erase" /\ moribund[u] = m_map[k]
      BY <1>2, <1>5, <3>1 DEF IInv, NoneLost
    <3> QED
      BY <1>2, <1>6, <3>1, <3>2
  <2> QED
    BY <2>1, <2>2
<1>21. NoNodeLeaked'
  <2> SUFFICES ASSUME NEW m \in Node, m_key'[m] # NoKey
               PROVE  \/ m_map'[m_key'[m]] = m
                      \/ \E u \in Thread : pc'[u] = "free" /\ moribund[u] = m
    BY <1>2 DEF NoNodeLeaked
  <2>1. CASE m = n
    BY <1>4, <2>1
  <2>2. CASE m # n
    <3>1. m_key'[m] = m_key[m] /\ m_key[m] \in Key
      BY <1>4, <2>2 DEF IInv, TypeOK
    <3>2. \/ m_map[m_key[m]] = m
          \/ \E u \in Thread \ {t} : pc[u] = "free" /\ moribund[u] = m
      BY <1>2, <3>1, EndsAssumption DEF IInv, NoNodeLeaked
    <3>3. m_map[m_key[m]] = m => m_key[m] # arg[t]
      BY <1>2, <1>10
    <3> QED
      BY <1>2, <1>4, <3>1, <3>2, <3>3
  <2> QED
    BY <2>1, <2>2
<1>22. ListIntact'
  <2>1. \A m \in InList : m_key'[m] \in Stored' /\ m_map'[m_key'[m]] = m
    <3> SUFFICES ASSUME NEW m \in InList
                 PROVE  m_key'[m] \in Stored' /\ m_map'[m_key'[m]] = m
      OBVIOUS
    <3>1. m_key[m] \in Stored /\ m_map[m_key[m]] = m /\ m \in Node /\ m # n
      BY <1>11 DEF IInv, ListIntact, InList
    <3> QED
      BY <1>4, <1>10, <3>1 DEF Stored
  <2> QED
    BY <1>11, <2>1 DEF ListIntact, LinksAgree
<1> QED
  BY <1>12, <1>13, <1>14, <1>15, <1>16, <1>17, <1>18, <1>19, <1>20, <1>21, <1>22 DEF IInv

LEMMA PushNodeKeepsInv ==
  ASSUME IInv, NEW t \in Thread, PushNode(t)
  PROVE  IInv'
<1>1. /\ pc[t] = "push" /\ pc'[t] \in {"count", "reduce", "exit"}
      /\ pc' \in [Thread -> PC]
      /\ pc'[t] = "reduce" => size[t] > MaxSize
      /\ \A u \in Thread \ {t} : pc'[u] = pc[u]
      /\ pushFront(node[t])
      /\ UNCHANGED <<m_size, elements, m_key, arg, node, size, moribund, caller>>
  BY DEF PushNode, frame, IInv, TypeOK, PC
<1>2. /\ Pushing(t) /\ ~(Pushing(t)') /\ ~Evicting(t) /\ ~(Evicting(t)')
      /\ ~Reading(t) /\ ~(Reading(t)') /\ Writing(t) /\ Writing(t)'
  BY <1>1 DEF Pushing, Evicting, Reading, Writing
<1>3. \A u \in Thread \ {t} : /\ Reading(u)' <=> Reading(u)
                              /\ Writing(u)' <=> Writing(u)
                              /\ Pushing(u)' <=> Pushing(u)
                              /\ Evicting(u)' <=> Evicting(u)
  BY <1>1 DEF Pushing, Evicting, Reading, Writing
<1>4. /\ arg[t] \in Key /\ arg[t] \in Stored /\ node[t] \in Node
      /\ m_map[arg[t]] = node[t] /\ m_key[node[t]] = arg[t] /\ ~isInList(node[t])
  BY <1>2, HolderFacts DEF IInv, PushedApart
<1>5. LinksTyped' /\ LinksAgree' /\ InList' = InList \cup {node[t]}
  BY <1>1, <1>4, LinksOfIInv, PushKeepsLinks
<1>6. Stored' = Stored
      /\ \A m \in Node : isInList(m)' <=> isInList(m) \/ m = node[t]
  BY <1>1, <1>5 DEF Stored, elements, InList
<1>7. \A u \in Thread : Evicting(u) => moribund[u] # node[t]
  <2> SUFFICES ASSUME NEW u \in Thread, Evicting(u), moribund[u] = node[t] PROVE FALSE
    OBVIOUS
  <2>1. CASE pc[u] = "erase"
    BY <1>2, <2>1 DEF IInv, PushedApart
  <2>2. CASE pc[u] = "free"
    BY <1>4, <2>2 DEF IInv, MoribundApart
  <2> QED
    BY <2>1, <2>2 DEF Evicting
<1>8. TypeOK'
  BY <1>1, <1>5, LinksTypedOf DEF IInv, TypeOK
<1>9. ArgumentsKept' /\ SurplusSeen'
  BY <1>1, <1>4 DEF IInv, ArgumentsKept, SurplusSeen
<1>10. LocksOwned' /\ HeldPinned' /\ KeysExact'
  BY <1>1, <1>2, <1>3, <1>6 DEF IInv, LocksOwned, HeldPinned, KeysExact, elements
<1>11. MoribundApart' /\ EvictionFinds'
  BY <1>1, <1>2, <1>3, <1>6, <1>7 DEF IInv, MoribundApart, EvictionFinds, elements
<1>12. PushedApart'
  <2> SUFFICES ASSUME NEW u \in Thread, Pushing(u)'
               PROVE  /\ ~(isInList(node[u])')
                      /\ \A v \in Thread : pc'[v] = "erase" => moribund[v] # node[u]
    BY <1>1 DEF PushedApart, isInList
  <2>1. u # t /\ Pushing(u)
    BY <1>2, <1>3
  <2>2. node[u] # node[t] /\ node[u] \in Node
    BY <1>2, <2>1, WriterAlone, PushingWrites, HolderFacts
  <2> QED
    BY <1>1, <1>6, <2>1, <2>2 DEF IInv, PushedApart
<1>13. NoneLost'
  <2> SUFFICES ASSUME NEW k \in Stored
               PROVE  \/ isInList(m_map[k])'
                      \/ \E u \in Thread : \/ Pushing(u)' /\ node[u] = m_map[k]
                                           \/ pc'[u] = "erase" /\ moribund[u] = m_map[k]
    BY <1>1, <1>6 DEF NoneLost, elements
  <2>1. m_map[k] \in Node
    BY DEF IInv, TypeOK, Stored
  <2>2. isInList(m_map[k])' <=> isInList(m_map[k]) \/ m_map[k] = node[t]
    BY <1>1, <1>6, <2>1 DEF isInList, elements
  <2> QED
    BY <1>1, <1>2, <1>3, <2>2 DEF IInv, NoneLost
<1>14. NoNodeLeaked'
  BY <1>1 DEF IInv, NoNodeLeaked, elements
<1>15. ListIntact'
  BY <1>1, <1>4, <1>5, <1>6 DEF IInv, ListIntact, LinksAgree, elements
<1> QED
  BY <1>8, <1>9, <1>10, <1>11, <1>12, <1>13, <1>14, <1>15 DEF IInv

(***************************************************************************)
(* An element goes: its node leaves the list, it the map, the node is      *)
(* deleted.                                                                *)
(***************************************************************************)
LEMMA EvictTailKeepsInv ==
  ASSUME IInv, NEW t \in Thread, EvictTail(t)
  PROVE  IInv'
<1> DEFINE x == m_prev[m_tail]
<1>1. /\ pc[t] = "evict" /\ pc'[t] = "erase" /\ pc' \in [Thread -> PC]
      /\ \A u \in Thread \ {t} : pc'[u] = pc[u] /\ moribund'[u] = moribund[u]
      /\ x # m_head /\ delink(x)
      /\ moribund' = [moribund EXCEPT ![t] = x] /\ moribund'[t] = x
      /\ UNCHANGED <<m_size, elements, m_key, arg, node, size, caller>>
  BY DEF EvictTail, Goto, IInv, TypeOK, PC
<1>2. /\ Pushing(t)' <=> Pushing(t)
      /\ ~Evicting(t) /\ Evicting(t)'
      /\ ~Reading(t) /\ ~(Reading(t)') /\ Writing(t) /\ Writing(t)'
  BY <1>1 DEF Pushing, Evicting, Reading, Writing
<1>3. \A u \in Thread \ {t} : /\ Reading(u)' <=> Reading(u)
                              /\ Writing(u)' <=> Writing(u)
                              /\ Pushing(u)' <=> Pushing(u)
                              /\ Evicting(u)' <=> Evicting(u)
  BY <1>1 DEF Pushing, Evicting, Reading, Writing
<1>4. LinksTyped' /\ LinksAgree' /\ x \in InList /\ InList' = InList \ {x}
  BY <1>1, LinksOfIInv, DelinkKeepsLinks
<1>5. /\ Stored' = Stored
      /\ \A m \in Node : isInList(m)' <=> isInList(m) /\ m # x
  BY <1>1, <1>4 DEF Stored, elements, InList
<1>6. x \in Node /\ isInList(x) /\ m_key[x] \in Stored /\ m_key[x] \in Key /\ m_map[m_key[x]] = x
  BY <1>4 DEF InList, IInv, ListIntact, Stored
<1>7. \A u \in Thread : /\ Evicting(u) => moribund[u] # x
                        /\ Pushing(u) => node[u] # x /\ node[u] \in Node
  BY <1>6, PushingWrites, HolderFacts DEF IInv, MoribundApart, PushedApart
<1>8. TypeOK'
  BY <1>1, <1>4, <1>6, LinksTypedOf DEF IInv, TypeOK
<1>9. ArgumentsKept' /\ SurplusSeen'
  BY <1>1 DEF IInv, ArgumentsKept, SurplusSeen
<1>10. LocksOwned' /\ HeldPinned' /\ KeysExact'
  BY <1>1, <1>2, <1>3, <1>5 DEF IInv, LocksOwned, HeldPinned, KeysExact, elements
<1>11. MoribundApart'
  <2> SUFFICES ASSUME NEW u \in Thread, Evicting(u)'
               PROVE  /\ moribund'[u] \in Node /\ m_key[moribund'[u]] \in Key
                      /\ ~(isInList(moribund[u])')
                      /\ pc'[u] = "free" => m_map[m_key[moribund'[u]]] # moribund'[u]
                      /\ \A v \in Thread :
                            Evicting(v)' /\ moribund'[v] = moribund'[u] => v = u
    BY <1>1 DEF MoribundApart, elements
  <2>1. CASE u = t
    BY <1>1, <1>3, <1>5, <1>6, <1>7, <2>1 DEF isInList
  <2>2. CASE u # t
    <3>1. /\ moribund[u] \in Node /\ m_key[moribund[u]] \in Key
          /\ ~isInList(moribund[u]) /\ moribund[u] # x
          /\ pc[u] = "free" => m_map[m_key[moribund[u]]] # moribund[u]
          /\ \A v \in Thread : Evicting(v) /\ moribund[v] = moribund[u] => v = u
      BY <1>3, <1>7, <2>2 DEF IInv, MoribundApart
    <3>2. ~(isInList(moribund[u])')
      BY <1>1, <1>5, <2>2, <3>1 DEF isInList
    <3> QED
      BY <1>1, <1>3, <2>2, <3>1, <3>2
  <2> QED
    BY <2>1, <2>2
<1>12. EvictionFinds'
  BY <1>1, <1>5, <1>6 DEF IInv, EvictionFinds, elements
<1>13. PushedApart'
  <2> SUFFICES ASSUME NEW u \in Thread, Pushing(u)'
               PROVE  /\ ~(isInList(node[u])')
                      /\ \A v \in Thread : pc'[v] = "erase" => moribund'[v] # node[u]
    BY <1>1 DEF PushedApart, isInList
  <2>1. Pushing(u)
    BY <1>2, <1>3
  <2>2. ~(isInList(node[u])')
    BY <1>1, <1>5, <1>7, <2>1 DEF IInv, PushedApart, isInList
  <2> QED
    BY <1>1, <1>7, <2>1, <2>2 DEF IInv, PushedApart
<1>14. NoneLost'
  <2> SUFFICES ASSUME NEW k \in Stored
               PROVE  \/ isInList(m_map[k])'
                      \/ \E u \in Thread : \/ Pushing(u)' /\ node[u] = m_map[k]
                                           \/ pc'[u] = "erase" /\ moribund'[u] = m_map[k]
    BY <1>1, <1>5 DEF NoneLost, elements
  <2>1. m_map[k] \in Node
    BY DEF IInv, TypeOK, Stored
  <2>2. isInList(m_map[k])' <=> isInList(m_map[k]) /\ m_map[k] # x
    BY <1>1, <1>5, <2>1 DEF isInList, elements
  <2>3. CASE m_map[k] = x
    BY <1>1, <2>3
  <2>4. CASE m_map[k] # x
    BY <1>1, <1>2, <1>3, <2>2, <2>4 DEF IInv, NoneLost
  <2> QED
    BY <2>3, <2>4
<1>15. NoNodeLeaked'
  BY <1>1 DEF IInv, NoNodeLeaked, elements
<1>16. ListIntact'
  BY <1>1, <1>4, <1>5 DEF IInv, ListIntact, LinksAgree, elements
<1> QED
  BY <1>8, <1>9, <1>10, <1>11, <1>12, <1>13, <1>14, <1>15, <1>16 DEF IInv

LEMMA EraseElementKeepsInv ==
  ASSUME IInv, NEW t \in Thread, EraseElement(t)
  PROVE  IInv'
<1> DEFINE x == moribund[t]
           k == m_key[x]
<1>1. pc[t] = "erase" /\ Evicting(t)
  BY DEF EraseElement, Evicting
<1>2. x \in Node /\ k \in Stored /\ k \in Key /\ m_map[k] = x /\ ~isInList(x)
  BY <1>1, MoribundElement DEF Stored
<1>3. /\ Unlocked(k) /\ pc'[t] = "free" /\ m_map' = [m_map EXCEPT ![k] = NullNode]
      /\ \A u \in Thread \ {t} : pc'[u] = pc[u]
      /\ UNCHANGED <<m_size, writer, readers, m_key, list, arg, node, size, moribund, caller>>
  BY <1>2 DEF EraseElement, IInv, TypeOK, Stored
<1>4. /\ Pushing(t)' <=> Pushing(t)
      /\ Evicting(t)' /\ Writing(t) /\ Writing(t)' /\ ~Reading(t) /\ ~(Reading(t)')
  BY <1>1, <1>3 DEF Pushing, Evicting, Reading, Writing
<1>5. \A u \in Thread : /\ Reading(u)' <=> Reading(u)
                        /\ Writing(u)' <=> Writing(u)
                        /\ Pushing(u)' <=> Pushing(u)
                        /\ Evicting(u)' <=> Evicting(u)
  BY <1>1, <1>3, <1>4 DEF Pushing, Evicting, Reading, Writing
<1>6. /\ m_map'[k] = NullNode /\ NullNode \notin Node
      /\ \A j \in Key \ {k} : m_map'[j] = m_map[j]
      /\ Stored' = Stored \ {k}
  BY <1>2, <1>3, EndsAssumption DEF IInv, TypeOK, Stored
\* The accessor of find was granted: no call works with the element.
<1>7. \A u \in Thread : Reading(u) \/ Writing(u) => arg[u] # k
  BY <1>2, <1>3, EndsAssumption DEF IInv, LocksOwned, Unlocked
<1>8. LinksAgree' /\ InList' = InList /\ \A m : isInList(m)' <=> isInList(m)
  BY <1>3, LinksUnchanged DEF isInList, list
<1>9. TypeOK'
  BY EvictType
<1>10. ArgumentsKept' /\ SurplusSeen'
  BY <1>1, <1>3 DEF IInv, ArgumentsKept, SurplusSeen
<1>11. LocksOwned'
  BY <1>3, <1>5 DEF IInv, LocksOwned
<1>12. HeldPinned'
  <2> SUFFICES ASSUME NEW u \in Thread, Reading(u) \/ Writing(u)
               PROVE  node[u] \in Node /\ m_map'[arg[u]] = node[u]
    BY <1>3, <1>5 DEF HeldPinned
  <2> QED
    BY <1>6, <1>7, HolderFacts
<1>13. KeysExact'
  BY <1>3, <1>6 DEF IInv, KeysExact, Stored
<1>14. MoribundApart'
  <2> SUFFICES ASSUME NEW u \in Thread, Evicting(u)
               PROVE  /\ moribund[u] \in Node /\ m_key[moribund[u]] \in Key
                      /\ ~isInList(moribund[u])
                      /\ pc'[u] = "free" => m_map'[m_key[moribund[u]]] # moribund[u]
                      /\ \A v \in Thread : Evicting(v) /\ moribund[v] = moribund[u] => v = u
    BY <1>3, <1>5, <1>8 DEF MoribundApart
  <2>1. /\ moribund[u] \in Node /\ m_key[moribund[u]] \in Key
        /\ ~isInList(moribund[u])
        /\ pc[u] = "free" => m_map[m_key[moribund[u]]] # moribund[u]
        /\ \A v \in Thread : Evicting(v) /\ moribund[v] = moribund[u] => v = u
    BY DEF IInv, MoribundApart
  <2>2. pc'[u] = "free" => m_map'[m_key[moribund[u]]] # moribund[u]
    BY <1>3, <1>6, <2>1
  <2> QED
    BY <2>1, <2>2
<1>15. EvictionFinds'
  <2> SUFFICES ASSUME NEW u \in Thread, pc'[u] = "erase"
               PROVE  /\ m_key[moribund[u]] \in Stored'
                      /\ m_map'[m_key[moribund[u]]] = moribund[u]
    BY <1>3 DEF EvictionFinds
  <2>1. u # t /\ pc[u] = "erase" /\ Evicting(u)
    BY <1>3 DEF Evicting
  <2>2. /\ moribund[u] # x /\ m_key[moribund[u]] \in Stored
        /\ m_map[m_key[moribund[u]]] = moribund[u]
    BY <1>1, <2>1, MoribundElement DEF IInv, MoribundApart
  <2> QED
    BY <1>2, <1>6, <2>2 DEF Stored
<1>16. PushedApart'
  BY <1>3, <1>5, <1>8 DEF IInv, PushedApart
<1>17. NoneLost'
  <2> SUFFICES ASSUME NEW j \in Stored \ {k}
               PROVE  \/ isInList(m_map[j])
                      \/ \E u \in Thread : \/ Pushing(u) /\ node[u] = m_map[j]
                                           \/ pc'[u] = "erase" /\ moribund[u] = m_map[j]
    BY <1>3, <1>5, <1>6, <1>8 DEF NoneLost, Stored
  <2>1. m_map[j] # x
    BY <1>2 DEF IInv, KeysExact
  <2> QED
    BY <1>3, <2>1 DEF IInv, NoneLost
<1>18. NoNodeLeaked'
  <2> SUFFICES ASSUME NEW m \in Node, m_key[m] # NoKey
               PROVE  \/ m_map'[m_key[m]] = m
                      \/ \E u \in Thread : pc'[u] = "free" /\ moribund[u] = m
    BY <1>3 DEF NoNodeLeaked
  <2>1. CASE m = x
    BY <1>3, <2>1
  <2>2. CASE m # x
    <3>1. m_key[m] \in Key
      BY DEF IInv, TypeOK
    <3>2. \/ m_map[m_key[m]] = m
          \/ \E u \in Thread : pc[u] = "free" /\ moribund[u] = m
      BY DEF IInv, NoNodeLeaked
    <3>3. m_map[m_key[m]] = m => m_key[m] # k
      BY <1>2, <2>2
    <3> QED
      BY <1>1, <1>3, <1>6, <3>1, <3>2, <3>3
  <2> QED
    BY <2>1, <2>2
<1>19. ListIntact'
  <2>1. \A m \in InList : m_key[m] \in Stored' /\ m_map'[m_key[m]] = m
    <3> SUFFICES ASSUME NEW m \in InList
                 PROVE  m_key[m] \in Stored' /\ m_map'[m_key[m]] = m
      OBVIOUS
    <3>1. m_key[m] \in Stored /\ m_map[m_key[m]] = m /\ m # x
      BY <1>2 DEF IInv, ListIntact, InList
    <3> QED
      BY <1>2, <1>6, <3>1 DEF Stored
  <2> QED
    BY <1>3, <1>8, <2>1 DEF ListIntact, LinksAgree
<1> QED
  BY <1>9, <1>10, <1>11, <1>12, <1>13, <1>14, <1>15, <1>16, <1>17, <1>18, <1>19 DEF IInv

LEMMA FreeNodeKeepsInv ==
  ASSUME IInv, NEW t \in Thread, FreeNode(t)
  PROVE  IInv'
<1> DEFINE x == moribund[t]
<1>1. /\ pc[t] = "free" /\ pc'[t] = caller[t] /\ caller[t] \in {"push", "exit"}
      /\ \A u \in Thread \ {t} : pc'[u] = pc[u] /\ moribund'[u] = moribund[u]
      /\ m_key' = [m_key EXCEPT ![x] = NoKey]
      /\ m_next' = [m_next EXCEPT ![x] = NullNode]
      /\ UNCHANGED <<m_size, elements, m_prev, arg, node, size, caller>>
  BY DEF FreeNode, Goto, IInv, TypeOK
<1>2. /\ Pushing(t)' <=> Pushing(t)
      /\ Evicting(t) /\ ~(Evicting(t)')
      /\ Writing(t) /\ Writing(t)' /\ ~Reading(t) /\ ~(Reading(t)')
  BY <1>1 DEF Pushing, Evicting, Reading, Writing
<1>3. \A u \in Thread \ {t} : /\ Reading(u)' <=> Reading(u)
                              /\ Writing(u)' <=> Writing(u)
                              /\ Pushing(u)' <=> Pushing(u)
                              /\ Evicting(u)' <=> Evicting(u)
  BY <1>1 DEF Pushing, Evicting, Reading, Writing
<1>4. x \in Node /\ m_key[x] \in Key /\ ~isInList(x) /\ m_map[m_key[x]] # x
  BY <1>1, <1>2 DEF IInv, MoribundApart
<1>5. /\ m_key'[x] = NoKey /\ \A m \in Node \ {x} : m_key'[m] = m_key[m]
      /\ \A n \in (Node \cup ListEnd) \ {x} : m_next'[n] = m_next[n]
  BY <1>1, <1>4 DEF IInv, TypeOK
<1>6. /\ Stored' = Stored /\ InList' = InList
      /\ \A m : isInList(m)' <=> isInList(m)
  BY <1>1 DEF Stored, elements, InList, isInList
<1>7. x \notin InList /\ x \notin ListEnd
  BY <1>4, EndsAssumption DEF InList, ListEnd
<1>8. LinksAgree'
  <2>1. InList \subseteq Node
    BY DEF InList
  <2> QED
    BY <1>1, <1>5, <1>6, <1>7, <2>1, LinksOfIInv DEF LinksAgree, ListEnd
<1>9. TypeOK'
  BY EvictType
<1>10. ArgumentsKept' /\ SurplusSeen'
  <2>1. arg[t] \in Key
    BY <1>2, HolderFacts
  <2> QED
    BY <1>1, <2>1 DEF IInv, ArgumentsKept, SurplusSeen
<1>11. LocksOwned' /\ HeldPinned'
  BY <1>1, <1>2, <1>3 DEF IInv, LocksOwned, HeldPinned, elements
\* No element has the node that is deleted.
<1>12. \A k \in Stored : m_map[k] # x /\ m_map[k] \in Node
  BY <1>4 DEF IInv, KeysExact, TypeOK, Stored
<1>13. KeysExact'
  BY <1>1, <1>5, <1>6, <1>12 DEF IInv, KeysExact, elements
<1>14. \A u \in Thread : Evicting(u)' => u # t /\ Evicting(u) /\ moribund[u] # x
                                         /\ moribund[u] \in Node
  BY <1>2, <1>3 DEF IInv, MoribundApart
<1>15. MoribundApart'
  <2> SUFFICES ASSUME NEW u \in Thread, Evicting(u)'
               PROVE  /\ moribund'[u] \in Node /\ m_key'[moribund'[u]] \in Key
                      /\ ~isInList(moribund'[u])
                      /\ pc'[u] = "free" => m_map[m_key'[moribund'[u]]] # moribund'[u]
                      /\ \A v \in Thread :
                            Evicting(v)' /\ moribund'[v] = moribund'[u] => v = u
    BY <1>1, <1>6 DEF MoribundApart, elements, isInList
  <2>1. u # t /\ Evicting(u) /\ moribund'[u] = moribund[u] /\ m_key'[moribund[u]] = m_key[moribund[u]]
    BY <1>1, <1>5, <1>14
  <2>2. /\ moribund[u] \in Node /\ m_key[moribund[u]] \in Key
        /\ ~isInList(moribund[u])
        /\ pc[u] = "free" => m_map[m_key[moribund[u]]] # moribund[u]
        /\ \A v \in Thread : Evicting(v) /\ moribund[v] = moribund[u] => v = u
    BY <2>1 DEF IInv, MoribundApart
  <2> QED
    BY <1>1, <1>2, <1>3, <2>1, <2>2
<1>16. EvictionFinds'
  <2> SUFFICES ASSUME NEW u \in Thread, pc'[u] = "erase"
               PROVE  /\ m_key'[moribund'[u]] \in Stored
                      /\ m_map[m_key'[moribund'[u]]] = moribund'[u]
    BY <1>1, <1>6 DEF EvictionFinds, elements
  <2>1. u # t /\ pc[u] = "erase" /\ Evicting(u)'
    BY <1>1, <1>2 DEF Evicting
  <2>2. moribund'[u] = moribund[u] /\ m_key'[moribund[u]] = m_key[moribund[u]]
    BY <1>1, <1>5, <1>14, <2>1
  <2> QED
    BY <2>1, <2>2, MoribundElement
<1>17. PushedApart'
  <2> SUFFICES ASSUME NEW u \in Thread, Pushing(u)
               PROVE  /\ ~isInList(node[u])
                      /\ \A v \in Thread : pc'[v] = "erase" => moribund'[v] # node[u]
    BY <1>1, <1>2, <1>3, <1>6 DEF PushedApart, isInList
  <2> QED
    BY <1>1 DEF IInv, PushedApart
<1>18. NoneLost'
  <2> SUFFICES ASSUME NEW k \in Stored
               PROVE  \/ isInList(m_map[k])
                      \/ \E u \in Thread : \/ Pushing(u)' /\ node[u] = m_map[k]
                                           \/ pc'[u] = "erase" /\ moribund'[u] = m_map[k]
    BY <1>1, <1>6 DEF NoneLost, elements, isInList
  <2> QED
    BY <1>1, <1>2, <1>3 DEF IInv, NoneLost
<1>19. NoNodeLeaked'
  <2> SUFFICES ASSUME NEW m \in Node \ {x}, m_key[m] # NoKey
               PROVE  \/ m_map[m_key[m]] = m
                      \/ \E u \in Thread : pc'[u] = "free" /\ moribund'[u] = m
    BY <1>1, <1>5 DEF NoNodeLeaked, elements
  <2> QED
    BY <1>1 DEF IInv, NoNodeLeaked
<1>20. ListIntact'
  <2>1. \A m \in InList : m # x /\ m_key'[m] = m_key[m]
    BY <1>5, <1>7 DEF InList
  <2> QED
    BY <1>1, <1>6, <1>8, <2>1 DEF IInv, ListIntact, LinksAgree, elements
<1> QED
  BY <1>9, <1>10, <1>11, <1>13, <1>15, <1>16, <1>17, <1>18, <1>19, <1>20 DEF IInv

\* An empty list, as the constructor and clear() leave it.
LEMMA EmptyList ==
  ASSUME m_prev = [n \in Node \cup ListEnd |->
                     CASE n = m_tail -> m_head [] n = m_head -> NullNode
                       [] OTHER -> OutOfListMarker],
         m_next = [n \in Node \cup ListEnd |-> IF n = m_head THEN m_tail ELSE NullNode]
  PROVE  LinksTyped /\ LinksAgree /\ InList = {}
<1>1. /\ m_prev[m_tail] = m_head /\ m_next[m_head] = m_tail
      /\ \A n \in Node : m_prev[n] = OutOfListMarker
  BY EndsAssumption DEF ListEnd
<1>2. LinksTyped
  BY EndsAssumption DEF LinksTyped, ListEnd
<1>3. InList = {}
  BY <1>1 DEF InList, isInList
<1> QED
  BY <1>1, <1>2, <1>3 DEF LinksAgree

\* At rest nothing is between the map and the list.
LEMMA ClearKeepsInv ==
  ASSUME IInv, clear
  PROVE  IInv'
<1>1. /\ \A t \in Thread : pc[t] = "idle"
      /\ m_map' = [k \in Key |-> NullNode]
      /\ m_key' = [n \in Node |-> IF isInList(n) THEN NoKey ELSE m_key[n]]
      /\ m_size' = 0
      /\ UNCHANGED <<writer, readers, pc, arg, node, size, moribund, caller>>
  BY DEF clear, AtRest, frame
<1>2. \A t \in Thread : /\ ~Reading(t) /\ ~Writing(t) /\ ~Pushing(t) /\ ~Evicting(t)
                        /\ ~(Reading(t)') /\ ~(Writing(t)')
                        /\ ~(Pushing(t)') /\ ~(Evicting(t)')
  BY <1>1 DEF Reading, Writing, Pushing, Evicting
<1>3. LinksTyped' /\ LinksAgree' /\ InList' = {} /\ Stored' = {}
  <2>1. Stored' = {}
    BY <1>1 DEF Stored
  <2>2. LinksTyped' /\ LinksAgree' /\ InList' = {}
    <3>1. m_prev' = [n \in Node \cup ListEnd |->
                       CASE n = m_tail -> m_head [] n = m_head -> NullNode
                         [] OTHER -> OutOfListMarker]
          /\ m_next' = [n \in Node \cup ListEnd |-> IF n = m_head THEN m_tail ELSE NullNode]
      BY DEF clear
    <3>2. /\ m_prev'[m_tail] = m_head /\ m_next'[m_head] = m_tail
          /\ \A n \in Node : m_prev'[n] = OutOfListMarker
      BY <3>1, EndsAssumption DEF ListEnd
    <3>3. InList' = {}
      BY <3>2 DEF InList, isInList
    <3>4. LinksTyped'
      BY <3>1, EndsAssumption DEF LinksTyped, ListEnd
    <3> QED
      BY <3>2, <3>3, <3>4 DEF LinksAgree
  <2> QED
    BY <2>1, <2>2
<1>4. TypeOK'
  BY <1>1, <1>3 DEF IInv, TypeOK, LinksTyped
<1>5. LocksOwned'
  BY <1>1, <1>2 DEF IInv, LocksOwned
<1>6. NoNodeLeaked'
  <2> SUFFICES ASSUME NEW n \in Node, m_key'[n] # NoKey PROVE FALSE
    BY DEF NoNodeLeaked
  <2>1. ~isInList(n) /\ m_key[n] \in Key
    BY <1>1 DEF IInv, TypeOK
  <2>2. m_map[m_key[n]] = n
    BY <1>1, <2>1, EndsAssumption DEF IInv, NoNodeLeaked
  <2>3. m_key[n] \in Stored
    BY <2>1, <2>2, EndsAssumption DEF Stored
  <2> QED
    BY <1>1, <1>2, <2>1, <2>2, <2>3 DEF IInv, NoneLost
<1>7. ArgumentsKept' /\ SurplusSeen' /\ HeldPinned' /\ MoribundApart' /\ EvictionFinds'
      /\ PushedApart'
  BY <1>1, <1>2 DEF ArgumentsKept, SurplusSeen, HeldPinned, MoribundApart, EvictionFinds,
                    PushedApart
<1>8. KeysExact' /\ NoneLost' /\ ListIntact'
  BY <1>3 DEF KeysExact, NoneLost, ListIntact, LinksAgree
<1> QED
  BY <1>4, <1>5, <1>6, <1>7, <1>8 DEF IInv

(***************************************************************************)
(* The inductive invariant.                                                *)
(***************************************************************************)
LEMMA InitInv == Init => IInv
<1> SUFFICES ASSUME Init PROVE IInv
  OBVIOUS
<1>1. LinksTyped /\ LinksAgree /\ InList = {}
  BY EmptyList DEF Init
<1>2. /\ \A t \in Thread : pc[t] = "idle"
      /\ Stored = {} /\ \A n \in Node : m_key[n] = NoKey
  BY DEF Init, Stored
<1>3. TypeOK
  BY <1>1 DEF Init, TypeOK, LinksTyped, PC
<1>4. LocksOwned
  BY <1>2, EndsAssumption DEF Init, LocksOwned, Reading, Writing
<1>5. ArgumentsKept /\ SurplusSeen /\ HeldPinned /\ MoribundApart /\ EvictionFinds
      /\ PushedApart
  BY <1>2 DEF ArgumentsKept, SurplusSeen, HeldPinned, MoribundApart, EvictionFinds,
              PushedApart, Reading, Writing, Pushing, Evicting
<1>6. KeysExact /\ NoneLost /\ NoNodeLeaked /\ ListIntact
  BY <1>1, <1>2 DEF KeysExact, NoneLost, NoNodeLeaked, ListIntact, LinksAgree
<1> QED
  BY <1>3, <1>4, <1>5, <1>6 DEF IInv

LEMMA StutterInv == IInv /\ UNCHANGED vars => IInv'
<1> SUFFICES ASSUME IInv, UNCHANGED vars PROVE IInv'
  OBVIOUS
<1> USE DEF vars, elements, list, frame
<1>1. TypeOK' /\ ArgumentsKept' /\ SurplusSeen'
  BY DEF IInv, TypeOK, ArgumentsKept, SurplusSeen
<1>2. LocksOwned' /\ HeldPinned'
  BY DEF IInv, LocksOwned, HeldPinned, Reading, Writing
<1>3. KeysExact' /\ NoNodeLeaked' /\ ListIntact'
  BY DEF IInv, KeysExact, NoNodeLeaked, ListIntact, Stored, InList, isInList
<1>4. MoribundApart' /\ EvictionFinds' /\ PushedApart'
  BY DEF IInv, MoribundApart, EvictionFinds, PushedApart, Evicting, Pushing, Stored, isInList
<1>5. NoneLost'
  BY DEF IInv, NoneLost, Pushing, Stored, isInList
<1> QED
  BY <1>1, <1>2, <1>3, <1>4, <1>5 DEF IInv

LEMMA NextInv == IInv /\ [Next]_vars => IInv'
<1> SUFFICES ASSUME IInv, [Next]_vars PROVE IInv'
  OBVIOUS
<1>1. CASE UNCHANGED vars
  BY <1>1, StutterInv
<1>2. CASE clear
  BY <1>2, ClearKeepsInv
<1>3. ASSUME NEW t \in Thread, Call(t) \/ find(t) \/ snapshotKeys(t) PROVE IInv'
  BY <1>3, CallKeepsInv, UseNodeKeepsInv, FindHitKeepsInv, ReleaseConstAccessorKeepsInv
  DEF find
<1>4. ASSUME NEW t \in Thread, evict(t) PROVE IInv'
  BY <1>4, CountingKeepsInv, EvictTailKeepsInv, EraseElementKeepsInv, FreeNodeKeepsInv
  DEF evict
<1>5. ASSUME NEW t \in Thread, insert(t) PROVE IInv'
  BY <1>4, <1>5, CallKeepsInv, CountingKeepsInv, InsertNewKeepsInv, PushNodeKeepsInv,
     ReleaseAccessorKeepsInv DEF insert
<1> QED
  BY <1>1, <1>2, <1>3, <1>5 DEF Next, Step

(***************************************************************************)
(* The theorems.                                                           *)
(***************************************************************************)
\* IInv holds in every reachable state of the cache.
THEOREM Invariance == Spec => []IInv
<1> QED
  BY InitInv, NextInv, PTL DEF Spec

\* Every variable of the cache keeps a value of its type; in particular the
\* atomic count never goes below zero.
THEOREM Typing == Spec => []TypeOK
<1>1. IInv => TypeOK
  BY DEF IInv
<1> QED
  BY <1>1, Invariance, PTL

\* The links of the list agree in both directions, and every node in it is the
\* node of an element, however the transactions of the threads interleave.
THEOREM LinksStayIntact == Spec => []ListIntact
<1>1. IInv => ListIntact
  BY DEF IInv
<1> QED
  BY <1>1, Invariance, PTL

\* An element of the map is in the list or in the hands of exactly one thread.
THEOREM NoElementLost == Spec => []ElementsTracked
<1>1. ASSUME IInv PROVE ElementsTracked
  <2> SUFFICES ASSUME NEW k \in Stored
               PROVE  /\ m_key[m_map[k]] = k
                      /\ Cardinality({t \in Thread :
                                        \/ Pushing(t) /\ node[t] = m_map[k]
                                        \/ pc[t] = "erase" /\ moribund[t] = m_map[k]})
                         = IF isInList(m_map[k]) THEN 0 ELSE 1
    BY DEF ElementsTracked
  <2> DEFINE n == m_map[k]
             holders == {t \in Thread : \/ Pushing(t) /\ node[t] = n
                                        \/ pc[t] = "erase" /\ moribund[t] = n}
  <2>1. m_key[n] = k
    BY <1>1 DEF IInv, KeysExact
  <2>2. CASE isInList(n)
    <3>1. holders = {}
      BY <1>1, <2>2 DEF IInv, PushedApart, MoribundApart, Evicting
    <3> QED
      BY <2>1, <2>2, <3>1, FS_EmptySet
  <2>3. CASE ~isInList(n)
    <3>1. PICK t \in holders : TRUE
      BY <1>1, <2>3 DEF IInv, NoneLost
    <3>2. ASSUME NEW u \in holders, u # t PROVE FALSE
      <4>1. \A v \in holders : \/ Pushing(v) /\ node[v] = n
                               \/ pc[v] = "erase" /\ Evicting(v) /\ moribund[v] = n
        BY DEF Evicting
      <4>2. CASE Pushing(t) /\ node[t] = n /\ Pushing(u) /\ node[u] = n
        BY <1>1, <3>1, <3>2, <4>2, WriterAlone, PushingWrites
      <4>3. CASE \E v, w \in {t, u} : /\ Pushing(v) /\ node[v] = n
                                      /\ pc[w] = "erase" /\ moribund[w] = n
        BY <1>1, <3>1, <3>2, <4>3 DEF IInv, PushedApart
      <4>4. CASE Evicting(t) /\ moribund[t] = n /\ Evicting(u) /\ moribund[u] = n
        BY <1>1, <3>1, <3>2, <4>4 DEF IInv, MoribundApart
      <4> QED
        BY <3>1, <3>2, <4>1, <4>2, <4>3, <4>4
    <3>3. holders = {t}
      BY <3>1, <3>2
    <3> QED
      BY <2>1, <2>3, <3>3, FS_Singleton
  <2> QED
    BY <2>2, <2>3
<1> QED
  BY <1>1, Invariance, PTL

\* No list node is leaked: one that is allocated belongs to an element or is
\* being deleted.
THEOREM NoLeak == Spec => []NoNodeLeaked
<1>1. IInv => NoNodeLeaked
  BY DEF IInv
<1> QED
  BY <1>1, Invariance, PTL

\* Who holds an accessor keeps the element and its node through all evictions.
THEOREM AccessorPins == Spec => []AccessorsPin
<1>1. ASSUME IInv PROVE AccessorsPin
  BY <1>1, PushingWrites DEF IInv, HeldPinned, AccessorsPin, Reading
<1> QED
  BY <1>1, Invariance, PTL

\* evict() never takes the return that is marked "Presumably unreachable".
THEOREM EvictionAlwaysFinds == Spec => []EvictionFinds
<1>1. IInv => EvictionFinds
  BY DEF IInv
<1> QED
  BY <1>1, Invariance, PTL

\* Only a surplus is reduced, whoever else counts and reduces at the time: once
\* m_size has reached m_maxSize it stays there until clear().
THEOREM FullStaysFull == Spec => StaysFull
<1>1. ASSUME IInv, [Next]_vars
      PROVE  [m_size >= MaxSize => m_size' >= MaxSize \/ clear]_vars
  <2>1. m_size \in Nat /\ MaxSize \in Nat
    BY <1>1, SizeAssumption DEF IInv, TypeOK
  <2>2. ASSUME NEW t \in Thread, Reduce(t)
        PROVE  m_size >= MaxSize => m_size' >= MaxSize
    <3>1. size[t] > MaxSize
      BY <1>1, <2>2 DEF Reduce, IInv, SurplusSeen
    <3> QED
      BY <2>1, <2>2, <3>1 DEF Reduce
  <2>3. ASSUME NEW t \in Thread, Call(t) \/ find(t) \/ snapshotKeys(t) PROVE m_size' = m_size
    BY <2>3 DEF Call, CallFind, CallInsert, CallSnapshot, find, FindMiss, FindHit, UseNode,
                SkipUse, ReleaseConstAccessor, snapshotKeys
  <2>4. ASSUME NEW t \in Thread, evict(t) PROVE m_size' = m_size
    BY <2>4 DEF evict, EvictNothing, EvictTail, EraseElement, FreeNode
  <2>5. ASSUME NEW t \in Thread,
               InsertPresent(t) \/ InsertNew(t) \/ LoadSize(t) \/ PushNode(t)
               \/ ReleaseAccessor(t)
        PROVE  m_size' = m_size
    BY <2>5 DEF InsertPresent, InsertNew, LoadSize, PushNode, ReleaseAccessor
  <2>6. ASSUME NEW t \in Thread, Call(t) \/ Step(t)
        PROVE  m_size >= MaxSize => m_size' >= MaxSize
    <3>1. CASE CountNode(t)
      BY <2>1, <3>1 DEF CountNode
    <3>2. CASE m_size' = m_size
      BY <3>2
    <3> QED
      BY <2>2, <2>3, <2>4, <2>5, <2>6, <3>1, <3>2 DEF Step, insert
  <2> QED
    BY <1>1, <2>6 DEF Next
<1> QED
  BY <1>1, Invariance, PTL DEF Spec, StaysFull

(***************************************************************************)
(* How full the cache can get, and that it is not left emptier than it     *)
(* counts: SizeInv balances m_size, the length of the list and the number  *)
(* of threads that are between two of their steps.  An eviction may find   *)
(* the list empty; that it is empty then, and has no loop beside it, is    *)
(* Rooted.                                                                 *)
(***************************************************************************)

(***************************************************************************)
(* The transactions on the list leave no loop beside it.                   *)
(***************************************************************************)
\* Only if no node is in the list is the tail next to the head.
LEMMA NothingToEvict ==
  ASSUME LinksAgree, Rooted, m_prev[m_tail] = m_head
  PROVE  InList = {}
<1>1. m_next[m_head] = m_tail /\ m_tail \notin InList
  BY EndsAssumption DEF LinksAgree, InList
<1>2. \A n \in InList : m_prev[n] \in InList
  BY <1>1 DEF LinksAgree
<1> QED
  BY <1>2 DEF Rooted

LEMMA PushKeepsRooted ==
  ASSUME LinksTyped, LinksAgree, Rooted, NEW x \in Node, ~isInList(x), pushFront(x)
  PROVE  Rooted'
<1> DEFINE f == m_next[m_head]
<1>1. /\ InList' = InList \cup {x} /\ x \notin InList /\ InList \subseteq Node
      /\ m_head \notin InList' /\ m_head # m_tail
  BY PushKeepsLinks, EndsAssumption DEF InList, ListEnd
<1>2. f \in InList \cup {m_tail}
  BY DEF LinksAgree
<1>3. /\ m_prev'[x] = m_head /\ m_prev'[f] = x
      /\ \A n \in InList \ {f} : m_prev'[n] = m_prev[n]
  BY <1>1, <1>2, EndsAssumption DEF pushFront, LinksTyped, ListEnd
<1> SUFFICES ASSUME NEW S \in SUBSET InList', \A n \in S : m_prev'[n] \in S
             PROVE  S = {}
  BY DEF Rooted
<1>4. x \notin S /\ f \notin S
  BY <1>1, <1>3
<1>5. S \subseteq InList /\ \A n \in S : m_prev[n] \in S
  BY <1>1, <1>3, <1>4
<1> QED
  BY <1>5 DEF Rooted

LEMMA DelinkKeepsRooted ==
  ASSUME LinksTyped, LinksAgree, Rooted, m_prev[m_tail] # m_head, delink(m_prev[m_tail])
  PROVE  Rooted'
<1> DEFINE x == m_prev[m_tail]
<1>1. InList' = InList \ {x} /\ x \in InList /\ InList \subseteq Node /\ m_tail \notin InList
  BY DelinkKeepsLinks, EndsAssumption DEF InList
<1>2. m_next[x] = m_tail
  BY <1>1 DEF LinksAgree
<1>3. \A n \in InList' : m_prev'[n] = m_prev[n]
  BY <1>1, <1>2 DEF delink, LinksTyped, ListEnd
<1> SUFFICES ASSUME NEW S \in SUBSET InList', \A n \in S : m_prev'[n] \in S
             PROVE  S = {}
  BY DEF Rooted
<1> QED
  BY <1>1, <1>3 DEF Rooted

\* A loop that the move left beside the list would have been there before,
\* through the node that moved.
LEMMA MoveKeepsRooted ==
  ASSUME LinksTyped, LinksAgree, Rooted, NEW x \in Node, isInList(x), MoveToFront(x)
  PROVE  Rooted'
<1> DEFINE p == m_prev[x]
           q == m_next[x]
           f == m_next[m_head]
<1>1. InList' = InList /\ x \in InList /\ InList \subseteq Node /\ m_head \notin InList
  BY MoveKeepsLinks, EndsAssumption DEF InList
<1>2. CASE p = m_head
  BY <1>1, <1>2 DEF MoveToFront, Rooted, list
<1>3. CASE p # m_head
  <2>1. /\ p \in InList /\ q \in InList \cup {m_tail} /\ m_prev[q] = x
        /\ f \in InList \cup {m_tail} /\ m_prev[f] = m_head /\ f # x /\ f # q
    BY <1>1, <1>3 DEF LinksAgree
  <2>2. /\ m_prev'[x] = m_head /\ m_prev'[f] = x /\ (q # x => m_prev'[q] = p)
        /\ \A n \in InList \ {x, f, q} : m_prev'[n] = m_prev[n]
    BY <1>1, <1>3, <2>1 DEF MoveToFront, LinksTyped, ListEnd
  <2> SUFFICES ASSUME NEW S \in SUBSET InList', \A n \in S : m_prev'[n] \in S
               PROVE  S = {}
    BY DEF Rooted
  <2>3. x \notin S /\ f \notin S /\ S \subseteq InList
    BY <1>1, <2>2
  <2>4. CASE q \in S
    <3>1. p \in S
      BY <2>2, <2>3, <2>4
    <3>2. \A n \in S \cup {x} : m_prev[n] \in S \cup {x}
      BY <2>1, <2>2, <2>3, <3>1
    <3> QED
      BY <1>1, <2>3, <3>2 DEF Rooted
  <2>5. CASE q \notin S
    <3>1. \A n \in S : m_prev[n] \in S
      BY <2>2, <2>3, <2>5
    <3> QED
      BY <2>3, <3>1 DEF Rooted
  <2> QED
    BY <2>4, <2>5
<1> QED
  BY <1>2, <1>3

(***************************************************************************)
(* The numbers of threads that are in the middle of something.             *)
(***************************************************************************)
Has(S, t) == IF t \in S THEN 1 ELSE 0

\* Two sets that differ by one element at most.
LEMMA OneApart ==
  ASSUME NEW S, NEW T, NEW t, IsFiniteSet(S), S \ {t} = T \ {t}
  PROVE  /\ IsFiniteSet(T) /\ Cardinality(S) \in Nat /\ Cardinality(T) \in Nat
         /\ Cardinality(T) = Cardinality(S) - Has(S, t) + Has(T, t)
<1> DEFINE R == S \ {t}
<1>1. IsFiniteSet(R) /\ Cardinality(R) = Cardinality(S) - Has(S, t)
  BY FS_RemoveElement, FS_CardinalityType DEF Has
<1>2. S = IF t \in S THEN R \cup {t} ELSE R
  OBVIOUS
<1>3. T = IF t \in T THEN R \cup {t} ELSE R
  OBVIOUS
<1>4. IsFiniteSet(T) /\ Cardinality(T) = Cardinality(R) + Has(T, t)
  <2> HIDE DEF R
  <2>1. CASE t \in T
    <3>1. T = R \cup {t} /\ t \notin R
      BY <1>3, <2>1 DEF R
    <3> QED
      BY <1>1, <2>1, <3>1, FS_AddElement DEF Has
  <2>2. CASE t \notin T
    <3>1. T = R /\ Cardinality(R) \in Nat
      BY <1>1, <1>3, <2>2, FS_CardinalityType
    <3> QED
      BY <1>1, <2>2, <3>1 DEF Has
  <2> QED
    BY <2>1, <2>2
<1> QED
  BY <1>1, <1>4, FS_CardinalityType

\* A step of t adds t to each of the sets, removes it, or neither.
LEMMA CountsMove ==
  ASSUME NEW t \in Thread,
         \A u \in Thread \ {t} : pc'[u] = pc[u] /\ size'[u] = size[u] /\ caller'[u] = caller[u]
  PROVE  /\ Cardinality(Counting') = Cardinality(Counting) - Has(Counting, t) + Has(Counting', t)
         /\ Cardinality(Willing') = Cardinality(Willing) - Has(Willing, t) + Has(Willing', t)
         /\ Cardinality(Paid') = Cardinality(Paid) - Has(Paid, t) + Has(Paid', t)
         /\ Cardinality(Afloat') = Cardinality(Afloat) - Has(Afloat, t) + Has(Afloat', t)
         /\ Cardinality(Owing') = Cardinality(Owing) - Has(Owing, t) + Has(Owing', t)
<1>1. /\ IsFiniteSet(Counting) /\ IsFiniteSet(Willing) /\ IsFiniteSet(Paid)
      /\ IsFiniteSet(Afloat) /\ IsFiniteSet(Owing)
  <2>1. /\ Counting \subseteq Thread /\ Willing \subseteq Thread /\ Paid \subseteq Thread
        /\ Afloat \subseteq Thread /\ Owing \subseteq Thread
    BY DEF Counting, Willing, Paid, Afloat, Owing
  <2> QED
    BY <2>1, ThreadAssumption, FS_Subset
<1>2. Counting \ {t} = Counting' \ {t}
  BY DEF Counting
<1>3. Willing \ {t} = Willing' \ {t}
  BY DEF Willing, Counting
<1>4. Paid \ {t} = Paid' \ {t}
  BY DEF Paid
<1>5. Afloat \ {t} = Afloat' \ {t}
  BY DEF Afloat
<1>6. Owing \ {t} = Owing' \ {t}
  BY DEF Owing
<1> QED
  BY <1>1, <1>2, <1>3, <1>4, <1>5, <1>6, OneApart

\* The numbers are natural, and at most that of all threads.
LEMMA CountTypes ==
  /\ Cardinality(Thread) \in Nat
  /\ Cardinality(Counting) \in Nat /\ Cardinality(Willing) \in 0 .. Cardinality(Thread)
  /\ Cardinality(Paid) \in Nat /\ Cardinality(Owing) \in Nat
  /\ Cardinality(Afloat) \in 0 .. Cardinality(Thread)
  /\ Cardinality(Willing') \in 0 .. Cardinality(Thread)
  /\ Cardinality(Afloat') \in 0 .. Cardinality(Thread)
<1>1. /\ Counting \subseteq Thread /\ Willing \subseteq Thread /\ Paid \subseteq Thread
      /\ Afloat \subseteq Thread /\ Owing \subseteq Thread
      /\ Willing' \subseteq Thread /\ Afloat' \subseteq Thread
  BY DEF Counting, Willing, Paid, Afloat, Owing
<1>2. \A S \in SUBSET Thread : Cardinality(S) \in Nat /\ Cardinality(S) <= Cardinality(Thread)
  BY ThreadAssumption, FS_Subset, FS_CardinalityType
<1>3. Cardinality(Thread) \in Nat
  BY ThreadAssumption, FS_CardinalityType
<1> QED
  BY <1>1, <1>2, <1>3

(***************************************************************************)
(* Every step keeps the balance.                                           *)
(***************************************************************************)
\* What a step does not touch.
OthersStay(t) == \A u \in Thread \ {t} :
    pc'[u] = pc[u] /\ size'[u] = size[u] /\ caller'[u] = caller[u]

Types == /\ m_size \in Nat /\ MaxSize \in Nat \ {0}
         /\ \A t \in Thread : size[t] \in Nat /\ caller[t] \in {"push", "exit"}

LEMMA TypesOfIInv == ASSUME IInv PROVE Types
  BY SizeAssumption DEF IInv, TypeOK, Types

\* The list is not touched.
LEMMA ListStays ==
  ASSUME SizeInv, UNCHANGED m_prev
  PROVE  InList' = InList /\ Rooted' /\ IsFiniteSet(InList)' /\ Cardinality(InList) \in Nat
<1>1. InList' = InList
  BY DEF InList, isInList
<1>2. Rooted'
  BY <1>1 DEF SizeInv, Rooted
<1> QED
  BY <1>1, <1>2, FS_CardinalityType DEF SizeInv

\* A step between two points where the thread takes no part in the balance.
Aside == {"idle", "find", "use", "held", "insert", "load", "exit", "snapshot"}

LEMMA AsideStep ==
  ASSUME SizeInv, NEW t \in Thread, pc[t] \in Aside, pc'[t] \in Aside, OthersStay(t),
         m_size' = m_size, InList' = InList, Rooted'
  PROVE  SizeInv'
<1>1. /\ Counting' = Counting /\ Willing' = Willing /\ Paid' = Paid
      /\ Afloat' = Afloat /\ Owing' = Owing
  BY DEF Counting, Willing, Paid, Afloat, Owing, OthersStay, Aside
<1>2. EvictsForPush'
  BY DEF SizeInv, EvictsForPush, OthersStay, Aside
<1>3. FillsFirst'
  BY <1>1 DEF SizeInv, FillsFirst, OthersStay, Aside
<1> QED
  BY <1>1, <1>2, <1>3 DEF SizeInv, CountBounded, ListBounded, CountCovered

LEMMA AsideSteps ==
  ASSUME IInv, SizeInv, NEW t \in Thread,
         \/ Call(t) \/ find(t) \/ snapshotKeys(t)
         \/ InsertPresent(t) \/ InsertNew(t) \/ ReleaseAccessor(t)
  PROVE  SizeInv'
<1> USE DEF Goto, elements, list, frame
<1>1. /\ pc[t] \in Aside /\ pc'[t] \in Aside /\ OthersStay(t) /\ m_size' = m_size
      /\ UNCHANGED m_prev \/ UseNode(t)
  <2> USE DEF IInv, TypeOK, Aside, OthersStay
  <2>1. CASE Call(t)
    BY <2>1 DEF Call, CallFind, CallInsert, CallSnapshot
  <2>2. CASE FindMiss(t) \/ FindHit(t) \/ SkipUse(t)
    BY <2>2 DEF FindMiss, FindHit, SkipUse
  <2>3. CASE ReleaseConstAccessor(t) \/ snapshotKeys(t)
    BY <2>3 DEF ReleaseConstAccessor, snapshotKeys
  <2>4. CASE InsertPresent(t) \/ InsertNew(t) \/ ReleaseAccessor(t)
    BY <2>4 DEF InsertPresent, InsertNew, ReleaseAccessor
  <2>5. CASE UseNode(t)
    BY <2>5 DEF UseNode
  <2> QED
    BY <2>1, <2>2, <2>3, <2>4, <2>5 DEF find
<1>2. CASE UNCHANGED m_prev
  BY <1>1, <1>2, ListStays, AsideStep
<1>3. CASE UseNode(t) /\ ~UNCHANGED m_prev
  <2>1. node[t] \in Node
    BY <1>3, HolderFacts DEF UseNode, Reading
  <2>2. isInList(node[t]) /\ MoveToFront(node[t])
    BY <1>3 DEF UseNode
  <2>3. InList' = InList /\ Rooted'
    BY <2>1, <2>2, LinksOfIInv, MoveKeepsLinks, MoveKeepsRooted DEF SizeInv
  <2> QED
    BY <1>1, <2>3, AsideStep
<1> QED
  BY <1>1, <1>2, <1>3

LEMMA LoadSizeStep ==
  ASSUME IInv, SizeInv, NEW t \in Thread, LoadSize(t)
  PROVE  SizeInv'
<1> DEFINE T == Cardinality(Thread)
<1>1. /\ pc[t] = "load" /\ m_size' = m_size /\ OthersStay(t) /\ size'[t] = m_size
      /\ IF m_size >= MaxSize THEN pc'[t] = "evict" /\ caller'[t] = "push"
         ELSE pc'[t] = "push" /\ caller'[t] = caller[t]
  BY DEF LoadSize, IInv, TypeOK, OthersStay
<1>2. /\ InList' = InList /\ Rooted' /\ IsFiniteSet(InList)' /\ Cardinality(InList) \in Nat
  BY ListStays DEF LoadSize, list
<1>3. Types
  BY TypesOfIInv
<1>4. EvictsForPush'
  BY <1>1, <1>3 DEF SizeInv, EvictsForPush, OthersStay, Types
<1>5. CASE m_size >= MaxSize
  <2>1. /\ Counting' = Counting /\ Willing' = Willing /\ Paid' = Paid
        /\ Afloat' = Afloat /\ Owing' = Owing
    BY <1>1, <1>5 DEF Counting, Willing, Paid, Afloat, Owing, OthersStay
  <2>2. FillsFirst'
    BY <1>1, <1>3, <1>5 DEF FillsFirst, Types
  <2> QED
    BY <1>1, <1>2, <1>4, <2>1, <2>2 DEF SizeInv, CountBounded, ListBounded, CountCovered
<1>6. CASE m_size < MaxSize
  <2>1. ~(m_size >= MaxSize)
    BY <1>3, <1>6 DEF Types
  <2>2. /\ Counting' = Counting /\ Paid' = Paid /\ Owing' = Owing
    BY <1>1, <1>3, <1>6, <2>1 DEF Counting, Paid, Owing, OthersStay, Types
  <2>3. Counting \cap Afloat' = {} /\ Counting \subseteq Thread /\ Afloat' \subseteq Thread
    BY <1>1, <2>1 DEF Counting, Afloat, OthersStay
  <2>4. Cardinality(Counting) + Cardinality(Afloat') <= T
    <3> DEFINE S == Counting
               A == Afloat'
    <3>1. IsFiniteSet(S) /\ IsFiniteSet(A)
      BY <2>3, ThreadAssumption, FS_Subset
    <3>2. Cardinality(S \cup A) = Cardinality(S) + Cardinality(A) - Cardinality(S \cap A)
      BY <3>1, FS_Union
    <3>3. Cardinality(S \cap A) = 0
      BY <2>3, FS_EmptySet
    <3>4. Cardinality(S \cup A) <= T
      BY <2>3, ThreadAssumption, FS_Subset
    <3>5. Cardinality(S) \in Nat /\ Cardinality(A) \in Nat /\ T \in Nat
      BY <3>1, ThreadAssumption, FS_CardinalityType
    <3> HIDE DEF S, A, T
    <3> QED
      BY <3>2, <3>3, <3>4, <3>5 DEF S, A
  <2>5. FillsFirst'
    BY <1>1, <1>2, <1>6, <2>1, <2>2 DEF SizeInv, FillsFirst, OthersStay
  <2>6. CountBounded'
    BY <1>1, <1>3, <1>6, CountTypes DEF CountBounded, Types
  <2>7. ListBounded'
    BY <1>1, <1>2, <1>3, <1>6, <2>4, CountTypes DEF SizeInv, FillsFirst, ListBounded, Types
  <2>8. CountCovered'
    BY <1>1, <1>2, <2>2 DEF SizeInv, CountCovered
  <2> QED
    BY <1>2, <1>4, <2>5, <2>6, <2>7, <2>8 DEF SizeInv
<1> QED
  BY <1>3, <1>5, <1>6 DEF Types

LEMMA PushNodeStep ==
  ASSUME IInv, SizeInv, NEW t \in Thread, PushNode(t)
  PROVE  SizeInv'
<1>1. /\ pc[t] = "push" /\ m_size' = m_size /\ OthersStay(t)
      /\ size'[t] = size[t] /\ caller'[t] = caller[t] /\ pushFront(node[t])
      /\ size[t] < MaxSize => pc'[t] = "count"
      /\ size[t] >= MaxSize => pc'[t] \in {"reduce", "exit"}
  BY SizeAssumption DEF PushNode, evictionDone, IInv, TypeOK, OthersStay, frame
<1>2. node[t] \in Node /\ ~isInList(node[t])
  BY <1>1, HolderFacts DEF Writing, Pushing, IInv, PushedApart
<1>3. InList' = InList \cup {node[t]} /\ node[t] \notin InList /\ Rooted'
  BY <1>1, <1>2, LinksOfIInv, PushKeepsLinks, PushKeepsRooted DEF SizeInv, InList
<1>4. /\ IsFiniteSet(InList)' /\ Cardinality(InList') = Cardinality(InList) + 1
      /\ Cardinality(InList) \in Nat
  BY <1>3, FS_AddElement, FS_CardinalityType DEF SizeInv
<1>5. Types
  BY TypesOfIInv
<1>6. /\ Cardinality(Counting') = Cardinality(Counting) - Has(Counting, t) + Has(Counting', t)
      /\ Cardinality(Willing') = Cardinality(Willing) - Has(Willing, t) + Has(Willing', t)
      /\ Cardinality(Paid') = Cardinality(Paid) - Has(Paid, t) + Has(Paid', t)
      /\ Cardinality(Afloat') = Cardinality(Afloat) - Has(Afloat, t) + Has(Afloat', t)
      /\ Cardinality(Owing') = Cardinality(Owing) - Has(Owing, t) + Has(Owing', t)
  BY <1>1, CountsMove DEF OthersStay
<1>7. /\ Has(Counting, t) = 0 /\ Has(Afloat, t) = 1 /\ Has(Afloat', t) = 0
      /\ Has(Owing, t) = 0 /\ Has(Owing', t) = 0 /\ Has(Paid', t) = 0
      /\ size[t] < MaxSize => /\ Has(Counting', t) = 1 /\ Has(Willing', t) = 1
                              /\ Has(Willing, t) = 1 /\ Has(Paid, t) = 0
      /\ size[t] >= MaxSize => /\ Has(Counting', t) = 0 /\ Has(Willing', t) = 0
                               /\ Has(Willing, t) = 0 /\ Has(Paid, t) = 1
  BY <1>1, <1>5 DEF Has, Counting, Willing, Paid, Afloat, Owing, Types
<1>8. EvictsForPush'
  BY <1>1, <1>5 DEF SizeInv, EvictsForPush, OthersStay, Types
<1>9. FillsFirst'
  <2> SUFFICES ASSUME m_size < MaxSize
               PROVE  FillsFirst'
    BY <1>1 DEF FillsFirst
  <2>1. size[t] < MaxSize /\ pc'[t] = "count"
    BY <1>1 DEF SizeInv, FillsFirst
  <2>2. \A u \in Thread : /\ pc'[u] \notin {"reduce", "evict", "erase", "free"}
                          /\ pc'[u] = "push" => size'[u] < MaxSize
    BY <1>1, <2>1 DEF SizeInv, FillsFirst, OthersStay
  <2>3. Cardinality(InList') <= m_size' + Cardinality(Counting')
    BY <1>1, <1>4, <1>5, <1>6, <1>7, <2>1, CountTypes DEF SizeInv, FillsFirst, Types
  <2> QED
    BY <2>2, <2>3 DEF FillsFirst
<1>10. CountBounded'
  BY <1>1, <1>5, <1>6, <1>7, CountTypes DEF SizeInv, CountBounded, Types
<1>11. ListBounded'
  BY <1>4, <1>5, <1>6, <1>7, CountTypes DEF SizeInv, ListBounded, Types
<1>12. CountCovered'
  BY <1>1, <1>4, <1>5, <1>6, <1>7, CountTypes DEF SizeInv, CountCovered, Types
<1> QED
  BY <1>3, <1>4, <1>8, <1>9, <1>10, <1>11, <1>12 DEF SizeInv

\* CountNode and Reduce.
LEMMA SizeStep ==
  ASSUME IInv, SizeInv, NEW t \in Thread, CountNode(t) \/ Reduce(t)
  PROVE  SizeInv'
<1>1. OthersStay(t) /\ UNCHANGED m_prev
  BY DEF CountNode, Reduce, IInv, TypeOK, OthersStay, list
<1>2. /\ InList' = InList /\ Rooted' /\ IsFiniteSet(InList)' /\ Cardinality(InList) \in Nat
  BY <1>1, ListStays
<1>3. Types
  BY TypesOfIInv
<1>4. /\ Cardinality(Counting') = Cardinality(Counting) - Has(Counting, t) + Has(Counting', t)
      /\ Cardinality(Willing') = Cardinality(Willing) - Has(Willing, t) + Has(Willing', t)
      /\ Cardinality(Paid') = Cardinality(Paid) - Has(Paid, t) + Has(Paid', t)
      /\ Cardinality(Afloat') = Cardinality(Afloat) - Has(Afloat, t) + Has(Afloat', t)
      /\ Cardinality(Owing') = Cardinality(Owing) - Has(Owing, t) + Has(Owing', t)
  BY <1>1, CountsMove DEF OthersStay
<1>5. CASE CountNode(t)
  <2>1. /\ pc[t] = "count" /\ m_size' = m_size + 1
        /\ pc'[t] \in {"reduce", "exit"} /\ (m_size < MaxSize => pc'[t] = "exit")
    BY <1>3, <1>5 DEF CountNode, IInv, TypeOK, Types
  <2>2. /\ Has(Counting, t) = 1 /\ Has(Willing, t) = 1 /\ Has(Paid, t) = 0
        /\ Has(Afloat, t) = 0 /\ Has(Owing, t) = 0
        /\ Has(Counting', t) = 0 /\ Has(Willing', t) = 0 /\ Has(Paid', t) = 0
        /\ Has(Afloat', t) = 0 /\ Has(Owing', t) = 0
    BY <2>1 DEF Has, Counting, Willing, Paid, Afloat, Owing
  <2>3. EvictsForPush'
    BY <1>1, <2>1 DEF SizeInv, EvictsForPush, OthersStay
  <2>4. FillsFirst'
    <3> SUFFICES ASSUME m_size < MaxSize PROVE FillsFirst'
      BY <1>3, <2>1 DEF FillsFirst, Types
    <3>1. \A u \in Thread : /\ pc'[u] \notin {"reduce", "evict", "erase", "free"}
                            /\ pc'[u] = "push" => size'[u] < MaxSize
      BY <1>1, <2>1 DEF SizeInv, FillsFirst, OthersStay
    <3>2. Cardinality(InList') <= m_size' + Cardinality(Counting')
      BY <1>2, <1>3, <1>4, <2>1, <2>2, CountTypes DEF SizeInv, FillsFirst, Types
    <3> QED
      BY <3>1, <3>2 DEF FillsFirst
  <2>5. CountBounded' /\ ListBounded' /\ CountCovered'
    BY <1>2, <1>3, <1>4, <2>1, <2>2, CountTypes
       DEF SizeInv, CountBounded, ListBounded, CountCovered, Types
  <2> QED
    BY <1>2, <2>3, <2>4, <2>5 DEF SizeInv
<1>6. CASE Reduce(t)
  <2>1. /\ pc[t] = "reduce" /\ size[t] > MaxSize /\ size'[t] = size[t]
        /\ \/ /\ m_size = size[t] /\ m_size' = m_size - 1
              /\ pc'[t] = "evict" /\ caller'[t] = "exit"
           \/ /\ m_size' = m_size /\ pc'[t] = "exit"
    BY <1>6 DEF Reduce, IInv, TypeOK, SurplusSeen
  <2>2. /\ Has(Counting, t) = 0 /\ Has(Willing, t) = 0 /\ Has(Paid, t) = 0
        /\ Has(Afloat, t) = 0 /\ Has(Owing, t) = 0
        /\ Has(Counting', t) = 0 /\ Has(Willing', t) = 0 /\ Has(Paid', t) = 0
        /\ Has(Afloat', t) = 0 /\ Has(Owing', t) = m_size - m_size'
    BY <1>3, <2>1 DEF Has, Counting, Willing, Paid, Afloat, Owing, Types
  <2>3. EvictsForPush'
    BY <1>1, <2>1 DEF SizeInv, EvictsForPush, OthersStay
  <2>4. m_size >= MaxSize /\ m_size' >= MaxSize
    BY <1>3, <2>1 DEF SizeInv, FillsFirst, Types
  <2>5. FillsFirst'
    BY <1>3, <2>1, <2>4 DEF FillsFirst, Types
  <2>6. CountBounded' /\ ListBounded' /\ CountCovered'
    BY <1>2, <1>3, <1>4, <2>1, <2>2, CountTypes
       DEF SizeInv, CountBounded, ListBounded, CountCovered, Types
  <2> QED
    BY <1>2, <2>3, <2>5, <2>6 DEF SizeInv
<1> QED
  BY <1>5, <1>6

\* The steps of evict that leave the list alone.
LEMMA EvictStep ==
  ASSUME IInv, SizeInv, NEW t \in Thread, EvictNothing(t) \/ EraseElement(t) \/ FreeNode(t)
  PROVE  SizeInv'
<1>1. OthersStay(t) /\ UNCHANGED <<m_prev, m_size, size, caller>>
  BY DEF EvictNothing, EraseElement, FreeNode, Goto, IInv, TypeOK, OthersStay, list, frame
<1>2. /\ InList' = InList /\ Rooted' /\ IsFiniteSet(InList)' /\ Cardinality(InList) \in Nat
  BY <1>1, ListStays
<1>3. Types
  BY TypesOfIInv
<1>4. /\ Cardinality(Counting') = Cardinality(Counting) - Has(Counting, t) + Has(Counting', t)
      /\ Cardinality(Willing') = Cardinality(Willing) - Has(Willing, t) + Has(Willing', t)
      /\ Cardinality(Paid') = Cardinality(Paid) - Has(Paid, t) + Has(Paid', t)
      /\ Cardinality(Afloat') = Cardinality(Afloat) - Has(Afloat, t) + Has(Afloat', t)
      /\ Cardinality(Owing') = Cardinality(Owing) - Has(Owing, t) + Has(Owing', t)
  BY <1>1, CountsMove DEF OthersStay
<1>5. pc[t] \in {"evict", "erase", "free"} /\ (caller[t] = "push" => size[t] >= MaxSize)
  BY DEF EvictNothing, EraseElement, FreeNode, Goto, SizeInv, EvictsForPush
<1>6. m_size >= MaxSize
  BY <1>3, <1>5 DEF SizeInv, FillsFirst, Types
<1>7. FillsFirst'
  BY <1>1, <1>3, <1>6 DEF FillsFirst, Types
<1>8. EvictsForPush'
  BY <1>1, <1>5 DEF SizeInv, EvictsForPush, OthersStay
<1>9. CASE EvictNothing(t)
  <2>1. pc[t] = "evict" /\ pc'[t] = caller[t]
    BY <1>9 DEF EvictNothing, Goto, IInv, TypeOK
  <2>2. Cardinality(InList) = 0
    BY <1>9, LinksOfIInv, NothingToEvict, FS_EmptySet DEF EvictNothing, SizeInv
  <2>3. /\ Has(Counting, t) = 0 /\ Has(Willing, t) = 0 /\ Has(Paid, t) = 0
        /\ Has(Counting', t) = 0 /\ Has(Willing', t) = 0
        /\ Has(Owing', t) = 0 /\ Has(Owing, t) \in Nat /\ Has(Paid', t) \in Nat
    BY <1>1, <1>3, <1>5, <2>1 DEF Has, Counting, Willing, Paid, Owing, Types
  <2>4. CountBounded' /\ ListBounded' /\ CountCovered'
    BY <1>1, <1>2, <1>3, <1>4, <2>2, <2>3, CountTypes
       DEF SizeInv, CountBounded, ListBounded, CountCovered, Types
  <2> QED
    BY <1>2, <1>7, <1>8, <2>4 DEF SizeInv
<1>10. CASE EraseElement(t)
  <2>1. pc[t] = "erase" /\ pc'[t] = "free"
    <3>1. pc[t] = "erase"
      BY <1>10 DEF EraseElement
    <3>2. m_map[m_key[moribund[t]]] # NullNode
      BY <3>1, MoribundElement DEF Stored
    <3> QED
      BY <1>10, <3>1, <3>2 DEF EraseElement, IInv, TypeOK
  <2>2. /\ Counting' = Counting /\ Willing' = Willing /\ Paid' = Paid
        /\ Afloat' = Afloat /\ Owing' = Owing
    BY <1>1, <2>1 DEF Counting, Willing, Paid, Afloat, Owing, OthersStay
  <2> QED
    BY <1>1, <1>2, <1>7, <1>8, <2>2 DEF SizeInv, CountBounded, ListBounded, CountCovered
<1>11. CASE FreeNode(t)
  <2>1. pc[t] = "free" /\ pc'[t] = caller[t]
    BY <1>11 DEF FreeNode, Goto, IInv, TypeOK
  <2>2. /\ Has(Counting, t) = 0 /\ Has(Willing, t) = 0 /\ Has(Owing, t) = 0
        /\ Has(Counting', t) = 0 /\ Has(Willing', t) = 0 /\ Has(Owing', t) = 0
        /\ Has(Paid', t) = Has(Paid, t) /\ Has(Paid, t) \in Nat
        /\ Has(Afloat, t) = 1 /\ Has(Afloat', t) \in 0 .. 1
    BY <1>1, <1>3, <1>5, <2>1 DEF Has, Counting, Willing, Paid, Afloat, Owing, Types
  <2>3. CountBounded' /\ ListBounded' /\ CountCovered'
    BY <1>1, <1>2, <1>3, <1>4, <2>2, CountTypes
       DEF SizeInv, CountBounded, ListBounded, CountCovered, Types
  <2> QED
    BY <1>2, <1>7, <1>8, <2>3 DEF SizeInv
<1> QED
  BY <1>9, <1>10, <1>11

LEMMA EvictTailStep ==
  ASSUME IInv, SizeInv, NEW t \in Thread, EvictTail(t)
  PROVE  SizeInv'
<1> DEFINE x == m_prev[m_tail]
<1>1. /\ pc[t] = "evict" /\ pc'[t] = "erase" /\ OthersStay(t) /\ x # m_head /\ delink(x)
      /\ UNCHANGED <<m_size, size, caller>>
  BY DEF EvictTail, Goto, IInv, TypeOK, OthersStay
<1>2. InList' = InList \ {x} /\ x \in InList /\ Rooted'
  BY <1>1, LinksOfIInv, DelinkKeepsLinks, DelinkKeepsRooted DEF SizeInv
<1>3. /\ IsFiniteSet(InList)' /\ Cardinality(InList') = Cardinality(InList) - 1
      /\ Cardinality(InList) \in Nat
  BY <1>2, FS_RemoveElement, FS_CardinalityType DEF SizeInv
<1>4. Types
  BY TypesOfIInv
<1>5. /\ Cardinality(Counting') = Cardinality(Counting) - Has(Counting, t) + Has(Counting', t)
      /\ Cardinality(Willing') = Cardinality(Willing) - Has(Willing, t) + Has(Willing', t)
      /\ Cardinality(Paid') = Cardinality(Paid) - Has(Paid, t) + Has(Paid', t)
      /\ Cardinality(Afloat') = Cardinality(Afloat) - Has(Afloat, t) + Has(Afloat', t)
      /\ Cardinality(Owing') = Cardinality(Owing) - Has(Owing, t) + Has(Owing', t)
  BY <1>1, CountsMove DEF OthersStay
<1>6. /\ Has(Counting, t) = 0 /\ Has(Willing, t) = 0
      /\ Has(Counting', t) = 0 /\ Has(Willing', t) = 0
      /\ Has(Afloat, t) = 0 /\ Has(Afloat', t) = 1
      /\ Has(Paid, t) = 0 /\ Has(Owing', t) = 0 /\ Has(Paid', t) + Has(Owing, t) = 1
      /\ Has(Paid', t) \in 0 .. 1 /\ Has(Owing, t) \in 0 .. 1
  BY <1>1, <1>4 DEF Has, Counting, Willing, Paid, Afloat, Owing, Types
<1>7. EvictsForPush'
  BY <1>1 DEF SizeInv, EvictsForPush, OthersStay
<1>8. FillsFirst'
  BY <1>1, <1>4 DEF SizeInv, FillsFirst, Types
<1>9. CountBounded' /\ ListBounded' /\ CountCovered'
  BY <1>1, <1>3, <1>4, <1>5, <1>6, CountTypes
     DEF SizeInv, CountBounded, ListBounded, CountCovered, Types
<1> QED
  BY <1>2, <1>3, <1>7, <1>8, <1>9 DEF SizeInv

\* An empty list and no call in progress.
LEMMA EmptyBalance == AtRest /\ m_size = 0 /\ InList = {} => SizeInv
<1> SUFFICES ASSUME AtRest, m_size = 0, InList = {} PROVE SizeInv
  OBVIOUS
<1>1. /\ Counting = {} /\ Willing = {} /\ Paid = {} /\ Afloat = {} /\ Owing = {}
  BY DEF AtRest, Counting, Willing, Paid, Afloat, Owing
<1>2. Cardinality({}) = 0 /\ IsFiniteSet({}) /\ Cardinality(Thread) \in Nat
  BY FS_EmptySet, CountTypes
<1>3. Rooted /\ EvictsForPush
  BY DEF AtRest, Rooted, EvictsForPush
<1>4. FillsFirst
  BY <1>1, <1>2 DEF AtRest, FillsFirst
<1> QED
  BY <1>1, <1>2, <1>3, <1>4, SizeAssumption DEF SizeInv, CountBounded, ListBounded, CountCovered

LEMMA SizeInit == Init => SizeInv
  BY EmptyList, EmptyBalance DEF Init, AtRest

LEMMA ClearStep ==
  ASSUME IInv, clear
  PROVE  SizeInv'
<1>1. InList' = {}
  BY EndsAssumption DEF clear, InList, isInList, ListEnd
<1>2. AtRest' /\ m_size' = 0
  BY DEF clear, AtRest
<1>3. (AtRest /\ m_size = 0 /\ InList = {} => SizeInv)'
  BY EmptyBalance, PTL
<1> QED
  BY <1>1, <1>2, <1>3

LEMMA SizeStutter ==
  ASSUME SizeInv, UNCHANGED vars
  PROVE  SizeInv'
<1>1. InList' = InList /\ Rooted'
  BY ListStays DEF vars, list
<1>2. /\ Counting' = Counting /\ Willing' = Willing /\ Paid' = Paid
      /\ Afloat' = Afloat /\ Owing' = Owing
  BY DEF Counting, Willing, Paid, Afloat, Owing, vars, frame
<1> QED
  BY <1>1, <1>2 DEF SizeInv, EvictsForPush, FillsFirst, CountBounded, ListBounded, CountCovered,
                    vars, frame

LEMMA SizeNext == IInv /\ SizeInv /\ [Next]_vars => SizeInv'
<1> SUFFICES ASSUME IInv, SizeInv, [Next]_vars PROVE SizeInv'
  OBVIOUS
<1>1. CASE UNCHANGED vars
  BY <1>1, SizeStutter
<1>2. CASE clear
  BY <1>2, ClearStep
<1>3. ASSUME NEW t \in Thread, Call(t) \/ find(t) \/ snapshotKeys(t) PROVE SizeInv'
  BY <1>3, AsideSteps
<1>4. ASSUME NEW t \in Thread, evict(t) PROVE SizeInv'
  BY <1>4, EvictStep, EvictTailStep DEF evict
<1>5. ASSUME NEW t \in Thread, insert(t) PROVE SizeInv'
  BY <1>4, <1>5, AsideSteps, LoadSizeStep, PushNodeStep, SizeStep DEF insert
<1> QED
  BY <1>1, <1>2, <1>3, <1>5 DEF Next, Step

(***************************************************************************)
(* The theorems.                                                           *)
(***************************************************************************)
\* SizeInv holds in every reachable state of the cache.
THEOREM Balance == Spec => []SizeInv
<1> QED
  BY SizeInit, SizeNext, Invariance, PTL DEF Spec

\* Different elements have different nodes.
LEMMA NodesApart ==
  ASSUME IInv
  PROVE  /\ \A k, l \in Stored : m_map[k] = m_map[l] => k = l
         /\ \A k \in Stored : m_map[k] \in Node
  BY DEF IInv, KeysExact, TypeOK, Stored

\* At rest every node of the list is that of an element.
LEMMA ListAtRest ==
  ASSUME IInv, SizeInv
  PROVE  NotUnderfilled
<1> SUFFICES ASSUME AtRest
             PROVE  m_size <= Cardinality(Stored)
  BY DEF NotUnderfilled
<1>1. Counting = {} /\ Paid = {} /\ Owing = {}
  BY DEF AtRest, Counting, Paid, Owing
<1>2. Types /\ Cardinality(InList) \in Nat
  BY TypesOfIInv, FS_CardinalityType DEF SizeInv
<1>3. m_size <= Cardinality(InList)
  BY <1>1, <1>2, FS_EmptySet DEF SizeInv, CountCovered, Types
<1> DEFINE f == [k \in Stored |-> m_map[k]]
           g == [n \in InList |-> m_key[n]]
<1>4. \A k \in Stored : m_map[k] \in InList
  BY DEF AtRest, IInv, NoneLost, Pushing, TypeOK, Stored, InList
<1>5. f \in [Stored -> InList] /\ \A k, l \in Stored : f[k] = f[l] => k = l
  BY <1>4, NodesApart
<1>6. f \in Injection(Stored, InList)
  BY <1>5 DEF Injection, IsInjective
<1>7. IsFiniteSet(Stored)
  <2> HIDE DEF f
  <2> QED
    BY <1>6, FS_Injection DEF SizeInv
<1>8. g \in [InList -> Stored] /\ \A m, n \in InList : g[m] = g[n] => m = n
  BY DEF IInv, ListIntact
<1>9. g \in Injection(InList, Stored)
  BY <1>8 DEF Injection, IsInjective
<1>10. Cardinality(InList) <= Cardinality(Stored)
  <2> HIDE DEF g
  <2> QED
    BY <1>7, <1>9, FS_Injection
<1>11. Cardinality(Stored) \in Nat
  BY <1>7, FS_CardinalityType
<1> QED
  BY <1>2, <1>3, <1>10, <1>11 DEF Types

\* The nodes that threads hold are no more than the threads.
LEMMA HeldNodes ==
  ASSUME NEW S \in SUBSET Thread, NEW f
  PROVE  /\ IsFiniteSet({f[t] : t \in S}) /\ Cardinality({f[t] : t \in S}) \in Nat
         /\ Cardinality({f[t] : t \in S}) <= Cardinality(S) /\ Cardinality(S) \in Nat
<1> DEFINE R == {f[t] : t \in S}
           g == [t \in S |-> f[t]]
<1>1. IsFiniteSet(S)
  BY ThreadAssumption, FS_Subset
<1>2. g \in [S -> R] /\ \A y \in R : \E t \in S : g[t] = y
  OBVIOUS
<1>3. g \in Surjection(S, R)
  BY <1>2 DEF Surjection
<1>4. IsFiniteSet(R) /\ Cardinality(R) <= Cardinality(S)
  <2> HIDE DEF g, R
  <2> QED
    BY <1>1, <1>3, FS_Surjection
<1> QED
  BY <1>1, <1>4, FS_CardinalityType

LEMMA StoredBounded ==
  ASSUME IInv, SizeInv
  PROVE  OverfillBounded
<1> DEFINE P == {t \in Thread : Pushing(t)}
           A == {node[t] : t \in P}
           B == {moribund[t] : t \in Afloat}
           U == (InList \cup A) \cup B
           f == [k \in Stored |-> m_map[k]]
<1>1. Types /\ IsFiniteSet(InList) /\ Cardinality(InList) \in Nat
  BY TypesOfIInv, FS_CardinalityType DEF SizeInv
<1>2. P \in SUBSET Thread /\ Afloat \in SUBSET Thread
  BY DEF Afloat
<1>3. /\ IsFiniteSet(A) /\ Cardinality(A) \in Nat
      /\ Cardinality(A) <= Cardinality(P) /\ Cardinality(P) \in Nat
  <2> HIDE DEF P
  <2> QED
    BY <1>2, HeldNodes
<1>4. /\ IsFiniteSet(B) /\ Cardinality(B) \in Nat
      /\ Cardinality(B) <= Cardinality(Afloat) /\ Cardinality(Afloat) \in Nat
  BY <1>2, HeldNodes
<1>5. \A k \in Stored : m_map[k] \in U
  BY NodesApart DEF IInv, NoneLost, InList, Afloat
<1>6. f \in [Stored -> U] /\ \A k, l \in Stored : f[k] = f[l] => k = l
  BY <1>5, NodesApart
<1>7. f \in Injection(Stored, U)
  BY <1>6 DEF Injection, IsInjective
<1> HIDE DEF f, A, B, P
<1>8. /\ IsFiniteSet(InList \cup A)
      /\ Cardinality(InList \cup A) <= Cardinality(InList) + Cardinality(A)
      /\ Cardinality(InList \cup A) \in Nat
  <2>1. /\ IsFiniteSet(InList \cup A)
        /\ Cardinality(InList \cup A)
              = Cardinality(InList) + Cardinality(A) - Cardinality(InList \cap A)
    BY <1>1, <1>3, FS_Union
  <2>2. Cardinality(InList \cap A) \in Nat
    BY <1>1, FS_Subset, FS_CardinalityType
  <2>3. Cardinality(InList \cup A) \in Nat
    BY <2>1, FS_CardinalityType
  <2> QED
    BY <1>1, <1>3, <2>1, <2>2, <2>3
<1>9. IsFiniteSet(U) /\ Cardinality(U) <= Cardinality(InList \cup A) + Cardinality(B)
      /\ Cardinality(U) \in Nat
  <2> DEFINE L == InList \cup A
  <2>1. IsFiniteSet(L \cup B) /\ Cardinality(L \cup B)
              = Cardinality(L) + Cardinality(B) - Cardinality(L \cap B)
    BY <1>4, <1>8, FS_Union
  <2>2. Cardinality(L \cap B) \in Nat
    BY <1>8, FS_Subset, FS_CardinalityType
  <2>3. Cardinality(L \cup B) \in Nat
    BY <2>1, FS_CardinalityType
  <2> QED
    BY <1>4, <1>8, <2>1, <2>2, <2>3
<1>10. IsFiniteSet(Stored) /\ Cardinality(Stored) <= Cardinality(U) /\ Cardinality(Stored) \in Nat
  <2>1. IsFiniteSet(Stored) /\ Cardinality(Stored) <= Cardinality(U)
    <3> HIDE DEF U
    <3> QED
      BY <1>7, <1>9, FS_Injection
  <2> QED
    BY <2>1, FS_CardinalityType
<1>11. m_size < MaxSize + Cardinality(Thread)
  BY <1>1, CountTypes DEF SizeInv, CountBounded, Types
<1>12. Cardinality(Stored) < MaxSize + Cardinality(Thread) + Cardinality(P)
  <2> HIDE DEF U
  <2> QED
    BY <1>1, <1>3, <1>4, <1>8, <1>9, <1>10, CountTypes DEF SizeInv, ListBounded, Types
<1> QED
  BY <1>11, <1>12 DEF OverfillBounded, P

\* The cache exceeds m_maxSize by fewer elements than there are threads, not
\* counting those that are still on their way into the list.
THEOREM OverfillIsBounded == Spec => []OverfillBounded
<1> QED
  BY StoredBounded, Balance, Invariance, PTL

\* Threads that reduce a surplus together leave no less than m_size elements.
THEOREM SurplusOnlyReduced == Spec => []NotUnderfilled
<1> QED
  BY ListAtRest, Balance, Invariance, PTL

(***************************************************************************)
(* The order of the list.  Its nodes are numbered from m_head to m_tail:   *)
(* each transaction has a numbering to show for the list it leaves.        *)
(***************************************************************************)
\* A set of numbers has a least one.
LEMMA LeastNumber ==
  ASSUME NEW S \in SUBSET Nat, S # {}
  PROVE  \E x \in S : \A y \in S : x <= y
<1> DEFINE R == OpToRel(<, Nat)
<1>1. IsWellFoundedOn(R, Nat)
  BY NatLessThanWellFounded, Zenon
<1>2. \A x, y \in Nat : y < x => <<y, x>> \in R
  BY DEF OpToRel
<1> HIDE DEF R
<1>3. PICK x \in S : \A y \in S : <<y, x>> \notin R
  BY <1>1, WFMin
<1>4. ASSUME NEW y \in S PROVE x <= y
  <2>1. x \in Nat /\ y \in Nat
    OBVIOUS
  <2>2. ~(y < x)
    BY <1>2, <1>3, <2>1
  <2> QED
    BY <2>1, <2>2
<1> QED
  BY <1>4

\* s numbers the nodes of A in the order in which the links lead from m_head
\* to m_tail.
InOrder(A, next, L, s) ==
    /\ s \in [1 .. L -> A]
    /\ \A n \in A : \E i \in 1 .. L : s[i] = n
    /\ \A i, j \in 1 .. L : s[i] = s[j] => i = j
    /\ next[m_head] = IF L = 0 THEN m_tail ELSE s[1]
    /\ \A i \in 1 .. L : next[s[i]] = IF i = L THEN m_tail ELSE s[i + 1]

\* An element before a sequence.
LEMMA Prepend ==
  ASSUME NEW L \in Nat, NEW f, f = [i \in 1 .. L |-> f[i]], NEW k
  PROVE  <<k>> \o f = [i \in 1 .. L + 1 |-> IF i = 1 THEN k ELSE f[i - 1]]
<1> DEFINE S == {f[i] : i \in 1 .. L} \cup {k}
<1>1. f \in [1 .. L -> S] /\ k \in S
  OBVIOUS
<1> HIDE DEF S
<1> QED
  BY <1>1

\* A function that satisfies the equation of keysFrom.
ReadsKeys(g, A, next, key) ==
    g = [n \in A \cup {m_tail} |-> IF n = m_tail THEN << >>
                                   ELSE <<key[n]>> \o g[next[n]]]

\* The last node for which it would not return the keys from there on is none.
LEMMA KeysRead ==
  ASSUME NEW A, m_tail \notin A, NEW next, NEW key, NEW L \in Nat, NEW s,
         InOrder(A, next, L, s), NEW g, ReadsKeys(g, A, next, key)
  PROVE  g[next[m_head]] = [i \in 1 .. L |-> key[s[i]]]
<1> DEFINE From(r) == [j \in 1 .. L - r + 1 |-> key[s[r + j - 1]]]
           Bad == {q \in 0 .. L : q < L /\ g[s[L - q]] # From(L - q)}
<1>1. /\ \A i \in 1 .. L : s[i] \in A /\ s[i] # m_tail
      /\ \A i \in 1 .. L : next[s[i]] = IF i = L THEN m_tail ELSE s[i + 1]
      /\ next[m_head] = IF L = 0 THEN m_tail ELSE s[1]
  BY DEF InOrder
<1>2. g[m_tail] = << >> /\ \A n \in A : g[n] = <<key[n]>> \o g[next[n]]
  BY DEF ReadsKeys
<1>3. Bad = {}
  <2> SUFFICES ASSUME Bad # {} PROVE FALSE
    OBVIOUS
  <2>1. PICK q \in Bad : \A r \in Bad : q <= r
    <3>1. Bad \in SUBSET Nat
      OBVIOUS
    <3> HIDE DEF Bad
    <3> QED
      BY <3>1, LeastNumber
  <2> DEFINE p == L - q
  <2>2. q \in Nat /\ q < L /\ p \in 1 .. L /\ g[s[p]] # From(p)
    OBVIOUS
  <2>3. g[s[p]] = <<key[s[p]]>> \o g[next[s[p]]]
    BY <1>1, <1>2, <2>2
  <2>4. CASE q = 0
    <3>1. p = L /\ g[next[s[p]]] = << >>
      BY <1>1, <1>2, <2>2, <2>4
    <3> DEFINE v == key[s[p]]
    <3>2. From(p) = [j \in 1 .. 1 |-> v]
      <4>1. L - p + 1 = 1 /\ \A j \in 1 .. 1 : p + j - 1 = p
        BY <2>2, <3>1
      <4> QED
        BY <4>1
    <3> HIDE DEF v
    <3>3. <<v>> \o << >> = [j \in 1 .. 1 |-> v]
      OBVIOUS
    <3>4. g[s[p]] = <<v>> \o << >>
      BY <2>3, <3>1 DEF v
    <3> HIDE DEF p, From
    <3> QED
      BY <2>2, <3>2, <3>3, <3>4
  <2>5. CASE q # 0
    <3>1. q - 1 \in 0 .. L /\ q - 1 < L /\ ~(q <= q - 1) /\ L - (q - 1) = p + 1
      BY <2>2, <2>5
    <3>2. g[s[p + 1]] = From(p + 1)
      <4>1. q - 1 \notin Bad
        <5> HIDE DEF Bad
        <5> QED
          BY <2>1, <3>1
      <4> HIDE DEF From, p
      <4>2. g[s[L - (q - 1)]] = From(L - (q - 1))
        BY <3>1, <4>1
      <4> QED
        BY <3>1, <4>2
    <3>3. next[s[p]] = s[p + 1]
      BY <1>1, <2>2, <2>5
    <3>4. From(p + 1) = [j \in 1 .. L - p |-> key[s[p + j]]]
      <4>1. L - (p + 1) + 1 = L - p /\ \A j \in 1 .. L - p : (p + 1) + j - 1 = p + j
        BY <2>2
      <4> QED
        BY <4>1
    <3> DEFINE f == [j \in 1 .. L - p |-> key[s[p + j]]]
    <3>5. g[s[p]] = <<key[s[p]]>> \o f
      BY <2>3, <3>2, <3>3, <3>4
    <3>6. L - p \in Nat /\ f = [j \in 1 .. L - p |-> f[j]]
      BY <2>2
    <3>7. <<key[s[p]]>> \o f = [j \in 1 .. (L - p) + 1 |-> IF j = 1 THEN key[s[p]] ELSE f[j - 1]]
      <4> HIDE DEF f
      <4> QED
        BY <3>6, Prepend
    <3>8. ASSUME NEW j \in 1 .. (L - p) + 1
          PROVE  (IF j = 1 THEN key[s[p]] ELSE f[j - 1]) = key[s[p + j - 1]]
      <4>1. CASE j = 1
        BY <2>2, <4>1
      <4>2. CASE j # 1
        BY <2>2, <4>2
      <4> QED
        BY <4>1, <4>2
    <3> QED
      BY <2>2, <3>5, <3>7, <3>8
  <2> QED
    BY <2>4, <2>5
<1>4. CASE L = 0
  BY <1>1, <1>2, <1>4
<1>5. CASE L # 0
  <2>1. L - 1 \in 0 .. L /\ L - 1 < L /\ L - (L - 1) = 1
    BY <1>5
  <2>2. g[s[1]] = From(1)
    <3> HIDE DEF From
    <3>1. g[s[L - (L - 1)]] = From(L - (L - 1))
      BY <1>3, <2>1
    <3> QED
      BY <2>1, <3>1
  <2>3. From(1) = [i \in 1 .. L |-> key[s[i]]]
    <3>1. L - 1 + 1 = L /\ \A j \in 1 .. L : 1 + j - 1 = j
      OBVIOUS
    <3> QED
      BY <3>1
  <2> QED
    BY <1>1, <1>5, <2>2, <2>3
<1> QED
  BY <1>4, <1>5

\* There is one.
LEMMA KeysReadable ==
  ASSUME NEW A, m_tail \notin A, NEW next, NEW key, NEW L \in Nat, NEW s,
         InOrder(A, next, L, s)
  PROVE  \E g : ReadsKeys(g, A, next, key)
<1> DEFINE at(n) == CHOOSE i \in 1 .. L : s[i] = n
           g == [n \in A \cup {m_tail} |-> IF n = m_tail THEN << >>
                    ELSE [j \in 1 .. L - at(n) + 1 |-> key[s[at(n) + j - 1]]]]
<1>1. \A i \in 1 .. L : s[i] \in A /\ s[i] # m_tail /\ at(s[i]) = i
  BY DEF InOrder
<1> HIDE DEF at
<1>2. ASSUME NEW n \in A
      PROVE  g[n] = <<key[n]>> \o g[next[n]]
  <2>1. PICK p \in 1 .. L : s[p] = n
    BY DEF InOrder
  <2>2. g[n] = [j \in 1 .. L - p + 1 |-> key[s[p + j - 1]]]
    BY <1>1, <2>1
  <2> DEFINE f == [j \in 1 .. L - p |-> key[s[p + j]]]
  <2>3. g[next[n]] = f
    <3>1. CASE p = L
      <4>1. next[n] = m_tail
        BY <2>1, <3>1 DEF InOrder
      <4>2. f = << >>
        BY <3>1
      <4> QED
        BY <4>1, <4>2
    <3>2. CASE p # L
      <4>1. next[n] = s[p + 1] /\ p + 1 \in 1 .. L
        BY <2>1, <3>2 DEF InOrder
      <4>2. s[p + 1] \in A /\ s[p + 1] # m_tail /\ at(s[p + 1]) = p + 1
        BY <1>1, <4>1
      <4>3. g[s[p + 1]] = [j \in 1 .. L - (p + 1) + 1 |-> key[s[(p + 1) + j - 1]]]
        BY <4>2
      <4>4. L - (p + 1) + 1 = L - p /\ \A j \in 1 .. L - p : (p + 1) + j - 1 = p + j
        OBVIOUS
      <4> QED
        BY <4>1, <4>3, <4>4
    <3> QED
      BY <3>1, <3>2
  <2>4. L - p \in Nat /\ f = [j \in 1 .. L - p |-> f[j]]
    OBVIOUS
  <2>5. <<key[n]>> \o f = [j \in 1 .. (L - p) + 1 |-> IF j = 1 THEN key[n] ELSE f[j - 1]]
    <3> HIDE DEF f
    <3> QED
      BY <2>4, Prepend
  <2>6. ASSUME NEW j \in 1 .. (L - p) + 1
        PROVE  (IF j = 1 THEN key[n] ELSE f[j - 1]) = key[s[p + j - 1]]
    <3>1. CASE j = 1
      BY <2>1, <3>1
    <3>2. CASE j # 1
      BY <3>2
    <3> QED
      BY <3>1, <3>2
  <2> HIDE DEF f, g
  <2> QED
    BY <2>2, <2>3, <2>5, <2>6
<1>3. ReadsKeys(g, A, next, key)
  <2>1. g[m_tail] = << >> /\ g = [n \in A \cup {m_tail} |-> g[n]]
    OBVIOUS
  <2> HIDE DEF g
  <2> QED
    BY <1>2, <2>1 DEF ReadsKeys
<1> QED
  BY <1>3

\* keysFrom returns the keys in the order of the numbers.
KeysListed == \A L \in Nat : \A s \in [1 .. L -> Node] :
    InOrder(InList, m_next, L, s) =>
        keysFrom[m_next[m_head]] = [i \in 1 .. L |-> m_key[s[i]]]

LEMMA KeysInOrder == KeysListed
<1> SUFFICES ASSUME NEW L \in Nat, NEW s, InOrder(InList, m_next, L, s)
             PROVE  keysFrom[m_next[m_head]] = [i \in 1 .. L |-> m_key[s[i]]]
  BY DEF KeysListed
<1>1. m_tail \notin InList
  BY EndsAssumption DEF InList
<1>2. PICK g : ReadsKeys(g, InList, m_next, m_key)
  BY <1>1, KeysReadable
<1>3. ReadsKeys(keysFrom, InList, m_next, m_key)
  BY <1>2 DEF keysFrom, ReadsKeys
<1> QED
  BY <1>1, <1>3, KeysRead

\* m_prev leads from each number to the one before it.
LEMMA BackInOrder ==
  ASSUME LinksAgree, NEW L \in Nat, NEW s, InOrder(InList, m_next, L, s)
  PROVE  /\ \A i \in 1 .. L : m_prev[s[i]] = IF i = 1 THEN m_head ELSE s[i - 1]
         /\ m_prev[m_tail] = IF L = 0 THEN m_head ELSE s[L]
<1>1. \A i \in 1 .. L : s[i] \in InList
  BY DEF InOrder
<1>2. ASSUME NEW i \in 1 .. L
      PROVE  m_prev[s[i]] = IF i = 1 THEN m_head ELSE s[i - 1]
  <2>1. CASE i = 1
    <3>1. m_next[m_head] = s[i]
      BY <2>1 DEF InOrder
    <3> QED
      BY <2>1, <3>1 DEF LinksAgree
  <2>2. CASE i # 1
    <3>1. i - 1 \in 1 .. L /\ i - 1 # L /\ (i - 1) + 1 = i
      BY <2>2
    <3>2. m_next[s[i - 1]] = s[i] /\ s[i - 1] \in InList
      BY <1>1, <3>1 DEF InOrder
    <3> QED
      BY <2>2, <3>2 DEF LinksAgree
  <2> QED
    BY <2>1, <2>2
<1>3. m_prev[m_tail] = IF L = 0 THEN m_head ELSE s[L]
  <2>1. CASE L = 0
    BY <2>1 DEF InOrder, LinksAgree
  <2>2. CASE L # 0
    <3>1. m_next[s[L]] = m_tail /\ s[L] \in InList
      BY <1>1, <2>2 DEF InOrder
    <3> QED
      BY <2>2, <3>1 DEF LinksAgree
  <2> QED
    BY <2>1, <2>2
<1> QED
  BY <1>2, <1>3

\* The node x comes first.
Pushed(L, s, x) == [i \in 1 .. L + 1 |-> IF i = 1 THEN x ELSE s[i - 1]]

LEMMA PushInOrder ==
  ASSUME LinksTyped, LinksAgree, NEW x \in Node, ~isInList(x), pushFront(x),
         NEW L \in Nat, NEW s, InOrder(InList, m_next, L, s)
  PROVE  InOrder(InList', m_next', L + 1, Pushed(L, s, x))
<1> DEFINE z == Pushed(L, s, x)
<1>1. InList' = InList \cup {x} /\ x \notin InList /\ InList \subseteq Node
  BY PushKeepsLinks DEF InList
<1>2. m_next' = [m_next EXCEPT ![x] = m_next[m_head], ![m_head] = x]
  BY DEF pushFront
<1>3. /\ m_next'[m_head] = x /\ m_next'[x] = m_next[m_head]
      /\ \A n \in InList : m_next'[n] = m_next[n]
  BY <1>1, <1>2, EndsAssumption DEF LinksTyped, ListEnd
<1>4. z[1] = x /\ \A i \in 1 .. L : i + 1 \in 1 .. L + 1 /\ z[i + 1] = s[i]
  BY DEF Pushed
<1>5. ASSUME NEW i \in 1 .. L + 1, i # 1
      PROVE  i - 1 \in 1 .. L /\ z[i] = s[i - 1] /\ (i - 1) + 1 = i
  BY <1>5 DEF Pushed
<1>6. z = [i \in 1 .. L + 1 |-> z[i]]
  BY DEF Pushed
<1> HIDE DEF z
<1>7. \A i \in 1 .. L : s[i] \in InList
  BY DEF InOrder
<1>8. z \in [1 .. L + 1 -> InList \cup {x}]
  <2>1. \A i \in 1 .. L + 1 : z[i] \in InList \cup {x}
    BY <1>4, <1>5, <1>7
  <2> QED
    BY <1>6, <2>1
<1>9. \A n \in InList \cup {x} : \E i \in 1 .. L + 1 : z[i] = n
  BY <1>4 DEF InOrder
<1>10. \A i, j \in 1 .. L + 1 : z[i] = z[j] => i = j
  <2> SUFFICES ASSUME NEW i \in 1 .. L + 1, NEW j \in 1 .. L + 1, z[i] = z[j] PROVE i = j
    OBVIOUS
  <2>1. CASE i = 1 /\ j # 1
    BY <1>1, <1>4, <1>5, <1>7, <2>1
  <2>2. CASE i # 1 /\ j = 1
    BY <1>1, <1>4, <1>5, <1>7, <2>2
  <2>3. CASE i # 1 /\ j # 1
    <3>1. i - 1 = j - 1
      BY <1>5, <2>3 DEF InOrder
    <3> QED
      BY <3>1
  <2> QED
    BY <2>1, <2>2, <2>3
<1>11. ASSUME NEW i \in 1 .. L + 1
       PROVE  m_next'[z[i]] = IF i = L + 1 THEN m_tail ELSE z[i + 1]
  <2>1. CASE i = 1
    <3>1. m_next[m_head] = IF L = 0 THEN m_tail ELSE s[1]
      BY DEF InOrder
    <3>2. L # 0 => z[1 + 1] = s[1]
      BY <1>4
    <3> QED
      BY <1>3, <1>4, <2>1, <3>1, <3>2
  <2>2. CASE i # 1
    <3>1. i - 1 \in 1 .. L /\ z[i] = s[i - 1] /\ (i - 1) + 1 = i
      BY <1>5, <2>2
    <3>2. m_next'[z[i]] = IF i - 1 = L THEN m_tail ELSE s[i]
      BY <1>3, <1>7, <3>1 DEF InOrder
    <3>3. i - 1 # L => i \in 1 .. L
      BY <3>1
    <3> QED
      BY <1>4, <3>1, <3>2, <3>3
  <2> QED
    BY <2>1, <2>2
<1>12. L + 1 # 0 /\ m_next'[m_head] = z[1]
  BY <1>3, <1>4
<1> QED
  BY <1>1, <1>8, <1>9, <1>10, <1>11, <1>12 DEF InOrder, z

\* The last node goes.
Shortened(L, s) == [i \in 1 .. L - 1 |-> s[i]]

LEMMA DelinkInOrder ==
  ASSUME LinksTyped, LinksAgree, m_prev[m_tail] # m_head, delink(m_prev[m_tail]),
         NEW L \in Nat, NEW s, InOrder(InList, m_next, L, s)
  PROVE  L # 0 /\ InOrder(InList', m_next', L - 1, Shortened(L, s))
<1> DEFINE z == Shortened(L, s)
           x == s[L]
           b == IF L = 1 THEN m_head ELSE s[L - 1]
<1>1. L # 0 /\ m_prev[m_tail] = x /\ L \in 1 .. L /\ m_prev[x] = b
  BY BackInOrder
<1>2. InList' = InList \ {x} /\ InList \subseteq Node
  BY <1>1, DelinkKeepsLinks DEF InList
<1>3. \A i \in 1 .. L : s[i] \in InList
  BY DEF InOrder
<1>4. m_next[x] = m_tail
  BY <1>1 DEF InOrder
<1>5. b \in InList \cup {m_head}
  BY <1>1, <1>3
<1>6. m_next' = [m_next EXCEPT ![b] = m_tail]
  BY <1>1, <1>4 DEF delink
<1>7. /\ m_next'[b] = m_tail
      /\ \A n \in InList \cup {m_head} : n # b => m_next'[n] = m_next[n]
  <2>1. InList \cup {m_head} \subseteq Node \cup ListEnd
    BY <1>2 DEF ListEnd
  <2> HIDE DEF b
  <2> QED
    BY <1>5, <1>6, <2>1 DEF LinksTyped
<1>8. \A i \in 1 .. L - 1 : i \in 1 .. L /\ z[i] = s[i] /\ i # L /\ i + 1 \in 1 .. L
  BY DEF Shortened
<1>9. z \in [1 .. L - 1 -> InList \ {x}]
  <2>1. \A i \in 1 .. L - 1 : s[i] \in InList \ {x}
    BY <1>1, <1>3, <1>8 DEF InOrder
  <2> QED
    BY <2>1 DEF Shortened
<1>10. \A n \in InList \ {x} : \E i \in 1 .. L - 1 : z[i] = n
  <2> SUFFICES ASSUME NEW n \in InList \ {x} PROVE \E i \in 1 .. L - 1 : z[i] = n
    OBVIOUS
  <2>1. PICK i \in 1 .. L : s[i] = n
    BY DEF InOrder
  <2>2. i \in 1 .. L - 1
    BY <2>1
  <2> QED
    BY <1>8, <2>1, <2>2
<1>11. \A i, j \in 1 .. L - 1 : z[i] = z[j] => i = j
  BY <1>8 DEF InOrder
<1>12. m_next'[m_head] = IF L - 1 = 0 THEN m_tail ELSE z[1]
  <2>1. CASE L = 1
    BY <1>7, <2>1
  <2>2. CASE L # 1
    <3>1. 1 \in 1 .. L - 1 /\ b = s[L - 1] /\ L - 1 \in 1 .. L
      BY <1>1, <2>2
    <3>2. b # m_head
      BY <1>2, <1>3, <3>1, EndsAssumption
    <3>3. m_next[m_head] = s[1]
      BY <1>1 DEF InOrder
    <3> QED
      BY <1>7, <1>8, <2>2, <3>1, <3>2, <3>3
  <2> QED
    BY <2>1, <2>2
<1>13. ASSUME NEW i \in 1 .. L - 1
       PROVE  m_next'[z[i]] = IF i = L - 1 THEN m_tail ELSE z[i + 1]
  <2>1. i \in 1 .. L /\ z[i] = s[i] /\ i # L /\ i + 1 \in 1 .. L /\ L - 1 \in 1 .. L
        /\ b = s[L - 1]
    BY <1>8
  <2>2. CASE i = L - 1
    BY <1>7, <2>1, <2>2
  <2>3. CASE i # L - 1
    <3>1. s[i] # b /\ s[i] \in InList
      BY <1>3, <2>1, <2>3 DEF InOrder
    <3>2. m_next'[s[i]] = s[i + 1]
      BY <1>7, <2>1, <3>1 DEF InOrder
    <3>3. i + 1 \in 1 .. L - 1
      BY <2>1, <2>3
    <3> QED
      BY <1>8, <2>1, <2>3, <3>2, <3>3
  <2> QED
    BY <2>2, <2>3
<1> HIDE DEF z
<1> QED
  BY <1>1, <1>2, <1>9, <1>10, <1>11, <1>12, <1>13 DEF InOrder, z

\* The node with number p becomes the first.
Fronted(L, s, p) ==
    [i \in 1 .. L |-> IF i = 1 THEN s[p] ELSE IF i <= p THEN s[i - 1] ELSE s[i]]

LEMMA MoveInOrder ==
  ASSUME LinksTyped, LinksAgree, NEW L \in Nat, NEW s, InOrder(InList, m_next, L, s),
         NEW p \in 1 .. L, MoveToFront(s[p])
  PROVE  InOrder(InList', m_next', L, Fronted(L, s, p))
<1> DEFINE z == Fronted(L, s, p)
           x == s[p]
<1>1. /\ \A i \in 1 .. L : s[i] \in InList
      /\ InList \subseteq Node /\ m_head \notin Node /\ m_tail \notin Node
  BY EndsAssumption DEF InOrder, InList
<1>2. InList' = InList
  <2>1. x \in Node /\ isInList(x)
    BY <1>1 DEF InList
  <2> HIDE DEF x
  <2> QED
    BY <2>1, MoveKeepsLinks DEF x
<1>3. /\ z[1] = x
      /\ \A i \in 2 .. p : z[i] = s[i - 1] /\ i - 1 \in 1 .. L
      /\ \A i \in p + 1 .. L : z[i] = s[i] /\ i \in 1 .. L
      /\ z = [i \in 1 .. L |-> z[i]]
      /\ \A i \in 1 .. L : i = 1 \/ i \in 2 .. p \/ i \in p + 1 .. L
  BY DEF Fronted
<1>4. /\ m_next'[m_head] = x
      /\ p # 1 => m_next'[x] = s[1] /\ m_next'[s[p - 1]] = m_next[x]
      /\ p = 1 => m_next'[x] = m_next[x]
      /\ \A n \in InList : n # x /\ (p = 1 \/ n # s[p - 1]) => m_next'[n] = m_next[n]
  <2>1. m_prev[x] = IF p = 1 THEN m_head ELSE s[p - 1]
    BY BackInOrder
  <2>2. m_next[m_head] = s[1]
    BY DEF InOrder
  <2>3. CASE p = 1
    BY <2>1, <2>2, <2>3 DEF MoveToFront, list
  <2>4. CASE p # 1
    <3> DEFINE b == s[p - 1]
    <3>1. b \in InList /\ b # x /\ m_prev[x] = b /\ b # m_head
      <4>1. p - 1 \in 1 .. L /\ p - 1 # p
        BY <2>4
      <4> QED
        BY <1>1, <2>1, <2>4, <4>1 DEF InOrder
    <3>2. m_next' = [m_next EXCEPT ![b] = m_next[x], ![x] = m_next[m_head], ![m_head] = x]
      BY <3>1 DEF MoveToFront
    <3>3. x \in InList /\ InList \cup {m_head} \subseteq Node \cup ListEnd
      BY <1>1 DEF ListEnd
    <3> HIDE DEF b, x
    <3>4. /\ m_next'[m_head] = x /\ m_next'[x] = m_next[m_head] /\ m_next'[b] = m_next[x]
          /\ \A n \in InList : n # x /\ n # b => m_next'[n] = m_next[n]
      BY <1>1, <3>1, <3>2, <3>3 DEF LinksTyped
    <3> QED
      BY <2>2, <2>4, <3>4 DEF b
  <2> QED
    BY <2>3, <2>4
<1>5. z \in [1 .. L -> InList]
  <2>1. \A i \in 1 .. L : z[i] \in InList
    BY <1>1, <1>3
  <2> HIDE DEF z
  <2> QED
    BY <1>3, <2>1
<1>6. \A n \in InList : \E i \in 1 .. L : z[i] = n
  <2> SUFFICES ASSUME NEW n \in InList PROVE \E i \in 1 .. L : z[i] = n
    OBVIOUS
  <2>1. PICK i \in 1 .. L : s[i] = n
    BY DEF InOrder
  <2>2. CASE i = p
    BY <1>3, <2>1, <2>2
  <2>3. CASE i < p
    <3>1. i + 1 \in 2 .. p /\ i + 1 \in 1 .. L /\ (i + 1) - 1 = i
      BY <2>3
    <3> HIDE DEF z
    <3> QED
      BY <1>3, <2>1, <3>1
  <2>4. CASE i > p
    <3>1. i \in p + 1 .. L
      BY <2>4
    <3> HIDE DEF z
    <3> QED
      BY <1>3, <2>1, <3>1
  <2> QED
    BY <2>2, <2>3, <2>4
\* The number that a node had.
<1>7. ASSUME NEW i \in 1 .. L
      PROVE  LET o == IF i = 1 THEN p ELSE IF i <= p THEN i - 1 ELSE i
             IN  o \in 1 .. L /\ z[i] = s[o]
  BY DEF Fronted
<1>8. \A i, j \in 1 .. L : z[i] = z[j] => i = j
  <2> SUFFICES ASSUME NEW i \in 1 .. L, NEW j \in 1 .. L, z[i] = z[j] PROVE i = j
    OBVIOUS
  <2> HIDE DEF z
  <2>1. (IF i = 1 THEN p ELSE IF i <= p THEN i - 1 ELSE i)
            = (IF j = 1 THEN p ELSE IF j <= p THEN j - 1 ELSE j)
    BY <1>7 DEF InOrder
  <2> QED
    BY <2>1
<1>9. ASSUME NEW i \in 1 .. L
      PROVE  m_next'[z[i]] = IF i = L THEN m_tail ELSE z[i + 1]
  <2>1. CASE i = 1 /\ p = 1
    <3>1. m_next'[z[i]] = IF 1 = L THEN m_tail ELSE s[2]
      BY <1>3, <1>4, <2>1 DEF InOrder
    <3>2. L # 1 => 2 \in p + 1 .. L
      BY <2>1
    <3> HIDE DEF z
    <3> QED
      BY <1>3, <2>1, <3>1, <3>2
  <2>2. CASE i = 1 /\ p # 1
    <3>1. m_next'[z[i]] = s[1] /\ L # 1 /\ 2 \in 2 .. p /\ i + 1 = 2 /\ 2 - 1 = 1
      BY <1>3, <1>4, <2>2
    <3> HIDE DEF z
    <3>2. z[2] = s[1]
      BY <1>3, <3>1
    <3> QED
      BY <2>2, <3>1, <3>2
  <2>3. CASE i # 1 /\ i < p
    <3>1. i \in 2 .. p /\ i + 1 \in 2 .. p /\ (i + 1) - 1 = i /\ i # L /\ i - 1 \in 1 .. L
          /\ i - 1 # p /\ i - 1 # p - 1 /\ p - 1 \in 1 .. L /\ i - 1 # L /\ (i - 1) + 1 = i
      BY <2>3
    <3>2. z[i] = s[i - 1] /\ z[i + 1] = s[i]
      <4> HIDE DEF z
      <4> QED
        BY <1>3, <3>1
    <3>3. m_next'[s[i - 1]] = m_next[s[i - 1]]
      BY <1>1, <1>4, <3>1 DEF InOrder
    <3>4. m_next[s[i - 1]] = s[i]
      BY <3>1 DEF InOrder
    <3> HIDE DEF z
    <3> QED
      BY <3>1, <3>2, <3>3, <3>4
  <2>4. CASE i # 1 /\ i = p
    <3>1. z[i] = s[p - 1] /\ m_next'[s[p - 1]] = m_next[x]
      <4>1. i \in 2 .. p /\ p # 1 /\ i - 1 = p - 1
        BY <2>4
      <4> HIDE DEF z, x
      <4>2. z[i] = s[i - 1]
        BY <1>3, <4>1
      <4> QED
        BY <1>4, <4>1, <4>2
    <3>2. m_next[x] = IF p = L THEN m_tail ELSE s[p + 1]
      BY DEF InOrder
    <3>3. p # L => z[i + 1] = s[p + 1]
      <4>1. p # L => i + 1 \in p + 1 .. L
        BY <2>4
      <4> HIDE DEF z
      <4> QED
        BY <1>3, <2>4, <4>1
    <3> HIDE DEF z
    <3> QED
      BY <2>4, <3>1, <3>2, <3>3
  <2>5. CASE i # 1 /\ i > p
    <3>1. i \in p + 1 .. L /\ i # p /\ i # p - 1 /\ p - 1 < L /\ (p # 1 => p - 1 \in 1 .. L)
          /\ (i # L => i + 1 \in p + 1 .. L)
      BY <2>5
    <3>2. z[i] = s[i] /\ (i # L => z[i + 1] = s[i + 1])
      <4> HIDE DEF z
      <4> QED
        BY <1>3, <3>1
    <3>3. s[i] # x /\ (p = 1 \/ s[i] # s[p - 1])
      BY <3>1 DEF InOrder
    <3>4. m_next'[s[i]] = m_next[s[i]]
      BY <1>1, <1>4, <3>3
    <3>5. m_next[s[i]] = IF i = L THEN m_tail ELSE s[i + 1]
      BY DEF InOrder
    <3> HIDE DEF z
    <3> QED
      BY <3>2, <3>4, <3>5
  <2> QED
    BY <2>1, <2>2, <2>3, <2>4, <2>5
<1>10. L # 0 /\ m_next'[m_head] = z[1]
  BY <1>3, <1>4
<1> HIDE DEF z
<1> QED
  BY <1>2, <1>5, <1>6, <1>8, <1>9, <1>10 DEF InOrder, z

(***************************************************************************)
(* The list is one of keys in order of use.                                *)
(***************************************************************************)
\* What the list holds is read from its numbering.
Listed(L, s) == /\ L \in Nat /\ s \in [1 .. L -> Node]
                /\ InOrder(InList, m_next, L, s)

Ordered == \E L, s : Listed(L, s)

recency == keysFrom[m_next[m_head]]

KeysAt(L, s, key) == [i \in 1 .. L |-> key[s[i]]]

LEMMA RecencyRead ==
  (\A L, s : Listed(L, s) => recency = KeysAt(L, s, m_key))
<1> SUFFICES ASSUME NEW L, NEW s, Listed(L, s) PROVE recency = KeysAt(L, s, m_key)
  OBVIOUS
<1> QED
  BY KeysInOrder DEF KeysListed, KeysAt, recency, Listed

LEMMA RecencyReadNext ==
  (\A L, s : Listed(L, s)' => recency' = KeysAt(L, s, m_key'))
<1>1. (\A L, s : Listed(L, s) => recency = KeysAt(L, s, m_key))'
  BY RecencyRead, PTL
<1> QED
  BY <1>1

LEMMA ListedOf ==
  ASSUME NEW L \in Nat, NEW s, InOrder(InList, m_next, L, s)
  PROVE  Listed(L, s)
BY DEF Listed, InOrder, InList

LEMMA ListedOfNext ==
  ASSUME NEW L \in Nat, NEW s, InOrder(InList', m_next', L, s)
  PROVE  Listed(L, s)'
BY DEF Listed, InOrder, InList

LEMMA ListLength ==
  ASSUME NEW L, NEW s, Listed(L, s)
  PROVE  L = Cardinality(InList)
<1>1. s \in Bijection(1 .. L, InList)
  BY DEF Listed, InOrder, Bijection, Injection, Surjection, IsInjective
<1> QED
  BY <1>1, FS_CountingElements DEF ExistsBijection, Listed

\* Steps that leave the list as it was.
LEMMA ListKept ==
  ASSUME NEW L, NEW s, Listed(L, s), InList' = InList,
         \A n \in InList \cup {m_head} : m_next'[n] = m_next[n],
         \A n \in InList : m_key'[n] = m_key[n]
  PROVE  Ordered' /\ recency' = recency
<1>1. \A i \in 1 .. L : s[i] \in InList
  BY DEF Listed, InOrder
<1>2. InOrder(InList', m_next', L, s)
  BY <1>1 DEF Listed, InOrder
<1>3. Listed(L, s)'
  BY <1>2, ListedOfNext DEF Listed
<1>4. KeysAt(L, s, m_key') = KeysAt(L, s, m_key)
  BY <1>1 DEF KeysAt
<1> QED
  BY <1>3, <1>4, RecencyRead, RecencyReadNext DEF Ordered

LEMMA KeysAtFacts ==
  ASSUME NEW L \in Nat, NEW s, NEW key, NEW K, K = KeysAt(L, s, key)
  PROVE  /\ DOMAIN K = 1 .. L /\ Len(K) = L /\ K = [i \in 1 .. L |-> K[i]]
         /\ \A i \in 1 .. L : K[i] = key[s[i]]
         /\ K \in [1 .. L -> {K[i] : i \in 1 .. L}]
BY DEF KeysAt

\* A node that is pushed puts its key before the others.
LEMMA PushPuts ==
  ASSUME NEW L, NEW s, Listed(L, s), IInv, NEW x \in Node, ~isInList(x), pushFront(x),
         m_key' = m_key, m_key[x] \in Key, m_map[m_key[x]] = x,
         L < MaxSize + (Cardinality(Thread) - 1)
  PROVE  Ordered' /\ Order!Put(m_key[x])
<1> DEFINE K == KeysAt(L, s, m_key)
           k == m_key[x]
<1>1. recency = K
  BY RecencyRead
<1>2. InOrder(InList', m_next', L + 1, Pushed(L, s, x)) /\ L \in Nat /\ L + 1 \in Nat
  BY LinksOfIInv, PushInOrder DEF Listed
<1>3. Listed(L + 1, Pushed(L, s, x))'
  BY <1>2, ListedOfNext
<1>4. recency' = KeysAt(L + 1, Pushed(L, s, x), m_key)
  BY <1>3, RecencyReadNext
<1>5. /\ DOMAIN K = 1 .. L /\ Len(K) = L /\ K = [i \in 1 .. L |-> K[i]]
      /\ \A i \in 1 .. L : K[i] = m_key[s[i]]
  <2>1. K = KeysAt(L, s, m_key)
    OBVIOUS
  <2> HIDE DEF K
  <2> QED
    BY <1>2, <2>1, KeysAtFacts
<1> HIDE DEF K
<1>6. <<k>> \o K = [i \in 1 .. L + 1 |-> IF i = 1 THEN k ELSE K[i - 1]]
  BY <1>2, <1>5, Prepend
<1>7. ASSUME NEW i \in 1 .. L + 1
      PROVE  m_key[Pushed(L, s, x)[i]] = IF i = 1 THEN k ELSE K[i - 1]
  <2>1. CASE i = 1
    BY <2>1 DEF Pushed
  <2>2. CASE i # 1
    <3>1. i - 1 \in 1 .. L /\ Pushed(L, s, x)[i] = s[i - 1]
      BY <1>2, <2>2 DEF Pushed
    <3> QED
      BY <1>5, <2>2, <3>1
  <2> QED
    BY <2>1, <2>2
<1>8. recency' = <<k>> \o K
  BY <1>4, <1>6, <1>7 DEF KeysAt
<1>9. ASSUME NEW i \in 1 .. L, K[i] = k PROVE FALSE
  <2>1. s[i] \in InList
    BY DEF Listed, InOrder
  <2>2. m_map[m_key[s[i]]] = s[i]
    BY <2>1 DEF IInv, ListIntact
  <2> QED
    BY <1>5, <1>9, <2>1, <2>2 DEF InList
<1>10. k \notin {K[i] : i \in DOMAIN K}
  BY <1>5, <1>9
<1>11. Order!Put(k)
  <2> HIDE DEF k
  <2> QED
    BY <1>1, <1>5, <1>8, <1>10 DEF Order!Put, Order!Keys, recency
<1> QED
  BY <1>3, <1>11 DEF Ordered

\* A node that is delinked takes the last key with it.
LEMMA DelinkEvicts ==
  ASSUME NEW L, NEW s, Listed(L, s), IInv, m_prev[m_tail] # m_head, delink(m_prev[m_tail]),
         m_key' = m_key, L + (Cardinality(Thread) - 1) >= MaxSize
  PROVE  Ordered' /\ Order!Evict
<1> DEFINE K == KeysAt(L, s, m_key)
           S == {K[i] : i \in 1 .. L}
<1>1. recency = K /\ L \in Nat
  BY RecencyRead DEF Listed
<1>2. L # 0 /\ InOrder(InList', m_next', L - 1, Shortened(L, s)) /\ L - 1 \in Nat
  <2>1. L # 0 /\ InOrder(InList', m_next', L - 1, Shortened(L, s))
    BY LinksOfIInv, DelinkInOrder DEF Listed
  <2> QED
    BY <1>1, <2>1
<1>3. Listed(L - 1, Shortened(L, s))'
  BY <1>2, ListedOfNext
<1>4. recency' = KeysAt(L - 1, Shortened(L, s), m_key)
  BY <1>3, RecencyReadNext
<1>5. /\ DOMAIN K = 1 .. L /\ Len(K) = L
      /\ \A i \in 1 .. L : K[i] = m_key[s[i]]
      /\ K \in [1 .. L -> S]
  <2>1. K = KeysAt(L, s, m_key)
    OBVIOUS
  <2> HIDE DEF K
  <2> QED
    BY <1>1, <2>1, KeysAtFacts
<1> HIDE DEF K, S
<1>6. SubSeq(K, 1, L - 1) = [i \in 1 .. L - 1 |-> K[i]]
  BY <1>1, <1>2, <1>5
<1>7. KeysAt(L - 1, Shortened(L, s), m_key) = [i \in 1 .. L - 1 |-> K[i]]
  <2>1. \A i \in 1 .. L - 1 : i \in 1 .. L /\ Shortened(L, s)[i] = s[i]
    BY <1>1 DEF Shortened
  <2> QED
    BY <1>5, <2>1 DEF KeysAt
<1>8. K # << >>
  BY <1>2, <1>5
<1>9. Order!Evict
  BY <1>1, <1>4, <1>5, <1>6, <1>7, <1>8 DEF Order!Evict, recency
<1> QED
  BY <1>3, <1>9 DEF Ordered

\* A sequence in two parts.
LEMMA Concatenate ==
  ASSUME NEW L \in Nat, NEW p \in 1 .. L,
         NEW C, C = [i \in 1 .. p |-> C[i]], NEW B, B = [i \in 1 .. L - p |-> B[i]]
  PROVE  C \o B = [i \in 1 .. L |-> IF i <= p THEN C[i] ELSE B[i - p]]
<1> DEFINE f == C \o B
           S == {C[i] : i \in 1 .. p} \cup {B[i] : i \in 1 .. L - p}
<1>1. C \in Seq(S) /\ B \in Seq(S) /\ Len(C) = p /\ Len(B) = L - p
  <2>1. C \in [1 .. p -> S] /\ B \in [1 .. L - p -> S]
    OBVIOUS
  <2> HIDE DEF S
  <2> QED
    BY <2>1
<1> HIDE DEF S
<1>2. f \in Seq(S) /\ Len(f) = L
  BY <1>1
<1>3. \A i \in 1 .. p : f[i] = C[i]
  BY <1>1
<1>4. ASSUME NEW i \in 1 .. L, ~(i <= p) PROVE f[i] = B[i - p]
  BY <1>1, <1>4
<1> HIDE DEF f
<1>5. f = [i \in 1 .. L |-> f[i]]
  BY <1>2
<1> QED
  BY <1>3, <1>4, <1>5 DEF f

\* Key p of a sequence goes to its front.
Using(L, K, p) == <<K[p]>> \o SubSeq(K, 1, p - 1) \o SubSeq(K, p + 1, L)

LEMMA MoveToFirst ==
  ASSUME NEW L \in Nat, NEW K, K = [i \in 1 .. L |-> K[i]], NEW p \in 1 .. L
  PROVE  Using(L, K, p) = Fronted(L, K, p)
<1> DEFINE A == [i \in 1 .. p - 1 |-> K[i]]
           B == [i \in 1 .. L - p |-> K[p + i]]
           C == [i \in 1 .. p |-> IF i = 1 THEN K[p] ELSE K[i - 1]]
<1>1. SubSeq(K, 1, p - 1) = A
  OBVIOUS
<1>2. SubSeq(K, p + 1, L) = B
  OBVIOUS
<1>3. <<K[p]>> \o A = C
  <2>1. p - 1 \in Nat /\ A = [i \in 1 .. p - 1 |-> A[i]] /\ (p - 1) + 1 = p
        /\ \A i \in 1 .. p : i # 1 => A[i - 1] = K[i - 1]
    OBVIOUS
  <2> HIDE DEF A
  <2>2. <<K[p]>> \o A = [i \in 1 .. p |-> IF i = 1 THEN K[p] ELSE A[i - 1]]
    BY <2>1, Prepend
  <2> QED
    BY <2>1, <2>2
<1>4. /\ B = [i \in 1 .. L - p |-> B[i]] /\ C = [i \in 1 .. p |-> C[i]]
      /\ \A i \in 1 .. L - p : B[i] = K[p + i]
      /\ \A i \in 1 .. p : C[i] = IF i = 1 THEN K[p] ELSE K[i - 1]
  OBVIOUS
<1> HIDE DEF A, B, C
<1>5. C \o B = [i \in 1 .. L |-> IF i <= p THEN C[i] ELSE B[i - p]]
  BY <1>4, Concatenate
<1>6. ASSUME NEW i \in 1 .. L
      PROVE  (IF i <= p THEN C[i] ELSE B[i - p])
                = IF i = 1 THEN K[p] ELSE IF i <= p THEN K[i - 1] ELSE K[i]
  <2>1. CASE i <= p
    <3>1. i \in 1 .. p
      BY <2>1
    <3>2. C[i] = IF i = 1 THEN K[p] ELSE K[i - 1]
      BY <1>4, <3>1
    <3> QED
      BY <2>1, <3>2
  <2>2. CASE ~(i <= p)
    <3>1. i - p \in 1 .. L - p /\ p + (i - p) = i /\ i # 1
      BY <2>2
    <3> QED
      BY <1>4, <2>2, <3>1
  <2> QED
    BY <2>1, <2>2
<1> QED
  BY <1>1, <1>2, <1>3, <1>5, <1>6 DEF Using, Fronted

\* A node that moves to the front takes its key with it.
LEMMA MoveUses ==
  ASSUME NEW L, NEW s, Listed(L, s), IInv, NEW x \in InList, MoveToFront(x),
         m_key' = m_key
  PROVE  Ordered' /\ Order!Use(m_key[x]) /\ m_key[x] \in Key
<1> DEFINE K == KeysAt(L, s, m_key)
<1>1. recency = K /\ L \in Nat
  BY RecencyRead DEF Listed
<1>2. PICK p \in 1 .. L : s[p] = x
  BY DEF Listed, InOrder
<1>3. InOrder(InList', m_next', L, Fronted(L, s, p))
  BY <1>2, LinksOfIInv, MoveInOrder DEF Listed
<1>4. Listed(L, Fronted(L, s, p))'
  BY <1>1, <1>3, ListedOfNext
<1>5. recency' = KeysAt(L, Fronted(L, s, p), m_key)
  BY <1>4, RecencyReadNext
<1>6. /\ DOMAIN K = 1 .. L /\ Len(K) = L
      /\ \A i \in 1 .. L : K[i] = m_key[s[i]]
      /\ K = [i \in 1 .. L |-> K[i]]
  <2>1. K = KeysAt(L, s, m_key)
    OBVIOUS
  <2> HIDE DEF K
  <2> QED
    BY <1>1, <2>1, KeysAtFacts
<1> HIDE DEF K
<1>7. Using(L, K, p) = Fronted(L, K, p)
  <2>1. L \in Nat /\ p \in 1 .. L /\ K = [i \in 1 .. L |-> K[i]]
    BY <1>1, <1>2, <1>6
  <2> QED
    BY <2>1, MoveToFirst
<1>8. ASSUME NEW i \in 1 .. L
      PROVE  m_key[Fronted(L, s, p)[i]]
                = IF i = 1 THEN K[p] ELSE IF i <= p THEN K[i - 1] ELSE K[i]
  <2>1. Fronted(L, s, p)[i] = IF i = 1 THEN s[p] ELSE IF i <= p THEN s[i - 1] ELSE s[i]
    BY DEF Fronted
  <2>2. i # 1 => i - 1 \in 1 .. L
    BY <1>1
  <2> QED
    BY <1>6, <2>1, <2>2
<1>9. recency' = <<K[p]>> \o SubSeq(K, 1, p - 1) \o SubSeq(K, p + 1, L)
  <2>1. KeysAt(L, Fronted(L, s, p), m_key) = Fronted(L, K, p)
    BY <1>8 DEF KeysAt, Fronted
  <2> QED
    BY <1>5, <1>7, <2>1 DEF Using
<1>10. K[p] = m_key[x]
  BY <1>2, <1>6
<1>11. Order!Use(m_key[x])
  BY <1>1, <1>6, <1>9, <1>10 DEF Order!Use, recency
<1>12. m_key[x] \in Key
  BY DEF IInv, ListIntact, Stored
<1> QED
  BY <1>4, <1>11, <1>12 DEF Ordered

\* An empty list is a sequence of no keys.
LEMMA EmptyOrder == InList = {} /\ m_next[m_head] = m_tail => Ordered /\ recency = << >>
<1> SUFFICES ASSUME InList = {}, m_next[m_head] = m_tail PROVE Ordered /\ recency = << >>
  OBVIOUS
<1> DEFINE s == [i \in 1 .. 0 |-> m_head]
<1>1. InOrder(InList, m_next, 0, s)
  BY DEF InOrder
<1>2. Listed(0, s)
  <2> HIDE DEF s
  <2> QED
    BY <1>1, ListedOf
<1>3. KeysAt(0, s, m_key) = << >>
  BY DEF KeysAt
<1> HIDE DEF s
<1>4. recency = << >>
  BY <1>2, <1>3, RecencyRead
<1> QED
  BY <1>2, <1>4 DEF Ordered

LEMMA InitOrder == Init => Ordered /\ Order!Init
<1> SUFFICES ASSUME Init PROVE Ordered /\ Order!Init
  OBVIOUS
<1>1. InList = {} /\ m_next[m_head] = m_tail
  BY EmptyList, EndsAssumption DEF Init, ListEnd
<1> QED
  BY <1>1, EmptyOrder DEF Order!Init, recency

LEMMA ClearOrder ==
  ASSUME clear
  PROVE  Ordered' /\ Order!Clear
<1>1. InList' = {} /\ m_next'[m_head] = m_tail
  BY EndsAssumption DEF clear, InList, isInList, ListEnd
<1>2. (InList = {} /\ m_next[m_head] = m_tail => Ordered /\ recency = << >>)'
  BY EmptyOrder, PTL
<1> QED
  BY <1>1, <1>2 DEF Order!Clear, recency

\* A step of the abstract list, or none.
Recent == Ordered' /\ (Order!Next \/ recency' = recency)

LEMMA UseNodeOrder ==
  ASSUME IInv, Ordered, NEW t \in Thread, UseNode(t)
  PROVE  Recent
<1>1. PICK L, s : Listed(L, s)
  BY DEF Ordered
<1>2. m_key' = m_key
  BY DEF UseNode
<1>3. CASE isInList(node[t])
  <2>1. node[t] \in InList
    <3>1. node[t] \in Node
      BY HolderFacts DEF UseNode, Goto, Reading
    <3> QED
      BY <1>3, <3>1 DEF InList
  <2>2. MoveToFront(node[t])
    BY <1>3 DEF UseNode
  <2>3. Ordered' /\ Order!Use(m_key[node[t]]) /\ m_key[node[t]] \in Key
    BY <1>1, <1>2, <2>1, <2>2, MoveUses
  <2> QED
    BY <2>3 DEF Recent, Order!Next
<1>4. CASE ~isInList(node[t])
  <2>1. UNCHANGED list
    BY <1>4 DEF UseNode
  <2>2. InList' = InList /\ m_next' = m_next
    BY <2>1, LinksUnchanged DEF list
  <2> QED
    BY <1>1, <1>2, <2>2, ListKept DEF Recent
<1> QED
  BY <1>3, <1>4

LEMMA PushNodeOrder ==
  ASSUME IInv, SizeInv, Ordered, NEW t \in Thread, PushNode(t)
  PROVE  Recent
<1>1. PICK L, s : Listed(L, s)
  BY DEF Ordered
<1>2. pc[t] = "push" /\ pushFront(node[t]) /\ m_key' = m_key
  BY DEF PushNode
<1>3. Writing(t) /\ Pushing(t)
  BY <1>2 DEF Writing, Pushing
<1>4. node[t] \in Node /\ ~isInList(node[t]) /\ m_key[node[t]] = arg[t] /\ arg[t] \in Key
      /\ m_map[m_key[node[t]]] = node[t]
  BY <1>3, HolderFacts DEF IInv, PushedApart
<1>5. L < MaxSize + (Cardinality(Thread) - 1)
  <2>1. L = Cardinality(InList) /\ L \in Nat
    BY <1>1, ListLength DEF Listed
  <2>2. Cardinality(Afloat) # 0
    <3>1. IsFiniteSet(Afloat)
      BY ThreadAssumption, FS_Subset DEF Afloat
    <3>2. t \in Afloat
      BY <1>2 DEF Afloat
    <3> QED
      BY <3>1, <3>2, FS_EmptySet
  <2> QED
    BY <2>1, <2>2, CountTypes, SizeAssumption DEF SizeInv, ListBounded
<1>6. Ordered' /\ Order!Put(m_key[node[t]])
  BY <1>1, <1>2, <1>4, <1>5, PushPuts
<1> QED
  BY <1>4, <1>6 DEF Recent, Order!Next

LEMMA EvictTailOrder ==
  ASSUME IInv, SizeInv, Ordered, NEW t \in Thread, EvictTail(t)
  PROVE  Recent
<1>1. PICK L, s : Listed(L, s)
  BY DEF Ordered
<1>2. pc[t] = "evict" /\ m_prev[m_tail] # m_head /\ delink(m_prev[m_tail]) /\ m_key' = m_key
  BY DEF EvictTail, Goto
<1>3. L + (Cardinality(Thread) - 1) >= MaxSize
  <2>1. L = Cardinality(InList) /\ L \in Nat
    BY <1>1, ListLength DEF Listed
  <2>2. Types /\ m_size >= MaxSize
    BY <1>2, TypesOfIInv DEF SizeInv, FillsFirst, Types
  \* t has yet to take out a node.
  <2>3. Cardinality(Paid) <= Cardinality(Thread) - 1
    <3>1. Paid \in SUBSET (Thread \ {t})
      BY <1>2 DEF Paid
    <3>2. IsFiniteSet(Thread \ {t}) /\ Cardinality(Thread \ {t}) = Cardinality(Thread) - 1
      BY ThreadAssumption, FS_RemoveElement
    <3> QED
      BY <3>1, <3>2, FS_Subset
  <2> QED
    BY <2>1, <2>2, <2>3, CountTypes DEF SizeInv, CountCovered, Types
<1>4. Ordered' /\ Order!Evict
  BY <1>1, <1>2, <1>3, DelinkEvicts
<1> QED
  BY <1>4 DEF Recent, Order!Next

\* A node gets its key, or is deleted, while it is not in the list.
LEMMA NodeOrder ==
  ASSUME IInv, Ordered, NEW t \in Thread, InsertNew(t) \/ FreeNode(t)
  PROVE  Recent
<1>1. PICK L, s : Listed(L, s)
  BY DEF Ordered
<1>2. /\ \A n \in InList : m_key[n] # NoKey
      /\ InList \subseteq Node /\ m_head \notin Node
  BY EndsAssumption DEF IInv, ListIntact, Stored, InList
<1>3. CASE InsertNew(t)
  <2>1. PICK n \in Node : m_key[n] = NoKey /\ m_key' = [m_key EXCEPT ![n] = arg[t]]
    BY <1>3 DEF InsertNew
  <2>2. UNCHANGED list
    BY <1>3 DEF InsertNew
  <2>3. InList' = InList /\ m_next' = m_next
    BY <2>2, LinksUnchanged DEF list
  <2>4. \A m \in InList : m_key'[m] = m_key[m]
    BY <1>2, <2>1 DEF IInv, TypeOK
  <2> QED
    BY <1>1, <2>3, <2>4, ListKept DEF Recent
<1>4. CASE FreeNode(t)
  <2> DEFINE x == moribund[t]
  <2>1. x \notin InList /\ x # m_head
    <3>1. Evicting(t)
      BY <1>4 DEF FreeNode, Goto, Evicting
    <3> QED
      BY <1>2, <3>1 DEF IInv, MoribundApart, InList
  <2>2. /\ m_key' = [m_key EXCEPT ![x] = NoKey] /\ m_next' = [m_next EXCEPT ![x] = NullNode]
        /\ m_prev' = m_prev
    BY <1>4 DEF FreeNode
  <2> HIDE DEF x
  <2>3. InList' = InList
    BY <2>2 DEF InList, isInList
  <2>4. /\ \A n \in InList \cup {m_head} : m_next'[n] = m_next[n]
        /\ \A n \in InList : m_key'[n] = m_key[n]
    BY <1>2, <2>1, <2>2 DEF IInv, TypeOK, ListEnd
  <2> QED
    BY <1>1, <2>3, <2>4, ListKept DEF Recent
<1> QED
  BY <1>3, <1>4

\* All other steps.
LEMMA ListAside ==
  ASSUME IInv, Ordered, UNCHANGED <<list, m_key>>
  PROVE  Recent
<1>1. PICK L, s : Listed(L, s)
  BY DEF Ordered
<1>2. InList' = InList /\ m_next' = m_next /\ m_key' = m_key
  BY LinksUnchanged DEF list
<1> QED
  BY <1>1, <1>2, ListKept DEF Recent

LEMMA NextOrder == IInv /\ SizeInv /\ Ordered /\ [Next]_vars => Recent
<1> SUFFICES ASSUME IInv, SizeInv, Ordered, [Next]_vars PROVE Recent
  OBVIOUS
<1>1. CASE UNCHANGED vars
  BY <1>1, ListAside DEF vars
<1>2. CASE clear
  BY <1>2, ClearOrder DEF Recent, Order!Next
<1>3. ASSUME NEW t \in Thread, Call(t) \/ snapshotKeys(t) PROVE Recent
  BY <1>3, ListAside DEF Call, CallFind, CallInsert, CallSnapshot, snapshotKeys
<1>4. ASSUME NEW t \in Thread, find(t) PROVE Recent
  BY <1>4, UseNodeOrder, ListAside
     DEF find, FindMiss, FindHit, SkipUse, ReleaseConstAccessor, list
<1>5. ASSUME NEW t \in Thread, evict(t) PROVE Recent
  BY <1>5, EvictTailOrder, NodeOrder, ListAside DEF evict, EvictNothing, EraseElement
<1>6. ASSUME NEW t \in Thread, insert(t) PROVE Recent
  BY <1>5, <1>6, PushNodeOrder, NodeOrder, ListAside
     DEF insert, InsertPresent, LoadSize, CountNode, Reduce, ReleaseAccessor
<1> QED
  BY <1>1, <1>2, <1>3, <1>4, <1>6 DEF Next, Step

\* The nodes of the list are one sequence from m_head to m_tail.
THEOREM ListIsInOrder == Spec => []Ordered
<1>1. IInv /\ SizeInv /\ Ordered /\ [Next]_vars => Ordered'
  BY NextOrder DEF Recent
<1> QED
  BY <1>1, InitOrder, Balance, Invariance, PTL DEF Spec

\* The keys of the list stay in order of use: find moves a key to the front,
\* insert adds one there, evict takes the last of a cache that is full.
THEOREM Refinement == Spec => ImplementsLRU
<1>1. IInv /\ SizeInv /\ Ordered /\ [Next]_vars => [Order!Next]_recency
  BY NextOrder DEF Recent
<1>2. Spec => [][Order!Next]_recency
  BY <1>1, ListIsInOrder, Balance, Invariance, PTL DEF Spec
<1>3. Spec => Order!Init
  BY InitOrder DEF Spec
<1> QED
  BY <1>2, <1>3, PTL DEF ImplementsLRU, Order!Spec, recency
===============================================================================
