------------------------- MODULE OnCacheSMRU_proofs -------------------------
(***************************************************************************)
(* Proofs about OnCacheSMRU: between the calls the lists are exact, an     *)
(* item is linked at the place that a search would find now, and a call    *)
(* costs at most the item of the next node of the ring.                    *)
(*                                                                         *)
(* allocNode empties a node between the search of setll and the linking,   *)
(* and has to keep the places that setll left.  There is one step that     *)
(* does not, PlaceLost below, and the theorems are about the behaviours    *)
(* without it.  Where no two keys share a hash that is not the greatest of *)
(* its basket, there is no such step, and they hold of all behaviours.     *)
(*                                                                         *)
(* While an item is on its way the lists hold the items of all nodes but   *)
(* the one that was taken for it: the invariant says of them what it says  *)
(* in HashBasket_proofs of the lists between the calls, and of each place  *)
(* where it is among the heads, or the keys of the queue, without naming a *)
(* pointer.  A deletion of another item then leaves it where it is.        *)
(***************************************************************************)
EXTENDS OnCacheSMRU, HashBasket_proofs

(***************************************************************************)
(* The places.                                                             *)
(***************************************************************************)
\* s is the place of the head with hash q: the one after all lesser hashes.
IsSlot(F, s, q) ==
    /\ s \in Slot
    /\ IF s.of = "baskets"
       THEN s.at = BasketId(q) /\ \A m \in F : In(F, m, BasketId(q)) => q <= hash[m]
       ELSE /\ s.at \in BeforeIn(F, BasketId(q), q)
            /\ \A m \in F : In(F, m, BasketId(q)) /\ hash[m] < q => hash[m] <= hash[s.at]

\* c is the last node before key k on level h of the queue of hash q.
IsLastBelow(F, q, h, k, c) ==
    c \in Reaching(F, q, h, k) /\ \A m \in Reaching(F, q, h, k) : key[m] <= key[c]

\* The slots by themselves.
LEMMA Slots ==
  /\ \A b \in Basket : BasketSlot(b) \in Slot /\ BasketSlot(b).of = "baskets"
                       /\ BasketSlot(b).at = b /\ At(BasketSlot(b)) = baskets[b]
  /\ \A n \in Node : NextSlot(n) \in Slot /\ NextSlot(n).of # "baskets" /\ NextSlot(n).of = "fwdPtrH"
                     /\ NextSlot(n).at = n /\ At(NextSlot(n)) = fwdPtrH[n]
  /\ \A s \in Slot : \/ s.of = "baskets" /\ s.at \in Basket /\ s = BasketSlot(s.at)
                     \/ s.of = "fwdPtrH" /\ s.at \in Node /\ s = NextSlot(s.at)
<1>1. \A b \in Basket : BasketSlot(b) \in Slot /\ BasketSlot(b).of = "baskets"
                        /\ BasketSlot(b).at = b /\ At(BasketSlot(b)) = baskets[b]
  BY DEF Slot, BasketSlot, At
<1>2. \A n \in Node : NextSlot(n) \in Slot /\ NextSlot(n).of # "baskets" /\ NextSlot(n).of = "fwdPtrH"
                      /\ NextSlot(n).at = n /\ At(NextSlot(n)) = fwdPtrH[n]
  BY DEF Slot, NextSlot, At
<1>3. \A s \in Slot : \/ s.of = "baskets" /\ s.at \in Basket /\ s = BasketSlot(s.at)
                      \/ s.of = "fwdPtrH" /\ s.at \in Node /\ s = NextSlot(s.at)
  BY DEF Slot, BasketSlot, NextSlot
<1> QED
  BY <1>1, <1>2, <1>3

\* There are finitely many.
LEMMA FiniteSlots == IsFiniteSet(Slot)
<1> DEFINE B == {s \in Slot : s.of = "baskets"}
           N == {s \in Slot : s.of = "fwdPtrH"}
           f == [b \in Basket |-> BasketSlot(b)]
           g == [n \in Node |-> NextSlot(n)]
<1>1. IsFiniteSet(Basket)
  BY CapacityAssumption, FS_Interval DEF Basket
<1>2. f \in Surjection(Basket, B)
  BY Slots DEF Surjection
<1>3. g \in Surjection(Node, N)
  BY Slots DEF Surjection
<1>4. Slot = B \cup N
  BY Slots
<1> HIDE DEF f, g, B, N
<1>5. IsFiniteSet(B) /\ IsFiniteSet(N)
  BY <1>1, <1>2, <1>3, NodeAssumption, FS_Surjection
<1> QED
  BY <1>4, <1>5, FS_Union

\* What a place points to: the first head of the basket from its hash on.
LEMMA SlotLink ==
  ASSUME NEW F, ListsOf(F), NEW q \in Nat, NEW s, IsSlot(F, s, q)
  PROVE  HeadFrom(F, BasketId(q), q, At(s))
<1>1. TypeOf(F) /\ \A m \in F : hash[m] \in Nat
  BY Typed DEF ListsOf
<1>2. PICK p : p = At(s)
  OBVIOUS
<1>3. CASE s.of = "baskets"
  <2>1. p = baskets[BasketId(q)] /\ \A m \in F : In(F, m, BasketId(q)) => q <= hash[m]
    BY <1>2, <1>3 DEF IsSlot, At
  <2>2. HeadFrom(F, BasketId(q), 0, p)
    BY <2>1, Hashed, Links
  <2>3. HeadFrom(F, BasketId(q), q, p)
    BY <1>1, <2>1, <2>2 DEF HeadFrom, In
  <2> QED
    BY <1>2, <2>3
<1>4. CASE s.of # "baskets"
  <2>1. PICK c : c = s.at
    OBVIOUS
  <2>2. /\ p = fwdPtrH[c] /\ c \in F /\ HeadOf(F, c) /\ BasketId(hash[c]) = BasketId(q) /\ hash[c] < q
        /\ \A m \in F : In(F, m, BasketId(q)) /\ hash[m] < q => hash[m] <= hash[c]
    BY <1>2, <1>4, <2>1 DEF IsSlot, At, BeforeIn, In
  <2>3. HeadFrom(F, BasketId(q), hash[c] + 1, p)
    BY <2>2, Links
  <2>4. \A m \in F : In(F, m, BasketId(q)) => (q <= hash[m] <=> hash[c] + 1 <= hash[m])
    BY <1>1, <2>2
  <2>5. HeadFrom(F, BasketId(q), q, p)
    BY <1>1, <2>2, <2>3, <2>4 DEF HeadFrom
  <2> QED
    BY <1>2, <2>5
<1> QED
  BY <1>3, <1>4

\* A hash has one place.
LEMMA SlotUnique ==
  ASSUME NEW F, ListsOf(F), NEW q \in Nat, NEW s, IsSlot(F, s, q), NEW t, IsSlot(F, t, q)
  PROVE  s = t
<1>1. TypeOf(F) /\ KeysHashed(F) /\ \A m \in F : hash[m] \in Nat
  BY Typed DEF ListsOf
<1>2. s \in Slot /\ t \in Slot
  BY DEF IsSlot
<1>3. CASE s.of = "baskets" /\ t.of = "baskets"
  BY <1>2, <1>3, Slots DEF IsSlot
<1>4. CASE s.of # "baskets" /\ t.of # "baskets"
  <2>1. /\ s.at \in F /\ HeadOf(F, s.at) /\ t.at \in F /\ HeadOf(F, t.at)
        /\ hash[s.at] <= hash[t.at] /\ hash[t.at] <= hash[s.at]
    BY <1>4 DEF IsSlot, BeforeIn
  <2>2. hash[s.at] = hash[t.at]
    BY <1>1, <2>1
  <2>3. s.at = t.at
    BY <1>1, <2>1, <2>2, HeadUnique
  <2> QED
    BY <1>2, <1>4, <2>3, Slots
<1>5. ASSUME NEW u, IsSlot(F, u, q), NEW v, IsSlot(F, v, q), u.of = "baskets", v.of # "baskets"
      PROVE  FALSE
  <2>1. v.at \in F /\ In(F, v.at, BasketId(q)) /\ hash[v.at] < q
    BY <1>5 DEF IsSlot, BeforeIn
  <2>2. q <= hash[v.at]
    BY <1>5, <2>1 DEF IsSlot
  <2> QED
    BY <1>1, <2>1, <2>2
<1> QED
  BY <1>3, <1>4, <1>5

(***************************************************************************)
(* A search along the slots: from a basket, or from a head before hash h,  *)
(* to a slot where it stops, if it only passes heads before h.             *)
(***************************************************************************)
SlotsBefore(F, h) ==
    {s \in Slot : IF s.of = "baskets" THEN s.at = BasketId(h) ELSE s.at \in BeforeIn(F, BasketId(h), h)}

\* The walk of setll and of delWithOtherHash.
SlotWalk(f, Stop) == f = [s \in Slot |-> IF s \in Stop THEN s ELSE f[NextSlot(At(s))]]

LEMMA SlotWalkEnds ==
  ASSUME NEW F, ListsOf(F), NEW h \in Nat,
         NEW Stop \in SUBSET Slot, \A s \in Slot : At(s) = Null => s \in Stop,
         \A s \in SlotsBefore(F, h) \ Stop : At(s) \in BeforeIn(F, BasketId(h), h),
         NEW w, (\E g : SlotWalk(g, Stop)) => SlotWalk(w, Stop)
  PROVE  \A s \in SlotsBefore(F, h) : w[s] \in SlotsBefore(F, h) /\ w[s] \in Stop
<1> DEFINE next == [s \in Slot |-> NextSlot(At(s))]
           m == [s \in Slot |-> IF s.of = "baskets" THEN 0
                                ELSE IF s.at \in F THEN hash[s.at] + 1 ELSE 0]
           P == SlotsBefore(F, h)
<1>1. TypeOf(F) /\ \A n \in F : hash[n] \in Nat /\ n \in Node /\ n # Null
  BY Typed DEF ListsOf
<1>2. \A s \in Slot \ Stop : At(s) \in Node /\ At(s) # Null
  <2>1. SUFFICES ASSUME NEW s \in Slot \ Stop PROVE At(s) \in Node
    BY NullAssumption
  <2>2. At(s) # Null /\ (At(s) = baskets[s.at] \/ At(s) = fwdPtrH[s.at])
    BY DEF At
  <2> QED
    BY <1>1, <2>2, Slots, Typed DEF At
<1>3. \A s \in Slot \ Stop : next[s] = NextSlot(At(s)) /\ next[s] \in Slot
  BY <1>2, Slots
<1>4. \A g : SlotWalk(g, Stop) <=> IsWalk(g, Slot, Stop, next)
  <2>1. SUFFICES ASSUME NEW g PROVE SlotWalk(g, Stop) <=> IsWalk(g, Slot, Stop, next)
    OBVIOUS
  <2>2. [s \in Slot |-> IF s \in Stop THEN s ELSE g[NextSlot(At(s))]]
          = [s \in Slot |-> IF s \in Stop THEN s ELSE g[next[s]]]
    OBVIOUS
  <2> QED
    BY <2>2 DEF SlotWalk, IsWalk
<1> HIDE DEF next
<1>5. \E g : SlotWalk(g, Stop)
  BY <1>3, <1>4, WalkExists
<1>6. IsWalk(w, Slot, Stop, next)
  BY <1>4, <1>5
<1>7. \A s \in Slot : m[s] \in Nat
  BY <1>1
<1>8. ASSUME NEW s \in Slot \ Stop, next[s] \notin Stop PROVE m[s] < m[next[s]]
  <2>1. PICK c : c = At(s) /\ c \in Node /\ c # Null /\ next[s] = NextSlot(c)
    BY <1>2, <1>3
  <2>2. At(next[s]) # Null /\ next[s] \in Slot /\ next[s].of # "baskets" /\ next[s].at = c
        /\ At(next[s]) = fwdPtrH[c]
    BY <1>3, <1>8, <2>1, Slots
  <2>3. c \in F /\ m[next[s]] = hash[c] + 1 /\ hash[c] \in Nat
    BY <1>1, <2>1, <2>2, Links
  <2>4. CASE s.of = "baskets"
    BY <2>3, <2>4
  <2>5. CASE s.of # "baskets"
    <3>1. s.at \in Node /\ c = fwdPtrH[s.at]
      BY <2>1, <2>5, Slots DEF At
    <3>2. s.at \in F /\ HeadOf(F, s.at)
      BY <2>1, <3>1, Links
    <3>3. hash[s.at] < hash[c] /\ hash[s.at] \in Nat
      BY <1>1, <2>1, <3>1, <3>2, HeadStep
    <3> QED
      BY <2>3, <2>5, <3>2, <3>3
  <2> QED
    BY <2>4, <2>5
<1>9. P \in SUBSET Slot
  BY DEF SlotsBefore
<1>10. \A s \in P \ Stop : next[s] \in P
  <2>1. SUFFICES ASSUME NEW s \in P \ Stop PROVE next[s] \in P
    OBVIOUS
  <2>2. At(s) \in BeforeIn(F, BasketId(h), h) /\ At(s) \in Node
    BY <1>2, <1>9
  <2>3. next[s] = NextSlot(At(s)) /\ next[s] \in Slot
    BY <1>3, <1>9
  <2>4. next[s].of # "baskets" /\ next[s].at = At(s)
    BY <2>2, <2>3, Slots
  <2> QED
    BY <2>2, <2>3, <2>4 DEF SlotsBefore
<1> HIDE DEF m, P
<1>11. \A s \in Slot \ Stop : next[s] \in Slot /\ (next[s] \notin Stop => m[s] < m[next[s]])
  BY <1>3, <1>8
<1>12. \A s \in P : w[s] \in P /\ w[s] \in Stop
  <2>1. PICK D : D = Slot
    OBVIOUS
  <2>2. /\ IsFiniteSet(D) /\ Stop \in SUBSET D /\ P \in SUBSET D /\ IsWalk(w, D, Stop, next)
        /\ \A s \in D : m[s] \in Nat
        /\ \A s \in D \ Stop : next[s] \in D /\ (next[s] \notin Stop => m[s] < m[next[s]])
    BY <1>6, <1>7, <1>9, <1>11, <2>1, FiniteSlots
  <2> QED
    BY <1>10, <2>2, WalkRule
<1> QED
  BY <1>12 DEF P

\* What a slot on the way to a hash points to.
LEMMA SlotStep ==
  ASSUME NEW F, ListsOf(F), NEW h \in Nat, NEW s \in SlotsBefore(F, h)
  PROVE  /\ IF At(s) = Null
            THEN \A m \in F : In(F, m, BasketId(h)) => s.of # "baskets" /\ hash[m] <= hash[s.at]
            ELSE /\ At(s) \in F /\ HeadOf(F, At(s)) /\ In(F, At(s), BasketId(h))
                 /\ \A m \in F : In(F, m, BasketId(h)) /\ (s.of # "baskets" => hash[s.at] < hash[m])
                       => hash[At(s)] <= hash[m]
         /\ s.of # "baskets" => s.at \in F /\ hash[s.at] \in Nat
<1>1. TypeOf(F) /\ BasketId(h) \in Basket /\ \A m \in F : hash[m] \in Nat
  BY Typed, Hashed DEF ListsOf
<1>2. PICK p : p = At(s)
  OBVIOUS
<1>3. CASE s.of = "baskets"
  <2>1. p = baskets[BasketId(h)]
    BY <1>2, <1>3 DEF SlotsBefore, At
  <2>2. HeadFrom(F, BasketId(h), 0, p)
    BY <1>1, <2>1, Links
  <2> QED
    BY <1>1, <1>2, <1>3, <2>2 DEF HeadFrom
<1>4. CASE s.of # "baskets"
  <2>1. PICK c : c = s.at
    OBVIOUS
  <2>2. /\ p = fwdPtrH[c] /\ c \in F /\ HeadOf(F, c) /\ BasketId(hash[c]) = BasketId(h)
    BY <1>2, <1>4, <2>1 DEF SlotsBefore, At, BeforeIn, In
  <2>3. HeadFrom(F, BasketId(h), hash[c] + 1, p)
    BY <2>2, Links
  <2>4. \A m \in F : (hash[c] + 1 <= hash[m] <=> hash[c] < hash[m])
                     /\ (hash[m] < hash[c] + 1 <=> hash[m] <= hash[c])
    BY <1>1, <2>2
  <2>5. CASE p = Null
    <3>1. \A m \in F : In(F, m, BasketId(h)) => hash[m] <= hash[c]
      BY <2>3, <2>4, <2>5 DEF HeadFrom
    <3> QED
      BY <1>1, <1>2, <1>4, <2>1, <2>2, <2>5, <3>1
  <2>6. CASE p # Null
    <3>1. p \in F /\ HeadOf(F, p) /\ In(F, p, BasketId(h))
          /\ \A m \in F : In(F, m, BasketId(h)) /\ hash[c] < hash[m] => hash[p] <= hash[m]
      BY <2>3, <2>4, <2>6 DEF HeadFrom
    <3> QED
      BY <1>1, <1>2, <1>4, <2>1, <2>2, <2>6, <3>1
  <2> QED
    BY <2>5, <2>6
<1> QED
  BY <1>3, <1>4

\* setll finds the place of the hash.
LEMMA SlotFound ==
  ASSUME NEW F, ListsOf(F), NEW k \in Key
  PROVE  IsSlot(F, SlotOf(k), Hash[k])
<1> DEFINE Eq(g) == g = [s \in Slot |->
                           IF At(s) = Null \/ hash[At(s)] >= Hash[k] THEN s ELSE g[NextSlot(At(s))]]
           w == CHOOSE g : Eq(g)
<1>1. TypeOf(F) /\ Hash[k] \in Nat /\ BasketId(Hash[k]) \in Basket /\ \A m \in F : hash[m] \in Nat
  BY Typed, Hashed DEF ListsOf
<1>2. PICK q \in Nat : q = Hash[k]
  BY <1>1
<1>3. PICK Stop \in SUBSET Slot : Stop = {s \in Slot : At(s) = Null \/ hash[At(s)] >= q}
  OBVIOUS
<1>4. \A g : Eq(g) <=> SlotWalk(g, Stop)
  <2>1. SUFFICES ASSUME NEW g PROVE Eq(g) <=> SlotWalk(g, Stop)
    OBVIOUS
  <2>2. [s \in Slot |-> IF At(s) = Null \/ hash[At(s)] >= Hash[k] THEN s ELSE g[NextSlot(At(s))]]
          = [s \in Slot |-> IF s \in Stop THEN s ELSE g[NextSlot(At(s))]]
    BY <1>2, <1>3
  <2> QED
    BY <2>2 DEF SlotWalk
<1>5. (\E g : SlotWalk(g, Stop)) => SlotWalk(w, Stop)
  BY <1>4
<1>6. SlotOf(k) = w[BasketSlot(BasketId(q))]
  BY <1>2 DEF SlotOf
<1> HIDE DEF w
<1>7. PICK v : v = w
  OBVIOUS
<1>8. \A s \in SlotsBefore(F, q) \ Stop : At(s) \in BeforeIn(F, BasketId(q), q)
  <2>1. SUFFICES ASSUME NEW s \in SlotsBefore(F, q) \ Stop PROVE At(s) \in BeforeIn(F, BasketId(q), q)
    OBVIOUS
  <2>2. s \in Slot /\ At(s) # Null /\ ~(hash[At(s)] >= q)
    BY <1>3 DEF SlotsBefore
  <2>3. At(s) \in F /\ HeadOf(F, At(s)) /\ In(F, At(s), BasketId(q))
    BY <2>2, SlotStep
  <2> QED
    BY <1>1, <2>2, <2>3 DEF BeforeIn
<1>9. \A s \in SlotsBefore(F, q) : v[s] \in SlotsBefore(F, q) /\ v[s] \in Stop
  <2>1. \A s \in Slot : At(s) = Null => s \in Stop
    BY <1>3
  <2> QED
    BY <1>5, <1>7, <1>8, <2>1, SlotWalkEnds
<1>10. BasketSlot(BasketId(q)) \in SlotsBefore(F, q)
  BY <1>1, <1>2, Slots DEF SlotsBefore
<1>11. PICK s : s = SlotOf(k)
  OBVIOUS
<1>12. s \in SlotsBefore(F, q) /\ s \in Slot /\ (At(s) = Null \/ hash[At(s)] >= q)
  BY <1>3, <1>6, <1>7, <1>9, <1>10, <1>11
<1>13. CASE s.of = "baskets"
  <2>1. s.at = BasketId(q)
    BY <1>12, <1>13 DEF SlotsBefore
  <2>2. \A m \in F : In(F, m, BasketId(q)) => q <= hash[m]
    BY <1>1, <1>12, <1>13, SlotStep
  <2> QED
    BY <1>2, <1>11, <1>12, <1>13, <2>1, <2>2 DEF IsSlot
<1>14. CASE s.of # "baskets"
  <2>1. s.at \in BeforeIn(F, BasketId(q), q) /\ hash[s.at] \in Nat
    BY <1>12, <1>14, SlotStep DEF SlotsBefore
  <2>2. \A m \in F : In(F, m, BasketId(q)) /\ hash[m] < q => hash[m] <= hash[s.at]
    <3>1. SUFFICES ASSUME NEW m \in F, In(F, m, BasketId(q)), hash[m] < q, ~(hash[m] <= hash[s.at])
                   PROVE  FALSE
      OBVIOUS
    <3>2. hash[s.at] < hash[m] /\ hash[m] \in Nat
      BY <1>1, <2>1, <3>1
    <3>3. At(s) # Null
      BY <1>12, <3>1, SlotStep
    <3>4. At(s) \in F /\ hash[At(s)] <= hash[m]
      BY <1>12, <3>1, <3>2, <3>3, SlotStep
    <3> QED
      BY <1>1, <1>12, <3>1, <3>2, <3>3, <3>4
  <2> QED
    BY <1>2, <1>11, <1>12, <1>14, <2>1, <2>2 DEF IsSlot
<1> QED
  BY <1>13, <1>14

\* The place of a hash that some node has points to its head.
LEMMA SlotHead ==
  ASSUME NEW F, ListsOf(F), NEW q \in Nat, NEW s, IsSlot(F, s, q), NEW m \in F, hash[m] = q
  PROVE  At(s) \in F /\ HeadOf(F, At(s)) /\ hash[At(s)] = q /\ key[At(s)] <= key[m]
<1>1. PICK p : p = At(s)
  OBVIOUS
<1>2. HeadFrom(F, BasketId(q), q, p) /\ In(F, m, BasketId(q)) /\ \A d \in F : hash[d] \in Nat
  BY <1>1, SlotLink, Typed DEF In, ListsOf
<1>3. p # Null /\ p \in F /\ HeadOf(F, p) /\ q <= hash[p] /\ hash[p] <= q
  BY <1>2 DEF HeadFrom
<1> QED
  BY <1>1, <1>2, <1>3 DEF HeadOf

\* delWithOtherHash finds the place of the queue of the next node, also from
\* the place that setll left.
LEMMA VictimFound ==
  ASSUME NEW F, ListsOf(F), NextId \in F, arg \in Key, IsSlot(F, updatePathOutH, Hash[arg])
  PROVE  IsSlot(F, VictimSlot, hash[NextId])
<1> DEFINE Eq(g) == g = [s \in Slot |->
                           IF At(s) = Null \/ hash[At(s)] = hash[NextId] THEN s ELSE g[NextSlot(At(s))]]
           w == CHOOSE g : Eq(g)
           start == IF hash[NextId] > Hash[arg] /\ BasketId(hash[NextId]) = BasketId(Hash[arg])
                    THEN updatePathOutH ELSE BasketSlot(BasketId(hash[NextId]))
<1>1. TypeOf(F) /\ Hash[arg] \in Nat /\ \A m \in F : hash[m] \in Nat
  BY Typed, Hashed DEF ListsOf
<1>2. PICK n \in F, q \in Nat : n = NextId /\ q = hash[n]
  BY <1>1
<1>3. PICK Stop \in SUBSET Slot : Stop = {s \in Slot : At(s) = Null \/ hash[At(s)] = q}
  OBVIOUS
<1>4. \A g : Eq(g) <=> SlotWalk(g, Stop)
  <2>1. SUFFICES ASSUME NEW g PROVE Eq(g) <=> SlotWalk(g, Stop)
    OBVIOUS
  <2>2. [s \in Slot |-> IF At(s) = Null \/ hash[At(s)] = hash[NextId] THEN s ELSE g[NextSlot(At(s))]]
          = [s \in Slot |-> IF s \in Stop THEN s ELSE g[NextSlot(At(s))]]
    BY <1>2, <1>3
  <2> QED
    BY <2>2 DEF SlotWalk
<1>5. (\E g : SlotWalk(g, Stop)) => SlotWalk(w, Stop)
  BY <1>4
<1>6. VictimSlot = w[start]
  BY DEF VictimSlot
<1> HIDE DEF w
<1>7. PICK v : v = w
  OBVIOUS
<1>8. In(F, n, BasketId(q)) /\ BasketId(q) \in Basket
  BY <1>1, <1>2, Hashed DEF In
<1>9. \A s \in SlotsBefore(F, q) :
         /\ At(s) # Null /\ At(s) \in F /\ HeadOf(F, At(s)) /\ In(F, At(s), BasketId(q))
         /\ hash[At(s)] <= q /\ s \in Slot
         /\ \A m \in F : In(F, m, BasketId(q)) /\ (s.of # "baskets" => hash[s.at] < hash[m])
               => hash[At(s)] <= hash[m]
  <2>1. SUFFICES ASSUME NEW s \in SlotsBefore(F, q)
                 PROVE  /\ At(s) # Null /\ At(s) \in F /\ HeadOf(F, At(s)) /\ In(F, At(s), BasketId(q))
                        /\ hash[At(s)] <= q /\ s \in Slot
                        /\ \A m \in F : In(F, m, BasketId(q)) /\ (s.of # "baskets" => hash[s.at] < hash[m])
                              => hash[At(s)] <= hash[m]
    OBVIOUS
  <2>2. s \in Slot /\ (s.of # "baskets" => hash[s.at] < q /\ hash[s.at] \in Nat)
    BY SlotStep DEF SlotsBefore, BeforeIn
  <2>3. At(s) # Null
    BY <1>2, <1>8, <2>2, SlotStep
  <2>4. /\ At(s) \in F /\ HeadOf(F, At(s)) /\ In(F, At(s), BasketId(q))
        /\ \A m \in F : In(F, m, BasketId(q)) /\ (s.of # "baskets" => hash[s.at] < hash[m])
              => hash[At(s)] <= hash[m]
    BY <2>3, SlotStep
  <2> QED
    BY <1>2, <1>8, <2>2, <2>3, <2>4
<1>10. \A s \in SlotsBefore(F, q) \ Stop : At(s) \in BeforeIn(F, BasketId(q), q)
  <2>1. SUFFICES ASSUME NEW s \in SlotsBefore(F, q) \ Stop PROVE At(s) \in BeforeIn(F, BasketId(q), q)
    OBVIOUS
  <2>2. /\ hash[At(s)] # q /\ At(s) \in F /\ HeadOf(F, At(s)) /\ In(F, At(s), BasketId(q))
        /\ hash[At(s)] <= q
    BY <1>3, <1>9
  <2> QED
    BY <1>1, <2>2 DEF BeforeIn
<1>11. \A s \in SlotsBefore(F, q) : v[s] \in SlotsBefore(F, q) /\ v[s] \in Stop
  <2>1. \A s \in Slot : At(s) = Null => s \in Stop
    BY <1>3
  <2> QED
    BY <1>5, <1>7, <1>10, <2>1, SlotWalkEnds
<1>12. start \in SlotsBefore(F, q)
  <2>1. CASE q > Hash[arg] /\ BasketId(q) = BasketId(Hash[arg])
    <3>1. start = updatePathOutH
      BY <1>2, <2>1
    <3>2. updatePathOutH \in SlotsBefore(F, q)
      BY <1>1, <2>1 DEF IsSlot, SlotsBefore, BeforeIn
    <3> QED
      BY <3>1, <3>2
  <2>2. CASE ~(q > Hash[arg] /\ BasketId(q) = BasketId(Hash[arg]))
    <3>1. start = BasketSlot(BasketId(q))
      BY <1>2, <2>2
    <3>2. BasketSlot(BasketId(q)) \in SlotsBefore(F, q)
      BY <1>8, Slots DEF SlotsBefore
    <3> QED
      BY <3>1, <3>2
  <2> QED
    BY <2>1, <2>2
<1> HIDE DEF start
<1>13. PICK s : s = VictimSlot
  OBVIOUS
<1>14. s \in SlotsBefore(F, q) /\ s \in Slot /\ At(s) # Null /\ hash[At(s)] = q
       /\ \A m \in F : In(F, m, BasketId(q)) /\ (s.of # "baskets" => hash[s.at] < hash[m])
             => q <= hash[m]
  <2>1. s \in SlotsBefore(F, q) /\ s \in Stop
    BY <1>6, <1>7, <1>11, <1>12, <1>13
  <2>2. At(s) # Null /\ s \in Slot /\ hash[At(s)] = q
    BY <1>3, <1>9, <2>1
  <2> QED
    BY <1>9, <2>1, <2>2
<1>15. CASE s.of = "baskets"
  BY <1>2, <1>13, <1>14, <1>15 DEF IsSlot, SlotsBefore
<1>16. CASE s.of # "baskets"
  <2>1. s.at \in BeforeIn(F, BasketId(q), q) /\ hash[s.at] \in Nat
    BY <1>14, <1>16, SlotStep DEF SlotsBefore
  <2>2. \A m \in F : In(F, m, BasketId(q)) /\ hash[m] < q => hash[m] <= hash[s.at]
    BY <1>1, <1>2, <1>14, <2>1
  <2> QED
    BY <1>2, <1>13, <1>14, <1>16, <2>1, <2>2 DEF IsSlot
<1> QED
  BY <1>15, <1>16

(***************************************************************************)
(* The levels.                                                             *)
(***************************************************************************)
\* A level has one last node before a key.
LEMMA LastBelowUnique ==
  ASSUME NEW F, ListsOf(F), NEW q, NEW h, NEW k,
         NEW c, IsLastBelow(F, q, h, k, c), NEW d, IsLastBelow(F, q, h, k, d)
  PROVE  c = d
<1>1. c \in F /\ d \in F /\ key[c] <= key[d] /\ key[d] <= key[c]
  BY DEF IsLastBelow, Reaching
<1>2. key[c] \in Nat /\ key[d] \in Nat
  BY <1>1, Typed DEF ListsOf
<1>3. key[c] = key[d]
  BY <1>1, <1>2
<1> QED
  BY <1>1, <1>3 DEF ListsOf, KeysHashed

\* A path names a node per level.
LEMMA PathIsFunction ==
  ASSUME NEW head, NEW k
  PROVE  Path(head, k) = [h \in Level |-> Path(head, k)[h]]
<1> DEFINE on2 == LastBelowKey(head, 2, k)
           on1 == LastBelowKey(on2, 1, k)
           on0 == LastBelowKey(on1, 0, k)
           on(h) == CASE h = 2 -> on2 [] h = 1 -> on1 [] h = 0 -> on0
<1>1. Path(head, k) = [h \in Level |-> on(h)]
  BY DEF Path
<1> HIDE DEF on
<1>2. PICK f : f = [h \in Level |-> on(h)]
  OBVIOUS
<1>3. f = [h \in Level |-> f[h]]
  BY <1>2
<1> QED
  BY <1>1, <1>2, <1>3

\* The last nodes before a key are the path to it.
LEMMA PathExact ==
  ASSUME NEW F, ListsOf(F), NEW head \in F, HeadOf(F, head), NEW k \in Nat, key[head] < k
  PROVE  /\ \A h \in Level : IsLastBelow(F, hash[head], h, k, Path(head, k)[h])
         /\ \A path \in [Level -> Node \cup {Null}] :
               (\A h \in Level : IsLastBelow(F, hash[head], h, k, path[h])) => path = Path(head, k)
<1>1. \A h \in Level : IsLastBelow(F, hash[head], h, k, Path(head, k)[h])
  BY PathFacts DEF IsLastBelow
<1>2. ASSUME NEW path \in [Level -> Node \cup {Null}],
             \A h \in Level : IsLastBelow(F, hash[head], h, k, path[h])
      PROVE  path = Path(head, k)
  <2>1. \A h \in Level : path[h] = Path(head, k)[h]
    BY <1>1, <1>2, LastBelowUnique
  <2>2. Path(head, k) = [h \in Level |-> Path(head, k)[h]]
    BY PathIsFunction
  <2> QED
    BY <2>1, <2>2
<1> QED
  BY <1>1, <1>2

\* A node of a level is a node of the levels below it.
LEMMA ReachingBelow ==
  ASSUME NEW F, ListsOf(F), NEW q, NEW h \in Level, NEW g \in Level, g <= h, NEW k
  PROVE  Reaching(F, q, h, k) \subseteq Reaching(F, q, g, k)
<1>1. SUFFICES ASSUME NEW c \in Reaching(F, q, h, k) PROVE c \in Reaching(F, q, g, k)
  OBVIOUS
<1>2. c \in F /\ h <= curHeight[c] /\ curHeight[c] \in 0 .. 2 /\ h \in 0 .. 2 /\ g \in 0 .. 2
  BY Typed DEF Reaching, ListsOf, Level
<1>3. g <= curHeight[c]
  BY <1>2
<1> QED
  BY <1>3 DEF Reaching

\* What updatePath holds after the search for a node, from a node before it.
LEMMA PathToFacts ==
  ASSUME NEW F, ListsOf(F), NEW n \in F, NEW top \in Level,
         NEW start \in Reaching(F, hash[n], top, key[n])
  PROVE  \A h \in 0 .. top : IsLastBelow(F, hash[n], h, key[n], PathTo(n, start, top)[h])
<1> DEFINE Eq(f) == f = [h \in 0 .. top |->
                           LastBelowKey(IF h = top THEN start ELSE f[h + 1], h, key[n])]
           w == CHOOSE f : Eq(f)
<1>1. top \in {0, 1, 2} /\ \A h \in Level : h \in {0, 1, 2}
  BY DEF Level
<1>2. \E f : Eq(f)
  <2>1. PICK a, b, c : /\ a = LastBelowKey(start, top, key[n])
                       /\ b = LastBelowKey(a, top - 1, key[n])
                       /\ c = LastBelowKey(b, top - 2, key[n])
    OBVIOUS
  <2>2. PICK f : f = [h \in 0 .. top |-> IF h = top THEN a ELSE IF h = top - 1 THEN b ELSE c]
    OBVIOUS
  <2>3. ASSUME NEW h \in 0 .. top
        PROVE  f[h] = LastBelowKey(IF h = top THEN start ELSE f[h + 1], h, key[n])
    <3>1. CASE h = top
      BY <2>1, <2>2, <3>1
    <3>2. CASE h = top - 1
      <4>1. h + 1 = top /\ h + 1 \in 0 .. top /\ h # top
        BY <1>1, <3>2
      <4>2. f[h + 1] = a
        BY <2>2, <4>1
      <4> QED
        BY <2>1, <2>2, <3>2, <4>1, <4>2
    <3>3. CASE h = top - 2
      <4>1. h + 1 = top - 1 /\ h + 1 \in 0 .. top /\ h + 1 # top /\ h # top /\ h # top - 1
        BY <1>1, <3>3
      <4>2. f[h + 1] = b
        BY <2>2, <4>1
      <4> QED
        BY <2>1, <2>2, <3>3, <4>1, <4>2
    <3>4. h = top \/ h = top - 1 \/ h = top - 2
      BY <1>1
    <3> QED
      BY <3>1, <3>2, <3>3, <3>4
  <2>4. f = [h \in 0 .. top |-> f[h]]
    BY <2>2
  <2>5. Eq(f)
    BY <2>3, <2>4
  <2> QED
    BY <2>5
<1>3. Eq(w)
  BY <1>2
<1>4. PathTo(n, start, top) = w
  BY DEF PathTo
<1>5. PICK f : f = w
  OBVIOUS
<1>6. \A h \in 0 .. top : f[h] = LastBelowKey(IF h = top THEN start ELSE f[h + 1], h, key[n])
  BY <1>3, <1>5
<1> HIDE DEF w, Eq
<1>7. key[n] \in Nat
  BY Typed DEF ListsOf
<1>8. ASSUME NEW h \in Level, NEW from \in Reaching(F, hash[n], h, key[n])
      PROVE  IsLastBelow(F, hash[n], h, key[n], LastBelowKey(from, h, key[n]))
  <2>1. PICK c : c = LastBelowKey(from, h, key[n])
    OBVIOUS
  <2>2. c \in Reaching(F, hash[n], h, key[n]) /\ (fwdPtrsL[c][h] # Null => key[n] <= key[fwdPtrsL[c][h]])
    BY <1>7, <1>8, <2>1, LastBelowOnLevel
  <2>3. \A m \in Reaching(F, hash[n], h, key[n]) : key[m] <= key[c]
    BY <1>7, <1>8, <2>2, LastOnLevel
  <2> QED
    BY <2>1, <2>2, <2>3 DEF IsLastBelow
<1>9. IsLastBelow(F, hash[n], top, key[n], f[top])
  BY <1>1, <1>6, <1>8
<1>10. ASSUME NEW h \in 0 .. top, h # top, IsLastBelow(F, hash[n], h + 1, key[n], f[h + 1])
       PROVE  IsLastBelow(F, hash[n], h, key[n], f[h])
  <2>1. h \in Level /\ h + 1 \in Level /\ h <= h + 1
    BY <1>1, <1>10 DEF Level
  <2>2. f[h + 1] \in Reaching(F, hash[n], h, key[n])
    BY <1>10, <2>1, ReachingBelow DEF IsLastBelow
  <2> QED
    BY <1>6, <1>8, <1>10, <2>1, <2>2
<1>11. ASSUME NEW h \in 0 .. top PROVE IsLastBelow(F, hash[n], h, key[n], f[h])
  <2>1. CASE h = top
    BY <1>9, <2>1
  <2>2. CASE h = top - 1
    <3>1. h + 1 = top /\ h # top
      BY <1>1, <2>2
    <3> QED
      BY <1>9, <1>10, <3>1
  <2>3. CASE h = top - 2
    <3>1. h + 1 \in 0 .. top /\ h + 1 # top /\ h # top /\ (h + 1) + 1 = top
      BY <1>1, <2>3
    <3>2. IsLastBelow(F, hash[n], h + 1, key[n], f[h + 1])
      BY <1>9, <1>10, <3>1
    <3> QED
      BY <1>10, <3>1, <3>2
  <2>4. h = top \/ h = top - 1 \/ h = top - 2
    BY <1>1
  <2> QED
    BY <2>1, <2>2, <2>3, <2>4
<1> QED
  BY <1>4, <1>5, <1>11

(***************************************************************************)
(* The deletions of allocNode.                                             *)
(***************************************************************************)
\* By-passing a node on its own levels is the deletion of HashBasket.
LEMMA ByPassDeletes ==
  ASSUME NEW F, NEW G, ListsOf(F), NEW n \in F, Goes(F, G, n),
         NEW head \in F, HeadOf(F, head), hash[head] = hash[n], head # n,
         NEW path, \A h \in 0 .. curHeight[n] : IsLastBelow(F, hash[n], h, key[n], path[h]),
         ByPass(n, path, 0 .. curHeight[n])
  PROVE  /\ ListsOf(G)' /\ hash' = hash /\ curHeight' = curHeight
         /\ key' = [key EXCEPT ![n] = NoKey]
<1>1. /\ TypeOf(F) /\ key[n] \in Nat /\ key[head] < key[n] /\ curHeight[n] \in 0 .. 2
  BY Pointers, Typed DEF ListsOf
<1>2. \A h \in Level : h <= curHeight[n] => path[h] = Path(head, key[n])[h]
  <2>1. SUFFICES ASSUME NEW h \in Level, h <= curHeight[n] PROVE path[h] = Path(head, key[n])[h]
    OBVIOUS
  <2>2. IsLastBelow(F, hash[n], h, key[n], Path(head, key[n])[h])
    BY <1>1, PathExact
  <2>3. h \in 0 .. curHeight[n]
    BY <1>1, <2>1 DEF Level
  <2> QED
    BY <2>2, <2>3, LastBelowUnique
<1>3. DelInSameHashCmp3(n, head)
  <2>1. PICK P : P = Path(head, key[n])
    OBVIOUS
  <2>2. \A h \in Level : h \in 0 .. curHeight[n] <=> h <= curHeight[n]
    BY <1>1 DEF Level
  <2>3. [m \in Node |-> [h \in Level |->
           CASE m = n -> Null
             [] h \in 0 .. curHeight[n] /\ m = path[h] -> fwdPtrsL[n][h]
             [] OTHER -> fwdPtrsL[m][h]]]
        = [m \in Node |-> [h \in Level |->
               CASE m = n -> Null
                 [] h <= curHeight[n] /\ m = P[h] -> fwdPtrsL[n][h]
                 [] OTHER -> fwdPtrsL[m][h]]]
    BY <1>2, <2>1, <2>2
  <2> QED
    BY <2>1, <2>3 DEF ByPass, DelInSameHashCmp3
<1>4. key' = [key EXCEPT ![n] = NoKey] /\ hash' = hash /\ curHeight' = curHeight
  BY DEF ByPass
<1> QED
  BY <1>3, <1>4, EvictInner

\* delInSameHashCmp3, which searches the node from the head.
LEMMA Cmp3Deletes ==
  ASSUME NEW F, NEW G, ListsOf(F), NEW n \in F, Goes(F, G, n),
         NEW head \in F, HeadOf(F, head), hash[head] = hash[n], head # n,
         delInSameHashCmp3(n, head)
  PROVE  /\ ListsOf(G)' /\ hash' = hash /\ curHeight' = curHeight
         /\ key' = [key EXCEPT ![n] = NoKey]
<1>1. PICK path : path = PathTo(n, head, 2)
  OBVIOUS
<1>2. 2 \in Level /\ head \in Reaching(F, hash[n], 2, key[n]) /\ curHeight[n] \in 0 .. 2
  BY Pointers DEF Reaching, Level
<1>3. \A h \in 0 .. 2 : IsLastBelow(F, hash[n], h, key[n], path[h])
  BY <1>1, <1>2, PathToFacts
<1>4. \A h \in 0 .. curHeight[n] : IsLastBelow(F, hash[n], h, key[n], path[h])
  BY <1>2, <1>3
<1>5. ByPass(n, path, 0 .. curHeight[n])
  BY <1>1 DEF delInSameHashCmp3
<1> QED
  BY <1>4, <1>5, ByPassDeletes

\* The head of a queue gets another key, which is still its smallest.
LEMMA HeadRekeyed ==
  ASSUME NEW F, ListsOf(F), NEW n \in F, HeadOf(F, n), NEW k \in Key, Hash[k] = hash[n],
         \A m \in F : hash[m] = hash[n] /\ m # n => k < key[m],
         key' = [key EXCEPT ![n] = k],
         UNCHANGED <<baskets, fwdPtrH, fwdPtrsL, curHeight, hash>>
  PROVE  ListsOf(F)'
<1>1. TypeOf(F) /\ KeysHashed(F) /\ QueuesLinked(F) /\ n \in Node /\ k \in Nat /\ k # NoKey
  BY Hashed, Typed DEF ListsOf
<1>2. key' \in [Node -> Key \cup {NoKey}] /\ key'[n] = k
      /\ \A m \in Node : m # n => key'[m] = key[m]
  BY <1>1 DEF TypeOf, TypeOK
<1>3. \A m \in F : m \in Node /\ key[m] \in Nat /\ key[m] # NoKey
  BY <1>1, Typed
<1>4. TypeOf(F)'
  <2>1. F \subseteq Filled'
    BY <1>1, <1>2, <1>3 DEF Filled
  <2> QED
    BY <1>1, <1>2, <2>1 DEF TypeOf, TypeOK
<1>5. KeysHashed(F)'
  <2>1. \A m \in F : m # n => key'[m] # k
    <3>1. SUFFICES ASSUME NEW m \in F, m # n, key[m] = k PROVE FALSE
      BY <1>2, <1>3
    <3>2. hash[m] = hash[n]
      BY <1>1, <3>1 DEF KeysHashed
    <3> QED
      BY <1>1, <3>1, <3>2
  <2>2. \A m \in F : hash'[m] = Hash[key'[m]]
    BY <1>1, <1>2, <1>3 DEF KeysHashed
  <2>3. \A m, d \in F : key'[m] = key'[d] => m = d
    BY <1>1, <1>2, <1>3, <2>1 DEF KeysHashed
  <2> QED
    BY <2>2, <2>3 DEF KeysHashed
<1>6. \A m \in F : hash[m] = hash[n] /\ m # n => key[n] < key[m] /\ ~(key[m] < key[n]) /\ ~(key[m] < k)
  BY <1>1, <1>3, Pointers
<1>7. \A m \in F : HeadOf(F, m)' <=> HeadOf(F, m)
  <2>1. SUFFICES ASSUME NEW m \in F PROVE HeadOf(F, m)' <=> HeadOf(F, m)
    OBVIOUS
  <2>2. CASE hash[m] # hash[n]
    BY <1>2, <1>3, <2>2 DEF HeadOf
  <2>3. CASE m = n
    BY <1>1, <1>2, <1>3, <2>3 DEF HeadOf
  <2>4. CASE hash[m] = hash[n] /\ m # n
    <3>1. ~HeadOf(F, m)
      BY <1>1, <2>4, HeadUnique
    <3>2. ~(key'[m] <= key'[n])
      BY <1>1, <1>2, <1>3, <2>4
    <3> QED
      BY <2>4, <3>1, <3>2 DEF HeadOf
  <2> QED
    BY <2>2, <2>3, <2>4
<1>8. HeadsLinked(F)'
  <2>1. \A m \in F : \E d \in F : hash[d] = hash'[m]
    OBVIOUS
  <2>2. \A m \in Node : m \in F /\ HeadOf(F, m)' <=> m \in F /\ HeadOf(F, m)
    BY <1>7
  <2> QED
    BY <1>4, <2>1, <2>2, HeadsKept
<1>9. \A m \in F : n \notin After(F, m) /\ After(F, m)' = After(F, m)
  <2>1. SUFFICES ASSUME NEW m \in F PROVE n \notin After(F, m) /\ After(F, m)' = After(F, m)
    OBVIOUS
  <2>2. \A d \in F : hash[d] = hash[m] => (key'[m] < key'[d] <=> key[m] < key[d])
    <3>1. SUFFICES ASSUME NEW d \in F, hash[d] = hash[m] PROVE key'[m] < key'[d] <=> key[m] < key[d]
      OBVIOUS
    <3>2. CASE m = n /\ d = n
      BY <1>1, <1>2, <1>3, <3>2
    <3>3. CASE m = n /\ d # n
      BY <1>2, <1>3, <1>6, <3>1, <3>3
    <3>4. CASE m # n /\ d = n
      BY <1>2, <1>3, <1>6, <3>1, <3>4
    <3>5. CASE m # n /\ d # n
      BY <1>2, <1>3, <3>5
    <3> QED
      BY <3>2, <3>3, <3>4, <3>5
  <2>3. After(F, m)' = After(F, m)
    BY <2>2 DEF After
  <2>4. n \notin After(F, m)
    BY <1>3, <1>6 DEF After
  <2> QED
    BY <2>3, <2>4
<1>10. QueuesLinked(F)'
  <2>1. ASSUME NEW m \in Node, NEW h \in Level
        PROVE  IF m \in F /\ h <= curHeight'[m]
               THEN \E S, p : /\ S = After(F, m)' /\ p = fwdPtrsL'[m][h] /\ FirstOnLevel(S, h, p)'
               ELSE fwdPtrsL'[m][h] = Null
    <3>1. CASE m \in F /\ h <= curHeight'[m]
      <4>1. PICK S, p : S = After(F, m) /\ p = fwdPtrsL[m][h]
        OBVIOUS
      <4>2. FirstOnLevel(S, h, p)
        BY <3>1, <4>1, Pointers
      <4>3. \A d \in S : key'[d] = key[d] /\ curHeight'[d] = curHeight[d]
        BY <1>2, <1>3, <1>9, <3>1, <4>1 DEF After
      <4>4. FirstOnLevel(S, h, p)'
        BY <4>2, <4>3, PointerKept
      <4> QED
        BY <1>9, <3>1, <4>1, <4>4
    <3>2. CASE ~(m \in F /\ h <= curHeight'[m])
      BY <3>2, Pointers
    <3> QED
      BY <3>1, <3>2
  <2>2. \A m \in F : HeadOf(F, m)' => curHeight'[m] = 2
    BY <1>7, Pointers
  <2> QED
    BY <1>4, <2>1, <2>2, PointersAfter
<1> QED
  BY <1>4, <1>5, <1>8, <1>10 DEF ListsOf

\* The second node of a queue: the one with the smallest key behind the head.
LEMMA SecondFacts ==
  ASSUME NEW F, ListsOf(F), NEW n \in F, HeadOf(F, n)
  PROVE  LET second == fwdPtrsL[n][0]
         IN  /\ second = Null => \A m \in F : hash[m] = hash[n] => m = n
             /\ second # Null =>
                   /\ second \in F /\ second # n /\ hash[second] = hash[n] /\ key[n] < key[second]
                   /\ ~HeadOf(F, second)
                   /\ \A m \in F : hash[m] = hash[n] /\ m # n => key[second] <= key[m]
<1>1. PICK second : second = fwdPtrsL[n][0]
  OBVIOUS
<1>2. /\ TypeOf(F) /\ KeysHashed(F) /\ n \in Node /\ 0 \in Level /\ 0 <= curHeight[n]
      /\ \A m \in F : hash[m] = hash[n] /\ m # n => m \in After(F, n) /\ key[n] < key[m]
                                                    /\ curHeight[m] \in 0 .. 2
  BY Pointers DEF ListsOf, Level
<1>3. FirstOnLevel(After(F, n), 0, second)
  BY <1>1, <1>2, Pointers
<1>4. second = Null => \A m \in F : hash[m] = hash[n] => m = n
  BY <1>2, <1>3 DEF FirstOnLevel
<1>5. ASSUME second # Null
      PROVE  /\ second \in F /\ second # n /\ hash[second] = hash[n] /\ key[n] < key[second]
             /\ ~HeadOf(F, second)
             /\ \A m \in F : hash[m] = hash[n] /\ m # n => key[second] <= key[m]
  <2>1. second \in After(F, n) /\ \A m \in After(F, n) : 0 <= curHeight[m] => key[second] <= key[m]
    BY <1>3, <1>5 DEF FirstOnLevel
  <2>2. second \in F /\ hash[second] = hash[n] /\ key[n] < key[second] /\ second # n
    BY <1>2, <2>1, Typed DEF After
  <2>3. ~HeadOf(F, second)
    BY <1>2, <2>2, HeadUnique
  <2> QED
    BY <1>2, <1>5, <2>1, <2>2, <2>3
<1> QED
  BY <1>1, <1>4, <1>5

\* The head takes over the item and the levels of the second node.
LEMMA SecondTaken ==
  ASSUME NEW F, NEW G, ListsOf(F), NEW n \in F, HeadOf(F, n),
         NEW second, second = fwdPtrsL[n][0], second # Null, Goes(F, G, second),
         key' = [key EXCEPT ![n] = key[second]],
         fwdPtrsL' = [fwdPtrsL EXCEPT
            ![n] = [h \in Level |-> IF h \in 0 .. curHeight[second] THEN fwdPtrsL[second][h] ELSE @[h]],
            ![second] = [h \in Level |-> IF h \in 0 .. curHeight[second] THEN Null ELSE @[h]]],
         UNCHANGED <<baskets, fwdPtrH, curHeight, hash>>
  PROVE  ListsOf(G)' /\ \A m \in G : HeadOf(G, m)' <=> HeadOf(F, m)
<1> second \notin G /\ (\A m \in G : m \in F) /\ \A m \in F : m # second => m \in G
  BY DEF Goes
<1>1. TypeOf(F) /\ KeysHashed(F) /\ n \in Node
  BY Typed DEF ListsOf
<1>2. /\ second \in F /\ second # n /\ hash[second] = hash[n] /\ key[n] < key[second]
      /\ ~HeadOf(F, second) /\ second \in Node
      /\ \A m \in F : hash[m] = hash[n] /\ m # n => key[second] <= key[m]
  BY SecondFacts, Typed, <1>1
<1>3. \A m \in F : m \in Node /\ key[m] \in Nat /\ key[m] # NoKey /\ key[m] \in Key
                   /\ curHeight[m] \in 0 .. 2
  BY <1>1, Typed
<1>4. key' \in [Node -> Key \cup {NoKey}] /\ key'[n] = key[second]
      /\ \A m \in Node : m # n => key'[m] = key[m]
  BY <1>1, <1>2, <1>3 DEF TypeOf, TypeOK
<1>5. \A m \in F : hash[m] = hash[n] /\ m # n /\ m # second => key[second] < key[m]
  BY <1>1, <1>2, <1>3 DEF KeysHashed
<1>6. /\ \A m \in Node, h \in Level : m # n /\ m # second => fwdPtrsL'[m][h] = fwdPtrsL[m][h]
      /\ \A h \in Level : /\ h <= curHeight[second] => fwdPtrsL'[n][h] = fwdPtrsL[second][h]
                          /\ ~(h <= curHeight[second]) => fwdPtrsL'[n][h] = fwdPtrsL[n][h]
                          /\ fwdPtrsL'[second][h] = Null
      /\ fwdPtrsL' \in [Node -> [Level -> Node \cup {Null}]]
  <2>1. fwdPtrsL \in [Node -> [Level -> Node \cup {Null}]]
    BY <1>1 DEF TypeOf, TypeOK
  <2>2. \A h \in Level : h \in 0 .. curHeight[second] <=> h <= curHeight[second]
    BY <1>2, <1>3 DEF Level
  <2>3. /\ fwdPtrsL'[n] = [h \in Level |-> IF h \in 0 .. curHeight[second] THEN fwdPtrsL[second][h] ELSE fwdPtrsL[n][h]]
        /\ fwdPtrsL'[second] = [h \in Level |-> IF h \in 0 .. curHeight[second] THEN Null ELSE fwdPtrsL[second][h]]
        /\ \A m \in Node : m # n /\ m # second => fwdPtrsL'[m] = fwdPtrsL[m]
        /\ fwdPtrsL' = [m \in Node |-> fwdPtrsL'[m]]
    BY <1>1, <1>2, <2>1
  <2>4. \A h \in Level : ~(h <= curHeight[second]) => fwdPtrsL[second][h] = Null
    BY <1>2, Pointers
  <2>5. fwdPtrsL'[n] \in [Level -> Node \cup {Null}] /\ fwdPtrsL'[second] \in [Level -> Node \cup {Null}]
    BY <1>1, <1>2, <2>1, <2>3
  <2>6. fwdPtrsL' \in [Node -> [Level -> Node \cup {Null}]]
    BY <2>1, <2>3, <2>5
  <2>7. \A h \in Level : /\ h <= curHeight[second] => fwdPtrsL'[n][h] = fwdPtrsL[second][h]
                         /\ ~(h <= curHeight[second]) => fwdPtrsL'[n][h] = fwdPtrsL[n][h]
    BY <2>2, <2>3
  <2>8. \A h \in Level : fwdPtrsL'[second][h] = Null
    BY <2>2, <2>3, <2>4
  <2> QED
    BY <2>3, <2>6, <2>7, <2>8
<1>7. TypeOf(G)'
  <2>1. G \subseteq Filled'
    BY <1>1, <1>2, <1>3, <1>4 DEF Filled
  <2> QED
    BY <1>1, <1>4, <1>6, <2>1 DEF TypeOf, TypeOK
<1>8. KeysHashed(G)'
  <2>1. \A m \in G : hash'[m] = Hash[key'[m]]
    BY <1>1, <1>2, <1>3, <1>4 DEF KeysHashed
  <2>2. \A m, d \in G : key'[m] = key'[d] => m = d
    BY <1>1, <1>2, <1>3, <1>4 DEF KeysHashed
  <2> QED
    BY <2>1, <2>2 DEF KeysHashed
<1>9. \A m \in G : hash[m] = hash[n] /\ m # n =>
         key'[n] < key[m] /\ ~(key[m] < key'[n]) /\ key[n] < key[m] /\ ~(key[m] < key[n])
  <2>1. SUFFICES ASSUME NEW m \in G, hash[m] = hash[n], m # n
                 PROVE  key'[n] < key[m] /\ ~(key[m] < key'[n]) /\ key[n] < key[m] /\ ~(key[m] < key[n])
    OBVIOUS
  <2>2. key[n] \in Nat /\ key[second] \in Nat /\ key[m] \in Nat /\ key[second] < key[m]
    BY <1>2, <1>3, <1>5, <2>1
  <2> QED
    BY <1>2, <1>4, <2>2
<1>10. \A m \in G : HeadOf(G, m)' <=> HeadOf(F, m)
  <2>1. SUFFICES ASSUME NEW m \in G PROVE HeadOf(G, m)' <=> HeadOf(F, m)
    OBVIOUS
  <2>2. CASE hash[m] # hash[n]
    BY <1>2, <1>3, <1>4, <2>2 DEF HeadOf
  <2>3. CASE m = n
    <3>1. key'[n] \in Nat /\ \A d \in G : key'[d] \in Nat
      BY <1>2, <1>3, <1>4
    <3>2. \A d \in G : hash[d] = hash[n] => key'[n] <= key'[d]
      BY <1>3, <1>4, <1>9, <3>1
    <3> QED
      BY <2>3, <3>2 DEF HeadOf
  <2>4. CASE hash[m] = hash[n] /\ m # n
    <3>1. ~HeadOf(F, m)
      BY <1>1, <2>4, HeadUnique
    <3>2. ~(key'[m] <= key'[n]) /\ n \in G
      BY <1>2, <1>3, <1>4, <1>9, <2>4
    <3> QED
      BY <2>4, <3>1, <3>2 DEF HeadOf
  <2> QED
    BY <2>2, <2>3, <2>4
<1>11. HeadsLinked(G)'
  <2>1. \A m \in G : \E d \in F : hash[d] = hash'[m]
    OBVIOUS
  <2>2. \A m \in Node : m \in G /\ HeadOf(G, m)' <=> m \in F /\ HeadOf(F, m)
    BY <1>2, <1>10
  <2> QED
    BY <1>7, <2>1, <2>2, HeadsKept
<1>12. /\ After(G, n)' = After(F, second) /\ \A m \in After(F, second) : m \in G /\ m # n
       /\ \A m \in After(F, n) : m = second \/ m \in After(F, second)
       /\ After(F, second) \subseteq After(F, n)
  <2>1. \A m \in G : m \in After(F, second) <=> hash[m] = hash[n] /\ key'[n] < key'[m]
    BY <1>2, <1>3, <1>4, <1>9 DEF After
  <2>2. \A m \in After(F, second) : m \in G /\ m # n
    BY <1>2, <1>3 DEF After
  <2>3. After(G, n)' = After(F, second)
    BY <2>1, <2>2 DEF After
  <2>4. \A m \in After(F, n) : m = second \/ m \in After(F, second)
    BY <1>2, <1>3, <1>5 DEF After
  <2>5. \A m \in After(F, second) : m \in After(F, n)
    BY <1>2, <1>3 DEF After
  <2> QED
    BY <2>2, <2>3, <2>4, <2>5
<1>13. \A m \in G : m # n => n \notin After(F, m) /\ second \notin After(F, m)
                             /\ After(G, m)' = After(F, m)
  <2>1. SUFFICES ASSUME NEW m \in G, m # n
                 PROVE  n \notin After(F, m) /\ second \notin After(F, m) /\ After(G, m)' = After(F, m)
    OBVIOUS
  <2>2. n \notin After(F, m)
    BY <1>3, <1>9, <2>1 DEF After
  <2>3. second \notin After(F, m)
    BY <1>2, <1>3, <1>5, <2>1 DEF After
  <2>4. ~(hash[n] = hash[m] /\ key'[m] < key'[n])
    BY <1>3, <1>4, <1>9, <2>1
  <2>5. After(G, m)' = After(F, m)
    BY <1>3, <1>4, <2>1, <2>2, <2>3, <2>4 DEF After
  <2> QED
    BY <2>2, <2>3, <2>5
<1>14. QueuesLinked(G)'
  <2>1. ASSUME NEW m \in Node, NEW h \in Level
        PROVE  IF m \in G /\ h <= curHeight'[m]
               THEN \E S, p : /\ S = After(G, m)' /\ p = fwdPtrsL'[m][h] /\ FirstOnLevel(S, h, p)'
               ELSE fwdPtrsL'[m][h] = Null
    <3>1. CASE m \in G /\ m # n /\ h <= curHeight'[m]
      <4>1. PICK S, p : S = After(F, m) /\ p = fwdPtrsL[m][h]
        OBVIOUS
      <4>2. FirstOnLevel(S, h, p)
        BY <3>1, <4>1, Pointers
      <4>3. \A d \in S : key'[d] = key[d] /\ curHeight'[d] = curHeight[d]
        BY <1>3, <1>4, <1>13, <3>1, <4>1 DEF After
      <4>4. FirstOnLevel(S, h, p)'
        BY <4>2, <4>3, PointerKept
      <4>5. S = After(G, m)' /\ p = fwdPtrsL'[m][h]
        BY <1>6, <1>13, <3>1, <4>1
      <4> QED
        BY <3>1, <4>4, <4>5
    <3>2. CASE m = n
      <4>1. PICK S : S = After(F, second)
        OBVIOUS
      <4>2. PICK p : p = fwdPtrsL'[n][h]
        OBVIOUS
      <4>3. FirstOnLevel(S, h, p)
        <5>1. CASE h <= curHeight[second]
          BY <1>2, <1>6, <4>1, <4>2, <5>1, Pointers
        <5>2. CASE ~(h <= curHeight[second])
          <6>1. curHeight[n] = 2 /\ h <= curHeight[n]
            BY Pointers DEF Level
          <6>2. p = fwdPtrsL[n][h] /\ FirstOnLevel(After(F, n), h, p)
            BY <1>6, <4>2, <5>2, <6>1, Pointers
          <6> QED
            BY <1>12, <4>1, <5>2, <6>2 DEF FirstOnLevel
        <5> QED
          BY <5>1, <5>2
      <4>4. \A d \in S : key'[d] = key[d] /\ curHeight'[d] = curHeight[d]
        BY <1>3, <1>4, <1>12, <4>1
      <4>5. FirstOnLevel(S, h, p)'
        BY <4>3, <4>4, PointerKept
      <4>6. S = After(G, n)' /\ h <= curHeight'[n] /\ n \in G
        BY <1>2, <1>12, <4>1, Pointers DEF Level
      <4> QED
        BY <3>2, <4>2, <4>5, <4>6
    <3>3. CASE m # n /\ ~(m \in G /\ h <= curHeight'[m])
      BY <1>6, <3>3, Pointers
    <3> QED
      BY <3>1, <3>2, <3>3
  <2>2. \A m \in G : HeadOf(G, m)' => curHeight'[m] = 2
    BY <1>10, Pointers
  <2> QED
    BY <1>7, <2>1, <2>2, PointersAfter
<1> QED
  BY <1>7, <1>8, <1>10, <1>11, <1>14 DEF ListsOf

(***************************************************************************)
(* The call: what setll found, and what allocNode keeps of it.             *)
(***************************************************************************)
\* The nodes that the lists hold: all but the one taken for the item.
Held == Filled \ {re}

\* Result c of setll and the path are those of key k.
PlaceOf(F, k, c, path) ==
    /\ k \in Key /\ \A m \in F : key[m] # k
    /\ c \in {1, 3, 4, 5}
    /\ c = 5 => \A m \in F : ~In(F, m, BasketId(Hash[k]))
    /\ c = 4 => \A m \in F : hash[m] # Hash[k]
    /\ c = 3 => (\E m \in F : hash[m] = Hash[k]) /\ \A m \in F : hash[m] = Hash[k] => k < key[m]
    /\ c = 1 => \A h \in Level : IsLastBelow(F, Hash[k], h, k, path[h])

\* setll finds them.
LEMMA Searched ==
  ASSUME NEW F, ListsOf(F), NEW k \in Key, setll(k) # 0,
         NEW path, path = IF setll(k) = 1 THEN Path(At(SlotOf(k)), k) ELSE NoPath
  PROVE  /\ PlaceOf(F, k, setll(k), path) /\ path \in [Level -> Node \cup {Null}]
         /\ IsSlot(F, SlotOf(k), Hash[k])
<1>1. /\ TypeOf(F) /\ KeysHashed(F) /\ k \in Nat /\ Hash[k] \in Nat /\ BasketId(Hash[k]) \in Basket
      /\ \A m \in F : key[m] \in Nat /\ hash[m] \in Nat
  BY Hashed, Typed DEF ListsOf
<1>2. PICK q \in Nat : q = Hash[k]
  BY <1>1
<1>3. PICK s, head : s = SlotOf(k) /\ head = At(s)
  OBVIOUS
<1>4. IsSlot(F, s, q) /\ HeadFrom(F, BasketId(q), q, head)
  <2>1. IsSlot(F, s, q)
    BY <1>2, <1>3, SlotFound
  <2> QED
    BY <1>3, <2>1, SlotLink
<1>5. \A m \in F : key[m] = k => hash[m] = q
  BY <1>1, <1>2 DEF KeysHashed
<1>6. setll(k) = IF baskets[BasketId(q)] = Null THEN 5
                 ELSE IF ~(head # Null /\ hash[head] = q) THEN 4
                 ELSE IF k < key[head] THEN 3
                 ELSE IF k = key[head] \/ Below(head, k) # Null THEN 0
                 ELSE 1
  BY <1>2, <1>3 DEF setll, HasQueue
<1>7. PICK c : c = setll(k) /\ path = IF c = 1 THEN Path(head, k) ELSE NoPath
  BY <1>3
<1>8. head # Null => head \in F /\ HeadOf(F, head) /\ key[head] \in Nat
  BY <1>1, <1>4 DEF HeadFrom
<1>9. NoPath \in [Level -> Node \cup {Null}]
  BY DEF NoPath
<1>10. CASE baskets[BasketId(q)] = Null
  <2>1. c = 5 /\ path = NoPath
    <3>1. setll(k) = 5
      BY <1>6, <1>10
    <3> QED
      BY <1>7, <3>1
  <2>2. HeadFrom(F, BasketId(q), 0, Null)
    BY <1>1, <1>2, <1>10, Links
  <2>3. \A m \in F : ~In(F, m, BasketId(q))
    BY <1>1, <2>2 DEF HeadFrom
  <2>4. \A m \in F : key[m] # k
    BY <1>5, <2>3 DEF In
  <2>5. PlaceOf(F, k, c, path)
    BY <1>2, <2>1, <2>3, <2>4 DEF PlaceOf
  <2> QED
    BY <1>2, <1>3, <1>4, <1>7, <1>9, <2>1, <2>5
<1>11. CASE baskets[BasketId(q)] # Null /\ ~(head # Null /\ hash[head] = q)
  <2>1. c = 4 /\ path = NoPath
    <3>1. setll(k) = 4
      BY <1>6, <1>11
    <3> QED
      BY <1>7, <3>1
  <2>2. \A m \in F : hash[m] # q
    BY <1>1, <1>3, <1>4, <1>11, SlotHead, Typed
  <2>3. PlaceOf(F, k, c, path)
    BY <1>2, <1>5, <2>1, <2>2 DEF PlaceOf
  <2> QED
    BY <1>2, <1>3, <1>4, <1>7, <1>9, <2>1, <2>3
<1>12. CASE baskets[BasketId(q)] # Null /\ head # Null /\ hash[head] = q /\ k < key[head]
  <2>1. c = 3 /\ path = NoPath
    BY <1>6, <1>7, <1>12
  <2>2. \A m \in F : hash[m] = q => k < key[m]
    BY <1>1, <1>8, <1>12 DEF HeadOf
  <2>3. \A m \in F : key[m] # k
    BY <1>1, <1>5, <2>2
  <2>4. PlaceOf(F, k, c, path)
    BY <1>2, <1>8, <1>12, <2>1, <2>2, <2>3 DEF PlaceOf
  <2> QED
    BY <1>2, <1>3, <1>4, <1>7, <1>9, <2>1, <2>4
<1>13. CASE baskets[BasketId(q)] # Null /\ head # Null /\ hash[head] = q /\ ~(k < key[head])
  <2>1. k # key[head] /\ Below(head, k) = Null /\ c = 1 /\ path = Path(head, k)
    BY <1>3, <1>6, <1>7, <1>13
  <2>2. key[head] < k /\ head \in F /\ HeadOf(F, head)
    BY <1>1, <1>8, <1>13, <2>1
  <2>3. \A m \in F : key[m] # k
    BY <1>1, <1>5, <1>13, <2>1, <2>2, BelowFacts
  <2>4. \A h \in Level : IsLastBelow(F, q, h, k, path[h])
    BY <1>1, <1>13, <2>1, <2>2, PathExact
  <2>5. path \in [Level -> Node \cup {Null}]
    <3>1. \A h \in Level : path[h] \in Node
      BY <1>1, <2>4, Typed DEF IsLastBelow, Reaching
    <3>2. path = [h \in Level |-> path[h]]
      BY <1>1, <2>1, <2>2, PathIsFunction
    <3> QED
      BY <3>1, <3>2
  <2>6. PlaceOf(F, k, c, path)
    BY <1>2, <2>1, <2>3, <2>4 DEF PlaceOf
  <2> QED
    BY <1>2, <1>3, <1>4, <1>7, <2>5, <2>6
<1> QED
  BY <1>10, <1>11, <1>12, <1>13

\* A step that leaves the nodes of the hash as they are keeps what setll found.
LEMMA PlaceKept ==
  ASSUME NEW F, NEW G, \A m \in G : m \in F, NEW k, NEW c, NEW old, PlaceOf(F, k, c, old),
         hash' = hash, \A m \in G : key'[m] = key[m],
         \A m \in G : hash[m] = Hash[k] => curHeight'[m] = curHeight[m],
         c = 3 => \E m \in G : hash[m] = Hash[k],
         NEW path, c = 1 => \A h \in Level : IsLastBelow(G, Hash[k], h, k, path[h])
  PROVE  PlaceOf(G, k, c, path)'
<1>1. /\ k \in Key /\ \A m \in G : key'[m] # k
      /\ c \in {1, 3, 4, 5}
      /\ c = 5 => \A m \in G : ~In(F, m, BasketId(Hash[k]))
      /\ c = 4 => \A m \in G : hash'[m] # Hash[k]
      /\ c = 3 => (\E m \in G : hash'[m] = Hash[k]) /\ \A m \in G : hash'[m] = Hash[k] => k < key'[m]
  BY DEF PlaceOf
<1>2. c = 5 => \A m \in G : ~In(G, m, BasketId(Hash[k]))'
  BY <1>1 DEF In
<1>3. c = 1 => \A h \in Level : IsLastBelow(G, Hash[k], h, k, path[h])'
  <2>1. SUFFICES ASSUME c = 1, NEW h \in Level PROVE IsLastBelow(G, Hash[k], h, k, path[h])'
    OBVIOUS
  <2>2. IsLastBelow(G, Hash[k], h, k, path[h])
    BY <2>1
  <2>3. Reaching(G, Hash[k], h, k)' = Reaching(G, Hash[k], h, k)
    BY DEF Reaching
  <2>4. \A m \in Reaching(G, Hash[k], h, k) : m \in G
    BY DEF Reaching
  <2> QED
    BY <2>2, <2>3, <2>4 DEF IsLastBelow
<1> QED
  BY <1>1, <1>2, <1>3 DEF PlaceOf

\* It keeps the path where that does not lead over the node that goes.
LEMMA PathKept ==
  ASSUME NEW F, NEW G, \A m \in G : m \in F, NEW q, NEW h, NEW k, NEW c,
         IsLastBelow(F, q, h, k, c), c \in G
  PROVE  IsLastBelow(G, q, h, k, c)
BY DEF IsLastBelow, Reaching

\* It keeps the place of a head that stays one.
LEMMA SlotKept ==
  ASSUME NEW F, NEW G, \A m \in G : m \in F, hash' = hash, NEW q, NEW s, IsSlot(F, s, q),
         s.of # "baskets" => s.at \in G /\ HeadOf(G, s.at)'
  PROVE  IsSlot(G, s, q)'
<1>1. \A m \in G : In(G, m, BasketId(q))' => In(F, m, BasketId(q)) /\ hash'[m] = hash[m]
  BY DEF In
<1>2. CASE s.of = "baskets"
  BY <1>1, <1>2 DEF IsSlot
<1>3. CASE s.of # "baskets"
  <2>1. s.at \in BeforeIn(F, BasketId(q), q) /\ s.at \in G /\ HeadOf(G, s.at)'
    BY <1>3 DEF IsSlot
  <2>2. (s.at \in BeforeIn(G, BasketId(q), q))'
    BY <2>1 DEF BeforeIn, In
  <2>3. \A m \in G : In(G, m, BasketId(q))' /\ hash'[m] < q => hash'[m] <= hash'[s.at]
    BY <1>1, <1>3 DEF IsSlot
  <2> QED
    BY <1>3, <2>2, <2>3 DEF IsSlot
<1> QED
  BY <1>2, <1>3

\* Max of levels.
LEMMA MaxOfLevels ==
  ASSUME NEW S \in SUBSET Level, S # {}
  PROVE  Max(S) \in S /\ Max(S) \in Level /\ \A h \in S : h <= Max(S)
<1>1. S \subseteq {0, 1, 2}
  BY DEF Level
<1>2. \E x \in S : \A y \in S : x >= y
  <2>1. CASE 2 \in S
    BY <1>1, <2>1
  <2>2. CASE 2 \notin S /\ 1 \in S
    <3>1. \A y \in S : 1 >= y
      BY <1>1, <2>2
    <3> QED
      BY <2>2, <3>1
  <2>3. CASE S = {0}
    BY <2>3
  <2> QED
    BY <1>1, <2>1, <2>2, <2>3
<1>3. PICK x : x = Max(S)
  OBVIOUS
<1>4. x \in S /\ \A y \in S : x >= y
  BY <1>2, <1>3, Zenon DEF Max
<1> QED
  BY <1>1, <1>3, <1>4

\* The path of setll around a node n of the queue behind its head: where it
\* leads over n, or to n, is at most the height of n.
LEMMA PathAround ==
  ASSUME NEW F, ListsOf(F), NEW n \in F, NEW k \in Nat, NEW path,
         \A h \in Level : IsLastBelow(F, hash[n], h, k, path[h])
  PROVE  /\ \A h \in Level : /\ path[h] \in F /\ path[h] # Null /\ hash[path[h]] = hash[n]
                             /\ h <= curHeight[path[h]] /\ key[path[h]] < k /\ path[h] \in Node
         /\ \A h \in Level : path[h] = n \/ fwdPtrsL[path[h]][h] = n => h <= curHeight[n]
         /\ \A h \in Level : fwdPtrsL[path[h]][h] = n => key[path[h]] < key[n]
         /\ \A g, h \in Level : g <= h => key[path[h]] <= key[path[g]]
<1>1. TypeOf(F) /\ n # Null
  BY Typed DEF ListsOf
<1>2. \A h \in Level : /\ path[h] \in F /\ path[h] # Null /\ hash[path[h]] = hash[n]
                       /\ h <= curHeight[path[h]] /\ key[path[h]] < k /\ path[h] \in Node
  BY <1>1, Typed DEF IsLastBelow, Reaching
<1>3. \A h \in Level : path[h] = n \/ fwdPtrsL[path[h]][h] = n => h <= curHeight[n]
  BY <1>1, <1>2, KeyStep
<1>4. \A h \in Level : fwdPtrsL[path[h]][h] = n => key[path[h]] < key[n]
  BY <1>1, <1>2, KeyStep
<1>5. ASSUME NEW g \in Level, NEW h \in Level, g <= h PROVE key[path[h]] <= key[path[g]]
  BY <1>5, ReachingBelow DEF IsLastBelow
<1> QED
  BY <1>2, <1>3, <1>4, <1>5

\* A node behind the head of the queue of the key goes, off the path, too.
LEMMA SameHashDeleted ==
  ASSUME NEW F, NEW G, ListsOf(F), NEW n \in F, Goes(F, G, n), NEW k \in Key, hash[n] = Hash[k],
         Head \in F, HeadOf(F, Head), hash[Head] = hash[n], Head # n,
         updatePathOutL \in [Level -> Node \cup {Null}],
         \A h \in Level : IsLastBelow(F, Hash[k], h, k, updatePathOutL[h]),
         delInSameHash(n)
  PROVE  /\ ListsOf(G)' /\ hash' = hash /\ curHeight' = curHeight
         /\ key' = [key EXCEPT ![n] = NoKey]
         /\ updatePathOutL' \in [Level -> Node \cup {Null}]
         /\ \A h \in Level : IsLastBelow(G, Hash[k], h, k, updatePathOutL'[h])
<1> n \notin G /\ (\A m \in G : m \in F) /\ \A m \in F : m # n => m \in G
  BY DEF Goes
<1> DEFINE on     == {h \in Level : updatePathOutL[h] = n}
           behind == {h \in Level : fwdPtrsL[updatePathOutL[h]][h] = n}
<1>1. PICK path, head, q : path = updatePathOutL /\ head = Head /\ q = Hash[k]
  OBVIOUS
<1>2. /\ TypeOf(F) /\ KeysHashed(F) /\ k \in Nat /\ n \in Node /\ curHeight[n] \in Level
      /\ \A h \in Level : h \in 0 .. 2 /\ h + 0 = h
      /\ \A m \in F : key[m] \in Nat /\ m \in Node /\ curHeight[m] \in 0 .. 2
  BY Hashed, Typed DEF ListsOf, Level
<1>3. /\ \A h \in Level : IsLastBelow(F, q, h, k, path[h])
      /\ \A h \in Level : /\ path[h] \in F /\ path[h] # Null /\ hash[path[h]] = hash[n]
                          /\ h <= curHeight[path[h]] /\ key[path[h]] < k /\ path[h] \in Node
      /\ \A h \in Level : path[h] = n \/ fwdPtrsL[path[h]][h] = n => h <= curHeight[n]
      /\ \A h \in Level : fwdPtrsL[path[h]][h] = n => key[path[h]] < key[n]
      /\ \A g, h \in Level : g <= h => key[path[h]] <= key[path[g]]
  <2>1. \A h \in Level : IsLastBelow(F, q, h, k, path[h])
    BY <1>1
  <2> QED
    BY <1>1, <1>2, <2>1, PathAround
<1>4. head \in F /\ HeadOf(F, head) /\ hash[head] = hash[n] /\ head # n /\ key[head] < key[n]
      /\ curHeight[head] = 2 /\ q = hash[n]
  BY <1>1, Pointers
<1>5. ASSUME NEW top \in Level, top = curHeight[n], NEW start \in Reaching(F, hash[n], top, key[n]),
             NEW to, to = PathTo(n, start, top), ByPass(n, to, 0 .. top)
      PROVE  /\ ListsOf(G)' /\ hash' = hash /\ curHeight' = curHeight
             /\ key' = [key EXCEPT ![n] = NoKey]
             /\ \A h \in 0 .. top : IsLastBelow(F, q, h, key[n], to[h])
  <2>1. \A h \in 0 .. top : IsLastBelow(F, hash[n], h, key[n], to[h])
    BY <1>5, PathToFacts
  <2> QED
    BY <1>4, <1>5, <2>1, ByPassDeletes
<1>6. on = {} => \A h \in Level : IsLastBelow(G, q, h, k, path[h])
  <2>1. SUFFICES ASSUME on = {}, NEW h \in Level PROVE IsLastBelow(G, q, h, k, path[h])
    OBVIOUS
  <2>2. path[h] # n
    BY <1>1, <2>1
  <2>3. path[h] \in G /\ IsLastBelow(F, q, h, k, path[h])
    BY <1>3, <2>2
  <2> QED
    BY <2>3, PathKept
<1>7. ASSUME NEW h \in Level, h <= curHeight[n]
      PROVE  Max({h, curHeight[n]}) = curHeight[n]
  <2>1. PICK S \in SUBSET Level : S = {h, curHeight[n]}
    BY <1>2
  <2>2. Max(S) \in S /\ \A g \in S : g <= Max(S)
    BY <2>1, MaxOfLevels
  <2>3. curHeight[n] <= Max(S)
    BY <2>1, <2>2
  <2> QED
    BY <1>2, <1>7, <2>1, <2>2, <2>3
<1>8. CASE on # {} /\ delInSameHashPathOut(n, Max(on))
  <2>1. PICK g \in Level : g = Max(on) /\ path[g] = n
    <3>1. on \in SUBSET Level
      OBVIOUS
    <3>2. Max(on) \in on
      BY <1>8, <3>1, MaxOfLevels
    <3> QED
      BY <1>1, <3>2
  <2>2. g <= curHeight[n] /\ key[n] < k
    BY <1>3, <2>1
  <2>3. PICK top \in Level : top = curHeight[n]
    BY <1>2
  <2>4. Max({g, curHeight[n]}) = top
    BY <1>7, <2>2, <2>3
  <2>5. PICK start : start = IF top = 2 THEN head ELSE path[top + 1]
    OBVIOUS
  <2>6. start \in Reaching(F, hash[n], top, key[n])
    <3>1. CASE top = 2
      BY <1>4, <2>3, <2>5, <3>1 DEF Reaching
    <3>2. CASE top # 2
      <4>1. top + 1 \in Level /\ top <= top + 1 /\ g <= top + 1 /\ ~(top + 1 <= curHeight[n])
        BY <1>2, <2>2, <2>3, <3>2 DEF Level
      <4>2. PICK c : c = path[top + 1]
        OBVIOUS
      <4>3. c \in F /\ hash[c] = hash[n] /\ top + 1 <= curHeight[c] /\ key[c] <= key[n] /\ c # n
        BY <1>3, <2>1, <4>1, <4>2
      <4>4. key[c] # key[n]
        BY <1>2, <4>3 DEF KeysHashed
      <4>5. key[c] < key[n] /\ top <= curHeight[c]
        BY <1>2, <4>1, <4>3, <4>4
      <4> QED
        BY <2>5, <3>2, <4>2, <4>3, <4>5 DEF Reaching
    <3> QED
      BY <3>1, <3>2
  <2>7. PICK to : to = PathTo(n, start, top)
    OBVIOUS
  <2>8. /\ ByPass(n, to, 0 .. top)
        /\ updatePathOutL' = [l \in Level |-> IF l <= top /\ path[l] = n THEN to[l] ELSE path[l]]
    BY <1>1, <1>8, <2>1, <2>3, <2>4, <2>5, <2>7 DEF delInSameHashPathOut
  <2>9. /\ ListsOf(G)' /\ hash' = hash /\ curHeight' = curHeight
        /\ key' = [key EXCEPT ![n] = NoKey]
        /\ \A h \in 0 .. top : IsLastBelow(F, q, h, key[n], to[h])
    BY <1>5, <2>3, <2>6, <2>7, <2>8
  <2>10. ASSUME NEW h \in Level
         PROVE  /\ updatePathOutL'[h] \in Node \cup {Null}
                /\ IsLastBelow(G, q, h, k, updatePathOutL'[h])
    <3>1. CASE path[h] = n
      <4>1. h <= top /\ h \in 0 .. top
        BY <1>2, <1>3, <2>3, <3>1
      <4>2. PICK c : c = to[h]
        OBVIOUS
      <4>3. updatePathOutL'[h] = c
        BY <2>8, <3>1, <4>1, <4>2
      <4>4. c \in Reaching(F, q, h, key[n]) /\ \A m \in Reaching(F, q, h, key[n]) : key[m] <= key[c]
        BY <2>9, <4>1, <4>2 DEF IsLastBelow
      <4>5. c \in F /\ key[c] < key[n] /\ c # n /\ c \in Node
        BY <1>2, <4>4 DEF Reaching
      <4>6. c \in Reaching(G, q, h, k)
        BY <1>2, <2>2, <4>4, <4>5 DEF Reaching
      <4>7. ASSUME NEW m \in Reaching(G, q, h, k) PROVE key[m] <= key[c]
        <5>1. m \in Reaching(F, q, h, k) /\ m # n /\ m \in F
          BY DEF Reaching
        <5>2. key[m] <= key[n]
          BY <1>3, <3>1, <5>1 DEF IsLastBelow
        <5>3. key[m] # key[n]
          BY <1>2, <5>1 DEF KeysHashed
        <5>4. key[m] < key[n]
          BY <1>2, <5>1, <5>2, <5>3
        <5>5. m \in Reaching(F, q, h, key[n])
          BY <5>1, <5>4 DEF Reaching
        <5> QED
          BY <4>4, <5>5
      <4> QED
        BY <4>3, <4>5, <4>6, <4>7 DEF IsLastBelow
    <3>2. CASE path[h] # n
      <4>1. updatePathOutL'[h] = path[h] /\ path[h] \in G
        BY <1>3, <2>8, <3>2
      <4>2. IsLastBelow(G, q, h, k, path[h])
        BY <1>3, <4>1, PathKept
      <4> QED
        BY <1>3, <4>1, <4>2
    <3> QED
      BY <3>1, <3>2
  <2>11. updatePathOutL' \in [Level -> Node \cup {Null}]
    BY <2>8, <2>10
  <2> QED
    BY <1>1, <2>9, <2>10, <2>11
<1>9. CASE on = {} /\ behind # {} /\ delInSameHashSuperFast(n, Max(behind)) /\ UNCHANGED updatePathOutL
  <2>1. PICK g \in Level : g = Max(behind) /\ fwdPtrsL[path[g]][g] = n
    <3>1. behind \in SUBSET Level
      OBVIOUS
    <3>2. Max(behind) \in behind
      BY <1>9, <3>1, MaxOfLevels
    <3> QED
      BY <1>1, <3>2
  <2>2. g <= curHeight[n] /\ key[path[g]] < key[n]
    BY <1>3, <2>1
  <2>3. PICK top \in Level : top = curHeight[n]
    BY <1>2
  <2>4. Max({g, curHeight[n]}) = top
    BY <1>7, <2>2, <2>3
  <2>5. PICK start : start = path[top]
    OBVIOUS
  <2>6. start \in Reaching(F, hash[n], top, key[n])
    <3>1. key[start] <= key[path[g]] /\ start \in F /\ path[g] \in F /\ hash[start] = hash[n]
          /\ top <= curHeight[start]
      BY <1>3, <2>2, <2>3, <2>5
    <3>2. key[start] < key[n]
      BY <1>2, <2>2, <3>1
    <3> QED
      BY <3>1, <3>2 DEF Reaching
  <2>7. PICK to : to = PathTo(n, start, top)
    OBVIOUS
  <2>8. ByPass(n, to, 0 .. top)
    BY <1>1, <1>9, <2>1, <2>3, <2>4, <2>5, <2>7 DEF delInSameHashSuperFast
  <2>9. /\ ListsOf(G)' /\ hash' = hash /\ curHeight' = curHeight
        /\ key' = [key EXCEPT ![n] = NoKey]
    BY <1>5, <2>3, <2>6, <2>7, <2>8
  <2> QED
    BY <1>1, <1>6, <1>9, <2>9
<1>10. CASE on = {} /\ delInSameHashCmp3(n, Head) /\ UNCHANGED updatePathOutL
  <2>1. delInSameHashCmp3(n, head)
    BY <1>1, <1>10
  <2>2. /\ ListsOf(G)' /\ hash' = hash /\ curHeight' = curHeight
        /\ key' = [key EXCEPT ![n] = NoKey]
    BY <1>4, <2>1, Cmp3Deletes
  <2> QED
    BY <1>1, <1>6, <1>10, <2>2
<1> QED
  BY <1>8, <1>9, <1>10 DEF delInSameHash

\* What a place holds is the only link to its head: a new head n takes it over.
LEMMA SlotRelinked ==
  ASSUME NEW F, ListsOf(F), NEW old \in F, NEW s \in Slot, At(s) = old,
         s.of # "baskets" => s.at \in F /\ HeadOf(F, s.at),
         NEW n \in Node, n # old, ~(n \in F /\ HeadOf(F, n)),
         baskets' = SetInBaskets(s, n), fwdPtrH' \in [Node -> Node \cup {Null}],
         \A m \in Node : fwdPtrH'[m] = IF m = n THEN fwdPtrH[old]
                                       ELSE IF m = old THEN Null
                                       ELSE IF s.of = "fwdPtrH" /\ m = s.at THEN n ELSE fwdPtrH[m]
  PROVE  Relinked(old, n)
<1>1. /\ TypeOf(F) /\ old \in Node /\ old # Null /\ baskets \in [Basket -> Node \cup {Null}]
      /\ fwdPtrH \in [Node -> Node \cup {Null}]
  <2>1. TypeOf(F) /\ TypeOK
    BY DEF ListsOf, TypeOf
  <2>2. old \in Node /\ old # Null
    BY <2>1, Typed
  <2> QED
    BY <2>1, <2>2 DEF TypeOK
<1>2. CASE s.of = "baskets"
  <2>1. PICK b \in Basket : s.at = b /\ baskets[b] = old /\ s.of # "fwdPtrH"
    BY <1>2, Slots DEF At
  <2>2. (\A a \in Basket : baskets[a] = old => a = b) /\ \A m \in Node : fwdPtrH[m] # old
    BY <1>1, <2>1, OneLink
  <2>3. baskets' = [baskets EXCEPT ![b] = n]
    BY <1>2, <2>1 DEF SetInBaskets
  <2> QED
    BY <1>1, <2>1, <2>2, <2>3 DEF Relinked
<1>3. CASE s.of # "baskets"
  <2>1. PICK c \in Node : s.at = c /\ fwdPtrH[c] = old /\ s.of = "fwdPtrH" /\ c \in F /\ HeadOf(F, c)
    BY <1>3, Slots DEF At
  <2>2. (\A m \in Node : fwdPtrH[m] = old => m = c) /\ \A b \in Basket : baskets[b] # old
    BY <1>1, <2>1, OneLink
  <2>3. baskets' = baskets
    BY <1>3 DEF SetInBaskets
  <2> QED
    BY <1>1, <2>1, <2>2, <2>3 DEF Relinked
<1> QED
  BY <1>2, <1>3

\* The same where head n goes without another.
LEMMA SlotUnlinked ==
  ASSUME NEW F, ListsOf(F), NEW n \in F, NEW s \in Slot, At(s) = n,
         baskets' = SetInBaskets(s, fwdPtrH[n]), fwdPtrH' \in [Node -> Node \cup {Null}],
         \A m \in Node : fwdPtrH'[m] = IF m = n THEN Null
                                       ELSE IF s.of = "fwdPtrH" /\ m = s.at THEN fwdPtrH[n]
                                       ELSE fwdPtrH[m]
  PROVE  Unlinked(n)
<1>1. /\ TypeOf(F) /\ n \in Node /\ n # Null /\ baskets \in [Basket -> Node \cup {Null}]
      /\ fwdPtrH \in [Node -> Node \cup {Null}] /\ fwdPtrH[n] \in Node \cup {Null}
  <2>1. TypeOf(F) /\ TypeOK
    BY DEF ListsOf, TypeOf
  <2>2. n \in Node /\ n # Null
    BY <2>1, Typed
  <2> QED
    BY <2>1, <2>2 DEF TypeOK
<1>2. CASE s.of = "baskets"
  <2>1. PICK b \in Basket : s.at = b /\ baskets[b] = n /\ s.of # "fwdPtrH"
    BY <1>2, Slots DEF At
  <2>2. (\A a \in Basket : baskets[a] = n => a = b) /\ \A m \in Node : fwdPtrH[m] # n
    BY <1>1, <2>1, OneLink
  <2>3. baskets' = [baskets EXCEPT ![b] = fwdPtrH[n]]
    BY <1>2, <2>1 DEF SetInBaskets
  <2> QED
    BY <1>1, <2>1, <2>2, <2>3 DEF Unlinked
<1>3. CASE s.of # "baskets"
  <2>1. PICK c \in Node : s.at = c /\ fwdPtrH[c] = n /\ s.of = "fwdPtrH"
    BY <1>3, Slots DEF At
  <2>2. (\A m \in Node : fwdPtrH[m] = n => m = c) /\ \A b \in Basket : baskets[b] # n
    BY <1>1, <2>1, OneLink
  <2>3. baskets' = baskets
    BY <1>3 DEF SetInBaskets
  <2> QED
    BY <1>1, <2>1, <2>2, <2>3 DEF Unlinked
<1> QED
  BY <1>2, <1>3

\* The place in a head that goes without another moves to the place of that head.
LEMMA SlotMoved ==
  ASSUME NEW F, NEW G, ListsOf(F), NEW n \in F, Goes(F, G, n), \A m \in F : hash[m] = hash[n] => m = n,
         NEW q \in Nat, IsSlot(F, NextSlot(n), q), NEW s, IsSlot(F, s, hash[n]),
         hash' = hash, \A m \in G : key'[m] = key[m]
  PROVE  IsSlot(G, s, q)'
<1> n \notin G /\ (\A m \in G : m \in F) /\ \A m \in F : m # n => m \in G
  BY DEF Goes
<1>1. /\ TypeOf(F) /\ n \in Node /\ s \in Slot /\ \A m \in F : hash[m] \in Nat
  BY Typed DEF ListsOf, IsSlot
<1>2. /\ BasketId(hash[n]) = BasketId(q) /\ hash[n] < q
      /\ \A m \in F : In(F, m, BasketId(q)) /\ hash[m] < q => hash[m] <= hash[n]
  BY <1>1, Slots DEF IsSlot, BeforeIn, In
<1>3. \A m \in G : /\ In(G, m, BasketId(q))' => In(F, m, BasketId(hash[n]))
                   /\ hash[m] # hash[n] /\ hash'[m] = hash[m] /\ hash[m] \in Nat
  BY <1>1, <1>2 DEF In
<1>4. CASE s.of = "baskets"
  <2>1. s.at = BasketId(q) /\ \A m \in F : In(F, m, BasketId(hash[n])) => hash[n] <= hash[m]
    BY <1>2, <1>4 DEF IsSlot
  <2>2. ASSUME NEW m \in G, In(G, m, BasketId(q))' PROVE q <= hash'[m]
    <3>1. hash[n] <= hash[m] /\ hash[m] # hash[n]
      BY <1>3, <2>1, <2>2
    <3>2. ~(hash[m] <= hash[n])
      BY <1>1, <1>3, <3>1
    <3> QED
      BY <1>1, <1>2, <1>3, <2>2, <3>2
  <2> QED
    BY <1>1, <1>4, <2>1, <2>2 DEF IsSlot
<1>5. CASE s.of # "baskets"
  <2>1. /\ s.at \in F /\ HeadOf(F, s.at) /\ In(F, s.at, BasketId(q)) /\ hash[s.at] < hash[n]
        /\ \A m \in F : In(F, m, BasketId(hash[n])) /\ hash[m] < hash[n] => hash[m] <= hash[s.at]
    BY <1>2, <1>5 DEF IsSlot, BeforeIn
  <2>2. s.at # n /\ s.at \in G /\ hash[s.at] < q
    BY <1>1, <1>2, <2>1
  <2>3. (s.at \in BeforeIn(G, BasketId(q), q))'
    BY <2>1, <2>2 DEF BeforeIn, In, HeadOf
  <2>4. ASSUME NEW m \in G, In(G, m, BasketId(q))', hash'[m] < q PROVE hash'[m] <= hash'[s.at]
    <3>1. In(F, m, BasketId(q)) /\ hash[m] <= hash[n] /\ hash[m] # hash[n]
      BY <1>2, <1>3, <2>4
    <3>2. hash[m] < hash[n]
      BY <1>1, <1>3, <3>1
    <3> QED
      BY <1>2, <1>3, <2>1, <2>2, <3>1, <3>2
  <2> QED
    BY <1>1, <1>5, <2>3, <2>4 DEF IsSlot
<1> QED
  BY <1>4, <1>5

(***************************************************************************)
(* The parts of a call.                                                    *)
(***************************************************************************)
\* Before allocNode the lists hold nodes F.
AllocInv(F) ==
    /\ ListsOf(F)
    /\ PlaceOf(F, arg, cmp, updatePathOutL)
    /\ IsSlot(F, updatePathOutH, Hash[arg])
    /\ updatePathOutL \in [Level -> Node \cup {Null}]

\* When the item is linked they hold nodes G: the place is only kept for the
\* results that use it.
LinkInv(G) ==
    /\ ListsOf(G)
    /\ PlaceOf(G, arg, cmp, updatePathOutL)
    /\ cmp \in {3, 4} => IsSlot(G, updatePathOutH, Hash[arg])
    /\ updatePathOutH \in Slot
    /\ updatePathOutL \in [Level -> Node \cup {Null}]

\* The step that does not keep the place: for a head with a second node,
\* delWithOtherHash promotes the second node, and the place stays in the head.
PlaceLost ==
    /\ pc = "alloc" /\ cmp \in {3, 4}
    /\ key[NextId] # NoKey /\ hash[NextId] # Hash[arg]
    /\ updatePathOutH = NextSlot(NextId) /\ fwdPtrsL[NextId][0] # Null

\* setll leads to allocNode.
LEMMA InsertSearches ==
  ASSUME NEW F, ListsOf(F), NEW k \in Key, insertNode(k)
  PROVE  AllocInv(F)'
<1>1. PICK s, c, path : /\ s = SlotOf(k) /\ c = setll(k)
                        /\ path = IF setll(k) = 1 THEN Path(At(SlotOf(k)), k) ELSE NoPath
  OBVIOUS
<1>2. /\ arg' = k /\ cmp' = c /\ updatePathOutH' = s /\ updatePathOutL' = path
      /\ UNCHANGED <<baskets, fwdPtrH, fwdPtrsL, curHeight, hash, key>> /\ setll(k) # 0
  BY <1>1 DEF insertNode, lists
<1>3. PlaceOf(F, k, c, path) /\ path \in [Level -> Node \cup {Null}] /\ IsSlot(F, s, Hash[k])
  BY <1>1, <1>2, Searched
<1>4. ListsOf(F)'
  BY <1>2, ListsUnchanged DEF vars
<1>5. PlaceOf(F, k, c, path)' /\ IsSlot(F, s, Hash[k])'
  BY <1>2, <1>3 DEF PlaceOf, IsLastBelow, Reaching, IsSlot, BeforeIn, HeadOf, In
<1> QED
  BY <1>2, <1>3, <1>4, <1>5 DEF AllocInv

\* An item of another hash goes: the lists and the search result stay right, and
\* the place does, unless it is lost.
LEMMA OtherHashDeleted ==
  ASSUME NEW F, NEW G, AllocInv(F), NEW n \in F, n = NextId, Goes(F, G, n),
         hash[n] # Hash[arg], delWithOtherHash
  PROVE  /\ ListsOf(G)' /\ PlaceOf(G, arg, cmp, updatePathOutL)'
         /\ ~PlaceLost => LinkInv(G)'
<1> n \notin G /\ (\A m \in G : m \in F) /\ \A m \in F : m # n => m \in G
  BY DEF Goes
<1>1. PICK k, c, path, o, s : /\ k = arg /\ c = cmp /\ path = updatePathOutL /\ o = updatePathOutH
                              /\ s = VictimSlot
  OBVIOUS
<1>2. /\ ListsOf(F) /\ TypeOf(F) /\ KeysHashed(F) /\ PlaceOf(F, k, c, path) /\ IsSlot(F, o, Hash[k])
      /\ path \in [Level -> Node \cup {Null}]
      /\ k \in Key /\ Hash[k] \in Nat /\ hash[n] \in Nat /\ n \in Node /\ hash[n] # Hash[k]
      /\ \A m \in F : hash[m] \in Nat /\ m \in Node
  <2>1. ListsOf(F) /\ PlaceOf(F, k, c, path) /\ IsSlot(F, o, Hash[k])
        /\ path \in [Level -> Node \cup {Null}]
    BY <1>1 DEF AllocInv
  <2>2. TypeOf(F) /\ KeysHashed(F) /\ k \in Key
    BY <2>1 DEF ListsOf, PlaceOf
  <2> QED
    BY <1>1, <2>1, <2>2, Hashed, Typed
<1>3. IsSlot(F, s, hash[n]) /\ s \in Slot /\ o \in Slot
  BY <1>1, <1>2, VictimFound DEF IsSlot
<1>4. PICK head : head = At(s)
  OBVIOUS
<1>5. head \in F /\ HeadOf(F, head) /\ hash[head] = hash[n]
  BY <1>2, <1>3, <1>4, SlotHead
<1>6. PICK second : second = fwdPtrsL[n][0]
  OBVIOUS
<1>7. /\ key' = [key EXCEPT ![n] = NoKey] => \A m \in G : key'[m] = key[m]
      /\ c = 3 => \E m \in G : hash[m] = Hash[k]
      /\ c = 1 => \A h \in Level : IsLastBelow(G, Hash[k], h, k, path[h])
  <2>1. key' = [key EXCEPT ![n] = NoKey] => \A m \in G : key'[m] = key[m]
    BY <1>2, Emptied DEF TypeOf, TypeOK
  <2>2. c = 3 => \E m \in G : hash[m] = Hash[k]
    BY <1>2 DEF PlaceOf
  <2>3. ASSUME c = 1, NEW h \in Level PROVE IsLastBelow(G, Hash[k], h, k, path[h])
    <3>1. IsLastBelow(F, Hash[k], h, k, path[h])
      BY <1>2, <2>3 DEF PlaceOf
    <3>2. path[h] \in G
      BY <1>2, <3>1 DEF IsLastBelow, Reaching
    <3> QED
      BY <3>1, <3>2, PathKept
  <2> QED
    BY <2>1, <2>2, <2>3
<1>8. n = head => HeadOf(F, n)
  BY <1>5
<1>9. s.of # "baskets" => s.at \in F /\ HeadOf(F, s.at) /\ s.at # n
  <2>1. s.of # "baskets" => s.at \in F /\ HeadOf(F, s.at) /\ hash[s.at] < hash[n]
    BY <1>3 DEF IsSlot, BeforeIn
  <2> QED
    BY <1>2, <2>1
<1>10. o.of # "baskets" => o.at \in F /\ HeadOf(F, o.at) /\ o = NextSlot(o.at)
  BY <1>2, <1>3, Slots DEF IsSlot, BeforeIn
<1>11. /\ arg' = k /\ cmp' = c /\ updatePathOutL' = path /\ hash' = hash
       /\ \/ /\ head = n
             /\ IF second # Null THEN PromoteNext(n, s) ELSE EndQueue(n, s)
             /\ key' = [key EXCEPT ![n] = NoKey]
          \/ head # n /\ delInSameHashCmp3(n, head) /\ updatePathOutH' = o
  <2>1. arg' = k /\ cmp' = c /\ updatePathOutL' = path
    BY <1>1 DEF delWithOtherHash, Taken
  <2>2. \/ /\ head = n
           /\ IF second # Null THEN PromoteNext(n, s) ELSE EndQueue(n, s)
           /\ key' = [key EXCEPT ![n] = NoKey] /\ hash' = hash
        \/ head # n /\ delInSameHashCmp3(n, head) /\ updatePathOutH' = o
    BY <1>1, <1>4, <1>6 DEF delWithOtherHash
  <2>3. delInSameHashCmp3(n, head) => hash' = hash
    BY DEF delInSameHashCmp3, ByPass
  <2> QED
    BY <2>1, <2>2, <2>3
<1>12. CASE head = n /\ second # Null /\ PromoteNext(n, s) /\ key' = [key EXCEPT ![n] = NoKey]
  <2>1. /\ second \in F /\ second # n /\ hash[second] = hash[n] /\ ~HeadOf(F, second)
    BY <1>2, <1>5, <1>6, <1>12, SecondFacts
  <2>2. /\ PromoteSecond(n, second) /\ baskets' = SetInBaskets(s, second)
        /\ fwdPtrH' = SetInHeads([fwdPtrH EXCEPT ![second] = fwdPtrH[n], ![n] = Null], s, second)
        /\ updatePathOutH' = o
    BY <1>1, <1>6, <1>12 DEF PromoteNext
  <2>3. Relinked(n, second)
    <3>1. fwdPtrH \in [Node -> Node \cup {Null}] /\ second \in Node
      BY <1>2, <2>1 DEF TypeOf, TypeOK
    <3>2. PICK f : f = [fwdPtrH EXCEPT ![second] = fwdPtrH[n], ![n] = Null]
      OBVIOUS
    <3>3. /\ f \in [Node -> Node \cup {Null}]
          /\ \A m \in Node : f[m] = IF m = n THEN Null ELSE IF m = second THEN fwdPtrH[n] ELSE fwdPtrH[m]
      BY <1>2, <3>1, <3>2
    <3>4. fwdPtrH' = IF s.of = "fwdPtrH" THEN [f EXCEPT ![s.at] = second] ELSE f
      BY <2>2, <3>2 DEF SetInHeads
    <3>5. s.of = "fwdPtrH" => s.at # second /\ s.at # n /\ s.at \in Node
      BY <1>2, <1>9, <2>1
    <3>6. fwdPtrH' \in [Node -> Node \cup {Null}]
      BY <3>1, <3>3, <3>4
    <3>7. \A m \in Node : fwdPtrH'[m] = IF m = second THEN fwdPtrH[n]
                                        ELSE IF m = n THEN Null
                                        ELSE IF s.of = "fwdPtrH" /\ m = s.at THEN second ELSE fwdPtrH[m]
      BY <2>1, <3>3, <3>4, <3>5
    <3>8. /\ At(s) = n /\ (s.of # "baskets" => s.at \in F /\ HeadOf(F, s.at))
          /\ ~(second \in F /\ HeadOf(F, second)) /\ baskets' = SetInBaskets(s, second)
      BY <1>4, <1>9, <1>12, <2>1, <2>2
    <3> QED
      BY <1>2, <1>3, <2>1, <3>1, <3>6, <3>7, <3>8, SlotRelinked
  <2>4. ListsOf(G)'
    BY <1>2, <1>5, <1>6, <1>11, <1>12, <2>2, <2>3, EvictHead
  <2>5. \A m \in G : hash[m] = Hash[k] => curHeight'[m] = curHeight[m]
    BY <1>2, <2>1, <2>2 DEF PromoteSecond, TypeOf, TypeOK
  <2>6. PlaceOf(G, k, c, path)'
    BY <1>2, <1>7, <1>11, <1>12, <2>5, PlaceKept
  <2>7. ~PlaceLost /\ c \in {3, 4} => IsSlot(G, o, Hash[k])'
    <3>1. SUFFICES ASSUME ~PlaceLost, c \in {3, 4} PROVE IsSlot(G, o, Hash[k])'
      OBVIOUS
    <3>2. o # NextSlot(n)
      <4>1. pc = "alloc" /\ key[n] # NoKey
        BY <1>2, Typed DEF delWithOtherHash, Alloc
      <4> QED
        BY <1>1, <1>2, <1>6, <1>12, <3>1, <4>1 DEF PlaceLost
    <3>3. o.of # "baskets" => o.at \in G /\ HeadOf(G, o.at)'
      BY <1>7, <1>10, <1>11, <1>12, <3>2 DEF HeadOf
    <3> QED
      BY <1>2, <1>11, <3>3, SlotKept
  <2> QED
    BY <1>2, <1>3, <1>11, <2>2, <2>4, <2>6, <2>7 DEF LinkInv
<1>13. CASE head = n /\ second = Null /\ EndQueue(n, s) /\ key' = [key EXCEPT ![n] = NoKey]
  <2>1. /\ baskets' = SetInBaskets(s, fwdPtrH[n]) /\ curHeight' = curHeight
        /\ fwdPtrH' = SetInHeads([fwdPtrH EXCEPT ![n] = Null], s, fwdPtrH[n])
        /\ fwdPtrsL' = [fwdPtrsL EXCEPT ![n] = NoLevels]
        /\ updatePathOutH' = IF o = NextSlot(n) THEN s ELSE o
    BY <1>1, <1>13 DEF EndQueue
  <2>2. Unlinked(n)
    <3>1. fwdPtrH \in [Node -> Node \cup {Null}]
      BY <1>2 DEF TypeOf, TypeOK
    <3>2. PICK f : f = [fwdPtrH EXCEPT ![n] = Null]
      OBVIOUS
    <3>3. /\ f \in [Node -> Node \cup {Null}] /\ fwdPtrH[n] \in Node \cup {Null}
          /\ \A m \in Node : f[m] = IF m = n THEN Null ELSE fwdPtrH[m]
      BY <1>2, <3>1, <3>2
    <3>4. fwdPtrH' = IF s.of = "fwdPtrH" THEN [f EXCEPT ![s.at] = fwdPtrH[n]] ELSE f
      BY <2>1, <3>2 DEF SetInHeads
    <3>5. s.of = "fwdPtrH" => s.at # n /\ s.at \in Node
      BY <1>2, <1>9
    <3>6. fwdPtrH' \in [Node -> Node \cup {Null}]
      BY <3>3, <3>4
    <3>7. \A m \in Node : fwdPtrH'[m] = IF m = n THEN Null
                                        ELSE IF s.of = "fwdPtrH" /\ m = s.at THEN fwdPtrH[n]
                                        ELSE fwdPtrH[m]
      BY <3>3, <3>4, <3>5
    <3> QED
      BY <1>2, <1>3, <1>4, <1>13, <2>1, <3>6, <3>7, SlotUnlinked
  <2>3. ListsOf(G)'
    BY <1>2, <1>5, <1>6, <1>11, <1>13, <2>1, <2>2, EvictQueue
  <2>4. PlaceOf(G, k, c, path)'
    BY <1>2, <1>7, <1>11, <1>13, <2>1, PlaceKept
  <2>5. \A m \in F : hash[m] = hash[n] => m = n
    <3>1. ListsOf(F) /\ HeadOf(F, n) /\ second = Null
      BY <1>2, <1>5, <1>13
    <3>2. second = Null => \A m \in F : hash[m] = hash[n] => m = n
      BY <1>6, <3>1, SecondFacts
    <3> QED
      BY <3>1, <3>2
  <2>6. CASE o = NextSlot(n)
    <3>1. IsSlot(G, s, Hash[k])'
      BY <1>2, <1>3, <1>7, <1>11, <1>13, <2>5, <2>6, SlotMoved
    <3>2. updatePathOutH' = s
      BY <2>1, <2>6
    <3> QED
      BY <1>2, <1>3, <1>11, <2>3, <2>4, <3>1, <3>2 DEF LinkInv
  <2>7. CASE o # NextSlot(n)
    <3>1. o.of # "baskets" => o.at \in G /\ HeadOf(G, o.at)'
      BY <1>7, <1>10, <1>11, <1>13, <2>7 DEF HeadOf
    <3>2. IsSlot(G, o, Hash[k])'
      BY <1>2, <1>11, <3>1, SlotKept
    <3>3. updatePathOutH' = o
      BY <2>1, <2>7
    <3> QED
      BY <1>2, <1>3, <1>11, <2>3, <2>4, <3>2, <3>3 DEF LinkInv
  <2> QED
    BY <2>6, <2>7
<1>14. CASE head # n /\ delInSameHashCmp3(n, head) /\ updatePathOutH' = o
  <2>1. ListsOf(G)' /\ curHeight' = curHeight /\ key' = [key EXCEPT ![n] = NoKey]
    BY <1>2, <1>5, <1>14, Cmp3Deletes
  <2>2. PlaceOf(G, k, c, path)'
    BY <1>2, <1>7, <1>11, <2>1, PlaceKept
  <2>3. o.of # "baskets" => o.at \in G /\ HeadOf(G, o.at)'
    <3>1. ~HeadOf(F, n)
      BY <1>2, <1>5, <1>14, HeadUnique
    <3>2. o.of # "baskets" => o.at # n
      BY <1>10, <3>1
    <3> QED
      BY <1>7, <1>10, <1>11, <2>1, <3>2 DEF HeadOf
  <2>4. IsSlot(G, o, Hash[k])'
    BY <1>2, <1>11, <2>3, SlotKept
  <2> QED
    BY <1>2, <1>3, <1>11, <1>14, <2>1, <2>2, <2>4 DEF LinkInv
<1> QED
  BY <1>11, <1>12, <1>13, <1>14

\* Where the next node has the hash of the key, setll found a queue for it.
LEMMA SameHashPlace ==
  ASSUME NEW F, AllocInv(F), NEW n \in F, hash[n] = Hash[arg]
  PROVE  /\ arg \in Key /\ arg \in Nat /\ Hash[arg] \in Nat /\ ListsOf(F) /\ cmp \in {1, 3}
         /\ Head \in F /\ HeadOf(F, Head) /\ hash[Head] = Hash[arg] /\ key[Head] <= key[n]
         /\ updatePathOutH \in Slot /\ updatePathOutL \in [Level -> Node \cup {Null}]
         /\ \A m \in F : key[m] # arg
         /\ cmp = 3 => \A m \in F : hash[m] = Hash[arg] => arg < key[m]
         /\ cmp = 1 => \A h \in Level : IsLastBelow(F, Hash[arg], h, arg, updatePathOutL[h])
<1>1. PICK k, c, path, o : k = arg /\ c = cmp /\ path = updatePathOutL /\ o = updatePathOutH
  OBVIOUS
<1>2. /\ ListsOf(F) /\ PlaceOf(F, k, c, path) /\ IsSlot(F, o, Hash[k])
      /\ path \in [Level -> Node \cup {Null}] /\ o \in Slot
  BY <1>1 DEF AllocInv, IsSlot
<1>3. k \in Key /\ k \in Nat /\ Hash[k] \in Nat
  BY <1>2, Hashed DEF PlaceOf
<1>4. c \in {1, 3}
  BY <1>1, <1>2 DEF PlaceOf, In
<1>5. PICK head : head = At(o)
  OBVIOUS
<1>6. head \in F /\ HeadOf(F, head) /\ hash[head] = Hash[k] /\ key[head] <= key[n]
  BY <1>1, <1>2, <1>3, <1>5, SlotHead
<1>7. Head = head
  BY <1>1, <1>5 DEF Head
<1>8. /\ \A m \in F : key[m] # k
      /\ c = 3 => \A m \in F : hash[m] = Hash[k] => k < key[m]
      /\ c = 1 => \A h \in Level : IsLastBelow(F, Hash[k], h, k, path[h])
  BY <1>2 DEF PlaceOf
<1> QED
  BY <1>1, <1>2, <1>3, <1>4, <1>6, <1>7, <1>8

\* An item of the hash goes, which is not the head.
LEMMA InQueueDeleted ==
  ASSUME NEW F, NEW G, AllocInv(F), NEW n \in F, n = NextId, Goes(F, G, n),
         hash[n] = Hash[arg], EvictInQueue
  PROVE  LinkInv(G)'
<1> n \notin G /\ (\A m \in G : m \in F) /\ \A m \in F : m # n => m \in G
  BY DEF Goes
<1>1. PICK k, c, path, o, head : /\ k = arg /\ c = cmp /\ path = updatePathOutL /\ o = updatePathOutH
                                 /\ head = Head
  OBVIOUS
<1>2. /\ k \in Key /\ k \in Nat /\ Hash[k] \in Nat /\ ListsOf(F) /\ c \in {1, 3}
      /\ head \in F /\ HeadOf(F, head) /\ hash[head] = Hash[k] /\ hash[n] = Hash[k]
      /\ o \in Slot /\ path \in [Level -> Node \cup {Null}]
      /\ c = 1 => \A h \in Level : IsLastBelow(F, Hash[k], h, k, path[h])
      /\ TypeOf(F) /\ KeysHashed(F) /\ PlaceOf(F, k, c, path) /\ IsSlot(F, o, Hash[k]) /\ n \in Node
  <2>1. ListsOf(F) /\ PlaceOf(F, k, c, path) /\ IsSlot(F, o, Hash[k])
    BY <1>1 DEF AllocInv
  <2>2. TypeOf(F) /\ KeysHashed(F)
    BY <2>1 DEF ListsOf
  <2> QED
    BY <1>1, <2>1, <2>2, SameHashPlace, Typed
<1>3. /\ head # n /\ arg' = k /\ cmp' = c /\ updatePathOutH' = o
      /\ IF c = 3 THEN delInSameHashCmp3(n, head) /\ updatePathOutL' = path ELSE delInSameHash(n)
  BY <1>1 DEF EvictInQueue, Taken
<1>4. ASSUME ListsOf(G)', hash' = hash, curHeight' = curHeight, key' = [key EXCEPT ![n] = NoKey],
             NEW to, to = updatePathOutL', to \in [Level -> Node \cup {Null}],
             c = 1 => \A h \in Level : IsLastBelow(G, Hash[k], h, k, to[h])
      PROVE  LinkInv(G)'
  <2>1. \A m \in G : key'[m] = key[m]
    BY <1>2, <1>4 DEF TypeOf, TypeOK
  <2>2. PlaceOf(G, k, c, to)'
    BY <1>2, <1>3, <1>4, <2>1, PlaceKept
  <2>3. ~HeadOf(F, n)
    BY <1>2, <1>3, HeadUnique
  <2>4. o.of # "baskets" => o.at \in F /\ HeadOf(F, o.at)
    BY <1>2 DEF IsSlot, BeforeIn
  <2>5. o.of # "baskets" => o.at \in G /\ HeadOf(G, o.at)'
    BY <1>4, <2>1, <2>3, <2>4 DEF HeadOf
  <2>6. IsSlot(G, o, Hash[k])'
    BY <1>2, <1>4, <2>5, SlotKept
  <2> QED
    BY <1>2, <1>3, <1>4, <2>2, <2>6 DEF LinkInv
<1>5. CASE c = 3
  <2>1. /\ ListsOf(G)' /\ hash' = hash /\ curHeight' = curHeight
        /\ key' = [key EXCEPT ![n] = NoKey]
    BY <1>2, <1>3, <1>5, Cmp3Deletes
  <2> QED
    BY <1>2, <1>3, <1>4, <1>5, <2>1
<1>6. CASE c = 1
  <2>1. PICK to : to = updatePathOutL'
    OBVIOUS
  <2>2. /\ Head \in F /\ HeadOf(F, Head) /\ hash[Head] = hash[n] /\ Head # n
        /\ updatePathOutL \in [Level -> Node \cup {Null}]
        /\ \A h \in Level : IsLastBelow(F, Hash[k], h, k, updatePathOutL[h])
        /\ delInSameHash(n)
    BY <1>1, <1>2, <1>3, <1>6
  <2>3. /\ ListsOf(G)' /\ hash' = hash /\ curHeight' = curHeight
        /\ key' = [key EXCEPT ![n] = NoKey]
        /\ to \in [Level -> Node \cup {Null}]
        /\ \A h \in Level : IsLastBelow(G, Hash[k], h, k, to[h])
    BY <1>2, <2>1, <2>2, SameHashDeleted
  <2> QED
    BY <1>4, <2>1, <2>3
<1> QED
  BY <1>2, <1>5, <1>6

\* The head of the queue is replaced in place by the item.
LEMMA HeadReplacedByItem ==
  ASSUME NEW F, AllocInv(F), NEW n \in F, n = NextId, hash[n] = Hash[arg], ReplaceHead
  PROVE  ListsOf(F)'
<1>1. PICK k, path, head : k = arg /\ path = updatePathOutL /\ head = Head
  OBVIOUS
<1>2. /\ k \in Key /\ k \in Nat /\ ListsOf(F) /\ cmp \in {1, 3}
      /\ head \in F /\ HeadOf(F, head) /\ hash[n] = Hash[k]
      /\ \A m \in F : key[m] # k
      /\ cmp = 3 => \A m \in F : hash[m] = Hash[k] => k < key[m]
      /\ cmp = 1 => \A h \in Level : IsLastBelow(F, Hash[k], h, k, path[h])
      /\ TypeOf(F) /\ KeysHashed(F) /\ \A m \in F : key[m] \in Nat /\ curHeight[m] \in 0 .. 2
  <2>1. ListsOf(F) /\ TypeOf(F) /\ KeysHashed(F)
    BY DEF AllocInv, ListsOf
  <2> QED
    BY <1>1, <2>1, SameHashPlace, Typed
<1>3. /\ n = head /\ (cmp = 3 \/ path[0] = n)
      /\ key' = [key EXCEPT ![n] = k]
      /\ UNCHANGED <<baskets, fwdPtrH, fwdPtrsL, curHeight, hash>>
  BY <1>1 DEF ReplaceHead
<1>4. ASSUME NEW m \in F, hash[m] = hash[n], m # n PROVE k < key[m]
  <2>1. CASE cmp = 3
    BY <1>2, <1>4, <2>1
  <2>2. CASE cmp = 1
    <3>1. IsLastBelow(F, Hash[k], 0, k, n)
      BY <1>2, <1>3, <2>2 DEF Level
    <3>2. ASSUME key[m] < k PROVE FALSE
      <4>1. m \in Reaching(F, Hash[k], 0, k)
        BY <1>2, <1>4, <3>2 DEF Reaching
      <4>2. key[m] <= key[n] /\ key[n] <= key[m]
        BY <1>2, <1>3, <1>4, <3>1, <4>1 DEF IsLastBelow, HeadOf
      <4>3. key[m] = key[n]
        BY <1>2, <4>2
      <4> QED
        BY <1>2, <1>4, <4>3 DEF KeysHashed
    <3> QED
      BY <1>2, <3>2
  <2> QED
    BY <1>2, <2>1, <2>2
<1> QED
  BY <1>2, <1>3, <1>4, HeadRekeyed

\* The head of the queue takes over the second node.
LEMMA SecondTakenForItem ==
  ASSUME NEW F, NEW G, AllocInv(F), NEW n \in F, n = NextId, hash[n] = Hash[arg],
         NEW second, second = fwdPtrsL[n][0], Goes(F, G, second), SwapWithSecond
  PROVE  LinkInv(G)' /\ second \in F /\ second \in Node
<1> second \notin G /\ (\A m \in G : m \in F) /\ \A m \in F : m # second => m \in G
  BY DEF Goes
<1>1. PICK k, path, head, o : k = arg /\ path = updatePathOutL /\ head = Head /\ o = updatePathOutH
  OBVIOUS
<1>2. /\ k \in Key /\ k \in Nat /\ Hash[k] \in Nat /\ ListsOf(F) /\ cmp \in {1, 3}
      /\ head \in F /\ HeadOf(F, head) /\ hash[n] = Hash[k]
      /\ o \in Slot /\ path \in [Level -> Node \cup {Null}]
      /\ \A m \in F : key[m] # k
      /\ cmp = 1 => \A h \in Level : IsLastBelow(F, Hash[k], h, k, path[h])
      /\ TypeOf(F) /\ KeysHashed(F) /\ n \in Node
      /\ \A m \in F : key[m] \in Nat /\ curHeight[m] \in 0 .. 2 /\ m \in Node
  <2>1. ListsOf(F) /\ TypeOf(F) /\ KeysHashed(F)
    BY DEF AllocInv, ListsOf
  <2> QED
    BY <1>1, <2>1, SameHashPlace, Typed
<1>3. /\ n = head /\ cmp # 3 /\ path[0] # n
      /\ key' = [key EXCEPT ![n] = key[second]]
      /\ fwdPtrsL' = [fwdPtrsL EXCEPT
            ![n] = [h \in Level |-> IF h \in 0 .. curHeight[second] THEN fwdPtrsL[second][h] ELSE @[h]],
            ![second] = [h \in Level |-> IF h \in 0 .. curHeight[second] THEN Null ELSE @[h]]]
      /\ updatePathOutL' = [h \in Level |-> IF path[h] = second THEN n ELSE path[h]]
      /\ arg' = k /\ cmp' = cmp /\ updatePathOutH' = o
      /\ UNCHANGED <<baskets, fwdPtrH, curHeight, hash>>
  BY <1>1 DEF SwapWithSecond, Taken
<1>4. cmp = 1 /\ \A h \in Level : IsLastBelow(F, Hash[k], h, k, path[h])
  BY <1>2, <1>3
<1>5. \A h \in Level : /\ path[h] \in F /\ hash[path[h]] = Hash[k] /\ h <= curHeight[path[h]]
                       /\ key[path[h]] < k
                       /\ \A m \in F : hash[m] = Hash[k] /\ h <= curHeight[m] /\ key[m] < k
                                          => key[m] <= key[path[h]]
  BY <1>4 DEF IsLastBelow, Reaching
<1>6. HeadOf(F, n) /\ 0 \in Level
  BY <1>2, <1>3 DEF Level
<1>7. /\ second # Null /\ second \in F /\ second # n /\ hash[second] = hash[n] /\ key[n] < key[second]
      /\ \A m \in F : hash[m] = hash[n] /\ m # n => key[second] <= key[m]
  BY <1>2, <1>3, <1>5, <1>6, SecondFacts
<1>8. ListsOf(G)'
  BY <1>2, <1>3, <1>6, <1>7, SecondTaken
<1>9. key[second] < k
  <2>1. key[second] <= key[path[0]] /\ key[path[0]] < k /\ path[0] \in F
    BY <1>2, <1>3, <1>5, <1>6, <1>7
  <2> QED
    BY <1>2, <1>7, <2>1
<1>10. /\ key'[n] = key[second] /\ n \in G
       /\ \A m \in G : m # n => key'[m] = key[m]
  BY <1>2, <1>3, <1>7 DEF TypeOf, TypeOK
<1>11. PICK to : to = updatePathOutL'
  OBVIOUS
<1>12. ASSUME NEW h \in Level
       PROVE  /\ to[h] \in G /\ hash[to[h]] = Hash[k] /\ h <= curHeight[to[h]] /\ key'[to[h]] < k
              /\ \A m \in G : hash[m] = Hash[k] /\ h <= curHeight[m] /\ key'[m] < k
                                 => key'[m] <= key'[to[h]]
  <2>1. CASE path[h] = second
    <3>1. to[h] = n
      BY <1>3, <1>11, <2>1
    <3>2. curHeight[n] = 2 /\ h <= 2
      BY <1>2, <1>6, Pointers
    <3>3. ASSUME NEW m \in G, hash[m] = Hash[k], h <= curHeight[m], key'[m] < k
          PROVE  key'[m] <= key[second]
      BY <1>2, <1>5, <1>7, <1>10, <2>1, <3>3
    <3> QED
      BY <1>2, <1>9, <1>10, <3>1, <3>2, <3>3
  <2>2. CASE path[h] = n
    <3>1. to[h] = n /\ h <= curHeight[n]
      BY <1>3, <1>5, <1>7, <1>11, <2>2
    <3>2. ASSUME NEW m \in G, hash[m] = Hash[k], h <= curHeight[m], key'[m] < k, m # n
          PROVE  FALSE
      <4>1. key[m] <= key[n] /\ key[second] <= key[m] /\ m \in F
        BY <1>2, <1>5, <1>7, <1>10, <2>2, <3>2
      <4> QED
        BY <1>2, <1>7, <4>1
    <3> QED
      BY <1>2, <1>7, <1>9, <1>10, <3>1, <3>2
  <2>3. CASE path[h] # second /\ path[h] # n
    <3>1. to[h] = path[h] /\ path[h] \in G /\ key'[path[h]] = key[path[h]]
      BY <1>3, <1>5, <1>10, <1>11, <2>3
    <3>2. ASSUME NEW m \in G, hash[m] = Hash[k], h <= curHeight[m], key'[m] < k
          PROVE  key'[m] <= key[path[h]]
      <4>1. CASE m = n
        BY <1>2, <1>5, <1>7, <1>10, <2>3, <4>1
      <4>2. CASE m # n
        BY <1>5, <1>10, <3>2, <4>2
      <4> QED
        BY <4>1, <4>2
    <3> QED
      BY <1>5, <3>1, <3>2
  <2> QED
    BY <2>1, <2>2, <2>3
<1>13. \A h \in Level : IsLastBelow(G, Hash[k], h, k, to[h])'
  BY <1>3, <1>12 DEF IsLastBelow, Reaching
<1>14. PlaceOf(G, k, 1, to)'
  <2>1. \A m \in G : key'[m] # k
    BY <1>2, <1>7, <1>10
  <2> QED
    BY <1>2, <1>13, <2>1 DEF PlaceOf
<1>15. updatePathOutL' \in [Level -> Node \cup {Null}]
  BY <1>2, <1>3
<1> QED
  BY <1>2, <1>3, <1>4, <1>7, <1>8, <1>11, <1>14, <1>15 DEF LinkInv

\* The item is linked at the place.
LEMMA ItemLinked ==
  ASSUME NEW F, NEW G, LinkInv(F), NEW n \in Node, n = re, Comes(F, G, n),
         LinkInQueue \/ LinkAsHead \/ LinkNewQueue \/ LinkFirst
  PROVE  ListsOf(G)'
<1>1. PICK k, c, path, o, head : /\ k = arg /\ c = cmp /\ path = updatePathOutL /\ o = updatePathOutH
                                 /\ head = Head
  OBVIOUS
<1>2. /\ ListsOf(F) /\ TypeOf(F) /\ KeysHashed(F) /\ PlaceOf(F, k, c, path)
      /\ c \in {3, 4} => IsSlot(F, o, Hash[k])
      /\ o \in Slot /\ path \in [Level -> Node \cup {Null}]
      /\ k \in Key /\ k \in Nat /\ Hash[k] \in Nat /\ BasketId(Hash[k]) \in Basket
      /\ \A m \in F : key[m] # k /\ key[m] \in Nat /\ m \in Node /\ hash[m] \in Nat
      /\ n \notin F /\ n # Null
  <2>1. /\ ListsOf(F) /\ PlaceOf(F, k, c, path) /\ (c \in {3, 4} => IsSlot(F, o, Hash[k]))
        /\ o \in Slot /\ path \in [Level -> Node \cup {Null}]
    BY <1>1 DEF LinkInv
  <2>2. TypeOf(F) /\ KeysHashed(F) /\ k \in Key /\ \A m \in F : key[m] # k
    BY <2>1 DEF ListsOf, PlaceOf
  <2> QED
    BY <2>1, <2>2, Hashed, Typed, NullAssumption DEF Comes
<1>3. Keep(n, k) /\ fwdPtrH[n] = Null /\ fwdPtrH \in [Node -> Node \cup {Null}]
      /\ head = At(o)
  <2>1. Keep(n, k)
    BY <1>1 DEF LinkInQueue, LinkAsHead, LinkNewQueue, LinkFirst, Link, Keep
  <2>2. fwdPtrH[n] = Null
    BY <1>2, Links
  <2> QED
    BY <1>1, <1>2, <2>1, <2>2 DEF Head, TypeOf, TypeOK
<1>4. CASE LinkInQueue
  <2>1. PICK ht \in Level : LinkBelow(n, path, ht)
    BY <1>1, <1>4 DEF LinkInQueue
  <2>2. c = 1 /\ \A h \in Level : IsLastBelow(F, Hash[k], h, k, path[h])
    BY <1>1, <1>2, <1>4 DEF LinkInQueue, PlaceOf
  <2>3. PICK m : m = path[0] /\ m \in F /\ hash[m] = Hash[k] /\ key[m] < k
    BY <2>2 DEF IsLastBelow, Reaching, Level
  <2>4. PICK p \in F : HeadOf(F, p) /\ hash[p] = Hash[k] /\ key[p] <= key[m]
    BY <1>2, <2>3, HeadExists
  <2>5. key[p] < k
    BY <1>2, <2>3, <2>4
  <2>6. path = Path(p, k)
    BY <1>2, <2>2, <2>4, <2>5, PathExact
  <2>7. LinkBelow(n, Path(p, k), ht)
    BY <2>1, <2>6
  <2> QED
    BY <1>2, <1>3, <2>4, <2>5, <2>7, InsertInner
<1>5. CASE LinkAsHead
  <2>1. c = 3 /\ IsSlot(F, o, Hash[k])
        /\ (\E m \in F : hash[m] = Hash[k]) /\ \A m \in F : hash[m] = Hash[k] => k < key[m]
    BY <1>1, <1>2, <1>5 DEF LinkAsHead, PlaceOf
  <2>2. head \in F /\ HeadOf(F, head) /\ hash[head] = Hash[k] /\ k < key[head]
    BY <1>2, <1>3, <2>1, SlotHead
  <2>3. PICK ht \in Level : LowerHead(n, head, ht)
    BY <1>1, <1>5 DEF LinkAsHead
  <2>4. /\ baskets' = SetInBaskets(o, n)
        /\ fwdPtrH' = [SetInHeads(fwdPtrH, o, n) EXCEPT ![n] = fwdPtrH[head], ![head] = Null]
    BY <1>1, <1>5 DEF LinkAsHead
  <2>5. o.of # "baskets" => o.at \in F /\ HeadOf(F, o.at) /\ o.at # head
    BY <1>2, <2>1, <2>2 DEF IsSlot, BeforeIn
  <2>6. PICK f : f = SetInHeads(fwdPtrH, o, n)
    OBVIOUS
  <2>7. /\ f \in [Node -> Node \cup {Null}]
        /\ \A m \in Node : f[m] = IF o.of = "fwdPtrH" /\ m = o.at THEN n ELSE fwdPtrH[m]
    BY <1>2, <1>3, <2>5, <2>6 DEF SetInHeads
  <2>8. /\ fwdPtrH' \in [Node -> Node \cup {Null}] /\ head \in Node /\ head # n
        /\ \A m \in Node : fwdPtrH'[m] = IF m = n THEN fwdPtrH[head]
                                         ELSE IF m = head THEN Null
                                         ELSE IF o.of = "fwdPtrH" /\ m = o.at THEN n ELSE fwdPtrH[m]
    <3>1. fwdPtrH' = [f EXCEPT ![n] = fwdPtrH[head], ![head] = Null]
      BY <2>4, <2>6
    <3>2. head \in Node /\ head # n /\ fwdPtrH[head] \in Node \cup {Null}
      BY <1>2, <1>3, <2>2
    <3> QED
      BY <2>7, <3>1, <3>2
  <2>9. Relinked(head, n)
    BY <1>2, <1>3, <2>2, <2>4, <2>5, <2>8, SlotRelinked
  <2> QED
    BY <1>2, <1>3, <2>2, <2>3, <2>9, InsertSmallest
<1>6. CASE LinkNewQueue
  <2>1. /\ c = 4 /\ IsSlot(F, o, Hash[k]) /\ \A m \in F : hash[m] # Hash[k]
    BY <1>1, <1>2, <1>6 DEF LinkNewQueue, PlaceOf
  <2>2. HeadFrom(F, BasketId(Hash[k]), Hash[k], head)
    BY <1>2, <1>3, <2>1, SlotLink
  <2>3. head # Null => hash[head] > Hash[k] /\ Hash[k] <= hash[head] /\ hash[head] # Hash[k]
    BY <1>2, <2>1, <2>2 DEF HeadFrom
  <2>4. /\ StartQueue(n) /\ baskets' = SetInBaskets(o, n)
        /\ fwdPtrH' = SetInHeads([fwdPtrH EXCEPT ![n] = head], o, n)
    BY <1>1, <1>6 DEF LinkNewQueue
  <2>5. CASE o.of = "baskets"
    <3>1. o.at = BasketId(Hash[k]) /\ head = baskets[BasketId(Hash[k])] /\ o.of # "fwdPtrH"
      BY <1>3, <2>1, <2>5 DEF IsSlot, At
    <3>2. /\ baskets' = [baskets EXCEPT ![BasketId(Hash[k])] = n]
          /\ fwdPtrH' = [fwdPtrH EXCEPT ![n] = baskets[BasketId(Hash[k])]]
      BY <2>4, <2>5, <3>1 DEF SetInBaskets, SetInHeads
    <3> QED
      BY <1>2, <1>3, <2>3, <2>4, <3>1, <3>2, InsertFirst
  <2>6. CASE o.of # "baskets"
    <3>1. PICK p : p = o.at
      OBVIOUS
    <3>2. p \in BeforeIn(F, BasketId(Hash[k]), Hash[k]) /\ head = fwdPtrH[p] /\ o.of = "fwdPtrH"
      BY <1>2, <1>3, <2>1, <2>6, <3>1, Slots DEF IsSlot, At
    <3>3. /\ baskets' = baskets
          /\ fwdPtrH' = [fwdPtrH EXCEPT ![n] = fwdPtrH[p], ![p] = n]
      BY <2>4, <2>6, <3>1, <3>2 DEF SetInBaskets, SetInHeads
    <3> QED
      BY <1>2, <1>3, <2>3, <2>4, <3>2, <3>3, InsertBehind
  <2> QED
    BY <2>5, <2>6
<1>7. CASE LinkFirst
  <2>1. PICK b : b = BasketId(Hash[k])
    OBVIOUS
  <2>2. c = 5 /\ \A m \in F : ~In(F, m, b)
    BY <1>1, <1>2, <1>7, <2>1 DEF LinkFirst, PlaceOf
  <2>3. HeadFrom(F, b, 0, baskets[b])
    BY <1>2, <2>1, Links
  <2>4. baskets[b] = Null
    BY <2>2, <2>3 DEF HeadFrom
  <2>5. StartQueue(n) /\ baskets' = [baskets EXCEPT ![b] = n] /\ fwdPtrH' = fwdPtrH
    BY <1>1, <1>7, <2>1 DEF LinkFirst
  <2>6. fwdPtrH' = [fwdPtrH EXCEPT ![n] = baskets[b]]
    BY <1>3, <2>4, <2>5
  <2> QED
    BY <1>2, <1>3, <2>1, <2>4, <2>5, <2>6, InsertFirst
<1> QED
  BY <1>4, <1>5, <1>6, <1>7

(***************************************************************************)
(* The invariant of a call.                                                *)
(***************************************************************************)
SInv ==
    /\ SMRUTypeOK
    /\ ListsOf(Held)
    /\ pc # "link" => re = Null
    /\ pc = "alloc" => AllocInv(Held)
    /\ pc = "link" => re \in Node /\ LinkInv(Held)

LEMMA InitSInv == SMRUInit => SInv
<1> SUFFICES ASSUME SMRUInit PROVE SInv
  OBVIOUS
<1>1. ListsOf(Filled) /\ Init /\ re = Null /\ pc = "idle"
  BY InitLists DEF SMRUInit, ListInv
<1>2. PICK F : F = Filled
  OBVIOUS
<1>3. Held = F
  BY <1>1, <1>2, NullAssumption DEF Held, Filled
<1>4. ListsOf(F) /\ TypeOf(F)
  BY <1>1, <1>2 DEF ListsOf
<1>5. 0 \in Node /\ 0 \in Basket
  BY PoolAssumption, CapacityAssumption DEF Basket
<1>6. SMRUTypeOK
  BY <1>4, <1>5, Slots DEF SMRUInit, SMRUTypeOK, TypeOf, NoPath
<1> QED
  BY <1>1, <1>3, <1>4, <1>6 DEF SInv

LEMMA NextInPool ==
  ASSUME node_pool_id \in Node
  PROVE  NextId \in Node
BY PoolAssumption, CapacityAssumption DEF NextId

\* The node that allocNode empties, or takes, is emptied or taken in the way
\* that the place asks for.
LEMMA NodeTaken ==
  ASSUME SInv, pc = "alloc", allocNode, ~PlaceLost
  PROVE  /\ node_pool_id' = NextId /\ NextId \in Node
         /\ \/ /\ pc' = "link" /\ arg' = arg /\ cmp' = cmp /\ re' \in Node /\ LinkInv(Held)'
            \/ /\ ReplaceHead /\ Return /\ ListsOf(Held)'
<1>1. PICK F, n, k : F = Filled /\ n = NextId /\ k = arg
  OBVIOUS
<1>2. /\ Held = F /\ AllocInv(F) /\ ListsOf(F) /\ TypeOK /\ n \in Node /\ node_pool_id \in Node
      /\ re = Null /\ k \in Key /\ k # NoKey
  <2>1. Held = F /\ SMRUTypeOK /\ re = Null /\ AllocInv(Held)
    BY <1>1, NullAssumption DEF SInv, Held, Filled
  <2>2. AllocInv(F) /\ PlaceOf(F, arg, cmp, updatePathOutL)
    BY <2>1 DEF AllocInv
  <2> QED
    BY <1>1, <2>1, <2>2, NextInPool, Hashed DEF AllocInv, PlaceOf, SMRUTypeOK
<1>3. node_pool_id' = NextId
  BY DEF allocNode, TakeEmpty, ReplaceHead, SwapWithSecond, EvictInQueue, delWithOtherHash, Alloc
<1>4. CASE TakeEmpty
  <2>1. /\ n \notin F /\ re' = n /\ pc' = "link" /\ arg' = arg /\ cmp' = cmp
        /\ UNCHANGED <<lists, places>>
    BY <1>1, <1>4 DEF TakeEmpty, Alloc, Taken, Filled
  <2>2. Held' = F
    BY <1>1, <2>1 DEF Held, Filled, lists
  <2>3. ListsOf(F)'
    BY <1>2, <2>1, ListsUnchanged DEF vars, lists
  <2>4. LinkInv(F)'
    <3>1. PICK c, path, o : c = cmp /\ path = updatePathOutL /\ o = updatePathOutH
      OBVIOUS
    <3>2. PlaceOf(F, k, c, path) /\ IsSlot(F, o, Hash[k]) /\ path \in [Level -> Node \cup {Null}]
      BY <1>1, <1>2, <3>1 DEF AllocInv
    <3>3. PlaceOf(F, k, c, path)' /\ IsSlot(F, o, Hash[k])'
      BY <2>1, <3>2 DEF lists, PlaceOf, IsLastBelow, Reaching, IsSlot, BeforeIn, HeadOf, In
    <3>4. arg' = k /\ cmp' = c /\ updatePathOutL' = path /\ updatePathOutH' = o /\ o \in Slot
      BY <1>1, <2>1, <3>1, <3>2 DEF places, IsSlot
    <3> QED
      BY <2>3, <3>2, <3>3, <3>4 DEF LinkInv
  <2> QED
    BY <1>1, <1>2, <1>3, <2>1, <2>2, <2>4
<1>5. CASE ReplaceHead
  <2>1. /\ hash[n] = Hash[arg] /\ n \in F /\ Return /\ key' = [key EXCEPT ![n] = k]
    BY <1>1, <1>2, <1>5 DEF ReplaceHead, SameHash, Filled
  <2>2. ListsOf(F)'
    BY <1>1, <1>2, <1>5, <2>1, HeadReplacedByItem
  <2>3. Held' = F
    BY <1>1, <1>2, <2>1, NullAssumption DEF Return, Held, Filled, TypeOK
  <2> QED
    BY <1>1, <1>2, <1>3, <1>5, <2>1, <2>2, <2>3
<1>6. CASE SwapWithSecond
  <2>1. PICK second, G : second = fwdPtrsL[n][0] /\ G = F \ {second}
    OBVIOUS
  <2>2. /\ hash[n] = Hash[arg] /\ n \in F /\ key' = [key EXCEPT ![n] = key[second]]
        /\ pc' = "link" /\ re' = second /\ arg' = arg /\ cmp' = cmp
    BY <1>1, <1>2, <1>6, <2>1 DEF SwapWithSecond, SameHash, Filled, Taken
  <2>3. LinkInv(G)' /\ second \in F /\ second \in Node
    <3>1. Goes(F, G, second)
      BY <2>1 DEF Goes
    <3> QED
      BY <1>1, <1>2, <1>6, <2>1, <2>2, <3>1, SecondTakenForItem
  <2>4. Held' = G
    BY <1>1, <1>2, <2>1, <2>2, <2>3 DEF Held, Filled, TypeOK
  <2> QED
    BY <1>1, <1>2, <1>3, <2>2, <2>3, <2>4
<1>7. CASE EvictInQueue
  <2>1. PICK G : G = F \ {n}
    OBVIOUS
  <2>2. /\ hash[n] = Hash[arg] /\ n \in F /\ pc' = "link" /\ re' = n /\ arg' = arg /\ cmp' = cmp
        /\ key' = [key EXCEPT ![n] = NoKey]
    BY <1>1, <1>2, <1>7 DEF EvictInQueue, SameHash, Filled, Taken, delInSameHashCmp3, delInSameHash,
          delInSameHashPathOut, delInSameHashSuperFast, ByPass
  <2>3. LinkInv(G)'
    <3>1. Goes(F, G, n)
      BY <2>1 DEF Goes
    <3> QED
      BY <1>1, <1>2, <1>7, <2>2, <3>1, InQueueDeleted
  <2>4. Held' = G
    BY <1>1, <1>2, <2>1, <2>2 DEF Held, Filled, TypeOK
  <2> QED
    BY <1>1, <1>2, <1>3, <2>2, <2>3, <2>4
<1>8. CASE delWithOtherHash
  <2>1. PICK G : G = F \ {n}
    OBVIOUS
  <2>2. /\ hash[n] # Hash[arg] /\ n \in F /\ pc' = "link" /\ re' = n /\ arg' = arg /\ cmp' = cmp
        /\ key' = [key EXCEPT ![n] = NoKey]
    BY <1>1, <1>2, <1>8 DEF delWithOtherHash, OtherHash, Filled, Taken, delInSameHashCmp3, ByPass
  <2>3. LinkInv(G)'
    <3>1. Goes(F, G, n)
      BY <2>1 DEF Goes
    <3> QED
      BY <1>1, <1>2, <1>8, <2>2, <3>1, OtherHashDeleted
  <2>4. Held' = G
    BY <1>1, <1>2, <2>1, <2>2 DEF Held, Filled, TypeOK
  <2> QED
    BY <1>1, <1>2, <1>3, <2>2, <2>3, <2>4
<1> QED
  BY <1>4, <1>5, <1>6, <1>7, <1>8 DEF allocNode

\* Where the types of the call come from.
LEMMA CallTyped ==
  ASSUME NEW F, ListsOf(F)', node_pool_id' \in Node, pc' \in {"idle", "alloc", "link"},
         \/ Return
         \/ /\ PlaceOf(F, arg, cmp, updatePathOutL)' /\ re' \in Node \cup {Null}
            /\ updatePathOutH' \in Slot /\ updatePathOutL' \in [Level -> Node \cup {Null}]
  PROVE  SMRUTypeOK'
<1>1. TypeOK'
  BY DEF ListsOf, TypeOf
<1>2. CASE Return
  <2>1. 0 \in Basket
    BY CapacityAssumption DEF Basket
  <2>2. PICK s, path : s = BasketSlot(0) /\ path = NoPath
    OBVIOUS
  <2>3. s \in Slot /\ path \in [Level -> Node \cup {Null}]
    BY <2>1, <2>2, Slots DEF NoPath
  <2>4. /\ arg' = NoKey /\ cmp' = 0 /\ re' = Null /\ updatePathOutH' = s /\ updatePathOutL' = path
    BY <1>2, <2>2 DEF Return
  <2> QED
    BY <1>1, <2>3, <2>4 DEF SMRUTypeOK
<1>3. CASE /\ PlaceOf(F, arg, cmp, updatePathOutL)' /\ re' \in Node \cup {Null}
           /\ updatePathOutH' \in Slot /\ updatePathOutL' \in [Level -> Node \cup {Null}]
  <2>1. arg' \in Key /\ cmp' \in {1, 3, 4, 5}
    BY <1>3 DEF PlaceOf
  <2> QED
    BY <1>1, <1>3, <2>1 DEF SMRUTypeOK
<1> QED
  BY <1>2, <1>3

LEMMA StepSInv == SInv /\ [~PlaceLost]_svars /\ [SMRUNext]_svars => SInv'
<1> SUFFICES ASSUME SInv, [~PlaceLost]_svars, [SMRUNext]_svars PROVE SInv'
  OBVIOUS
<1>1. PICK F : F = Held
  OBVIOUS
<1>2. ListsOf(F) /\ SMRUTypeOK /\ node_pool_id \in Node
  BY <1>1 DEF SInv, SMRUTypeOK
<1>3. ASSUME NEW k \in Key, insertNode(k) PROVE SInv'
  <2>1. AllocInv(F)'
    BY <1>2, <1>3, InsertSearches
  <2>2. /\ pc' = "alloc" /\ re' = re /\ re = Null /\ node_pool_id' = node_pool_id
        /\ UNCHANGED <<baskets, fwdPtrH, fwdPtrsL, curHeight, hash, key>>
    BY <1>3 DEF insertNode, SInv, lists
  <2>3. Held' = F
    BY <1>1, <2>2 DEF Held, Filled
  <2>4. /\ PlaceOf(F, arg, cmp, updatePathOutL)' /\ updatePathOutH' \in Slot /\ ListsOf(F)'
        /\ updatePathOutL' \in [Level -> Node \cup {Null}]
    BY <2>1 DEF AllocInv, IsSlot
  <2>5. SMRUTypeOK'
    BY <1>2, <2>2, <2>4, CallTyped
  <2> QED
    BY <2>1, <2>2, <2>3, <2>4, <2>5 DEF SInv
<1>4. CASE allocNode /\ ~PlaceLost
  <2>1. pc = "alloc"
    BY <1>4 DEF allocNode, TakeEmpty, ReplaceHead, SwapWithSecond, EvictInQueue, delWithOtherHash, Alloc
  <2>2. /\ node_pool_id' \in Node
        /\ \/ /\ pc' = "link" /\ re' \in Node /\ LinkInv(Held)'
           \/ Return /\ ListsOf(Held)'
    BY <1>4, <2>1, NodeTaken
  <2>3. PICK G : G = Held'
    OBVIOUS
  <2>4. CASE pc' = "link" /\ re' \in Node /\ LinkInv(Held)'
    <3>1. /\ ListsOf(G)' /\ PlaceOf(G, arg, cmp, updatePathOutL)' /\ updatePathOutH' \in Slot
          /\ updatePathOutL' \in [Level -> Node \cup {Null}]
      BY <2>3, <2>4 DEF LinkInv
    <3>2. SMRUTypeOK'
      BY <2>2, <2>4, <3>1, CallTyped
    <3> QED
      BY <2>3, <2>4, <3>1, <3>2 DEF SInv
  <2>5. CASE Return /\ ListsOf(Held)'
    <3>1. ListsOf(G)' /\ pc' = "idle" /\ re' = Null
      BY <2>3, <2>5 DEF Return
    <3>2. SMRUTypeOK'
      BY <2>2, <2>5, <3>1, CallTyped
    <3> QED
      BY <2>3, <3>1, <3>2 DEF SInv
  <2> QED
    BY <2>2, <2>4, <2>5
<1>5. CASE LinkInQueue \/ LinkAsHead \/ LinkNewQueue \/ LinkFirst
  <2>1. pc = "link" /\ Return /\ node_pool_id' = node_pool_id /\ key' = [key EXCEPT ![re] = arg]
    BY <1>5 DEF LinkInQueue, LinkAsHead, LinkNewQueue, LinkFirst, Link
  <2>2. PICK n, G : n = re /\ G = F \cup {n}
    OBVIOUS
  <2>3. LinkInv(F) /\ n \in Node /\ pc' = "idle" /\ re' = Null /\ n \notin F
    BY <1>1, <2>1, <2>2 DEF SInv, Return, Held
  <2>4. ListsOf(G)'
    <3>1. Comes(F, G, n)
      BY <2>2, <2>3 DEF Comes
    <3> QED
      BY <1>5, <2>2, <2>3, <3>1, ItemLinked
  <2>5. Held' = G
    <3>1. arg \in Key /\ arg # NoKey /\ TypeOK
      BY <1>2, <2>3, Hashed DEF LinkInv, PlaceOf, SMRUTypeOK
    <3> QED
      BY <1>1, <2>1, <2>2, <2>3, <3>1, NullAssumption DEF Held, Filled, TypeOK
  <2>6. SMRUTypeOK'
    BY <1>2, <2>1, <2>3, <2>4, CallTyped
  <2> QED
    BY <2>3, <2>4, <2>5, <2>6 DEF SInv
<1>6. CASE UNCHANGED svars
  <2>1. UNCHANGED <<baskets, fwdPtrH, fwdPtrsL, curHeight, hash, key>>
        /\ UNCHANGED <<node_pool_id, pc, arg, cmp, re, updatePathOutH, updatePathOutL>>
    BY <1>6 DEF svars, lists, places
  <2>2. Held' = F
    BY <1>1, <2>1 DEF Held, Filled
  <2>3. ListsOf(F)'
    BY <1>2, <2>1, ListsUnchanged DEF vars
  <2>4. SMRUTypeOK'
    BY <1>2, <2>1 DEF SMRUTypeOK, TypeOK
  <2>5. \A k, c, path : PlaceOf(F, k, c, path) => PlaceOf(F, k, c, path)'
    BY <2>1 DEF PlaceOf, IsLastBelow, Reaching, In
  <2>6. \A s, q : IsSlot(F, s, q) => IsSlot(F, s, q)'
    BY <2>1 DEF IsSlot, BeforeIn, HeadOf, In
  <2>7. PICK k, c, path, o : k = arg /\ c = cmp /\ path = updatePathOutL /\ o = updatePathOutH
    OBVIOUS
  <2>8. arg' = k /\ cmp' = c /\ updatePathOutL' = path /\ updatePathOutH' = o
    BY <2>1, <2>7
  <2>9. AllocInv(F) => AllocInv(F)'
    BY <2>3, <2>5, <2>6, <2>7, <2>8 DEF AllocInv
  <2>10. LinkInv(F) => LinkInv(F)'
    BY <2>3, <2>5, <2>6, <2>7, <2>8 DEF LinkInv
  <2> QED
    BY <1>1, <2>1, <2>2, <2>3, <2>4, <2>9, <2>10 DEF SInv
<1> QED
  BY <1>3, <1>4, <1>5, <1>6 DEF SMRUNext

(***************************************************************************)
(* Correctness.                                                            *)
(***************************************************************************)
LEMMA ExactAtRest == SInv => ListsExactAtRest
<1> SUFFICES ASSUME SInv PROVE ListsExactAtRest
  OBVIOUS
<1>1. SMRUTypeOK
  BY DEF SInv
<1>2. ASSUME pc = "idle" PROVE ListsExact /\ FindsFilled
  <2>1. PICK F : F = Filled
    OBVIOUS
  <2>2. Held = F /\ ListsOf(F)
    <3>1. Held = F
      BY <1>2, <2>1, NullAssumption DEF SInv, Held, Filled
    <3> QED
      BY <3>1 DEF SInv
  <2>3. ListInv
    BY <2>1, <2>2 DEF ListInv
  <2> QED
    BY <2>1, <2>2, <2>3, ListsFollow, FindsFollow
<1> QED
  BY <1>1, <1>2 DEF ListsExactAtRest

LEMMA CurrentPlace == SInv => PathCurrent
<1> SUFFICES ASSUME SInv, pc = "link"
             PROVE  /\ cmp \in {3, 4} => updatePathOutH = SlotOf(arg)
                    /\ cmp = 1 => updatePathOutL = Path(At(SlotOf(arg)), arg)
  BY DEF PathCurrent
<1>1. PICK F, k, path, o, s, head : /\ F = Held /\ k = arg /\ path = updatePathOutL
                                    /\ o = updatePathOutH /\ s = SlotOf(k) /\ head = At(s)
  OBVIOUS
<1>2. /\ ListsOf(F) /\ PlaceOf(F, k, cmp, path) /\ (cmp \in {3, 4} => IsSlot(F, o, Hash[k]))
      /\ path \in [Level -> Node \cup {Null}]
  <2>1. LinkInv(F)
    BY <1>1 DEF SInv
  <2> QED
    BY <1>1, <2>1 DEF LinkInv
<1>3. k \in Key /\ k \in Nat /\ Hash[k] \in Nat
  BY <1>2, Hashed DEF PlaceOf
<1>4. IsSlot(F, s, Hash[k])
  BY <1>1, <1>2, <1>3, SlotFound
<1>5. cmp \in {3, 4} => o = s
  BY <1>2, <1>3, <1>4, SlotUnique
<1>6. ASSUME cmp = 1 PROVE path = Path(head, k)
  <2>1. \A h \in Level : IsLastBelow(F, Hash[k], h, k, path[h])
    BY <1>2, <1>6 DEF PlaceOf
  <2>2. PICK m : m = path[0] /\ m \in F /\ hash[m] = Hash[k] /\ key[m] < k
    BY <2>1 DEF IsLastBelow, Reaching, Level
  <2>3. head \in F /\ HeadOf(F, head) /\ hash[head] = Hash[k] /\ key[head] <= key[m]
    BY <1>1, <1>2, <1>3, <1>4, <2>2, SlotHead
  <2>4. key[head] \in Nat /\ key[m] \in Nat
    <3>1. TypeOf(F)
      BY <1>2 DEF ListsOf
    <3> QED
      BY <2>2, <2>3, <3>1, Typed
  <2>5. key[head] < k
    BY <1>3, <2>2, <2>3, <2>4
  <2> QED
    BY <1>2, <1>3, <2>1, <2>3, <2>5, PathExact
<1> QED
  BY <1>1, <1>5, <1>6


\* What a search finds are the keys of the nodes that the lists hold.
HeldFindable == Findable = {k \in Key : \E m \in Held : key[m] = k}

LEMMA FindsHeld == SInv => HeldFindable
<1> SUFFICES ASSUME SInv PROVE HeldFindable
  OBVIOUS
<1>1. PICK F : F = Held
  OBVIOUS
<1>2. ListsOf(F) /\ TypeOf(F)
  BY <1>1 DEF SInv, ListsOf
<1>3. \A m \in F : m # Null
  BY <1>2, Typed
<1>4. \A k \in Key : GetData(k) # Null <=> \E m \in F : key[m] = k
  BY <1>2, <1>3, FindsOnly
<1> QED
  BY <1>1, <1>4 DEF HeldFindable, Findable

\* allocNode takes the key of the next node out of the lists, and no other.
LEMMA OneKeyLost ==
  ASSUME SInv, pc = "alloc", allocNode
  PROVE  \A m \in Held : \/ key[m] = key[NextId]
                         \/ \E p \in Held' : key'[p] = key[m]
<1>1. PICK F, n : F = Filled /\ n = NextId
  OBVIOUS
<1>2. /\ Held = F /\ AllocInv(F) /\ ListsOf(F) /\ TypeOK /\ arg \in Key /\ arg # NoKey /\ n \in Node
      /\ \A m \in F : m \in Node
  <2>1. Held = F /\ SMRUTypeOK /\ AllocInv(Held)
    BY <1>1, NullAssumption DEF SInv, Held, Filled
  <2>2. AllocInv(F) /\ PlaceOf(F, arg, cmp, updatePathOutL)
    BY <2>1 DEF AllocInv
  <2> QED
    BY <1>1, <2>1, <2>2, NextInPool, Hashed DEF AllocInv, PlaceOf, SMRUTypeOK, Filled
<1>3. CASE TakeEmpty
  <2>1. /\ n \notin F /\ re' = n /\ key' = key
    BY <1>1, <1>3 DEF TakeEmpty, Alloc, Taken, Filled, lists
  <2> QED
    BY <1>1, <1>2, <2>1 DEF Held, Filled
<1>4. CASE ReplaceHead
  <2>1. re' = Null /\ key' = [key EXCEPT ![n] = arg]
    BY <1>1, <1>4 DEF ReplaceHead, Return
  <2> QED
    BY <1>1, <1>2, <2>1, NullAssumption DEF Held, Filled, TypeOK
<1>5. CASE SwapWithSecond
  <2>1. PICK second : second = fwdPtrsL[n][0]
    OBVIOUS
  <2>2. /\ hash[n] = Hash[arg] /\ n \in F /\ key' = [key EXCEPT ![n] = key[second]] /\ re' = second
        /\ n = Head
    BY <1>1, <1>2, <1>5, <2>1 DEF SwapWithSecond, SameHash, Filled, Taken
  <2>3. HeadOf(F, n)
    BY <1>2, <2>2, SameHashPlace
  <2>4. second # Null => second \in F /\ second # n
    BY <1>2, <2>1, <2>2, <2>3, SecondFacts
  <2>5. second = Null => \A m \in F : hash[m] = hash[n] => m = n
    BY <1>2, <2>1, <2>2, <2>3, SecondFacts
  <2>6. second # Null
    <3>1. cmp \in {1, 3} /\ cmp # 3 /\ updatePathOutL[0] # n
      BY <1>1, <1>2, <1>5, <2>2, SameHashPlace DEF SwapWithSecond
    <3>2. IsLastBelow(F, Hash[arg], 0, arg, updatePathOutL[0])
      BY <1>2, <2>2, <3>1, SameHashPlace DEF Level
    <3> QED
      BY <2>2, <2>5, <3>1, <3>2 DEF IsLastBelow, Reaching
  <2>7. /\ \A m \in F : m # second /\ m # n => key'[m] = key[m] /\ m \in Held'
        /\ key'[n] = key[second] /\ n \in Held'
    BY <1>1, <1>2, <2>2, <2>4, <2>6 DEF Held, Filled, TypeOK
  <2> QED
    BY <1>1, <1>2, <2>7
<1>6. CASE EvictInQueue \/ delWithOtherHash
  <2>1. re' = n /\ key' = [key EXCEPT ![n] = NoKey]
    BY <1>1, <1>6 DEF EvictInQueue, delWithOtherHash, Taken, delInSameHashCmp3, delInSameHash,
          delInSameHashPathOut, delInSameHashSuperFast, ByPass
  <2> QED
    BY <1>1, <1>2, <2>1 DEF Held, Filled, TypeOK
<1> QED
  BY <1>3, <1>4, <1>5, <1>6 DEF allocNode

LEMMA StepLoses ==
  SInv /\ HeldFindable /\ HeldFindable' /\ [SMRUNext]_svars
     => [pc # "idle" => Findable \ Findable' \subseteq
            IF pc = "alloc" THEN {key[NextId]} ELSE {}]_svars
<1> SUFFICES ASSUME SInv, HeldFindable, HeldFindable', SMRUNext, pc # "idle"
             PROVE  Findable \ Findable' \subseteq IF pc = "alloc" THEN {key[NextId]} ELSE {}
  OBVIOUS
<1>1. CASE allocNode
  <2>1. pc = "alloc"
    BY <1>1 DEF allocNode, TakeEmpty, ReplaceHead, SwapWithSecond, EvictInQueue, delWithOtherHash, Alloc
  <2>2. PICK F, G : F = Held /\ G = Held'
    OBVIOUS
  <2>3. /\ Findable = {k \in Key : \E m \in F : key[m] = k}
        /\ Findable' = {k \in Key : \E m \in G : key'[m] = k}
    BY <2>2 DEF HeldFindable
  <2>4. \A m \in F : key[m] = key[NextId] \/ \E p \in G : key'[p] = key[m]
    BY <1>1, <2>1, <2>2, OneKeyLost
  <2> QED
    BY <2>1, <2>3, <2>4
<1>2. CASE LinkInQueue \/ LinkAsHead \/ LinkNewQueue \/ LinkFirst
  <2>1. PICK F, n : F = Held /\ n = re
    OBVIOUS
  <2>2. /\ pc = "link" /\ Return /\ key' = [key EXCEPT ![n] = arg] /\ re' = Null
    BY <1>2, <2>1 DEF LinkInQueue, LinkAsHead, LinkNewQueue, LinkFirst, Link, Return
  <2>3. \A m \in F : m \in Held' /\ key'[m] = key[m]
    BY <2>1, <2>2, NullAssumption DEF SInv, SMRUTypeOK, TypeOK, Held, Filled
  <2>4. /\ Findable = {k \in Key : \E m \in F : key[m] = k}
        /\ Findable' = {k \in Key : \E m \in Held' : key'[m] = k}
    BY <2>1 DEF HeldFindable
  <2> QED
    BY <2>2, <2>3, <2>4
<1>3. ~(\E k \in Key : insertNode(k))
  BY DEF insertNode
<1> QED
  BY <1>1, <1>2, <1>3 DEF SMRUNext

\* Between the calls the pointers of all heads and all levels are exact, for
\* all keys, hash functions, capacities and heights, and what nodes hold is
\* found: as long as no deletion promotes the second node of the head that the
\* item is to be linked behind.  This is the step, and the only one, that the
\* code in delWithOtherHash leaves out.
THEOREM ListsExactUnlessPlaceLost ==
  SMRUSpec /\ [][~PlaceLost]_svars => []ListsExactAtRest
<1>1. SMRUSpec /\ [][~PlaceLost]_svars => []SInv
  BY InitSInv, StepSInv, PTL DEF SMRUSpec
<1> QED
  BY <1>1, ExactAtRest, PTL

\* Under the same condition, when allocNode links the item, updatePathOutH and
\* updatePathOutL are what setll would compute now: whatever the deletion did
\* to the queue, and to the path, in between.
THEOREM PathCurrentUnlessPlaceLost ==
  SMRUSpec /\ [][~PlaceLost]_svars => []PathCurrent
<1>1. SMRUSpec /\ [][~PlaceLost]_svars => []SInv
  BY InitSInv, StepSInv, PTL DEF SMRUSpec
<1> QED
  BY <1>1, CurrentPlace, PTL

\* And an insertion costs at most the item of the next node of the ring: also
\* where two nodes swap their items, no other item is lost.
THEOREM OnlyNextIsLostUnlessPlaceLost ==
  SMRUSpec /\ [][~PlaceLost]_svars => OnlyNextIsLost
<1>1. SMRUSpec /\ [][~PlaceLost]_svars => []SInv
  BY InitSInv, StepSInv, PTL DEF SMRUSpec
<1> QED
  BY <1>1, FindsHeld, StepLoses, PTL DEF OnlyNextIsLost, SMRUSpec

\* A search finds the place of a key.
SlotsFound == \A F : ListsOf(F) => \A k \in Key : IsSlot(F, SlotOf(k), Hash[k])

LEMMA AllSlotsFound == SlotsFound
BY SlotFound DEF SlotsFound

\* The step that loses the place leaves it in a node that no list holds.
LEMMA LostPlace ==
  SlotsFound' /\ SInv /\ PlaceLost /\ SMRUNext => ~PathCurrent'
<1> SUFFICES ASSUME SlotsFound', SInv, PlaceLost, SMRUNext, PathCurrent' PROVE FALSE
  OBVIOUS
<1>1. PICK F, G, n, k, o : /\ F = Held /\ G = F \ {n} /\ n = NextId /\ k = arg /\ o = NextSlot(n)
  OBVIOUS
<1>2. /\ AllocInv(F) /\ ListsOf(F) /\ F = Filled /\ n \in F /\ n \in Node /\ k \in Key
      /\ hash[n] # Hash[k] /\ hash[n] \in Nat /\ Hash[k] \in Nat
  <2>1. F = Filled /\ SMRUTypeOK /\ AllocInv(F)
    BY <1>1, NullAssumption DEF SInv, Held, Filled, PlaceLost
  <2>2. ListsOf(F) /\ TypeOf(F) /\ PlaceOf(F, k, cmp, updatePathOutL)
    BY <1>1, <2>1 DEF AllocInv, ListsOf
  <2>3. n \in F /\ n \in Node /\ hash[n] # Hash[k]
    BY <1>1, <2>1, NextInPool DEF PlaceLost, Filled, SMRUTypeOK
  <2>4. hash[n] \in Nat
    BY <2>2, <2>3, Typed
  <2> QED
    BY <1>1, <2>1, <2>2, <2>3, <2>4, Hashed DEF PlaceOf
<1>3. delWithOtherHash
  BY <1>1, <1>2 DEF PlaceLost, SMRUNext, insertNode, allocNode, TakeEmpty, ReplaceHead,
        SwapWithSecond, EvictInQueue, SameHash, LinkInQueue, LinkAsHead, LinkNewQueue, LinkFirst, Link
<1>4. pc' = "link" /\ arg' = k /\ cmp' \in {3, 4} /\ updatePathOutH' = o
  BY <1>1, <1>3 DEF PlaceLost, delWithOtherHash, Taken, PromoteNext
<1>5. ListsOf(G)'
  <2>1. Goes(F, G, n)
    BY <1>1 DEF Goes
  <2> QED
    BY <1>1, <1>2, <1>3, <2>1, OtherHashDeleted
<1>6. IsSlot(G, SlotOf(k), Hash[k])'
  BY <1>2, <1>5 DEF SlotsFound
<1>7. SlotOf(k)' = o
  BY <1>4 DEF PathCurrent
<1>8. IsSlot(G, o, Hash[k])'
  BY <1>6, <1>7
<1>9. n \in G
  BY <1>1, <1>2, <1>8, Slots DEF IsSlot, BeforeIn
<1> QED
  BY <1>1, <1>9

\* That deletion is exactly where the path goes wrong: it is right in every
\* call of an execution if and only if no step loses the place.
THEOREM PathLostExactlyThere ==
  SMRUSpec => ([]PathCurrent <=> [][~PlaceLost]_svars)
<1>1. SlotsFound' /\ SInv /\ PathCurrent' /\ [SMRUNext]_svars => [~PlaceLost]_svars
  BY LostPlace
<1>2. SInv /\ [~PlaceLost]_svars /\ [SMRUNext]_svars => SInv'
  BY StepSInv
<1>3. SMRUSpec /\ []PathCurrent => [][~PlaceLost]_svars
  BY <1>1, <1>2, AllSlotsFound, InitSInv, PTL DEF SMRUSpec
<1> QED
  BY <1>3, PathCurrentUnlessPlaceLost, PTL

(***************************************************************************)
(* Hash functions for which the place is never lost.                       *)
(***************************************************************************)
\* A hash that keys share is the greatest of its basket: with one key per
\* hash, in particular, none is shared.
SharedHashesLast ==
    \A i, j, k \in Key : i # j /\ Hash[i] = Hash[j] /\ BasketId(Hash[k]) = BasketId(Hash[i])
                            => Hash[k] <= Hash[i]

LEMMA PlaceSafe == SharedHashesLast => (SInv => ~PlaceLost)
<1> SUFFICES ASSUME SharedHashesLast, SInv, PlaceLost PROVE FALSE
  OBVIOUS
<1>1. PICK F, n, k, o : F = Held /\ n = NextId /\ k = arg /\ o = updatePathOutH
  OBVIOUS
<1>2. AllocInv(F) /\ ListsOf(F) /\ TypeOf(F) /\ KeysHashed(F) /\ F = Filled /\ node_pool_id \in Node
  <2>1. F = Filled /\ SMRUTypeOK /\ AllocInv(F)
    BY <1>1, NullAssumption DEF SInv, Held, Filled, PlaceLost
  <2> QED
    BY <2>1 DEF AllocInv, ListsOf, SMRUTypeOK
<1>3. /\ n \in F /\ n \in Node /\ o = NextSlot(n) /\ hash[n] # Hash[k] /\ fwdPtrsL[n][0] # Null
      /\ k \in Key /\ IsSlot(F, o, Hash[k])
  BY <1>1, <1>2, NextInPool DEF PlaceLost, AllocInv, PlaceOf, Filled
<1>4. n \in BeforeIn(F, BasketId(Hash[k]), Hash[k])
  BY <1>3, Slots DEF IsSlot
<1>5. PICK m : m \in F /\ m # n /\ hash[m] = hash[n]
  BY <1>2, <1>3, <1>4, SecondFacts DEF BeforeIn
<1>6. /\ key[n] \in Key /\ key[m] \in Key /\ key[n] # key[m]
      /\ Hash[key[n]] = hash[n] /\ Hash[key[m]] = hash[n]
  BY <1>2, <1>3, <1>5, Typed DEF KeysHashed
<1>7. BasketId(hash[n]) = BasketId(Hash[k]) /\ hash[n] < Hash[k]
  BY <1>4 DEF BeforeIn, In
<1>8. Hash[k] <= hash[n] /\ hash[n] \in Nat /\ Hash[k] \in Nat
  BY <1>2, <1>3, <1>6, <1>7, Hashed DEF SharedHashesLast
<1> QED
  BY <1>7, <1>8

\* For such hash functions the single-threaded cache keeps its lists and its
\* path, and loses no other item, without any condition.
THEOREM CacheIsExactIfSharedLast ==
  ASSUME SharedHashesLast
  PROVE  SMRUSpec => []ListsExactAtRest /\ []PathCurrent /\ OnlyNextIsLost
<1>1. SInv => ~PlaceLost
  BY PlaceSafe
<1>2. SMRUSpec => []SInv
  BY <1>1, InitSInv, StepSInv, PTL DEF SMRUSpec
<1> QED
  BY <1>2, ExactAtRest, CurrentPlace, FindsHeld, StepLoses, PTL DEF OnlyNextIsLost, SMRUSpec
=============================================================================
