-------------------------- MODULE HashBasket_proofs --------------------------
(***************************************************************************)
(* Proofs about HashBasket: the lists of the baskets are exact after every *)
(* operation, getData finds what they hold, and they implement BasketSets. *)
(*                                                                         *)
(* What a walk along pointers yields is a recursive function in the model, *)
(* and the provers have no induction for it.  Instead, a measure that      *)
(* grows along a walk (the hash along the heads, the key along a level)    *)
(* makes a last counterexample impossible: a finite set has a greatest     *)
(* member (GreatestMember).  WalkRule is the resulting rule for loops, and *)
(* GatherRule the one for what a walk collects.                            *)
(*                                                                         *)
(* The invariant, ListInv, says of each pointer by itself to which node it *)
(* leads, in terms of the set of all nodes with a key and their hashes,    *)
(* keys and heights.  A step is then a change of that set: a hash comes    *)
(* in, a hash goes, or another node becomes the head of a hash, each with  *)
(* the links to it; and, independently, a node comes into or goes out of   *)
(* the queue of its hash.  The lemmas are about any set F of nodes with a  *)
(* key: OnCacheSMRU has a node that still has the key it was taken with.   *)
(***************************************************************************)
EXTENDS HashBasket, FiniteSetTheorems, WellFoundedInduction, TLAPS

(***************************************************************************)
(* Walks.  A walk goes on from c to next[c] until it meets a member of     *)
(* Stop.  The walks of the lists end because a measure grows along them.   *)
(***************************************************************************)
\* A set of numbers has a least one.
LEMMA LeastNumber ==
  ASSUME NEW S \in SUBSET Nat, S # {}
  PROVE  \E x \in S : \A y \in S : x <= y
<1> DEFINE R == OpToRel(<, Nat)
<1>1. IsWellFoundedOn(R, Nat)
  BY NatLessThanWellFounded, Zenon
<1>2. \A x, y \in Nat : y < x => <<y, x>> \in R
  BY DEF OpToRel
<1> HIDE DEF R
<1>3. \E x \in S : \A y \in S : <<y, x>> \notin R
  BY <1>1, WFMin
<1>4. PICK x \in S : \A y \in S : <<y, x>> \notin R
  BY <1>3
<1>5. ASSUME NEW y \in S PROVE x <= y
  <2>1. x \in Nat /\ y \in Nat
    OBVIOUS
  <2>2. ~(y < x)
    BY <1>2, <1>4, <2>1
  <2> QED
    BY <2>1, <2>2
<1> QED
  BY <1>5

\* A finite set has a member of least measure, and one of greatest measure.
LEMMA LeastMember ==
  ASSUME NEW S, S # {}, NEW m, \A c \in S : m[c] \in Nat
  PROVE  \E c \in S : \A d \in S : m[c] <= m[d]
<1>1. PICK V \in SUBSET Nat : V = {m[c] : c \in S}
  OBVIOUS
<1>2. V # {}
  BY <1>1
<1>3. PICK v \in V : \A y \in V : v <= y
  BY <1>2, LeastNumber
<1> QED
  BY <1>1, <1>3

\* The nodes with a greater measure are fewest for the node with the greatest.
LEMMA GreatestMember ==
  ASSUME NEW S, S # {}, IsFiniteSet(S), NEW m, \A c \in S : m[c] \in Nat
  PROVE  \E c \in S : \A d \in S : m[d] <= m[c]
<1> DEFINE Above(c) == {d \in S : m[c] < m[d]}
           n == [c \in S |-> Cardinality(Above(c))]
<1>1. \A c \in S : Above(c) \in SUBSET S /\ IsFiniteSet(Above(c)) /\ n[c] \in Nat
  BY FS_Subset, FS_CardinalityType
<1>2. PICK c \in S : \A d \in S : n[c] <= n[d]
  <2> HIDE DEF n
  <2> QED
    BY <1>1, LeastMember
<1>3. ASSUME NEW d \in S, m[c] < m[d] PROVE FALSE
  <2>1. Above(d) \in SUBSET Above(c)
    BY <1>3
  <2>2. n[d] <= n[c] /\ (n[c] = n[d] => Above(c) = Above(d))
    BY <1>1, <2>1, FS_Subset
  <2>3. Above(c) = Above(d)
    <3> HIDE DEF n, Above
    <3> QED
      BY <1>1, <1>2, <2>2
  <2>4. d \in Above(c) /\ d \notin Above(d)
    BY <1>3
  <2> QED
    BY <2>3, <2>4
<1>4. ASSUME NEW d \in S PROVE m[d] <= m[c]
  BY <1>3
<1> QED
  BY <1>4

\* f says where the walk from each member of D ends.
IsWalk(f, D, Stop, next) == f = [c \in D |-> IF c \in Stop THEN c ELSE f[next[c]]]

\* What a walk from c meets: the smallest set with c and what follows its
\* members that are not in Stop.
Met(D, Stop, next, c) ==
    {d \in D : \A S \in SUBSET D : c \in S /\ (\A x \in S \ Stop : next[x] \in S) => d \in S}

\* The equation that defines a walk has a solution.
LEMMA WalkExists ==
  ASSUME NEW D, NEW Stop \in SUBSET D, NEW next, \A c \in D \ Stop : next[c] \in D
  PROVE  \E f : IsWalk(f, D, Stop, next)
<1> DEFINE M(c) == Met(D, Stop, next, c)
           f == [c \in D |-> CHOOSE s : s \in M(c) \cap Stop]
<1>1. ASSUME NEW c \in Stop PROVE f[c] = c
  <2>1. c \in M(c)
    BY DEF Met
  <2>2. ASSUME NEW s \in M(c) PROVE s = c
    <3>1. {c} \in SUBSET D /\ c \in {c} /\ \A x \in {c} \ Stop : next[x] \in {c}
      OBVIOUS
    <3>2. s \in {c}
      BY <3>1 DEF Met
    <3> QED
      BY <3>2
  <2>3. M(c) \cap Stop = {c}
    BY <2>1, <2>2
  <2> QED
    BY <2>3
<1>2. ASSUME NEW c \in D \ Stop PROVE f[c] = f[next[c]]
  <2>1. next[c] \in D
    OBVIOUS
  <2>2. ASSUME NEW s \in M(next[c]) \cap Stop PROVE s \in M(c) \cap Stop
    <3>1. SUFFICES ASSUME NEW S \in SUBSET D, c \in S, \A x \in S \ Stop : next[x] \in S
                   PROVE  s \in S
      BY DEF Met
    <3>2. next[c] \in S
      BY <3>1
    <3> QED
      BY <3>1, <3>2 DEF Met
  <2>3. ASSUME NEW s \in M(c) \cap Stop PROVE s \in M(next[c]) \cap Stop
    <3>1. SUFFICES ASSUME NEW S \in SUBSET D, next[c] \in S, \A x \in S \ Stop : next[x] \in S
                   PROVE  s \in S
      BY DEF Met
    <3>2. PICK T \in SUBSET D : T = S \cup {c}
      OBVIOUS
    <3>3. c \in T /\ \A x \in T \ Stop : next[x] \in T
      BY <3>1, <3>2
    <3>4. s \in T
      BY <3>3 DEF Met
    <3> QED
      BY <3>2, <3>4
  <2>4. M(c) \cap Stop = M(next[c]) \cap Stop
    BY <2>2, <2>3
  <2> QED
    BY <2>1, <2>4
<1> HIDE DEF f
<1>3. f = [c \in D |-> f[c]]
  BY DEF f
<1>4. IsWalk(f, D, Stop, next)
  BY <1>1, <1>2, <1>3 DEF IsWalk
<1> QED
  BY <1>4

\* The rule for loops: what holds at the start of a walk and after each of its
\* steps holds where it ends, and there is Stop.
LEMMA WalkRule ==
  ASSUME NEW D, IsFiniteSet(D), NEW Stop \in SUBSET D, NEW next, NEW m,
         \A c \in D : m[c] \in Nat,
         \A c \in D \ Stop : next[c] \in D /\ (next[c] \notin Stop => m[c] < m[next[c]]),
         NEW f, IsWalk(f, D, Stop, next),
         NEW P \in SUBSET D, \A c \in P \ Stop : next[c] \in P
  PROVE  \A c \in P : f[c] \in P /\ f[c] \in Stop
<1> USE DEF IsWalk
<1> DEFINE S == {x \in P : f[x] \notin P \cap Stop}
<1>1. ASSUME S # {} PROVE FALSE
  <2>1. IsFiniteSet(S) /\ \A x \in S : m[x] \in Nat
    BY FS_Subset
  <2>2. PICK x \in S : \A y \in S : m[y] <= m[x]
    <3> HIDE DEF S
    <3> QED
      BY <1>1, <2>1, GreatestMember
  <2>3. x \notin Stop
    OBVIOUS
  <2>4. next[x] \in P /\ f[x] = f[next[x]]
    BY <2>3
  <2>5. next[x] \in S
    BY <2>4
  <2>6. next[x] \notin Stop
    BY <2>5
  <2>7. m[x] < m[next[x]] /\ m[x] \in Nat /\ m[next[x]] \in Nat
    BY <2>3, <2>6
  <2>8. m[next[x]] <= m[x]
    <3> HIDE DEF S
    <3> QED
      BY <2>2, <2>5
  <2> QED
    BY <2>7, <2>8
<1> QED
  BY <1>1

(***************************************************************************)
(* The invariant.  It says of each pointer which node it points to, in     *)
(* terms of a set F of nodes with a key: ListInv, of all of them.          *)
(***************************************************************************)
TypeOf(F) == TypeOK /\ F \subseteq Filled

HeadOf(F, n) == \A m \in F : hash[m] = hash[n] => key[n] <= key[m]
In(F, n, b) == n \in F /\ BasketId(hash[n]) = b

KeysHashed(F) ==
    /\ \A n \in F : hash[n] = Hash[key[n]]
    /\ \A n, m \in F : key[n] = key[m] => n = m

\* p is the first head of basket b.
IsFirstHead(F, b, p) ==
    IF p = Null THEN \A m \in F : ~In(F, m, b)
    ELSE /\ p \in F /\ HeadOf(F, p) /\ In(F, p, b)
         /\ \A m \in F : In(F, m, b) => hash[p] <= hash[m]

\* p is the head after n.
IsNextHead(F, n, p) ==
    IF p = Null THEN \A m \in F : In(F, m, BasketId(hash[n])) => hash[m] <= hash[n]
    ELSE /\ p \in F /\ HeadOf(F, p) /\ In(F, p, BasketId(hash[n])) /\ hash[n] < hash[p]
         /\ \A m \in F :
               In(F, m, BasketId(hash[n])) /\ hash[n] < hash[m] => hash[p] <= hash[m]

\* Node n comes in, or goes out: G is F after the step.
Comes(F, G, n) == n \notin F /\ G = F \cup {n}
Goes(F, G, n)  == G = F \ {n}

HeadsLinked(F) ==
    /\ \A b \in Basket : IsFirstHead(F, b, baskets[b])
    /\ \A n \in Node : IF n \in F /\ HeadOf(F, n) THEN IsNextHead(F, n, fwdPtrH[n])
                                                    ELSE fwdPtrH[n] = Null

\* p is the node after n on level h of their queue.
IsNextKey(F, n, h, p) ==
    IF p = Null
    THEN \A m \in F : hash[m] = hash[n] /\ key[n] < key[m] => curHeight[m] < h
    ELSE /\ p \in F /\ hash[p] = hash[n] /\ key[n] < key[p] /\ h <= curHeight[p]
         /\ \A m \in F : hash[m] = hash[n] /\ key[n] < key[m] /\ h <= curHeight[m]
                                 => key[p] <= key[m]

QueuesLinked(F) ==
    /\ \A n \in F : HeadOf(F, n) => curHeight[n] = 2
    /\ \A n \in Node, h \in Level :
          IF n \in F /\ h <= curHeight[n] THEN IsNextKey(F, n, h, fwdPtrsL[n][h])
                                               ELSE fwdPtrsL[n][h] = Null

ListsOf(F) == TypeOf(F) /\ KeysHashed(F) /\ HeadsLinked(F) /\ QueuesLinked(F)

ListInv == ListsOf(Filled)

\* What the types say.
LEMMA Typed ==
  ASSUME NEW F, TypeOf(F)
  PROVE  /\ \A n \in Node : /\ hash[n] \in Nat /\ curHeight[n] \in 0 .. 2
                            /\ fwdPtrH[n] \in Node \cup {Null}
                            /\ key[n] \in Key \cup {NoKey}
         /\ \A n \in Node, h \in Level : fwdPtrsL[n][h] \in Node \cup {Null}
         /\ \A b \in Basket : baskets[b] \in Node \cup {Null}
         /\ F \subseteq Node /\ Null \notin F
         /\ \A n \in F : key[n] \in Key /\ key[n] \in Nat /\ key[n] # NoKey
<1>1. \A n \in Node : /\ hash[n] \in Nat /\ curHeight[n] \in 0 .. 2
                      /\ fwdPtrH[n] \in Node \cup {Null}
                      /\ key[n] \in Key \cup {NoKey}
  BY DEF TypeOf, TypeOK, Level
<1>2. \A n \in Node, h \in Level : fwdPtrsL[n][h] \in Node \cup {Null}
  BY DEF TypeOf, TypeOK
<1>3. \A b \in Basket : baskets[b] \in Node \cup {Null}
  BY DEF TypeOf, TypeOK
<1>4. F \subseteq Node /\ Null \notin F
  BY NullAssumption DEF TypeOf, Filled
<1>5. \A n \in F : key[n] \in Key /\ key[n] \in Nat /\ key[n] # NoKey
  BY <1>1, KeyAssumption DEF TypeOf, Filled
<1> QED
  BY <1>1, <1>2, <1>3, <1>4, <1>5

\* What the assumptions on the constants say.
LEMMA Hashed ==
  /\ \A k \in Key : k \in Nat /\ k # NoKey /\ Hash[k] \in Nat
  /\ \A h \in Nat : BasketId(h) \in Basket
  BY KeyAssumption, NullAssumption, CapacityAssumption DEF BasketId, Basket

\* A hash that some node has, has one head.
LEMMA HeadExists ==
  ASSUME NEW F, TypeOf(F), NEW n \in F
  PROVE  \E p \in F : HeadOf(F, p) /\ hash[p] = hash[n] /\ key[p] <= key[n]
<1>1. PICK S \in SUBSET F : S = {m \in F : hash[m] = hash[n]}
  OBVIOUS
<1>2. S # {} /\ \A m \in S : key[m] \in Nat
  BY <1>1, Typed
<1>3. PICK p \in S : \A m \in S : key[p] <= key[m]
  BY <1>2, LeastMember
<1> QED
  BY <1>1, <1>3 DEF HeadOf

\* Keys are unique, so that a hash has no second head.
LEMMA HeadUnique ==
  ASSUME NEW F, TypeOf(F), KeysHashed(F), NEW n \in F, NEW m \in F,
         HeadOf(F, n), HeadOf(F, m), hash[n] = hash[m]
  PROVE  n = m
<1>1. key[n] <= key[m] /\ key[m] <= key[n] /\ key[n] \in Nat /\ key[m] \in Nat
  BY Typed DEF HeadOf
<1> QED
  BY <1>1 DEF KeysHashed

\* What First returns.
LEMMA FirstFacts ==
  ASSUME NEW S, NEW f, NEW p \in S, \A m \in S : f[m] \in Nat,
         \A m \in S : f[p] <= f[m], \A m \in S : f[p] = f[m] => p = m
  PROVE  First(S, f) = p
<1>1. PICK q : q = CHOOSE n \in S : \A m \in S : f[n] <= f[m]
  OBVIOUS
<1>2. q \in S /\ \A m \in S : f[q] <= f[m]
  BY <1>1
<1>3. f[p] <= f[q] /\ f[q] <= f[p] /\ f[p] \in Nat /\ f[q] \in Nat
  BY <1>2
<1>4. q = p
  BY <1>2, <1>3
<1> QED
  BY <1>1, <1>4 DEF First

\* The invariant implies that the lists are exact.
LEMMA ListsFollow ==
  ASSUME NEW F, F = Filled, ListsOf(F)
  PROVE  ListsExact
<1>1. /\ TypeOf(F) /\ TypeOK /\ KeysHashed(F) /\ HeadsLinked(F) /\ QueuesLinked(F)
      /\ \A n : HeadOf(F, n) <=> IsHead(n)
  BY DEF ListsOf, TypeOf, HeadOf, IsHead
<1>2. ASSUME NEW b \in Basket PROVE baskets[b] = First(Heads(b), hash)
  <2>1. IsFirstHead(F, b, baskets[b])
    BY <1>1 DEF HeadsLinked
  <2>2. CASE baskets[b] = Null
    <3>1. Heads(b) = {}
      BY <1>1, <2>1, <2>2 DEF IsFirstHead, Heads, In
    <3> QED
      BY <2>2, <3>1 DEF First
  <2>3. CASE baskets[b] # Null
    <3>1. /\ baskets[b] \in Heads(b) /\ \A m \in Heads(b) : hash[baskets[b]] <= hash[m]
          /\ \A m \in Heads(b) : m \in F /\ HeadOf(F, m)
      BY <1>1, <2>1, <2>3 DEF IsFirstHead, Heads, In
    <3>2. \A m \in Heads(b) : hash[m] \in Nat
      BY <1>1, <3>1, Typed
    <3>3. \A m \in Heads(b) : hash[baskets[b]] = hash[m] => baskets[b] = m
      BY <1>1, <3>1, HeadUnique
    <3> QED
      BY <3>1, <3>2, <3>3, FirstFacts
  <2> QED
    BY <2>2, <2>3
<1>3. ASSUME NEW n \in Node, n \in F, HeadOf(F, n)
      PROVE  fwdPtrH[n] = First({m \in Heads(BasketId(hash[n])) : hash[m] > hash[n]}, hash)
  <2>1. IsNextHead(F, n, fwdPtrH[n])
    BY <1>1, <1>3 DEF HeadsLinked
  <2>2. PICK S \in SUBSET F : S = {m \in Heads(BasketId(hash[n])) : hash[m] > hash[n]}
    BY DEF Heads
  <2>3. \A m \in S : hash[m] \in Nat /\ HeadOf(F, m) /\ m \in F
    BY <1>1, <2>2, Typed DEF Heads
  <2>4. hash[n] \in Nat
    BY <1>1, Typed
  <2>5. CASE fwdPtrH[n] = Null
    <3>1. \A m \in F : In(F, m, BasketId(hash[n])) => hash[m] <= hash[n]
      BY <2>1, <2>5 DEF IsNextHead
    <3>2. S = {}
      BY <2>2, <2>3, <2>4, <3>1 DEF Heads, In
    <3> QED
      BY <2>2, <2>5, <3>2 DEF First
  <2>6. CASE fwdPtrH[n] # Null
    <3>1. /\ fwdPtrH[n] \in S /\ \A m \in S : hash[fwdPtrH[n]] <= hash[m]
      BY <1>1, <2>1, <2>2, <2>3, <2>4, <2>6 DEF IsNextHead, Heads, In
    <3>2. \A m \in S : hash[fwdPtrH[n]] = hash[m] => fwdPtrH[n] = m
      BY <1>1, <2>3, <3>1, HeadUnique
    <3> QED
      BY <2>2, <2>3, <3>1, <3>2, FirstFacts
  <2> QED
    BY <2>5, <2>6
<1>4. ASSUME NEW n \in Node, NEW h \in Level, n \in F, h <= curHeight[n]
      PROVE  fwdPtrsL[n][h] = First({m \in F : /\ hash[m] = hash[n] /\ key[m] > key[n]
                                               /\ curHeight[m] >= h}, key)
  <2>1. IsNextKey(F, n, h, fwdPtrsL[n][h])
    BY <1>1, <1>4 DEF QueuesLinked
  <2>2. PICK S \in SUBSET F :
           S = {m \in F : hash[m] = hash[n] /\ key[m] > key[n] /\ curHeight[m] >= h}
    OBVIOUS
  <2>3. h \in 0 .. 2 /\ key[n] \in Nat
        /\ \A m \in F : key[m] \in Nat /\ curHeight[m] \in 0 .. 2
    BY <1>1, <1>4, Typed DEF Level
  <2>4. CASE fwdPtrsL[n][h] = Null
    <3>1. \A m \in F : hash[m] = hash[n] /\ key[n] < key[m] => curHeight[m] < h
      BY <2>1, <2>4 DEF IsNextKey
    <3>2. S = {}
      BY <2>2, <2>3, <3>1
    <3> QED
      BY <2>2, <2>4, <3>2 DEF First
  <2>5. CASE fwdPtrsL[n][h] # Null
    <3>1. /\ fwdPtrsL[n][h] \in S /\ \A m \in S : key[fwdPtrsL[n][h]] <= key[m]
      BY <2>1, <2>2, <2>3, <2>5 DEF IsNextKey
    <3>2. \A m \in S : key[fwdPtrsL[n][h]] = key[m] => fwdPtrsL[n][h] = m
      BY <1>1, <3>1 DEF KeysHashed
    <3>3. \A m \in S : key[m] \in Nat
      BY <2>3
    <3>4. First(S, key) = fwdPtrsL[n][h]
      BY <3>1, <3>2, <3>3, FirstFacts
    <3> QED
      BY <2>2, <3>4
  <2> QED
    BY <2>4, <2>5
<1>5. HashListsExact
  BY <1>1, <1>2, <1>3 DEF HashListsExact, HeadsLinked
<1>6. SkipListsExact
  BY <1>1, <1>4 DEF SkipListsExact, QueuesLinked
<1> QED
  BY <1>1, <1>5, <1>6 DEF ListsExact

(***************************************************************************)
(* Where the walks end.                                                    *)
(***************************************************************************)
\* The heads before hash h.
BeforeIn(F, b, h) == {c \in F : HeadOf(F, c) /\ In(F, c, b) /\ hash[c] < h}

\* One step along the heads.
LEMMA HeadStep ==
  ASSUME NEW F, ListsOf(F), NEW c \in F, HeadOf(F, c)
  PROVE  /\ fwdPtrH[c] = Null =>
               \A m \in F : In(F, m, BasketId(hash[c])) => hash[m] <= hash[c]
         /\ fwdPtrH[c] # Null =>
               /\ fwdPtrH[c] \in F /\ HeadOf(F, fwdPtrH[c])
               /\ In(F, fwdPtrH[c], BasketId(hash[c])) /\ hash[c] < hash[fwdPtrH[c]]
               /\ \A m \in F : In(F, m, BasketId(hash[c])) /\ hash[c] < hash[m]
                                       => hash[fwdPtrH[c]] <= hash[m]
<1>1. IsNextHead(F, c, fwdPtrH[c])
  BY Typed DEF ListsOf, HeadsLinked
<1> QED
  BY <1>1 DEF IsNextHead

\* One step along a level of a queue.
LEMMA KeyStep ==
  ASSUME NEW F, ListsOf(F), NEW c \in F, NEW h \in Level, h <= curHeight[c]
  PROVE  /\ fwdPtrsL[c][h] = Null =>
               \A m \in F : hash[m] = hash[c] /\ key[c] < key[m] => curHeight[m] < h
         /\ fwdPtrsL[c][h] # Null =>
               /\ fwdPtrsL[c][h] \in F /\ hash[fwdPtrsL[c][h]] = hash[c]
               /\ key[c] < key[fwdPtrsL[c][h]] /\ h <= curHeight[fwdPtrsL[c][h]]
               /\ \A m \in F :
                     hash[m] = hash[c] /\ key[c] < key[m] /\ h <= curHeight[m]
                        => key[fwdPtrsL[c][h]] <= key[m]
<1>1. IsNextKey(F, c, h, fwdPtrsL[c][h])
  BY Typed DEF ListsOf, QueuesLinked
<1> QED
  BY <1>1 DEF IsNextKey

\* insertN stops at the last head before the hash.
LEMMA LastBelow ==
  ASSUME NEW F, ListsOf(F), NEW h \in Nat, NEW first \in BeforeIn(F, BasketId(h), h)
  PROVE  /\ LastBelowHash(first, h) \in BeforeIn(F, BasketId(h), h)
         /\ LET p == fwdPtrH[LastBelowHash(first, h)] IN p # Null => h <= hash[p]
<1> DEFINE Eq(f) == f = [c \in Node |-> IF fwdPtrH[c] # Null /\ hash[fwdPtrH[c]] < h
                                        THEN f[fwdPtrH[c]] ELSE c]
           w == CHOOSE f : Eq(f)
<1>1. TypeOf(F)
  BY DEF ListsOf
<1>2. PICK Stop \in SUBSET Node :
         Stop = {c \in Node : ~(fwdPtrH[c] # Null /\ hash[fwdPtrH[c]] < h)}
  OBVIOUS
<1>3. \A f : Eq(f) <=> IsWalk(f, Node, Stop, fwdPtrH)
  BY <1>2 DEF IsWalk
<1>4. \A c \in Node : hash[c] \in Nat
  BY <1>1, Typed
<1>5. \A c \in Node \ Stop : fwdPtrH[c] \in Node
  BY <1>1, <1>2, Typed
<1>6. \E f : Eq(f)
  BY <1>3, <1>5, WalkExists
<1>7. IsWalk(w, Node, Stop, fwdPtrH)
  BY <1>3, <1>6
<1>8. LastBelowHash(first, h) = w[first]
  BY DEF LastBelowHash
<1> HIDE DEF w
<1>9. \A c \in Node \ Stop : /\ c \in F /\ HeadOf(F, c)
                             /\ fwdPtrH[c] # Null /\ hash[fwdPtrH[c]] < h
  BY <1>1, <1>2, Typed DEF ListsOf, HeadsLinked
<1>10. \A c \in Node \ Stop : hash[c] < hash[fwdPtrH[c]]
  BY <1>9, HeadStep
<1>11. BeforeIn(F, BasketId(h), h) \in SUBSET Node
  BY <1>1, Typed DEF BeforeIn
<1>12. \A c \in BeforeIn(F, BasketId(h), h) \ Stop : fwdPtrH[c] \in BeforeIn(F, BasketId(h), h)
  BY <1>9, <1>11, HeadStep DEF BeforeIn, In
<1>13. w[first] \in BeforeIn(F, BasketId(h), h) /\ w[first] \in Stop
  BY <1>4, <1>5, <1>7, <1>10, <1>11, <1>12, WalkRule, NodeAssumption
<1>14. fwdPtrH[w[first]] # Null => h <= hash[fwdPtrH[w[first]]]
  BY <1>1, <1>2, <1>13, Typed
<1> QED
  BY <1>8, <1>13, <1>14

\* A deletion finds the head before the queue of hash h.
LEMMA BeforeQueue ==
  ASSUME NEW F, ListsOf(F), NEW h \in Nat, NEW first \in BeforeIn(F, BasketId(h), h),
         \E n \in F : hash[n] = h
  PROVE  /\ BeforeHash(first, h) \in BeforeIn(F, BasketId(h), h)
         /\ LET p == fwdPtrH[BeforeHash(first, h)] IN p # Null /\ hash[p] = h
<1> DEFINE Eq(f) == f = [c \in Node |-> IF fwdPtrH[c] # Null /\ hash[fwdPtrH[c]] # h
                                        THEN f[fwdPtrH[c]] ELSE c]
           w == CHOOSE f : Eq(f)
<1>1. TypeOf(F)
  BY DEF ListsOf
<1>2. PICK Stop \in SUBSET Node :
         Stop = {c \in Node : ~(fwdPtrH[c] # Null /\ hash[fwdPtrH[c]] # h)}
  OBVIOUS
<1>3. \A f : Eq(f) <=> IsWalk(f, Node, Stop, fwdPtrH)
  BY <1>2 DEF IsWalk
<1>4. \A c \in Node : hash[c] \in Nat
  BY <1>1, Typed
<1>5. \A c \in Node \ Stop : fwdPtrH[c] \in Node
  BY <1>1, <1>2, Typed
<1>6. \E f : Eq(f)
  BY <1>3, <1>5, WalkExists
<1>7. IsWalk(w, Node, Stop, fwdPtrH)
  BY <1>3, <1>6
<1>8. BeforeHash(first, h) = w[first]
  BY DEF BeforeHash
<1> HIDE DEF w
<1>9. \A c \in Node \ Stop : /\ c \in F /\ HeadOf(F, c)
                             /\ fwdPtrH[c] # Null /\ hash[fwdPtrH[c]] # h
  BY <1>1, <1>2, Typed DEF ListsOf, HeadsLinked
<1>10. \A c \in Node \ Stop : hash[c] < hash[fwdPtrH[c]]
  BY <1>9, HeadStep
<1>11. BeforeIn(F, BasketId(h), h) \in SUBSET Node
  BY <1>1, Typed DEF BeforeIn
<1>12. PICK n \in F : hash[n] = h
  OBVIOUS
<1>13. \A c \in BeforeIn(F, BasketId(h), h) :
          /\ fwdPtrH[c] # Null /\ fwdPtrH[c] \in F /\ HeadOf(F, fwdPtrH[c])
          /\ In(F, fwdPtrH[c], BasketId(h)) /\ hash[fwdPtrH[c]] <= h
  <2>1. SUFFICES ASSUME NEW c \in BeforeIn(F, BasketId(h), h)
                 PROVE  /\ fwdPtrH[c] # Null /\ fwdPtrH[c] \in F /\ HeadOf(F, fwdPtrH[c])
                        /\ In(F, fwdPtrH[c], BasketId(h)) /\ hash[fwdPtrH[c]] <= h
    OBVIOUS
  <2>2. /\ c \in F /\ HeadOf(F, c) /\ BasketId(hash[c]) = BasketId(h) /\ hash[c] < h
        /\ hash[c] \in Nat
    BY <1>4, <1>11, <2>1 DEF BeforeIn, In
  <2>3. In(F, n, BasketId(hash[c])) /\ hash[c] < hash[n] /\ ~(hash[n] <= hash[c])
    BY <1>12, <2>2 DEF In
  <2> QED
    BY <1>12, <2>2, <2>3, HeadStep
<1>14. \A c \in BeforeIn(F, BasketId(h), h) \ Stop : fwdPtrH[c] \in BeforeIn(F, BasketId(h), h)
  <2>1. SUFFICES ASSUME NEW c \in BeforeIn(F, BasketId(h), h) \ Stop
                 PROVE  fwdPtrH[c] \in BeforeIn(F, BasketId(h), h)
    OBVIOUS
  <2>2. hash[fwdPtrH[c]] # h /\ hash[fwdPtrH[c]] <= h /\ hash[fwdPtrH[c]] \in Nat
    BY <1>4, <1>5, <1>9, <1>11, <1>13
  <2> QED
    BY <1>13, <2>2 DEF BeforeIn
<1>15. w[first] \in BeforeIn(F, BasketId(h), h) /\ w[first] \in Stop
  BY <1>4, <1>5, <1>7, <1>10, <1>11, <1>14, WalkRule, NodeAssumption
<1> QED
  BY <1>2, <1>8, <1>13, <1>15

\* getData finds the head of a hash, or finds out that no node has the hash.
LEMMA HeadFound ==
  ASSUME NEW F, ListsOf(F), NEW h \in Nat
  PROVE  LET p == HeadWithHash(baskets[BasketId(h)], h)
         IN  IF p = Null THEN \A m \in F : hash[m] # h
                         ELSE p \in F /\ HeadOf(F, p) /\ hash[p] = h
<1> DEFINE D == Node \cup {Null}
           Eq(f) == f = [c \in D |-> IF c = Null \/ hash[c] = h THEN c ELSE f[fwdPtrH[c]]]
           w == CHOOSE f : Eq(f)
           m == [c \in D |-> IF c = Null THEN 0 ELSE hash[c]]
           P == {c \in D : IF c = Null THEN \A n \in F : hash[n] # h
                           ELSE /\ c \in F /\ HeadOf(F, c) /\ In(F, c, BasketId(h))
                                /\ \A n \in F : hash[n] = h => hash[c] <= h}
<1>1. TypeOf(F)
  BY DEF ListsOf
<1>2. PICK Stop \in SUBSET D : Stop = {c \in D : c = Null \/ hash[c] = h}
  OBVIOUS
<1>3. \A f : Eq(f) <=> IsWalk(f, D, Stop, fwdPtrH)
  BY <1>2 DEF IsWalk
<1>4. \A c \in D : m[c] \in Nat
  BY <1>1, Typed
<1>5. \A c \in D \ Stop : fwdPtrH[c] \in D /\ c \in Node
  BY <1>1, <1>2, Typed
<1>6. \E f : Eq(f)
  <2> HIDE DEF D
  <2> QED
    BY <1>3, <1>5, WalkExists
<1>7. IsWalk(w, D, Stop, fwdPtrH)
  BY <1>3, <1>6
<1>8. HeadWithHash(baskets[BasketId(h)], h) = w[baskets[BasketId(h)]]
  BY DEF HeadWithHash
<1> HIDE DEF w
<1>9. \A c \in D \ Stop : fwdPtrH[c] \notin Stop => m[c] < m[fwdPtrH[c]]
  <2>1. SUFFICES ASSUME NEW c \in D \ Stop, fwdPtrH[c] \notin Stop
                 PROVE  m[c] < m[fwdPtrH[c]]
    OBVIOUS
  <2>2. fwdPtrH[c] # Null /\ fwdPtrH[c] \in D /\ c \in Node /\ c # Null
    BY <1>2, <1>5, <2>1
  <2>3. c \in F /\ HeadOf(F, c)
    BY <2>2 DEF ListsOf, HeadsLinked
  <2>4. hash[c] < hash[fwdPtrH[c]]
    BY <2>2, <2>3, HeadStep
  <2> QED
    BY <2>2, <2>4
<1>10. P \in SUBSET D
  OBVIOUS
<1>11. \A c \in P \ Stop : fwdPtrH[c] \in P
  <2>1. SUFFICES ASSUME NEW c \in P \ Stop PROVE fwdPtrH[c] \in P
    OBVIOUS
  <2>2. /\ c \in F /\ HeadOf(F, c) /\ In(F, c, BasketId(h)) /\ hash[c] # h
        /\ \A n \in F : hash[n] = h => hash[c] <= h
    BY <1>2, <2>1
  <2>3. hash[c] \in Nat /\ fwdPtrH[c] \in D /\ BasketId(hash[c]) = BasketId(h)
    BY <1>1, <1>5, <2>1, <2>2, Typed DEF In
  <2>4. \A n \in F : hash[n] = h => hash[c] < hash[n] /\ In(F, n, BasketId(hash[c]))
    BY <2>2, <2>3 DEF In
  <2>5. CASE fwdPtrH[c] = Null
    <3>1. \A n \in F : hash[n] # h
      BY <2>2, <2>3, <2>4, <2>5, HeadStep
    <3> QED
      BY <2>3, <2>5, <3>1
  <2>6. CASE fwdPtrH[c] # Null
    <3>1. /\ fwdPtrH[c] \in F /\ HeadOf(F, fwdPtrH[c]) /\ In(F, fwdPtrH[c], BasketId(h))
          /\ \A n \in F : hash[n] = h => hash[fwdPtrH[c]] <= h
      BY <2>2, <2>3, <2>4, <2>6, HeadStep
    <3> QED
      BY <2>3, <2>6, <3>1
  <2> QED
    BY <2>5, <2>6
<1>12. baskets[BasketId(h)] \in P
  <2>1. BasketId(h) \in Basket
    BY Hashed
  <2>2. IsFirstHead(F, BasketId(h), baskets[BasketId(h)]) /\ baskets[BasketId(h)] \in D
    BY <1>1, <2>1, Typed DEF ListsOf, HeadsLinked
  <2>3. \A n \in F : hash[n] = h => In(F, n, BasketId(h))
    BY DEF In
  <2> QED
    BY <2>2, <2>3 DEF IsFirstHead
<1>13. IsFiniteSet(D)
  BY NodeAssumption, FS_AddElement
<1>14. w[baskets[BasketId(h)]] \in P /\ w[baskets[BasketId(h)]] \in Stop
  <2> HIDE DEF D, m, P
  <2>1. \A c \in D \ Stop :
           fwdPtrH[c] \in D /\ (fwdPtrH[c] \notin Stop => m[c] < m[fwdPtrH[c]])
    BY <1>5, <1>9
  <2>2. \A c \in P : w[c] \in P /\ w[c] \in Stop
    BY <1>4, <1>7, <1>10, <1>11, <1>13, <2>1, WalkRule
  <2> QED
    BY <1>12, <2>2
<1> QED
  BY <1>2, <1>8, <1>14

\* The nodes of the queue of hash q that a walk for key k on level h may meet.
Reaching(F, q, h, k) == {c \in F : hash[c] = q /\ h <= curHeight[c] /\ key[c] < k}

\* A walk on a level stops at the last node before the key.
LEMMA LastBelowOnLevel ==
  ASSUME NEW F, ListsOf(F), NEW q, NEW h \in Level, NEW k \in Nat, NEW start \in Reaching(F, q, h, k)
  PROVE  /\ LastBelowKey(start, h, k) \in Reaching(F, q, h, k)
         /\ LET p == fwdPtrsL[LastBelowKey(start, h, k)][h] IN p # Null => k <= key[p]
<1> DEFINE Eq(f) == f = [c \in Node |->
                           IF fwdPtrsL[c][h] # Null /\ key[fwdPtrsL[c][h]] < k
                           THEN f[fwdPtrsL[c][h]] ELSE c]
           w == CHOOSE f : Eq(f)
           next == [c \in Node |-> fwdPtrsL[c][h]]
           m == [c \in Node |-> IF c \in F THEN key[c] ELSE 0]
           P == Reaching(F, q, h, k)
<1>1. TypeOf(F)
  BY DEF ListsOf
<1>2. PICK Stop \in SUBSET Node :
         Stop = {c \in Node : ~(fwdPtrsL[c][h] # Null /\ key[fwdPtrsL[c][h]] < k)}
  OBVIOUS
<1>3. \A f : Eq(f) <=> IsWalk(f, Node, Stop, next)
  BY <1>2 DEF IsWalk
<1>4. \A c \in Node : m[c] \in Nat
  BY <1>1, Typed
<1>5. \A c \in Node \ Stop : next[c] \in Node
  BY <1>1, <1>2, Typed
<1>6. \E f : Eq(f)
  <2> HIDE DEF next
  <2> QED
    BY <1>3, <1>5, WalkExists
<1>7. IsWalk(w, Node, Stop, next)
  BY <1>3, <1>6
<1>8. LastBelowKey(start, h, k) = w[start]
  BY DEF LastBelowKey
<1> HIDE DEF w
<1>9. \A c \in Node \ Stop :
         /\ c \in F /\ h <= curHeight[c]
         /\ next[c] # Null /\ key[next[c]] < k /\ next[c] = fwdPtrsL[c][h]
  BY <1>1, <1>2, Typed DEF ListsOf, QueuesLinked
<1>10. \A c \in Node \ Stop :
          /\ next[c] \in F /\ hash[next[c]] = hash[c] /\ h <= curHeight[next[c]]
          /\ key[c] < key[next[c]]
  BY <1>9, KeyStep
<1>11. \A c \in Node \ Stop : m[c] < m[next[c]]
  <2>1. SUFFICES ASSUME NEW c \in Node \ Stop PROVE m[c] < m[next[c]]
    OBVIOUS
  <2>2. next[c] \in Node /\ c \in F /\ next[c] \in F /\ key[c] < key[next[c]]
    BY <1>5, <1>9, <1>10
  <2> HIDE DEF next
  <2> QED
    BY <2>2
<1>12. P \in SUBSET Node
  BY <1>1, Typed DEF Reaching
<1>13. \A c \in P \ Stop : next[c] \in P
  BY <1>9, <1>10, <1>12 DEF Reaching
<1>14. w[start] \in P /\ w[start] \in Stop
  <2> HIDE DEF next, m, P
  <2>1. \A c \in Node \ Stop : next[c] \in Node /\ (next[c] \notin Stop => m[c] < m[next[c]])
    BY <1>5, <1>11
  <2>2. \A c \in P : w[c] \in P /\ w[c] \in Stop
    BY <1>4, <1>7, <1>12, <1>13, <2>1, WalkRule, NodeAssumption
  <2> QED
    BY <2>2 DEF P
<1>15. fwdPtrsL[w[start]][h] # Null => k <= key[fwdPtrsL[w[start]][h]]
  <2>1. SUFFICES ASSUME fwdPtrsL[w[start]][h] # Null PROVE k <= key[fwdPtrsL[w[start]][h]]
    OBVIOUS
  <2>2. /\ w[start] \in F /\ h <= curHeight[w[start]]
        /\ ~(key[fwdPtrsL[w[start]][h]] < k)
    BY <1>2, <1>12, <1>14, <2>1 DEF Reaching
  <2>3. fwdPtrsL[w[start]][h] \in F
    BY <2>1, <2>2, KeyStep
  <2>4. key[fwdPtrsL[w[start]][h]] \in Nat
    BY <1>1, <2>3, Typed
  <2> QED
    BY <2>2, <2>4
<1> QED
  BY <1>8, <1>14, <1>15

\* A node before the key whose next node is not before it is the last before it.
LEMMA LastOnLevel ==
  ASSUME NEW F, ListsOf(F), NEW q, NEW h \in Level, NEW k \in Nat, NEW c \in Reaching(F, q, h, k),
         fwdPtrsL[c][h] # Null => k <= key[fwdPtrsL[c][h]],
         NEW m \in Reaching(F, q, h, k)
  PROVE  key[m] <= key[c]
<1>1. TypeOf(F) /\ \A l \in Level : l \in {0, 1, 2}
  BY DEF ListsOf, Level
<1>2. /\ c \in F /\ hash[c] = q /\ h <= curHeight[c] /\ key[c] < k
      /\ m \in F /\ hash[m] = q /\ h <= curHeight[m] /\ key[m] < k
  BY DEF Reaching
<1>3. key[c] \in Nat /\ key[m] \in Nat /\ curHeight[m] \in Nat /\ h \in Nat
  BY <1>1, <1>2, Typed
<1>4. ASSUME key[c] < key[m] PROVE FALSE
  <2>1. CASE fwdPtrsL[c][h] = Null
    <3>1. curHeight[m] < h
      BY <1>2, <1>4, <2>1, KeyStep
    <3> QED
      BY <1>2, <1>3, <3>1
  <2>2. CASE fwdPtrsL[c][h] # Null
    <3>1. fwdPtrsL[c][h] \in F /\ key[fwdPtrsL[c][h]] <= key[m]
      BY <1>2, <1>4, <2>2, KeyStep
    <3>2. key[fwdPtrsL[c][h]] \in Nat /\ k <= key[fwdPtrsL[c][h]]
      BY <1>1, <1>2, <2>2, <3>1, Typed
    <3> QED
      BY <1>2, <1>3, <3>1, <3>2
  <2> QED
    BY <2>1, <2>2
<1> QED
  BY <1>3, <1>4

\* The path to key k in the queue of head: on each level the last node before k.
LEMMA PathFacts ==
  ASSUME NEW F, ListsOf(F), NEW head \in F, HeadOf(F, head), NEW k \in Nat, key[head] < k
  PROVE  \A h \in Level :
            LET c == Path(head, k)[h]
            IN  /\ c \in Reaching(F, hash[head], h, k)
                /\ fwdPtrsL[c][h] # Null => k <= key[fwdPtrsL[c][h]]
                /\ \A m \in Reaching(F, hash[head], h, k) : key[m] <= key[c]
<1> DEFINE q == hash[head]
           on2 == LastBelowKey(head, 2, k)
           on1 == LastBelowKey(on2, 1, k)
           on0 == LastBelowKey(on1, 0, k)
<1>1. TypeOf(F) /\ 0 \in Level /\ 1 \in Level /\ 2 \in Level /\ \A h \in Level : h \in {0, 1, 2}
  BY DEF ListsOf, Level
<1>2. \A g, h \in Level : g <= h => Reaching(F, q, h, k) \subseteq Reaching(F, q, g, k)
  <2>1. SUFFICES ASSUME NEW g \in Level, NEW h \in Level, g <= h, NEW c \in Reaching(F, q, h, k)
                 PROVE  c \in Reaching(F, q, g, k)
    OBVIOUS
  <2>2. c \in F /\ h <= curHeight[c] /\ curHeight[c] \in 0 .. 2
    BY <1>1, <2>1, Typed DEF Reaching
  <2>3. g <= curHeight[c]
    BY <1>1, <2>1, <2>2
  <2> QED
    BY <2>1, <2>3 DEF Reaching
<1>3. head \in Reaching(F, q, 2, k)
  BY DEF Reaching, ListsOf, QueuesLinked
<1> HIDE DEF q, on2, on1, on0
<1>4. on2 \in Reaching(F, q, 2, k) /\ (fwdPtrsL[on2][2] # Null => k <= key[fwdPtrsL[on2][2]])
  BY <1>1, <1>3, LastBelowOnLevel DEF on2
<1>5. on1 \in Reaching(F, q, 1, k) /\ (fwdPtrsL[on1][1] # Null => k <= key[fwdPtrsL[on1][1]])
  <2>1. on2 \in Reaching(F, q, 1, k)
    BY <1>1, <1>2, <1>4
  <2> QED
    BY <1>1, <2>1, LastBelowOnLevel DEF on1
<1>6. on0 \in Reaching(F, q, 0, k) /\ (fwdPtrsL[on0][0] # Null => k <= key[fwdPtrsL[on0][0]])
  <2>1. on1 \in Reaching(F, q, 0, k)
    BY <1>1, <1>2, <1>5
  <2> QED
    BY <1>1, <2>1, LastBelowOnLevel DEF on0
<1>7. Path(head, k) = [h \in Level |-> CASE h = 2 -> on2 [] h = 1 -> on1 [] h = 0 -> on0]
  BY DEF Path, on2, on1, on0
<1>8. \A h \in Level : /\ Path(head, k)[h] \in Reaching(F, q, h, k)
                       /\ LET p == fwdPtrsL[Path(head, k)[h]][h] IN p # Null => k <= key[p]
  BY <1>1, <1>4, <1>5, <1>6, <1>7
<1>9. ASSUME NEW h \in Level, NEW m \in Reaching(F, q, h, k)
      PROVE  key[m] <= key[Path(head, k)[h]]
  BY <1>8, <1>9, LastOnLevel
<1> QED
  BY <1>8, <1>9 DEF q

\* The walk down from a head finds a key if and only if a node holds it.
LEMMA BelowFacts ==
  ASSUME NEW F, ListsOf(F), NEW head \in F, HeadOf(F, head), NEW k \in Nat, key[head] < k
  PROVE  LET p == Below(head, k)
         IN  IF p = Null THEN \A m \in F : hash[m] = hash[head] => key[m] # k
                         ELSE p \in F /\ hash[p] = hash[head] /\ key[p] = k
<1> DEFINE path == Path(head, k)
           hits == {h \in Level : fwdPtrsL[path[h]][h] # Null
                                  /\ key[fwdPtrsL[path[h]][h]] = k}
<1>1. Below(head, k) =
         IF hits = {} THEN Null ELSE fwdPtrsL[path[Max(hits)]][Max(hits)]
  BY DEF Below
<1>2. Level = {0, 1, 2} /\ TypeOf(F)
  BY DEF Level, ListsOf
<1>3. hits # {} => Max(hits) \in hits
  <2>1. SUFFICES ASSUME hits # {} PROVE \E x \in hits : \A y \in hits : x >= y
    BY Zenon DEF Max
  <2>2. hits \subseteq {0, 1, 2}
    BY <1>2
  <2> HIDE DEF hits
  <2>3. CASE 2 \in hits
    BY <2>2, <2>3
  <2>4. CASE 2 \notin hits /\ 1 \in hits
    <3>1. \A y \in hits : 1 >= y
      BY <2>2, <2>4
    <3> QED
      BY <2>4, <3>1
  <2>5. CASE hits = {0}
    BY <2>5
  <2> QED
    BY <2>1, <2>2, <2>3, <2>4, <2>5
<1>4. \A h \in Level : path[h] \in F /\ hash[path[h]] = hash[head] /\ h <= curHeight[path[h]]
                       /\ key[path[h]] < k
  BY PathFacts DEF Reaching
<1>5. CASE hits # {}
  <2>1. PICK h \in hits : Below(head, k) = fwdPtrsL[path[h]][h]
    BY <1>1, <1>3, <1>5, Zenon
  <2>2. Below(head, k) # Null /\ key[Below(head, k)] = k /\ h \in Level
    BY <2>1
  <2>3. Below(head, k) \in F /\ hash[Below(head, k)] = hash[head]
    <3> HIDE DEF path, hits
    <3> QED
      BY <1>4, <2>1, <2>2, KeyStep
  <2> QED
    BY <2>2, <2>3
<1>6. CASE hits = {}
  <2>1. Below(head, k) = Null
    BY <1>1, <1>6, Zenon
  <2>2. PICK c : c = path[0]
    OBVIOUS
  <2>3. /\ c \in F /\ hash[c] = hash[head] /\ 0 <= curHeight[c] /\ key[c] < k
        /\ (fwdPtrsL[c][0] # Null => k <= key[fwdPtrsL[c][0]])
    BY <1>2, <1>4, <2>2, PathFacts
  <2>4. ASSUME NEW m \in F, hash[m] = hash[head], key[m] = k PROVE FALSE
    <3>1. curHeight[m] \in 0 .. 2 /\ key[c] < key[m]
      BY <1>2, <2>3, <2>4, Typed
    <3>2. fwdPtrsL[c][0] # Null
      BY <1>2, <2>3, <2>4, <3>1, KeyStep
    <3>3. fwdPtrsL[c][0] \in F /\ key[fwdPtrsL[c][0]] <= k /\ k <= key[fwdPtrsL[c][0]]
      BY <1>2, <2>3, <2>4, <3>1, <3>2, KeyStep
    <3>4. key[fwdPtrsL[c][0]] = k
      BY <1>2, <3>3, Typed
    <3>5. 0 \in hits
      BY <1>2, <2>2, <3>2, <3>4
    <3> QED
      BY <1>6, <3>5
  <2> QED
    BY <2>1, <2>4
<1> QED
  BY <1>5, <1>6

\* getData finds the node of a key if and only if there is one in the lists.
LEMMA FindsOnly ==
  ASSUME NEW F, ListsOf(F)
  PROVE  \A k \in Key : IF GetData(k) = Null THEN \A m \in F : key[m] # k
                        ELSE GetData(k) \in F /\ key[GetData(k)] = k
<1>1. SUFFICES ASSUME NEW k \in Key
               PROVE  IF GetData(k) = Null THEN \A m \in F : key[m] # k
                      ELSE GetData(k) \in F /\ key[GetData(k)] = k
  OBVIOUS
<1>2. TypeOf(F) /\ k \in Nat /\ k # NoKey /\ Hash[k] \in Nat
  BY Hashed DEF ListsOf
<1>3. PICK head : head = HeadWithHash(baskets[BasketId(Hash[k])], Hash[k])
  OBVIOUS
<1>4. GetData(k) = IF head = Null \/ (head # Null /\ k < key[head]) THEN Null
                   ELSE IF key[head] = k THEN head ELSE Below(head, k)
  BY <1>3 DEF GetData
<1>5. IF head = Null THEN \A m \in F : hash[m] # Hash[k]
                     ELSE head \in F /\ HeadOf(F, head) /\ hash[head] = Hash[k]
  BY <1>2, <1>3, HeadFound
<1>6. \A m \in F : key[m] = k => hash[m] = Hash[k]
  BY DEF ListsOf, KeysHashed
<1>7. CASE head = Null
  BY <1>4, <1>5, <1>6, <1>7
<1>8. CASE head # Null
  <2>1. key[head] \in Nat
    BY <1>2, <1>5, <1>8, Typed
  <2>2. CASE k < key[head]
    <3>1. \A m \in F : hash[m] = Hash[k] => key[head] <= key[m]
      BY <1>5, <1>8 DEF HeadOf
    <3> QED
      BY <1>2, <1>4, <1>6, <2>1, <2>2, <3>1
  <2>3. CASE key[head] = k
    <3>1. GetData(k) = head /\ head # Null
      BY <1>2, <1>4, <1>8, <2>1, <2>3
    <3> QED
      BY <1>5, <1>8, <2>3, <3>1
  <2>4. CASE key[head] < k
    <3>1. GetData(k) = Below(head, k)
      BY <1>2, <1>4, <1>8, <2>1, <2>4
    <3>2. IF Below(head, k) = Null THEN \A m \in F : hash[m] = hash[head] => key[m] # k
          ELSE Below(head, k) \in F /\ hash[Below(head, k)] = hash[head]
               /\ key[Below(head, k)] = k
      BY <1>2, <1>5, <1>8, <2>4, BelowFacts
    <3> QED
      BY <1>5, <1>6, <1>8, <3>1, <3>2
  <2> QED
    BY <1>2, <2>1, <2>2, <2>3, <2>4
<1> QED
  BY <1>7, <1>8

LEMMA FindsFollow ==
  ASSUME ListInv
  PROVE  FindsFilled
<1>1. PICK F : F = Filled
  OBVIOUS
<1>2. \A k \in Key : IF GetData(k) = Null THEN \A m \in F : key[m] # k
                     ELSE GetData(k) \in F /\ key[GetData(k)] = k
  BY <1>1, FindsOnly DEF ListInv
<1>3. \A k \in Key, m \in Node : key[m] = k => m \in F
  BY <1>1, NullAssumption DEF Filled
<1> QED
  BY <1>2, <1>3 DEF FindsFilled

(***************************************************************************)
(* The hash lists.  A link leads from a basket, or from a head, to the     *)
(* first head of the basket from hash x on.                                *)
(***************************************************************************)
HeadFrom(F, b, x, p) ==
    IF p = Null THEN \A m \in F : In(F, m, b) => hash[m] < x
    ELSE /\ p \in F /\ HeadOf(F, p) /\ In(F, p, b) /\ x <= hash[p]
         /\ \A m \in F : In(F, m, b) /\ x <= hash[m] => hash[p] <= hash[m]

\* HeadsLinked, link by link.
LEMMA LinksOfHeads ==
  ASSUME NEW F, TypeOf(F)
  PROVE  HeadsLinked(F) <=>
            /\ \A b \in Basket : HeadFrom(F, b, 0, baskets[b])
            /\ \A n \in Node : IF n \in F /\ HeadOf(F, n)
                               THEN HeadFrom(F, BasketId(hash[n]), hash[n] + 1, fwdPtrH[n])
                               ELSE fwdPtrH[n] = Null
<1>1. \A m \in F : hash[m] \in Nat
  BY Typed
<1>2. \A b \in Basket : IsFirstHead(F, b, baskets[b]) <=> HeadFrom(F, b, 0, baskets[b])
  BY <1>1 DEF IsFirstHead, HeadFrom
<1>3. \A n \in F : IsNextHead(F, n, fwdPtrH[n])
                           <=> HeadFrom(F, BasketId(hash[n]), hash[n] + 1, fwdPtrH[n])
  BY <1>1 DEF IsNextHead, HeadFrom
<1> QED
  BY <1>2, <1>3 DEF HeadsLinked

\* A hash that no node had comes in with head n.
LEMMA HashAdded ==
  ASSUME NEW F, NEW G, TypeOf(F), TypeOf(G)', NEW n \in Node, Comes(F, G, n),
         NEW q \in Nat, hash'[n] = q, HeadOf(G, n)',
         \A m \in F : hash[m] # q /\ hash'[m] = hash[m] /\ (HeadOf(F, m) => HeadOf(G, m)'),
         NEW b, NEW x \in Nat, NEW p, HeadFrom(F, b, x, p)
  PROVE  /\ b = BasketId(q) /\ x <= q /\ (p # Null => q < hash[p])
               => HeadFrom(G, b, x, n)' /\ HeadFrom(G, b, q + 1, p)'
         /\ b # BasketId(q) \/ q < x \/ (p # Null /\ hash[p] < q) => HeadFrom(G, b, x, p)'
<1> n \notin F /\ n \in G /\ (\A m \in F : m \in G) /\ \A m \in G : m \in F \/ m = n
  BY DEF Comes
<1>1. /\ \A m \in F : hash[m] \in Nat /\ m # n
      /\ n # Null /\ n \in G
  BY Typed, NullAssumption
<1>2. \A m \in G : m = n \/ m \in F
  OBVIOUS
<1>3. \A m \in F : In(G, m, b)' <=> In(F, m, b)
  BY DEF In
<1>4. In(G, n, b)' <=> b = BasketId(q)
  BY <1>1 DEF In
<1>5. CASE b = BasketId(q) /\ x <= q /\ (p # Null => q < hash[p])
  <2>1. HeadFrom(G, b, x, n)'
    BY <1>1, <1>2, <1>3, <1>4, <1>5 DEF HeadFrom
  <2>2. HeadFrom(G, b, q + 1, p)'
    BY <1>1, <1>2, <1>3, <1>5 DEF HeadFrom
  <2>3. ~(b # BasketId(q) \/ q < x \/ (p # Null /\ hash[p] < q))
    BY <1>1, <1>5 DEF HeadFrom
  <2> QED
    BY <2>1, <2>2, <2>3
<1>6. CASE b # BasketId(q) \/ q < x \/ (p # Null /\ hash[p] < q)
  <2>1. HeadFrom(G, b, x, p)'
    BY <1>1, <1>2, <1>3, <1>4, <1>6 DEF HeadFrom
  <2>2. ~(b = BasketId(q) /\ x <= q /\ (p # Null => q < hash[p]))
    BY <1>1, <1>6 DEF HeadFrom
  <2> QED
    BY <2>1, <2>2
<1> QED
  BY <1>5, <1>6

\* Another node becomes the head of a hash, or all heads stay (n = old).
LEMMA HeadReplaced ==
  ASSUME NEW F, NEW G, TypeOf(F), TypeOf(G)', NEW old \in F, HeadOf(F, old),
         NEW n \in G, HeadOf(G, n)', hash'[n] = hash[old],
         \A m \in G : \E d \in F : hash[d] = hash'[m],
         \A m \in F : HeadOf(F, m) /\ m # old => m \in G /\ HeadOf(G, m)' /\ hash'[m] = hash[m],
         NEW b, NEW x \in Nat, NEW p, HeadFrom(F, b, x, p)
  PROVE  /\ p = old => HeadFrom(G, b, x, n)'
         /\ p # old => HeadFrom(G, b, x, p)'
<1>1. old # Null /\ n # Null
  BY Typed, NullAssumption DEF TypeOf, Filled
<1>2. ASSUME NEW m \in G, In(G, m, b)'
      PROVE  \E d \in F : In(F, d, b) /\ hash[d] = hash'[m]
  BY <1>2 DEF In
<1>3. CASE p = old
  BY <1>1, <1>2, <1>3 DEF HeadFrom, In
<1>4. CASE p # old
  BY <1>1, <1>2, <1>4 DEF HeadFrom, In
<1> QED
  BY <1>3, <1>4

\* The only node of a hash goes: a link to it becomes a link to the head after it.
LEMMA HashRemoved ==
  ASSUME NEW F, NEW G, TypeOf(F), TypeOf(G)', NEW old \in F, HeadOf(F, old), Goes(F, G, old),
         \A m \in F : m # old => /\ hash[m] # hash[old] /\ hash'[m] = hash[m]
                                 /\ (HeadOf(F, m) => HeadOf(G, m)'),
         NEW b, NEW x \in Nat, NEW p, HeadFrom(F, b, x, p)
  PROVE  /\ p # old => HeadFrom(G, b, x, p)'
         /\ p = old => \A r : HeadFrom(F, b, hash[old] + 1, r) => HeadFrom(G, b, x, r)'
<1> old \notin G /\ (\A m \in G : m \in F) /\ \A m \in F : m # old => m \in G
  BY DEF Goes
<1>1. old # Null /\ \A m \in F : hash[m] \in Nat
  BY Typed
<1>2. \A m \in G : In(G, m, b)' <=> In(F, m, b)
  BY DEF In
<1>3. \A m \in G : m \in F /\ m # old
  OBVIOUS
<1>4. CASE p # old
  BY <1>1, <1>2, <1>3, <1>4 DEF HeadFrom
<1>5. ASSUME p = old, NEW r, HeadFrom(F, b, hash[old] + 1, r)
      PROVE  HeadFrom(G, b, x, r)'
  <2>1. \A m \in G : In(F, m, b) /\ x <= hash[m] => hash[old] + 1 <= hash[m]
    <3>1. \A m \in F : In(F, m, b) /\ x <= hash[m] => hash[old] <= hash[m]
      BY <1>1, <1>5 DEF HeadFrom
    <3> QED
      BY <1>1, <1>3, <3>1
  <2>2. x <= hash[old]
    BY <1>1, <1>5 DEF HeadFrom
  <2> QED
    BY <1>1, <1>2, <1>3, <1>5, <2>1, <2>2 DEF HeadFrom
<1> QED
  BY <1>4, <1>5

\* A link passes over no node.
LEMMA LinkTight ==
  ASSUME NEW F, TypeOf(F), NEW b, NEW x \in Nat, NEW p, HeadFrom(F, b, x, p),
         NEW d \in F, In(F, d, b), x <= hash[d]
  PROVE  p # Null /\ p \in F /\ In(F, p, b) /\ x <= hash[p] /\ hash[p] <= hash[d]
<1>1. hash[d] \in Nat
  BY Typed
<1> QED
  BY <1>1 DEF HeadFrom

\* The links are right after a step if each of them is.
LEMMA LinksAfter ==
  ASSUME NEW G, TypeOf(G)',
         \A b \in Basket : \E p : p = baskets'[b] /\ HeadFrom(G, b, 0, p)',
         \A m \in Node :
            IF m \in G /\ HeadOf(G, m)'
            THEN \E b, x, p : /\ b = BasketId(hash'[m]) /\ x = hash'[m] + 1 /\ p = fwdPtrH'[m]
                              /\ HeadFrom(G, b, x, p)'
            ELSE fwdPtrH'[m] = Null
  PROVE  HeadsLinked(G)'
<1>1. \A m \in G : m \in Node /\ hash'[m] \in Nat
  BY DEF Filled, TypeOf, TypeOK
<1>2. \A b \in Basket : IsFirstHead(G, b, baskets[b])'
  BY <1>1 DEF IsFirstHead, HeadFrom
<1>3. \A m \in Node : m \in G /\ HeadOf(G, m)' => IsNextHead(G, m, fwdPtrH[m])'
  <2>1. SUFFICES ASSUME NEW m \in Node, m \in G, HeadOf(G, m)'
                 PROVE  IsNextHead(G, m, fwdPtrH[m])'
    OBVIOUS
  <2>2. PICK b, x, p : /\ b = BasketId(hash'[m]) /\ x = hash'[m] + 1 /\ p = fwdPtrH'[m]
                       /\ HeadFrom(G, b, x, p)'
    BY <2>1
  <2> QED
    BY <1>1, <2>1, <2>2 DEF IsNextHead, HeadFrom
<1> QED
  BY <1>2, <1>3 DEF HeadsLinked

\* The links before a step.
LEMMA Links ==
  ASSUME NEW F, ListsOf(F)
  PROVE  /\ \A b \in Basket : HeadFrom(F, b, 0, baskets[b])
         /\ \A m \in F : /\ m \in Node /\ hash[m] \in Nat /\ hash[m] + 1 \in Nat
                         /\ BasketId(hash[m]) \in Basket /\ In(F, m, BasketId(hash[m]))
                         /\ HeadOf(F, m) => HeadFrom(F, BasketId(hash[m]), hash[m] + 1, fwdPtrH[m])
         /\ \A m \in Node : ~(m \in F /\ HeadOf(F, m)) => fwdPtrH[m] = Null
<1>1. TypeOf(F) /\ HeadsLinked(F)
  BY DEF ListsOf
<1>2. \A m \in F : m \in Node /\ hash[m] \in Nat /\ hash[m] + 1 \in Nat
                        /\ BasketId(hash[m]) \in Basket /\ In(F, m, BasketId(hash[m]))
  BY <1>1, Typed, Hashed DEF In
<1> QED
  BY <1>1, <1>2, LinksOfHeads

\* Only one link leads to a head.
LEMMA OneLink ==
  ASSUME NEW F, ListsOf(F), NEW p, p # Null
  PROVE  /\ \A b \in Basket : baskets[b] = p =>
               /\ \A a \in Basket : baskets[a] = p => a = b
               /\ \A m \in Node : fwdPtrH[m] # p
         /\ \A c, m \in Node : fwdPtrH[c] = p /\ fwdPtrH[m] = p => c = m
<1>1. TypeOf(F) /\ KeysHashed(F)
  BY DEF ListsOf
<1>2. ASSUME NEW b \in Basket, baskets[b] = p
      PROVE  b = BasketId(hash[p]) /\ \A d \in F : In(F, d, b) => hash[p] <= hash[d]
  <2>1. HeadFrom(F, b, 0, p)
    BY <1>2, Links
  <2> QED
    BY <1>1, <2>1, Typed DEF HeadFrom, In
<1>3. ASSUME NEW m \in Node, fwdPtrH[m] = p
      PROVE  /\ m \in F /\ HeadOf(F, m) /\ In(F, m, BasketId(hash[p]))
             /\ hash[m] \in Nat /\ hash[p] \in Nat /\ hash[m] < hash[p]
             /\ \A d \in F : In(F, d, BasketId(hash[p])) /\ hash[m] < hash[d] => hash[p] <= hash[d]
  <2>1. m \in F /\ HeadOf(F, m)
    BY <1>3, Links
  <2>2. HeadFrom(F, BasketId(hash[m]), hash[m] + 1, p)
    BY <1>3, <2>1, Links
  <2>3. BasketId(hash[m]) = BasketId(hash[p])
    BY <2>2 DEF HeadFrom, In
  <2>4. hash[m] \in Nat /\ p \in F /\ \A d \in F : hash[d] \in Nat
    BY <1>1, <2>2, Typed DEF HeadFrom
  <2>5. /\ hash[m] + 1 <= hash[p]
        /\ \A d \in F : In(F, d, BasketId(hash[p])) /\ hash[m] + 1 <= hash[d] => hash[p] <= hash[d]
    BY <2>2, <2>3 DEF HeadFrom
  <2> QED
    BY <2>1, <2>3, <2>4, <2>5 DEF In
<1>4. ASSUME NEW b \in Basket, baskets[b] = p, NEW m \in Node, fwdPtrH[m] = p
      PROVE  FALSE
  BY <1>2, <1>3, <1>4
<1>5. ASSUME NEW c \in Node, NEW m \in Node, fwdPtrH[c] = p, fwdPtrH[m] = p
      PROVE  c = m
  <2>1. hash[c] = hash[m]
    BY <1>3, <1>5
  <2> QED
    BY <1>1, <1>3, <1>5, <2>1, HeadUnique
<1> QED
  BY <1>2, <1>4, <1>5

\* insertN hangs the queue of a new hash from its basket.
LEMMA QueueFromBasket ==
  ASSUME NEW F, NEW G, ListsOf(F), TypeOf(G)', NEW n \in Node, Comes(F, G, n),
         NEW q \in Nat, hash'[n] = q, HeadOf(G, n)',
         \A m \in F : hash[m] # q /\ hash'[m] = hash[m] /\ (HeadOf(G, m)' <=> HeadOf(F, m)),
         NEW b, b = BasketId(q), baskets[b] # Null => q < hash[baskets[b]],
         baskets' = [baskets EXCEPT ![b] = n],
         fwdPtrH' = [fwdPtrH EXCEPT ![n] = baskets[b]]
  PROVE  HeadsLinked(G)'
<1> n \notin F /\ n \in G /\ (\A m \in F : m \in G) /\ \A m \in G : m \in F \/ m = n
  BY DEF Comes
<1>1. TypeOf(F) /\ b \in Basket /\ \A m \in F : m # n
  BY Hashed DEF ListsOf
<1>2. baskets' \in [Basket -> Node \cup {Null}] /\ baskets'[b] = n
      /\ \A a \in Basket : a # b => baskets'[a] = baskets[a]
  BY <1>1 DEF TypeOf, TypeOK
<1>3. fwdPtrH'[n] = baskets[b] /\ \A m \in Node : m # n => fwdPtrH'[m] = fwdPtrH[m]
  BY DEF TypeOf, TypeOK
<1>4. HeadFrom(G, b, 0, n)' /\ HeadFrom(F, b, q + 1, baskets[b])
      /\ \A p : p = baskets[b] => HeadFrom(G, b, q + 1, p)'
  <2>1. PICK p : p = baskets[b]
    OBVIOUS
  <2>2. HeadFrom(F, b, 0, p)
    BY <1>1, <2>1, Links
  <2>3. HeadFrom(G, b, 0, n)' /\ HeadFrom(G, b, q + 1, p)'
    BY <1>1, <2>1, <2>2, HashAdded
  <2>4. HeadFrom(F, b, q + 1, p)
    <3>1. \A m \in F : hash[m] \in Nat
      BY <1>1, Typed
    <3> QED
      BY <2>1, <2>2, <3>1 DEF HeadFrom
  <2> QED
    BY <2>1, <2>3, <2>4
<1>5. ASSUME NEW a \in Basket PROVE \E p : p = baskets'[a] /\ HeadFrom(G, a, 0, p)'
  <2>1. CASE a = b
    BY <1>2, <1>4, <2>1
  <2>2. CASE a # b
    <3>1. PICK p : p = baskets[a]
      OBVIOUS
    <3>2. HeadFrom(F, a, 0, p)
      BY <3>1, Links
    <3>3. HeadFrom(G, a, 0, p)'
      BY <1>1, <2>2, <3>2, HashAdded
    <3> QED
      BY <1>2, <2>2, <3>1, <3>3
  <2> QED
    BY <2>1, <2>2
<1>6. ASSUME NEW m \in Node, m \in G, HeadOf(G, m)'
      PROVE  \E a, x, p : /\ a = BasketId(hash'[m]) /\ x = hash'[m] + 1 /\ p = fwdPtrH'[m]
                          /\ HeadFrom(G, a, x, p)'
  <2>1. CASE m = n
    BY <1>3, <1>4, <2>1
  <2>2. CASE m # n
    <3>1. /\ m \in F /\ HeadOf(F, m) /\ fwdPtrH'[m] = fwdPtrH[m] /\ hash'[m] = hash[m]
      BY <1>3, <1>6, <2>2
    <3>2. PICK a, x, p : a = BasketId(hash[m]) /\ x = hash[m] + 1 /\ p = fwdPtrH[m]
      OBVIOUS
    <3>3. HeadFrom(F, a, x, p) /\ x \in Nat /\ In(F, m, a) /\ hash[m] \in Nat
      BY <3>1, <3>2, Links
    <3>4. a = b => q < x
      <4>1. SUFFICES ASSUME a = b PROVE q < x
        OBVIOUS
      <4>2. HeadFrom(F, b, 0, baskets[b])
        BY <1>1, Links
      <4>3. baskets[b] # Null /\ baskets[b] \in F /\ hash[baskets[b]] <= hash[m]
        BY <1>1, <3>1, <3>3, <4>1, <4>2, LinkTight
      <4> QED
        BY <1>1, <3>2, <3>3, <4>3, Typed
    <3>5. HeadFrom(G, a, x, p)'
      BY <1>1, <3>3, <3>4, HashAdded
    <3> QED
      BY <3>1, <3>2, <3>5
  <2> QED
    BY <2>1, <2>2
<1>7. ASSUME NEW m \in Node, ~(m \in G /\ HeadOf(G, m)')
      PROVE  fwdPtrH'[m] = Null
  <2>1. m # n /\ ~(m \in F /\ HeadOf(F, m))
    BY <1>7
  <2> QED
    BY <1>3, <2>1, Links
<1> QED
  BY <1>5, <1>6, <1>7, LinksAfter

\* insertN hangs the queue of a new hash from the last head before the hash.
LEMMA QueueFromHead ==
  ASSUME NEW F, NEW G, ListsOf(F), TypeOf(G)', NEW n \in Node, Comes(F, G, n),
         NEW q \in Nat, hash'[n] = q, HeadOf(G, n)',
         \A m \in F : hash[m] # q /\ hash'[m] = hash[m] /\ (HeadOf(G, m)' <=> HeadOf(F, m)),
         NEW c \in BeforeIn(F, BasketId(q), q), fwdPtrH[c] # Null => q < hash[fwdPtrH[c]],
         baskets' = baskets,
         fwdPtrH' = [fwdPtrH EXCEPT ![n] = fwdPtrH[c], ![c] = n]
  PROVE  HeadsLinked(G)'
<1> n \notin F /\ n \in G /\ (\A m \in F : m \in G) /\ \A m \in G : m \in F \/ m = n
  BY DEF Comes
<1> DEFINE b == BasketId(q)
<1>1. /\ TypeOf(F) /\ KeysHashed(F) /\ c \in F /\ c \in Node /\ c # n /\ HeadOf(F, c) /\ In(F, c, b)
      /\ hash[c] < q /\ hash[c] \in Nat /\ BasketId(hash[c]) = b /\ b \in Basket
      /\ HeadFrom(F, b, hash[c] + 1, fwdPtrH[c])
  BY Links, Hashed DEF ListsOf, BeforeIn, In
<1> HIDE DEF b
<1>2. /\ fwdPtrH'[n] = fwdPtrH[c] /\ fwdPtrH'[c] = n
      /\ \A m \in Node : m # n /\ m # c => fwdPtrH'[m] = fwdPtrH[m]
  BY <1>1 DEF TypeOf, TypeOK
<1>3. \A p, x : p = fwdPtrH[c] /\ x = hash[c] + 1 => HeadFrom(G, b, x, n)' /\ HeadFrom(G, b, q + 1, p)'
  <2>1. SUFFICES ASSUME NEW p, NEW x, p = fwdPtrH[c], x = hash[c] + 1
                 PROVE  HeadFrom(G, b, x, n)' /\ HeadFrom(G, b, q + 1, p)'
    OBVIOUS
  <2>2. HeadFrom(F, b, x, p) /\ x \in Nat /\ x <= q /\ (p # Null => q < hash[p])
    BY <1>1, <2>1
  <2> QED
    BY <1>1, <2>2, HashAdded DEF b
<1>4. ASSUME NEW a \in Basket PROVE \E p : p = baskets'[a] /\ HeadFrom(G, a, 0, p)'
  <2>1. PICK p : p = baskets[a]
    OBVIOUS
  <2>2. HeadFrom(F, a, 0, p)
    BY <2>1, Links
  <2>3. a = b => p # Null /\ hash[p] < q
    <3>1. SUFFICES ASSUME a = b PROVE p # Null /\ hash[p] < q
      OBVIOUS
    <3>2. p # Null /\ p \in F /\ hash[p] <= hash[c]
      BY <1>1, <2>2, <3>1, LinkTight
    <3> QED
      BY <1>1, <3>2, Typed
  <2>4. HeadFrom(G, a, 0, p)'
    BY <1>1, <2>2, <2>3, HashAdded DEF b
  <2> QED
    BY <2>1, <2>4
<1>5. ASSUME NEW m \in Node, m \in G, HeadOf(G, m)'
      PROVE  \E a, x, p : /\ a = BasketId(hash'[m]) /\ x = hash'[m] + 1 /\ p = fwdPtrH'[m]
                          /\ HeadFrom(G, a, x, p)'
  <2>1. CASE m = n
    BY <1>2, <1>3, <2>1 DEF b
  <2>2. CASE m = c
    BY <1>1, <1>2, <1>3, <2>2
  <2>3. CASE m # n /\ m # c
    <3>1. /\ m \in F /\ HeadOf(F, m) /\ fwdPtrH'[m] = fwdPtrH[m] /\ hash'[m] = hash[m]
      BY <1>2, <1>5, <2>3
    <3>2. PICK a, x, p : a = BasketId(hash[m]) /\ x = hash[m] + 1 /\ p = fwdPtrH[m]
      OBVIOUS
    <3>3. HeadFrom(F, a, x, p) /\ x \in Nat /\ In(F, m, a) /\ hash[m] \in Nat /\ hash[m] # q
      BY <3>1, <3>2, Links
    <3>4. a = b /\ ~(q < x) => p # Null /\ hash[p] < q
      <4>1. SUFFICES ASSUME a = b, ~(q < x) PROVE p # Null /\ hash[p] < q
        OBVIOUS
      <4>2. hash[m] < q
        BY <3>2, <3>3, <4>1
      <4>3. hash[m] # hash[c]
        BY <1>1, <2>3, <3>1, HeadUnique
      <4>4. ~(hash[c] < hash[m])
        <5>1. SUFFICES ASSUME hash[c] + 1 <= hash[m] PROVE FALSE
          BY <1>1, <3>3
        <5>2. fwdPtrH[c] # Null /\ fwdPtrH[c] \in F /\ hash[fwdPtrH[c]] <= hash[m]
          BY <1>1, <3>1, <3>3, <4>1, <5>1, LinkTight
        <5> QED
          BY <1>1, <3>3, <4>2, <5>2, Typed
      <4>5. x <= hash[c]
        BY <1>1, <3>2, <3>3, <4>3, <4>4
      <4>6. p # Null /\ p \in F /\ hash[p] <= hash[c]
        BY <1>1, <3>3, <4>1, <4>5, LinkTight
      <4> QED
        BY <1>1, <4>6, Typed
    <3>5. HeadFrom(G, a, x, p)'
      BY <1>1, <3>3, <3>4, HashAdded DEF b
    <3> QED
      BY <3>1, <3>2, <3>5
  <2> QED
    BY <2>1, <2>2, <2>3
<1>6. ASSUME NEW m \in Node, ~(m \in G /\ HeadOf(G, m)')
      PROVE  fwdPtrH'[m] = Null
  <2>1. m # n /\ m # c /\ ~(m \in F /\ HeadOf(F, m))
    BY <1>1, <1>6
  <2> QED
    BY <1>2, <2>1, Links
<1> QED
  BY <1>4, <1>5, <1>6, LinksAfter

\* n takes the place of head old of its queue, in all links.
LEMMA HeadMoved ==
  ASSUME NEW F, NEW G, ListsOf(F), TypeOf(G)', NEW old \in F, HeadOf(F, old), NEW n \in Node, n # old,
         ~(n \in F /\ HeadOf(F, n)),
         n \in G, HeadOf(G, n)', hash'[n] = hash[old], ~(old \in G /\ HeadOf(G, old)'),
         \A m \in G : \E d \in F : hash[d] = hash'[m],
         \A m \in F : HeadOf(F, m) /\ m # old => m \in G /\ HeadOf(G, m)' /\ hash'[m] = hash[m],
         \A m \in G : HeadOf(G, m)' /\ m # n => m \in F /\ HeadOf(F, m),
         \A b \in Basket : baskets'[b] = IF baskets[b] = old THEN n ELSE baskets[b],
         \A m \in Node : fwdPtrH'[m] = IF m = n THEN fwdPtrH[old]
                                       ELSE IF m = old THEN Null
                                       ELSE IF fwdPtrH[m] = old THEN n ELSE fwdPtrH[m]
  PROVE  HeadsLinked(G)'
<1>1. TypeOf(F)
  BY DEF ListsOf
<1>2. ASSUME NEW b, NEW x \in Nat, NEW p, HeadFrom(F, b, x, p)
      PROVE  (p = old => HeadFrom(G, b, x, n)') /\ (p # old => HeadFrom(G, b, x, p)')
  BY <1>1, <1>2, HeadReplaced
<1>3. ASSUME NEW b \in Basket PROVE \E p : p = baskets'[b] /\ HeadFrom(G, b, 0, p)'
  <2>1. PICK p : p = baskets[b]
    OBVIOUS
  <2>2. HeadFrom(F, b, 0, p)
    BY <2>1, Links
  <2> QED
    BY <1>2, <2>1, <2>2
<1>4. ASSUME NEW m \in Node, m \in G, HeadOf(G, m)'
      PROVE  \E b, x, p : /\ b = BasketId(hash'[m]) /\ x = hash'[m] + 1 /\ p = fwdPtrH'[m]
                          /\ HeadFrom(G, b, x, p)'
  <2>1. CASE m = n
    <3>1. PICK b, x, p : b = BasketId(hash[old]) /\ x = hash[old] + 1 /\ p = fwdPtrH[old]
      OBVIOUS
    <3>2. HeadFrom(F, b, x, p) /\ x \in Nat /\ hash[old] \in Nat
      BY <3>1, Links
    <3>3. p # old
      BY <1>1, <3>1, <3>2, Typed DEF HeadFrom
    <3>4. HeadFrom(G, b, x, p)'
      BY <1>2, <3>2, <3>3
    <3> QED
      BY <2>1, <3>1, <3>4
  <2>2. CASE m # n
    <3>1. m \in F /\ HeadOf(F, m) /\ m # old /\ hash'[m] = hash[m]
      BY <1>4, <2>2
    <3>2. PICK b, x, p : b = BasketId(hash[m]) /\ x = hash[m] + 1 /\ p = fwdPtrH[m]
      OBVIOUS
    <3>3. HeadFrom(F, b, x, p) /\ x \in Nat
      BY <3>1, <3>2, Links
    <3> QED
      BY <1>2, <2>2, <3>1, <3>2, <3>3, Zenon
  <2> QED
    BY <2>1, <2>2
<1>5. ASSUME NEW m \in Node, ~(m \in G /\ HeadOf(G, m)')
      PROVE  fwdPtrH'[m] = Null
  <2>1. m # n /\ (m # old => ~(m \in F /\ HeadOf(F, m)))
    BY <1>5
  <2>2. m # old => fwdPtrH[m] = Null
    BY <2>1, Links
  <2>3. old # Null
    BY <1>1, Typed
  <2> QED
    BY <2>1, <2>2, <2>3
<1> QED
  BY <1>1, <1>3, <1>4, <1>5, LinksAfter

\* The only node of a hash goes, and the link to it leads to the next head.
LEMMA HeadGone ==
  ASSUME NEW F, NEW G, ListsOf(F), TypeOf(G)', NEW old \in F, HeadOf(F, old), Goes(F, G, old),
         \A m \in F : m # old => /\ hash[m] # hash[old] /\ hash'[m] = hash[m]
                                 /\ (HeadOf(G, m)' <=> HeadOf(F, m)),
         \A b \in Basket : baskets'[b] = IF baskets[b] = old THEN fwdPtrH[old] ELSE baskets[b],
         \A m \in Node : fwdPtrH'[m] = IF m = old THEN Null
                                       ELSE IF fwdPtrH[m] = old THEN fwdPtrH[old] ELSE fwdPtrH[m]
  PROVE  HeadsLinked(G)'
<1> old \notin G /\ (\A m \in G : m \in F) /\ \A m \in F : m # old => m \in G
  BY DEF Goes
<1>1. TypeOf(F) /\ old \in Node /\ old # Null
  BY Typed DEF ListsOf
<1>2. PICK r : r = fwdPtrH[old]
  OBVIOUS
<1>3. HeadFrom(F, BasketId(hash[old]), hash[old] + 1, r)
  BY <1>2, Links
<1>4. ASSUME NEW b, NEW x \in Nat, NEW p, HeadFrom(F, b, x, p)
      PROVE  (p = old => HeadFrom(G, b, x, r)') /\ (p # old => HeadFrom(G, b, x, p)')
  <2>1. p = old => b = BasketId(hash[old])
    BY <1>1, <1>4 DEF HeadFrom, In
  <2> QED
    BY <1>1, <1>3, <1>4, <2>1, HashRemoved
<1>5. ASSUME NEW b \in Basket PROVE \E p : p = baskets'[b] /\ HeadFrom(G, b, 0, p)'
  <2>1. PICK p : p = baskets[b]
    OBVIOUS
  <2>2. HeadFrom(F, b, 0, p)
    BY <2>1, Links
  <2> QED
    BY <1>2, <1>4, <2>1, <2>2
<1>6. ASSUME NEW m \in Node, m \in G, HeadOf(G, m)'
      PROVE  \E b, x, p : /\ b = BasketId(hash'[m]) /\ x = hash'[m] + 1 /\ p = fwdPtrH'[m]
                          /\ HeadFrom(G, b, x, p)'
  <2>1. m \in F /\ HeadOf(F, m) /\ m # old /\ hash'[m] = hash[m]
    BY <1>6
  <2>2. PICK b, x, p : b = BasketId(hash[m]) /\ x = hash[m] + 1 /\ p = fwdPtrH[m]
    OBVIOUS
  <2>3. HeadFrom(F, b, x, p) /\ x \in Nat
    BY <2>1, <2>2, Links
  <2> QED
    BY <1>2, <1>4, <2>1, <2>2, <2>3
<1>7. ASSUME NEW m \in Node, ~(m \in G /\ HeadOf(G, m)')
      PROVE  fwdPtrH'[m] = Null
  <2>1. m # old => ~(m \in F /\ HeadOf(F, m))
    BY <1>7
  <2>2. m # old => fwdPtrH[m] = Null
    BY <2>1, Links
  <2> QED
    BY <1>1, <2>2
<1> QED
  BY <1>1, <1>5, <1>6, <1>7, LinksAfter

\* All heads stay, and so do their hashes and their links.
LEMMA HeadsKept ==
  ASSUME NEW F, NEW G, ListsOf(F), TypeOf(G)', baskets' = baskets, fwdPtrH' = fwdPtrH,
         \A m \in G : \E d \in F : hash[d] = hash'[m],
         \A m \in Node : m \in G /\ HeadOf(G, m)' <=> m \in F /\ HeadOf(F, m),
         \A m \in F : HeadOf(F, m) => hash'[m] = hash[m]
  PROVE  HeadsLinked(G)'
<1>1. TypeOf(F) /\ \A m \in F : m \in Node
  BY Typed DEF ListsOf
<1>2. ASSUME NEW b, NEW x \in Nat, NEW p, HeadFrom(F, b, x, p)
      PROVE  HeadFrom(G, b, x, p)'
  <2>1. CASE p = Null
    BY <1>1, <1>2, <2>1 DEF HeadFrom, In
  <2>2. CASE p # Null
    <3>1. p \in F /\ HeadOf(F, p) /\ p \in G /\ HeadOf(G, p)' /\ hash'[p] = hash[p]
      BY <1>1, <1>2, <2>2 DEF HeadFrom
    <3>2. \A m \in F : HeadOf(F, m) /\ m # p => m \in G /\ HeadOf(G, m)' /\ hash'[m] = hash[m]
      BY <1>1
    <3> QED
      BY <1>1, <1>2, <3>1, <3>2, HeadReplaced
  <2> QED
    BY <2>1, <2>2
<1>3. ASSUME NEW b \in Basket PROVE \E p : p = baskets'[b] /\ HeadFrom(G, b, 0, p)'
  <2>1. PICK p : p = baskets[b]
    OBVIOUS
  <2> QED
    BY <1>2, <2>1, Links
<1>4. ASSUME NEW m \in Node, m \in G, HeadOf(G, m)'
      PROVE  \E b, x, p : /\ b = BasketId(hash'[m]) /\ x = hash'[m] + 1 /\ p = fwdPtrH'[m]
                          /\ HeadFrom(G, b, x, p)'
  <2>1. PICK b, x, p : b = BasketId(hash[m]) /\ x = hash[m] + 1 /\ p = fwdPtrH[m]
    OBVIOUS
  <2>2. HeadFrom(F, b, x, p) /\ x \in Nat /\ hash'[m] = hash[m]
    BY <1>4, <2>1, Links
  <2> QED
    BY <1>2, <2>1, <2>2
<1>5. \A m \in Node : ~(m \in G /\ HeadOf(G, m)') => fwdPtrH'[m] = Null
  BY Links
<1> QED
  BY <1>3, <1>4, <1>5, LinksAfter

(***************************************************************************)
(* The skip lists.  A pointer on level h leads to the first of the nodes   *)
(* behind its own that reach h.                                            *)
(***************************************************************************)
After(F, n) == {m \in F : hash[m] = hash[n] /\ key[n] < key[m]}

FirstOnLevel(S, h, p) ==
    IF p = Null THEN \A m \in S : curHeight[m] < h
    ELSE p \in S /\ h <= curHeight[p] /\ \A m \in S : h <= curHeight[m] => key[p] <= key[m]

\* The pointers before a step.
LEMMA Pointers ==
  ASSUME NEW F, ListsOf(F)
  PROVE  /\ \A m \in F : /\ m \in Node /\ m # Null /\ key[m] \in Nat /\ curHeight[m] \in 0 .. 2
                         /\ After(F, m) \subseteq F
                         /\ HeadOf(F, m) => curHeight[m] = 2
         /\ \A h \in Level : h \in 0 .. 2
         /\ \A m \in F, h \in Level :
               h <= curHeight[m] => FirstOnLevel(After(F, m), h, fwdPtrsL[m][h])
         /\ \A m \in Node, h \in Level :
               ~(m \in F /\ h <= curHeight[m]) => fwdPtrsL[m][h] = Null
         /\ \A m, d \in F : hash[m] = hash[d] =>
               /\ HeadOf(F, m) /\ m # d => key[m] < key[d] /\ d \in After(F, m) /\ m \notin After(F, d)
               /\ m \in After(F, d) \/ d \in After(F, m) \/ m = d
<1>1. TypeOf(F) /\ KeysHashed(F)
  BY DEF ListsOf
<1>2. \A m \in F : /\ m \in Node /\ m # Null /\ key[m] \in Nat /\ curHeight[m] \in 0 .. 2
                   /\ After(F, m) \subseteq F
  BY <1>1, Typed DEF After
<1>3. \A m \in F : HeadOf(F, m) => curHeight[m] = 2
  BY DEF ListsOf, QueuesLinked
<1>4. \A m \in F, h \in Level : h <= curHeight[m] => IsNextKey(F, m, h, fwdPtrsL[m][h])
  BY <1>2 DEF ListsOf, QueuesLinked
<1>5. \A m \in F, h \in Level :
         h <= curHeight[m] => FirstOnLevel(After(F, m), h, fwdPtrsL[m][h])
  BY <1>4 DEF IsNextKey, FirstOnLevel, After
<1>6. \A m \in Node, h \in Level : ~(m \in F /\ h <= curHeight[m]) => fwdPtrsL[m][h] = Null
  BY DEF ListsOf, QueuesLinked
<1>7. \A m, d \in F : hash[m] = hash[d] =>
               /\ HeadOf(F, m) /\ m # d => key[m] < key[d] /\ d \in After(F, m) /\ m \notin After(F, d)
               /\ m \in After(F, d) \/ d \in After(F, m) \/ m = d
  <2>1. SUFFICES ASSUME NEW m \in F, NEW d \in F, hash[m] = hash[d], m # d
                 PROVE  /\ HeadOf(F, m) => key[m] < key[d] /\ d \in After(F, m) /\ m \notin After(F, d)
                        /\ m \in After(F, d) \/ d \in After(F, m)
    OBVIOUS
  <2>2. key[m] # key[d] /\ key[m] \in Nat /\ key[d] \in Nat
    BY <1>1, <1>2, <2>1 DEF KeysHashed
  <2>3. HeadOf(F, m) => key[m] < key[d]
    BY <2>1, <2>2 DEF HeadOf
  <2> QED
    BY <2>1, <2>2, <2>3 DEF After
<1>8. \A h \in Level : h \in 0 .. 2
  BY DEF Level
<1> QED
  BY <1>2, <1>3, <1>5, <1>6, <1>7, <1>8

\* The pointers are right after a step if each of them is.
LEMMA PointersAfter ==
  ASSUME NEW G, TypeOf(G)', \A m \in G : HeadOf(G, m)' => curHeight'[m] = 2,
         \A m \in Node, h \in Level :
            IF m \in G /\ h <= curHeight'[m]
            THEN \E S, p : /\ S = After(G, m)' /\ p = fwdPtrsL'[m][h] /\ FirstOnLevel(S, h, p)'
            ELSE fwdPtrsL'[m][h] = Null
  PROVE  QueuesLinked(G)'
<1>1. \A m \in G : m \in Node
  BY DEF TypeOf, Filled
<1>2. \A m \in Node, h \in Level : m \in G /\ h <= curHeight'[m]
                                      => IsNextKey(G, m, h, fwdPtrsL[m][h])'
  <2>1. SUFFICES ASSUME NEW m \in Node, NEW h \in Level, m \in G, h <= curHeight'[m]
                 PROVE  IsNextKey(G, m, h, fwdPtrsL[m][h])'
    OBVIOUS
  <2>2. PICK S, p : /\ S = After(G, m)' /\ p = fwdPtrsL'[m][h] /\ FirstOnLevel(S, h, p)'
    BY <2>1
  <2>3. \A d : d \in S <=> d \in G /\ hash'[d] = hash'[m] /\ key'[m] < key'[d]
    BY <2>2 DEF After
  <2> QED
    BY <2>2, <2>3 DEF IsNextKey, FirstOnLevel
<1> QED
  BY <1>1, <1>2 DEF QueuesLinked

\* A node at whose queue nothing changes behind it.
LEMMA PointerKept ==
  ASSUME NEW S, NEW h, NEW p, FirstOnLevel(S, h, p),
         \A m \in S : key'[m] = key[m] /\ curHeight'[m] = curHeight[m]
  PROVE  FirstOnLevel(S, h, p)'
BY DEF FirstOnLevel

\* A queue of one node starts.
LEMMA QueueStarted ==
  ASSUME NEW F, NEW G, ListsOf(F), TypeOf(G)', NEW n \in Node, Comes(F, G, n),
         \A m \in F : /\ hash[m] # hash'[n] /\ hash'[m] = hash[m] /\ key'[m] = key[m]
                      /\ curHeight'[m] = curHeight[m] /\ (HeadOf(G, m)' <=> HeadOf(F, m)),
         curHeight'[n] = 2, fwdPtrsL' = fwdPtrsL
  PROVE  QueuesLinked(G)'
<1> n \notin F /\ n \in G /\ (\A m \in F : m \in G) /\ \A m \in G : m \in F \/ m = n
  BY DEF Comes
<1>1. \A m \in F : After(G, m)' = After(F, m)
  BY DEF After
<1>2. After(G, n)' = {}
  <2>1. n \in G
    OBVIOUS
  <2>2. key'[n] \in Key
    BY <2>1 DEF TypeOf, TypeOK, Filled
  <2>3. PICK k \in Nat : k = key'[n]
    BY <2>2, KeyAssumption
  <2> QED
    BY <2>3 DEF After
<1>3. \A m \in G : HeadOf(G, m)' => curHeight'[m] = 2
  BY Pointers
<1>4. ASSUME NEW m \in Node, NEW h \in Level, m \in G, h <= curHeight'[m]
      PROVE  \E S, p : S = After(G, m)' /\ p = fwdPtrsL'[m][h] /\ FirstOnLevel(S, h, p)'
  <2>1. CASE m = n
    <3>1. fwdPtrsL'[m][h] = Null
      BY <2>1, Pointers
    <3>2. FirstOnLevel({}, h, Null)'
      BY DEF FirstOnLevel
    <3> QED
      BY <1>2, <2>1, <3>1, <3>2
  <2>2. CASE m # n
    <3>1. PICK S, p : S = After(F, m) /\ p = fwdPtrsL[m][h]
      OBVIOUS
    <3>2. FirstOnLevel(S, h, p) /\ \A d \in S : d \in F
      BY <1>4, <2>2, <3>1, Pointers
    <3>3. FirstOnLevel(S, h, p)'
      BY <3>2, PointerKept
    <3> QED
      BY <1>1, <1>4, <2>2, <3>1, <3>3
  <2> QED
    BY <2>1, <2>2
<1>5. \A m \in Node, h \in Level : ~(m \in G /\ h <= curHeight'[m]) => fwdPtrsL'[m][h] = Null
  BY Pointers
<1> QED
  BY <1>3, <1>4, <1>5, PointersAfter

\* Node n with the smallest key of a queue takes the place of its head.
LEMMA HeadLowered ==
  ASSUME NEW F, NEW G, ListsOf(F), TypeOf(G)', NEW n \in Node, Comes(F, G, n),
         NEW old \in F, HeadOf(F, old), NEW ht \in Level,
         \A m \in F : hash'[m] = hash[m] /\ key'[m] = key[m],
         hash'[n] = hash[old], key'[n] \in Nat, key'[n] < key[old],
         LowerHead(n, old, ht)
  PROVE  QueuesLinked(G)'
<1> n \notin F /\ n \in G /\ (\A m \in F : m \in G) /\ \A m \in G : m \in F \/ m = n
  BY DEF Comes
<1>1. /\ n # old /\ old \in Node /\ key[old] \in Nat /\ ht \in 0 .. 2
      /\ \A m \in F : m \in Node /\ key[m] \in Nat /\ m # n
      /\ \A m \in F : hash[m] = hash[old] /\ m # old => key[old] < key[m]
  BY Pointers
<1>2. /\ curHeight'[n] = 2 /\ curHeight'[old] = ht
      /\ \A m \in Node : m # n /\ m # old => curHeight'[m] = curHeight[m]
  BY <1>1 DEF LowerHead, TypeOf, TypeOK
<1>3. /\ \A h \in Level : fwdPtrsL'[n][h] = IF h <= ht THEN old ELSE fwdPtrsL[old][h]
      /\ \A h \in Level : fwdPtrsL'[old][h] = IF h <= ht THEN fwdPtrsL[old][h] ELSE Null
      /\ \A m \in Node : m # n /\ m # old => fwdPtrsL'[m] = fwdPtrsL[m]
  <2>1. fwdPtrsL \in [Node -> [Level -> Node \cup {Null}]]
    BY DEF ListsOf, TypeOf, TypeOK
  <2> QED
    BY <1>1, <2>1 DEF LowerHead
<1>4. \A m \in F : After(G, m)' = After(F, m)
  <2>1. \A m \in F : hash[m] = hash[old] => ~(key[m] < key'[n])
    BY <1>1
  <2> QED
    BY <1>1, <2>1 DEF After
<1>5. After(G, n)' = After(F, old) \cup {old}
  BY <1>1 DEF After
<1>6. \A m \in F : old \notin After(F, m)
  BY <1>1 DEF After
<1>7. \A m \in G : HeadOf(G, m)' => curHeight'[m] = 2
  <2>1. SUFFICES ASSUME NEW m \in F, HeadOf(G, m)' PROVE curHeight'[m] = 2
    BY <1>2
  <2>2. m # old
    BY <1>1, <2>1 DEF HeadOf
  <2>3. HeadOf(F, m)
    BY <1>1, <2>1 DEF HeadOf
  <2> QED
    BY <1>1, <1>2, <2>2, <2>3, Pointers
<1>8. ASSUME NEW m \in Node, NEW h \in Level, m \in G, h <= curHeight'[m]
      PROVE  \E S, p : S = After(G, m)' /\ p = fwdPtrsL'[m][h] /\ FirstOnLevel(S, h, p)'
  <2>1. PICK S, p : S = After(F, old) /\ p = fwdPtrsL[old][h]
    OBVIOUS
  <2>2. /\ FirstOnLevel(S, h, p) /\ old \notin S /\ old # Null /\ h \in 0 .. 2
        /\ \A d \in S : /\ d \in F /\ key[d] \in Nat /\ key'[d] = key[d] /\ key[old] < key[d]
                        /\ curHeight'[d] = curHeight[d]
    <3>1. curHeight[old] = 2 /\ h \in 0 .. 2 /\ old # Null
      BY Pointers
    <3>2. FirstOnLevel(S, h, p)
      BY <2>1, <3>1, Pointers
    <3>3. \A d \in S : d \in F /\ key[old] < key[d]
      BY <2>1 DEF After
    <3> QED
      BY <1>1, <1>2, <1>6, <2>1, <3>1, <3>2, <3>3
  <2>3. FirstOnLevel(S, h, p)'
    BY <2>2, PointerKept
  <2>4. CASE m = n /\ h <= ht
    <3>1. FirstOnLevel(S \cup {old}, h, old)'
      BY <1>1, <1>2, <2>2, <2>4 DEF FirstOnLevel
    <3> QED
      BY <1>3, <1>5, <2>1, <2>4, <3>1
  <2>5. CASE m = n /\ ~(h <= ht)
    <3>1. FirstOnLevel(S \cup {old}, h, p)'
      BY <1>1, <1>2, <2>2, <2>3, <2>5 DEF FirstOnLevel
    <3> QED
      BY <1>3, <1>5, <2>1, <2>5, <3>1
  <2>6. CASE m = old
    <3>1. h <= ht
      BY <1>2, <1>8, <2>6
    <3> QED
      BY <1>3, <1>4, <2>1, <2>3, <2>6, <3>1
  <2>7. CASE m # n /\ m # old
    <3>1. m \in F /\ h <= curHeight[m]
      BY <1>2, <1>8, <2>7
    <3>2. PICK T, r : T = After(F, m) /\ r = fwdPtrsL[m][h]
      OBVIOUS
    <3>3. FirstOnLevel(T, h, r) /\ \A d \in T : key'[d] = key[d] /\ curHeight'[d] = curHeight[d]
      <4>1. FirstOnLevel(T, h, r)
        BY <3>1, <3>2, Pointers
      <4>2. \A d \in T : d \in F /\ d # old
        BY <1>6, <3>1, <3>2 DEF After
      <4> QED
        BY <1>1, <1>2, <4>1, <4>2
    <3>4. FirstOnLevel(T, h, r)'
      BY <3>3, PointerKept
    <3> QED
      BY <1>3, <1>4, <2>7, <3>1, <3>2, <3>4
  <2> QED
    BY <2>4, <2>5, <2>6, <2>7
<1>9. ASSUME NEW m \in Node, NEW h \in Level, ~(m \in G /\ h <= curHeight'[m])
      PROVE  fwdPtrsL'[m][h] = Null
  <2>1. m # n /\ h \in 0 .. 2
    BY <1>2, <1>9, Pointers
  <2>2. CASE m = old
    <3>1. ~(h <= ht)
      BY <1>2, <1>9, <2>2
    <3> QED
      BY <1>3, <2>2, <3>1
  <2>3. CASE m # old
    BY <1>2, <1>3, <1>9, <2>1, <2>3, Pointers
  <2> QED
    BY <2>2, <2>3
<1> QED
  BY <1>7, <1>8, <1>9, PointersAfter

\* Node n is linked behind the path to its key.
LEMMA NodeLinked ==
  ASSUME NEW F, NEW G, ListsOf(F), TypeOf(G)', NEW n \in Node, Comes(F, G, n),
         NEW head \in F, HeadOf(F, head), NEW ht \in Level, NEW k \in Nat, key[head] < k,
         \A m \in F : hash[m] = hash[head] => key[m] # k,
         \A m \in F : hash'[m] = hash[m] /\ key'[m] = key[m],
         hash'[n] = hash[head], key'[n] = k,
         LinkBelow(n, Path(head, k), ht)
  PROVE  QueuesLinked(G)'
<1> n \notin F /\ n \in G /\ (\A m \in F : m \in G) /\ \A m \in G : m \in F \/ m = n
  BY DEF Comes
<1> DEFINE q == hash[head]
           path == Path(head, k)
<1>1. /\ ht \in 0 .. 2 /\ n # Null
      /\ \A m \in F : m \in Node /\ key[m] \in Nat /\ curHeight[m] \in 0 .. 2 /\ m # n
  BY Pointers, NullAssumption
<1>2. curHeight'[n] = ht /\ \A m \in Node : m # n => curHeight'[m] = curHeight[m]
  BY DEF LinkBelow, ListsOf, TypeOf, TypeOK
<1>3. \A h \in Level :
         /\ path[h] \in F /\ hash[path[h]] = q /\ h <= curHeight[path[h]] /\ key[path[h]] < k
         /\ fwdPtrsL[path[h]][h] # Null => k <= key[fwdPtrsL[path[h]][h]]
         /\ \A m \in F : hash[m] = q /\ h <= curHeight[m] /\ key[m] < k
                                 => key[m] <= key[path[h]]
  BY PathFacts DEF Reaching
<1>4. \A m \in Node, h \in Level :
         fwdPtrsL'[m][h] = IF h <= ht /\ m = n THEN fwdPtrsL[path[h]][h]
                           ELSE IF h <= ht /\ m = path[h] THEN n ELSE fwdPtrsL[m][h]
  <2>1. fwdPtrsL' = [m \in Node |-> [h \in Level |->
           CASE h <= ht /\ m = n       -> fwdPtrsL[path[h]][h]
             [] h <= ht /\ m = path[h] -> n
             [] OTHER                  -> fwdPtrsL[m][h]]]
    BY DEF LinkBelow
  <2>2. \A h \in Level : path[h] # n
    BY <1>3
  <2> HIDE DEF path
  <2> QED
    BY <2>1, <2>2
<1> HIDE DEF q, path
<1>5. \A m \in F : After(G, m)' = IF hash[m] = q /\ key[m] < k THEN After(F, m) \cup {n} ELSE After(F, m)
  BY DEF After, q
<1>6. After(G, n)' = {m \in F : hash[m] = q /\ k < key[m]}
  BY <1>1 DEF After, q
<1>7. \A m \in G : HeadOf(G, m)' => curHeight'[m] = 2
  <2>1. SUFFICES ASSUME NEW m \in G, HeadOf(G, m)' PROVE curHeight'[m] = 2
    OBVIOUS
  <2>2. m # n
    BY <1>1, <2>1 DEF HeadOf
  <2>3. HeadOf(F, m)
    BY <1>1, <2>1, <2>2 DEF HeadOf
  <2> QED
    BY <1>1, <1>2, <2>2, <2>3, Pointers
<1>8. \A m \in F, h \in Level : h <= curHeight[m] =>
         /\ FirstOnLevel(After(F, m), h, fwdPtrsL[m][h])
         /\ \A d \in After(F, m) : d \in F /\ key'[d] = key[d] /\ curHeight'[d] = curHeight[d]
                                /\ hash[d] = hash[m] /\ key[m] < key[d]
  BY <1>1, <1>2, Pointers DEF After
<1>9. ASSUME NEW m \in Node, NEW h \in Level, m \in G, h <= curHeight'[m]
      PROVE  \E S, p : S = After(G, m)' /\ p = fwdPtrsL'[m][h] /\ FirstOnLevel(S, h, p)'
  <2>1. h \in 0 .. 2
    BY Pointers
  <2>2. PICK c : c = path[h]
    OBVIOUS
  <2>3. PICK S, p, T : S = After(F, c) /\ p = fwdPtrsL[c][h] /\ T = After(G, n)'
    OBVIOUS
  <2>4. /\ c \in F /\ hash[c] = q /\ h <= curHeight[c] /\ key[c] < k
        /\ p # Null => k <= key[p]
        /\ \A d \in F : hash[d] = q /\ h <= curHeight[d] /\ key[d] < k => key[d] <= key[c]
        /\ FirstOnLevel(S, h, p)
        /\ \A d \in S : d \in F /\ key'[d] = key[d] /\ curHeight'[d] = curHeight[d]
                        /\ hash[d] = q /\ key[c] < key[d]
    BY <1>3, <1>8, <2>2, <2>3
  <2>5. CASE m = n
    <3>1. h <= ht /\ fwdPtrsL'[m][h] = p
      BY <1>2, <1>4, <1>9, <2>2, <2>3, <2>5
    <3>2. \A d \in T : d \in S
      BY <1>1, <1>6, <2>3, <2>4 DEF After
    <3>3. p # Null => p \in T
      <4>1. p # Null => p \in S /\ key[p] # k
        BY <2>4 DEF FirstOnLevel, q
      <4> QED
        BY <1>1, <1>6, <2>3, <2>4, <4>1
    <3>4. FirstOnLevel(T, h, p)'
      BY <2>4, <3>2, <3>3 DEF FirstOnLevel
    <3> QED
      BY <2>3, <2>5, <3>1, <3>4
  <2>6. CASE m = c /\ h <= ht
    <3>1. fwdPtrsL'[m][h] = n /\ After(G, m)' = S \cup {n}
      BY <1>1, <1>4, <1>5, <2>2, <2>3, <2>4, <2>6
    <3>2. \A d \in S : h <= curHeight[d] => k <= key[d]
      BY <1>1, <2>4
    <3>3. FirstOnLevel(S \cup {n}, h, n)'
      BY <1>1, <1>2, <2>4, <2>6, <3>2 DEF FirstOnLevel
    <3> QED
      BY <3>1, <3>3
  <2>7. CASE m # n /\ ~(m = c /\ h <= ht)
    <3>1. m \in F /\ h <= curHeight[m] /\ fwdPtrsL'[m][h] = fwdPtrsL[m][h]
      BY <1>2, <1>4, <1>9, <2>2, <2>7
    <3>2. PICK U, r : U = After(F, m) /\ r = fwdPtrsL[m][h]
      OBVIOUS
    <3>3. /\ FirstOnLevel(U, h, r)
          /\ \A d \in U : d \in F /\ key'[d] = key[d] /\ curHeight'[d] = curHeight[d]
                          /\ hash[d] = hash[m] /\ key[m] < key[d]
      BY <1>8, <3>1, <3>2
    <3>4. FirstOnLevel(U, h, r)'
      BY <3>3, PointerKept
    <3>5. CASE ~(hash[m] = q /\ key[m] < k)
      BY <1>5, <3>1, <3>2, <3>4, <3>5
    <3>6. CASE hash[m] = q /\ key[m] < k
      <4>1. CASE ~(h <= ht)
        <5>1. FirstOnLevel(U \cup {n}, h, r)'
          BY <1>1, <1>2, <2>1, <3>3, <3>4, <4>1 DEF FirstOnLevel
        <5> QED
          BY <1>5, <3>1, <3>2, <3>6, <5>1
      <4>2. CASE h <= ht
        <5>1. m # c /\ key[m] <= key[c]
          BY <2>4, <2>7, <3>1, <3>6, <4>2
        <5>2. c \in U
          <6>1. key[m] # key[c]
            BY <2>4, <3>1, <5>1 DEF ListsOf, KeysHashed
          <6> QED
            BY <1>1, <2>4, <3>1, <3>2, <3>6, <5>1, <6>1 DEF After
        <5>3. r # Null /\ r \in U /\ key[r] <= key[c]
          BY <1>1, <2>1, <2>4, <3>3, <5>2 DEF FirstOnLevel
        <5>4. key[r] <= k
          BY <1>1, <2>4, <3>3, <5>3
        <5>5. FirstOnLevel(U \cup {n}, h, r)'
          BY <3>3, <3>4, <5>3, <5>4 DEF FirstOnLevel
        <5> QED
          BY <1>5, <3>1, <3>2, <3>6, <5>5
      <4> QED
        BY <4>1, <4>2
    <3> QED
      BY <3>5, <3>6
  <2> QED
    BY <2>5, <2>6, <2>7
<1>10. ASSUME NEW m \in Node, NEW h \in Level, ~(m \in G /\ h <= curHeight'[m])
       PROVE  fwdPtrsL'[m][h] = Null
  <2>1. h \in 0 .. 2
    BY Pointers
  <2>2. ~(h <= ht /\ m = n) /\ m # path[h]
    BY <1>1, <1>2, <1>3, <1>10
  <2>3. ~(m \in F /\ h <= curHeight[m])
    BY <1>1, <1>2, <1>10
  <2> QED
    BY <1>4, <2>2, <2>3, Pointers
<1> QED
  BY <1>7, <1>9, <1>10, PointersAfter

\* The second node of a queue follows its deleted head.
LEMMA SecondPromoted ==
  ASSUME NEW F, NEW G, ListsOf(F), TypeOf(G)', NEW n \in F, HeadOf(F, n), Goes(F, G, n),
         NEW second, second = fwdPtrsL[n][0], second # Null,
         hash' = hash, \A m \in G : key'[m] = key[m],
         PromoteSecond(n, second)
  PROVE  QueuesLinked(G)' /\ second \in G /\ hash[second] = hash[n] /\ HeadOf(G, second)'
<1> n \notin G /\ (\A m \in G : m \in F) /\ \A m \in F : m # n => m \in G
  BY DEF Goes
<1>1. /\ n \in Node /\ 0 \in Level /\ \A m \in F : m \in Node /\ m # Null /\ key[m] \in Nat
                                                        /\ curHeight[m] \in 0 .. 2
      /\ \A m \in F : hash[m] = hash[n] /\ m # n => m \in After(F, n) /\ key[n] < key[m]
  BY Pointers DEF Level
<1>2. /\ second \in After(F, n) /\ \A m \in After(F, n) : key[second] <= key[m]
      /\ second \in F /\ second # n /\ hash[second] = hash[n]
  <2>1. FirstOnLevel(After(F, n), 0, second)
    BY <1>1, Pointers
  <2>2. second \in After(F, n) /\ \A m \in After(F, n) : key[second] <= key[m]
    BY <1>1, <2>1 DEF FirstOnLevel, After
  <2>3. second \in F /\ second # n /\ hash[second] = hash[n]
    BY <1>1, <2>2 DEF After
  <2> QED
    BY <2>2, <2>3
<1>3. curHeight'[second] = 2 /\ \A m \in Node : m # second => curHeight'[m] = curHeight[m]
  BY <1>1, <1>2 DEF PromoteSecond, ListsOf, TypeOf, TypeOK
<1>4. \A m \in Node, h \in Level :
         fwdPtrsL'[m][h] = IF m = n THEN Null
                           ELSE IF m = second /\ h > curHeight[second] THEN fwdPtrsL[n][h]
                           ELSE fwdPtrsL[m][h]
  <2>1. fwdPtrsL \in [Node -> [Level -> Node \cup {Null}]]
    BY DEF ListsOf, TypeOf, TypeOK
  <2>2. second \in Node
    BY <1>1, <1>2
  <2> QED
    BY <1>1, <1>2, <2>1, <2>2 DEF PromoteSecond, NoLevels
<1>5. \A m \in G : m \in F /\ m # n /\ After(G, m)' = After(F, m) /\ n \notin After(F, m)
  BY <1>1 DEF After
<1>6. HeadOf(G, second)' /\ \A m \in G : HeadOf(G, m)' => m = second \/ HeadOf(F, m)
  <2>1. HeadOf(G, second)'
    BY <1>1, <1>2 DEF HeadOf
  <2>2. ASSUME NEW m \in G, HeadOf(G, m)', hash[m] = hash[n] PROVE m = second
    <3>1. key[m] <= key[second] /\ key[second] <= key[m]
      BY <1>1, <1>2, <2>2 DEF HeadOf
    <3>2. key[m] = key[second]
      BY <1>1, <1>2, <1>5, <2>2, <3>1
    <3> QED
      BY <1>2, <1>5, <2>2, <3>2 DEF ListsOf, KeysHashed
  <2>3. ASSUME NEW m \in G, HeadOf(G, m)', hash[m] # hash[n] PROVE HeadOf(F, m)
    BY <2>3 DEF HeadOf
  <2> QED
    BY <2>1, <2>2, <2>3
<1>7. \A m \in G : HeadOf(G, m)' => curHeight'[m] = 2
  BY <1>1, <1>3, <1>5, <1>6, Pointers
<1>8. ASSUME NEW m \in Node, NEW h \in Level, m \in G, h <= curHeight'[m]
      PROVE  \E S, p : S = After(G, m)' /\ p = fwdPtrsL'[m][h] /\ FirstOnLevel(S, h, p)'
  <2>1. h \in 0 .. 2 /\ curHeight[n] = 2 /\ m \in F /\ m # n
    BY <1>5, <1>8, Pointers
  <2>2. PICK S : S = After(F, m)
    OBVIOUS
  <2>3. \A d \in S : /\ d \in F /\ key'[d] = key[d] /\ hash[d] = hash[m] /\ key[m] < key[d]
                     /\ d # n
    BY <1>5, <1>8, <2>1, <2>2 DEF After
  <2>4. second \notin S /\ \A d \in S : curHeight'[d] = curHeight[d]
    <3>1. ASSUME second \in S PROVE FALSE
      <4>1. hash[m] = hash[n] /\ key[m] < key[second]
        BY <1>2, <2>3, <3>1
      <4>2. key[second] <= key[m]
        BY <1>1, <1>2, <2>1, <4>1
      <4> QED
        BY <1>1, <1>2, <2>1, <4>1, <4>2
    <3> QED
      BY <1>1, <1>3, <2>3, <3>1
  <2>5. CASE m = second /\ h > curHeight[second]
    <3>1. PICK p : p = fwdPtrsL[n][h]
      OBVIOUS
    <3>2. FirstOnLevel(After(F, n), h, p)
      BY <2>1, <3>1, Pointers
    <3>3. \A d \in S : d \in After(F, n)
      BY <1>1, <1>2, <2>3, <2>5
    <3>4. p # Null => p \in S
      <4>1. SUFFICES ASSUME p # Null PROVE p \in S
        OBVIOUS
      <4>2. p \in After(F, n) /\ h <= curHeight[p] /\ key[second] <= key[p]
        BY <1>2, <3>2, <4>1 DEF FirstOnLevel
      <4>3. p \in F /\ hash[p] = hash[n] /\ p # second
        BY <1>1, <1>2, <2>1, <2>5, <4>2 DEF After
      <4>4. key[p] # key[second]
        BY <1>2, <4>3 DEF ListsOf, KeysHashed
      <4> QED
        BY <1>1, <1>2, <2>2, <2>5, <4>2, <4>3, <4>4 DEF After
    <3>5. FirstOnLevel(S, h, p)'
      BY <2>3, <2>4, <3>2, <3>3, <3>4 DEF FirstOnLevel
    <3> QED
      BY <1>4, <1>5, <1>8, <2>1, <2>2, <2>5, <3>1, <3>5
  <2>6. CASE ~(m = second /\ h > curHeight[second])
    <3>1. h <= curHeight[m] /\ fwdPtrsL'[m][h] = fwdPtrsL[m][h]
      BY <1>1, <1>2, <1>3, <1>4, <1>8, <2>1, <2>6
    <3>2. PICK p : p = fwdPtrsL[m][h]
      OBVIOUS
    <3>3. FirstOnLevel(S, h, p)
      BY <2>1, <2>2, <3>1, <3>2, Pointers
    <3>4. FirstOnLevel(S, h, p)'
      BY <2>3, <2>4, <3>3, PointerKept
    <3> QED
      BY <1>5, <1>8, <2>2, <3>1, <3>2, <3>4
  <2> QED
    BY <2>5, <2>6
<1>9. ASSUME NEW m \in Node, NEW h \in Level, ~(m \in G /\ h <= curHeight'[m])
      PROVE  fwdPtrsL'[m][h] = Null
  <2>1. CASE m = n
    BY <1>4, <2>1
  <2>2. CASE m # n
    <3>1. m # second
      BY <1>2, <1>3, <1>9, Pointers
    <3> QED
      BY <1>3, <1>4, <1>9, <2>2, <3>1, Pointers
  <2> QED
    BY <2>1, <2>2
<1> QED
  BY <1>2, <1>6, <1>7, <1>8, <1>9, PointersAfter

\* The only node of a queue goes.
LEMMA QueueGone ==
  ASSUME NEW F, NEW G, ListsOf(F), TypeOf(G)', NEW n \in F, Goes(F, G, n),
         \A m \in F : hash[m] = hash[n] => m = n,
         hash' = hash, \A m \in G : key'[m] = key[m],
         curHeight' = curHeight, fwdPtrsL' = [fwdPtrsL EXCEPT ![n] = NoLevels]
  PROVE  QueuesLinked(G)' /\ \A m \in G : HeadOf(G, m)' <=> HeadOf(F, m)
<1> n \notin G /\ (\A m \in G : m \in F) /\ \A m \in F : m # n => m \in G
  BY DEF Goes
<1>1. \A m \in G : m \in F /\ m # n /\ After(G, m)' = After(F, m) /\ n \notin After(F, m)
  BY DEF After
<1>2. \A m \in G : HeadOf(G, m)' <=> HeadOf(F, m)
  BY DEF HeadOf
<1>3. \A m \in Node, h \in Level :
         fwdPtrsL'[m][h] = IF m = n THEN Null ELSE fwdPtrsL[m][h]
  BY DEF ListsOf, TypeOf, TypeOK, NoLevels
<1>4. ASSUME NEW m \in Node, NEW h \in Level, m \in G, h <= curHeight'[m]
      PROVE  \E S, p : S = After(G, m)' /\ p = fwdPtrsL'[m][h] /\ FirstOnLevel(S, h, p)'
  <2>1. PICK S, p : S = After(F, m) /\ p = fwdPtrsL[m][h]
    OBVIOUS
  <2>2. FirstOnLevel(S, h, p) /\ \A d \in S : d \in F /\ d # n
    BY <1>1, <1>4, <2>1, Pointers
  <2>3. FirstOnLevel(S, h, p)'
    BY <2>2, PointerKept
  <2> QED
    BY <1>1, <1>3, <1>4, <2>1, <2>3
<1>5. \A m \in Node, h \in Level : ~(m \in G /\ h <= curHeight'[m]) => fwdPtrsL'[m][h] = Null
  BY <1>3, Pointers
<1>6. \A m \in G : HeadOf(G, m)' => curHeight'[m] = 2
  BY <1>1, <1>2, Pointers
<1> QED
  BY <1>2, <1>4, <1>5, <1>6, PointersAfter

\* A node behind the head of its queue is unlinked on all its levels.
LEMMA NodeUnlinked ==
  ASSUME NEW F, NEW G, ListsOf(F), TypeOf(G)', NEW n \in F, Goes(F, G, n),
         NEW head \in F, HeadOf(F, head), hash[head] = hash[n], head # n,
         hash' = hash, \A m \in G : key'[m] = key[m],
         DelInSameHashCmp3(n, head)
  PROVE  QueuesLinked(G)' /\ \A m \in G : HeadOf(G, m)' <=> HeadOf(F, m)
<1> n \notin G /\ (\A m \in G : m \in F) /\ \A m \in F : m # n => m \in G
  BY DEF Goes
<1> DEFINE k == key[n]
           path == Path(head, k)
<1>1. /\ n \in Node /\ n # Null /\ k \in Nat /\ key[head] < k /\ curHeight[n] \in 0 .. 2
      /\ \A m \in F : m \in Node /\ m # Null /\ key[m] \in Nat /\ curHeight[m] \in 0 .. 2
  BY Pointers
<1>2. \A h \in Level :
         /\ path[h] \in F /\ hash[path[h]] = hash[n] /\ h <= curHeight[path[h]]
         /\ key[path[h]] < k /\ path[h] # n
         /\ fwdPtrsL[path[h]][h] # Null => k <= key[fwdPtrsL[path[h]][h]]
         /\ \A m \in F : hash[m] = hash[n] /\ h <= curHeight[m] /\ key[m] < k
                                 => key[m] <= key[path[h]]
  BY <1>1, PathFacts DEF Reaching
<1>3. curHeight' = curHeight /\ \A m \in Node, h \in Level :
         fwdPtrsL'[m][h] = IF m = n THEN Null
                           ELSE IF h <= curHeight[n] /\ m = path[h] THEN fwdPtrsL[n][h]
                           ELSE fwdPtrsL[m][h]
  <2>1. curHeight' = curHeight /\ fwdPtrsL' = [m \in Node |-> [h \in Level |->
               CASE m = n -> Null
                 [] h <= curHeight[n] /\ m = path[h] -> fwdPtrsL[n][h]
                 [] OTHER -> fwdPtrsL[m][h]]]
    BY DEF DelInSameHashCmp3
  <2> HIDE DEF path
  <2> QED
    BY <1>2, <2>1
<1> HIDE DEF path, k
<1>4. \A m \in G : m \in F /\ m # n /\ After(G, m)' = After(F, m) \ {n}
  BY DEF After
<1>5. \A m \in G : HeadOf(G, m)' <=> HeadOf(F, m)
  <2>1. SUFFICES ASSUME NEW m \in G PROVE HeadOf(G, m)' <=> HeadOf(F, m)
    OBVIOUS
  <2>2. HeadOf(F, m) => HeadOf(G, m)'
    BY <1>4 DEF HeadOf
  <2>3. HeadOf(G, m)' => HeadOf(F, m)
    <3>1. SUFFICES ASSUME HeadOf(G, m)' PROVE HeadOf(F, m)
      OBVIOUS
    <3>2. \A d \in F : d # n /\ hash[d] = hash[m] => key[m] <= key[d]
      BY <1>4, <3>1 DEF HeadOf
    <3>3. hash[n] = hash[m] => key[m] <= key[n]
      BY <1>1, <1>4, <3>2 DEF k
    <3> QED
      BY <3>2, <3>3 DEF HeadOf
  <2> QED
    BY <2>2, <2>3
<1>6. \A m \in G : HeadOf(G, m)' => curHeight'[m] = 2
  BY <1>3, <1>4, <1>5, Pointers
<1>7. ASSUME NEW m \in Node, NEW h \in Level, m \in G, h <= curHeight'[m]
      PROVE  \E S, p : S = After(G, m)' /\ p = fwdPtrsL'[m][h] /\ FirstOnLevel(S, h, p)'
  <2>1. h \in 0 .. 2 /\ m \in F /\ m # n /\ h <= curHeight[m]
    BY <1>3, <1>4, <1>7, Pointers
  <2>2. PICK S, p : S = After(F, m) /\ p = fwdPtrsL[m][h]
    OBVIOUS
  <2>3. /\ FirstOnLevel(S, h, p)
        /\ \A d \in S : d \in F /\ hash[d] = hash[m] /\ key[m] < key[d]
                        /\ curHeight'[d] = curHeight[d] /\ (d # n => key'[d] = key[d])
    BY <1>3, <1>4, <2>1, <2>2, Pointers DEF After
  <2>4. CASE h <= curHeight[n] /\ m = path[h]
    <3>1. PICK r : r = fwdPtrsL[n][h]
      OBVIOUS
    <3>2. FirstOnLevel(After(F, n), h, r) /\ fwdPtrsL'[m][h] = r
      BY <1>3, <2>1, <2>4, <3>1, Pointers
    <3>3. \A d \in S : d # n /\ h <= curHeight[d] => d \in After(F, n)
      <4>1. SUFFICES ASSUME NEW d \in S, d # n, h <= curHeight[d] PROVE d \in After(F, n)
        OBVIOUS
      <4>2. d \in F /\ hash[d] = hash[n] /\ key[m] < key[d]
        BY <1>2, <2>3, <2>4, <4>1
      <4>3. ~(key[d] < k)
        BY <1>1, <1>2, <2>1, <2>4, <4>1, <4>2
      <4>4. key[d] # key[n]
        BY <4>1, <4>2 DEF ListsOf, KeysHashed
      <4> QED
        BY <1>1, <4>2, <4>3, <4>4 DEF After, k
    <3>4. After(F, n) \subseteq S \ {n}
      BY <1>1, <1>2, <2>1, <2>2, <2>4 DEF After, k
    <3>5. FirstOnLevel(S \ {n}, h, r)'
      <4>1. CASE r = Null
        <5>1. \A d \in S \ {n} : curHeight[d] < h
          BY <1>1, <2>1, <2>3, <3>2, <3>3, <4>1 DEF FirstOnLevel
        <5> QED
          BY <2>3, <4>1, <5>1 DEF FirstOnLevel
      <4>2. CASE r # Null
        <5>1. r \in S \ {n} /\ h <= curHeight[r]
              /\ \A d \in S \ {n} : h <= curHeight[d] => key[r] <= key[d]
          BY <3>2, <3>3, <3>4, <4>2 DEF FirstOnLevel
        <5> QED
          BY <2>3, <4>2, <5>1 DEF FirstOnLevel
      <4> QED
        BY <4>1, <4>2
    <3> QED
      BY <1>4, <1>7, <2>2, <3>2, <3>5
  <2>5. CASE ~(h <= curHeight[n] /\ m = path[h])
    <3>1. fwdPtrsL'[m][h] = p
      BY <1>3, <2>1, <2>2, <2>5
    <3>2. p # n
      <4>1. SUFFICES ASSUME p = n PROVE FALSE
        OBVIOUS
      <4>2. /\ n \in S /\ h <= curHeight[n] /\ hash[n] = hash[m] /\ key[m] < k
            /\ \A d \in S : h <= curHeight[d] => k <= key[d]
        BY <1>1, <2>3, <4>1 DEF FirstOnLevel, k
      <4>3. m # path[h] /\ key[m] <= key[path[h]]
        BY <1>2, <2>1, <2>5, <4>2
      <4>4. key[m] # key[path[h]]
        BY <1>2, <2>1, <4>3 DEF ListsOf, KeysHashed
      <4>5. path[h] \in S /\ h <= curHeight[path[h]] /\ key[path[h]] < k
        BY <1>1, <1>2, <2>1, <2>2, <4>2, <4>3, <4>4 DEF After
      <4> QED
        BY <1>1, <1>2, <4>2, <4>5
    <3>3. FirstOnLevel(S \ {n}, h, p)'
      BY <2>3, <3>2 DEF FirstOnLevel
    <3> QED
      BY <1>4, <1>7, <2>2, <3>1, <3>3
  <2> QED
    BY <2>4, <2>5
<1>8. ASSUME NEW m \in Node, NEW h \in Level, ~(m \in G /\ h <= curHeight'[m])
      PROVE  fwdPtrsL'[m][h] = Null
  <2>1. CASE m = n
    BY <1>3, <2>1
  <2>2. CASE m # n
    <3>1. ~(m \in F /\ h <= curHeight[m]) /\ m # path[h]
      BY <1>2, <1>3, <1>8, <2>2
    <3> QED
      BY <1>3, <2>2, <3>1, Pointers
  <2> QED
    BY <2>1, <2>2
<1> QED
  BY <1>5, <1>6, <1>7, <1>8, PointersAfter

(***************************************************************************)
(* insertN.                                                                *)
(***************************************************************************)
\* The items once node n holds the item of key k, too.
Extended(F, G, n, k) ==
    /\ G \subseteq Filled' /\ hash'[n] = Hash[k] /\ key'[n] = k
    /\ \A m \in F : hash'[m] = hash[m] /\ key'[m] = key[m] /\ m # n /\ m \in Node
    /\ hash' \in [Node -> Nat] /\ key' \in [Node -> Key \cup {NoKey}] /\ KeysHashed(G)'

\* An empty node gets key k, which no node has.
LEMMA Added ==
  ASSUME NEW F, NEW G, ListsOf(F), NEW n \in Node, Comes(F, G, n),
         NEW k \in Key, Keep(n, k), \A m \in F : key[m] # k
  PROVE  Extended(F, G, n, k)
<1> n \notin F /\ n \in G /\ (\A m \in F : m \in G) /\ \A m \in G : m \in F \/ m = n
  BY DEF Comes
<1>1. TypeOf(F) /\ KeysHashed(F) /\ k # NoKey /\ Hash[k] \in Nat
  BY Hashed DEF ListsOf
<1>2. /\ hash' = [hash EXCEPT ![n] = Hash[k]] /\ key' = [key EXCEPT ![n] = k]
      /\ hash \in [Node -> Nat] /\ key \in [Node -> Key \cup {NoKey}]
  BY <1>1 DEF Keep, TypeOf, TypeOK
<1>3. hash' \in [Node -> Nat] /\ key' \in [Node -> Key \cup {NoKey}]
      /\ hash'[n] = Hash[k] /\ key'[n] = k
  BY <1>1, <1>2
<1>4. \A m \in F : /\ hash'[m] = hash[m] /\ key'[m] = key[m] /\ m # n /\ m \in Node
                   /\ key[m] # NoKey
  BY <1>1, <1>2, Typed
<1>5. G \subseteq Filled'
  BY <1>1, <1>3, <1>4 DEF Filled
<1>6. KeysHashed(G)'
  <2>1. \A m \in G : hash'[m] = Hash[key'[m]]
    BY <1>1, <1>3, <1>4 DEF KeysHashed
  <2>2. \A m, d \in G : key'[m] = key'[d] => m = d
    BY <1>1, <1>3, <1>4 DEF KeysHashed
  <2> QED
    BY <2>1, <2>2 DEF KeysHashed
<1> QED
  BY <1>3, <1>4, <1>5, <1>6 DEF Extended

\* The heads when a node of a new hash comes in.
LEMMA HeadsOfNewHash ==
  ASSUME NEW F, NEW G, NEW n, Comes(F, G, n), key'[n] \in Nat,
         \A m \in F : hash'[m] = hash[m] /\ key'[m] = key[m] /\ hash[m] # hash'[n]
  PROVE  HeadOf(G, n)' /\ \A m \in F : HeadOf(G, m)' <=> HeadOf(F, m)
<1> n \notin F /\ n \in G /\ (\A m \in F : m \in G) /\ \A m \in G : m \in F \/ m = n
  BY DEF Comes
<1>1. HeadOf(G, n)'
  BY DEF HeadOf
<1>2. \A m \in F : HeadOf(G, m)' <=> HeadOf(F, m)
  BY DEF HeadOf
<1> QED
  BY <1>1, <1>2

\* The queue of a new hash starts first in its basket.
LEMMA InsertFirst ==
  ASSUME NEW F, NEW G, ListsOf(F), NEW n \in Node, Comes(F, G, n), NEW k \in Key,
         NEW b, b = BasketId(Hash[k]),
         baskets[b] = Null \/ (baskets[b] # Null /\ hash[baskets[b]] > Hash[k]),
         Keep(n, k), StartQueue(n),
         baskets' = [baskets EXCEPT ![b] = n], fwdPtrH' = [fwdPtrH EXCEPT ![n] = baskets[b]]
  PROVE  ListsOf(G)'
<1> n \notin F /\ n \in G /\ (\A m \in F : m \in G) /\ \A m \in G : m \in F \/ m = n
  BY DEF Comes
<1>1. TypeOf(F) /\ k \in Nat /\ Hash[k] \in Nat /\ b \in Basket
  BY Hashed DEF ListsOf
<1>2. \A m \in F : hash[m] # Hash[k]
  <2>1. SUFFICES ASSUME NEW m \in F, hash[m] = Hash[k] PROVE FALSE
    OBVIOUS
  <2>2. HeadFrom(F, b, 0, baskets[b]) /\ In(F, m, b)
    BY <1>1, <2>1, Links DEF In
  <2>3. baskets[b] # Null /\ baskets[b] \in F /\ hash[baskets[b]] <= hash[m]
    BY <1>1, <2>1, <2>2, LinkTight
  <2>4. hash[baskets[b]] \in Nat
    BY <1>1, <2>3, Typed
  <2> QED
    BY <1>1, <2>1, <2>3, <2>4
<1>3. \A m \in F : key[m] # k
  BY <1>2 DEF ListsOf, KeysHashed
<1>4. /\ G \subseteq Filled' /\ hash'[n] = Hash[k] /\ key'[n] = k
      /\ \A m \in F : hash'[m] = hash[m] /\ key'[m] = key[m] /\ m # n /\ m \in Node
      /\ hash' \in [Node -> Nat] /\ key' \in [Node -> Key \cup {NoKey}] /\ KeysHashed(G)'
  <2>1. Extended(F, G, n, k)
    BY <1>3, Added
  <2> QED
    BY <2>1 DEF Extended
<1>5. TypeOf(G)'
  BY <1>1, <1>4 DEF TypeOf, TypeOK, StartQueue, Level
<1>6. HeadOf(G, n)' /\ \A m \in F : HeadOf(G, m)' <=> HeadOf(F, m)
  BY <1>1, <1>2, <1>4, HeadsOfNewHash
<1>7. HeadsLinked(G)'
  <2>1. PICK q \in Nat : q = Hash[k]
    BY <1>1
  <2>2. baskets[b] # Null => q < hash[baskets[b]]
    BY <2>1
  <2> QED
    BY <1>2, <1>4, <1>5, <1>6, <2>1, <2>2, QueueFromBasket
<1>8. QueuesLinked(G)'
  <2>1. curHeight'[n] = 2 /\ (\A m \in F : curHeight'[m] = curHeight[m]) /\ fwdPtrsL' = fwdPtrsL
    BY <1>1, <1>4 DEF StartQueue, TypeOf, TypeOK
  <2> QED
    BY <1>2, <1>4, <1>5, <1>6, <2>1, QueueStarted
<1> QED
  BY <1>4, <1>5, <1>7, <1>8 DEF ListsOf

\* The queue of a new hash starts behind head c.
LEMMA InsertBehind ==
  ASSUME NEW F, NEW G, ListsOf(F), NEW n \in Node, Comes(F, G, n), NEW k \in Key,
         NEW c \in BeforeIn(F, BasketId(Hash[k]), Hash[k]),
         fwdPtrH[c] # Null => Hash[k] <= hash[fwdPtrH[c]],
         ~(fwdPtrH[c] # Null /\ hash[fwdPtrH[c]] = Hash[k]),
         Keep(n, k), StartQueue(n),
         fwdPtrH' = [fwdPtrH EXCEPT ![n] = fwdPtrH[c], ![c] = n], baskets' = baskets
  PROVE  ListsOf(G)'
<1> n \notin F /\ n \in G /\ (\A m \in F : m \in G) /\ \A m \in G : m \in F \/ m = n
  BY DEF Comes
<1>1. /\ TypeOf(F) /\ k \in Nat /\ Hash[k] \in Nat /\ c \in F /\ c \in Node /\ HeadOf(F, c)
      /\ BasketId(hash[c]) = BasketId(Hash[k]) /\ hash[c] < Hash[k] /\ hash[c] \in Nat
  BY Hashed, Links DEF ListsOf, BeforeIn, In
<1>2. fwdPtrH[c] # Null => Hash[k] < hash[fwdPtrH[c]]
  <2>1. SUFFICES ASSUME fwdPtrH[c] # Null PROVE Hash[k] < hash[fwdPtrH[c]]
    OBVIOUS
  <2>2. fwdPtrH[c] \in Node
    BY <1>1, <2>1, Typed
  <2>3. hash[fwdPtrH[c]] \in Nat
    BY <1>1, <2>2, Typed
  <2> QED
    BY <1>1, <2>1, <2>3
<1>3. \A m \in F : hash[m] # Hash[k]
  <2>1. SUFFICES ASSUME NEW m \in F, hash[m] = Hash[k] PROVE FALSE
    OBVIOUS
  <2>2. HeadFrom(F, BasketId(hash[c]), hash[c] + 1, fwdPtrH[c]) /\ In(F, m, BasketId(hash[c]))
    BY <1>1, <2>1, Links DEF In
  <2>3. fwdPtrH[c] # Null /\ fwdPtrH[c] \in F /\ hash[fwdPtrH[c]] <= hash[m]
    BY <1>1, <2>1, <2>2, LinkTight
  <2>4. hash[fwdPtrH[c]] \in Nat
    BY <1>1, <2>3, Typed
  <2> QED
    BY <1>1, <1>2, <2>1, <2>3, <2>4
<1>4. \A m \in F : key[m] # k
  BY <1>3 DEF ListsOf, KeysHashed
<1>5. /\ G \subseteq Filled' /\ hash'[n] = Hash[k] /\ key'[n] = k
      /\ \A m \in F : hash'[m] = hash[m] /\ key'[m] = key[m] /\ m # n /\ m \in Node
      /\ hash' \in [Node -> Nat] /\ key' \in [Node -> Key \cup {NoKey}] /\ KeysHashed(G)'
  <2>1. Extended(F, G, n, k)
    BY <1>4, Added
  <2> QED
    BY <2>1 DEF Extended
<1>6. TypeOf(G)'
  BY <1>1, <1>5 DEF TypeOf, TypeOK, StartQueue, Level
<1>7. HeadOf(G, n)' /\ \A m \in F : HeadOf(G, m)' <=> HeadOf(F, m)
  BY <1>1, <1>3, <1>5, HeadsOfNewHash
<1>8. HeadsLinked(G)'
  <2>1. PICK q \in Nat : q = Hash[k]
    BY <1>1
  <2>2. c \in BeforeIn(F, BasketId(q), q) /\ (fwdPtrH[c] # Null => q < hash[fwdPtrH[c]])
    BY <1>2, <2>1
  <2> QED
    BY <1>3, <1>5, <1>6, <1>7, <2>1, <2>2, QueueFromHead
<1>9. QueuesLinked(G)'
  <2>1. curHeight'[n] = 2 /\ (\A m \in F : curHeight'[m] = curHeight[m]) /\ fwdPtrsL' = fwdPtrsL
    BY <1>1, <1>5 DEF StartQueue, TypeOf, TypeOK
  <2> QED
    BY <1>3, <1>5, <1>6, <1>7, <2>1, QueueStarted
<1> QED
  BY <1>5, <1>6, <1>8, <1>9 DEF ListsOf

\* The links once every link to old leads to n, which goes on where old did.
Relinked(old, n) ==
    /\ baskets' \in [Basket -> Node \cup {Null}] /\ fwdPtrH' \in [Node -> Node \cup {Null}]
    /\ \A b \in Basket : baskets'[b] = IF baskets[b] = old THEN n ELSE baskets[b]
    /\ \A m \in Node : fwdPtrH'[m] = IF m = n THEN fwdPtrH[old]
                                     ELSE IF m = old THEN Null
                                     ELSE IF fwdPtrH[m] = old THEN n ELSE fwdPtrH[m]

\* Relinking the one link there is, is enough.
LEMMA RelinkBasket ==
  ASSUME NEW F, ListsOf(F), NEW old \in F, NEW n \in Node, n # old, fwdPtrH[n] # old,
         NEW b \in Basket, baskets[b] = old,
         baskets' = [baskets EXCEPT ![b] = n],
         fwdPtrH' = [fwdPtrH EXCEPT ![n] = fwdPtrH[old], ![old] = Null]
  PROVE  Relinked(old, n)
<1>1. /\ TypeOf(F) /\ old \in Node /\ old # Null
  BY Typed DEF ListsOf
<1>2. (\A a \in Basket : baskets[a] = old => a = b) /\ \A m \in Node : fwdPtrH[m] # old
  BY <1>1, OneLink
<1>3. baskets \in [Basket -> Node \cup {Null}] /\ fwdPtrH \in [Node -> Node \cup {Null}]
  BY <1>1 DEF TypeOf, TypeOK
<1> QED
  BY <1>1, <1>2, <1>3 DEF Relinked

\* The same where the link is that of head c.
LEMMA RelinkHead ==
  ASSUME NEW F, ListsOf(F), NEW old \in F, NEW n \in Node, n # old,
         ~(n \in F /\ HeadOf(F, n)),
         NEW c \in F, HeadOf(F, c), fwdPtrH[c] = old,
         baskets' = baskets,
         fwdPtrH' = [fwdPtrH EXCEPT ![c] = n, ![n] = fwdPtrH[old], ![old] = Null]
  PROVE  Relinked(old, n)
<1>1. /\ TypeOf(F) /\ KeysHashed(F) /\ old \in Node /\ old # Null /\ c \in Node /\ c # n
  BY Typed DEF ListsOf
<1>2. (\A m \in Node : fwdPtrH[m] = old => m = c) /\ \A b \in Basket : baskets[b] # old
  BY <1>1, OneLink
<1>3. baskets \in [Basket -> Node \cup {Null}] /\ fwdPtrH \in [Node -> Node \cup {Null}]
  BY <1>1 DEF TypeOf, TypeOK
<1>4. c # old
  <2>1. HeadFrom(F, BasketId(hash[c]), hash[c] + 1, old) /\ hash[c] \in Nat
    BY Links
  <2>2. hash[c] + 1 <= hash[old]
    BY <1>1, <2>1 DEF HeadFrom
  <2> QED
    BY <2>1, <2>2
<1> QED
  BY <1>1, <1>2, <1>3, <1>4 DEF Relinked

\* The item becomes the head of its queue.
LEMMA InsertSmallest ==
  ASSUME NEW F, NEW G, ListsOf(F), NEW n \in Node, Comes(F, G, n), NEW k \in Key,
         NEW old \in F, HeadOf(F, old), hash[old] = Hash[k], k < key[old],
         Keep(n, k), NEW ht \in Level, LowerHead(n, old, ht), Relinked(old, n)
  PROVE  ListsOf(G)'
<1> n \notin F /\ n \in G /\ (\A m \in F : m \in G) /\ \A m \in G : m \in F \/ m = n
  BY DEF Comes
<1>1. TypeOf(F) /\ k \in Nat /\ key[old] \in Nat /\ old \in Node
  BY Hashed, Typed DEF ListsOf
<1>2. \A m \in F : key[m] # k
  <2>1. SUFFICES ASSUME NEW m \in F, key[m] = k PROVE FALSE
    OBVIOUS
  <2>2. hash[m] = Hash[k]
    BY <2>1 DEF ListsOf, KeysHashed
  <2> QED
    BY <1>1, <2>1, <2>2 DEF HeadOf
<1>3. /\ G \subseteq Filled' /\ hash'[n] = Hash[k] /\ key'[n] = k
      /\ \A m \in F : hash'[m] = hash[m] /\ key'[m] = key[m] /\ m # n /\ m \in Node
      /\ hash' \in [Node -> Nat] /\ key' \in [Node -> Key \cup {NoKey}] /\ KeysHashed(G)'
  <2>1. Extended(F, G, n, k)
    BY <1>2, Added
  <2> QED
    BY <2>1 DEF Extended
<1>4. TypeOf(G)'
  <2>1. curHeight' \in [Node -> Level] /\ fwdPtrsL' \in [Node -> [Level -> Node \cup {Null}]]
    <3>1. /\ curHeight \in [Node -> Level] /\ fwdPtrsL \in [Node -> [Level -> Node \cup {Null}]]
          /\ 2 \in Level
      BY <1>1 DEF TypeOf, TypeOK, Level
    <3> QED
      BY <1>1, <3>1, Zenon DEF LowerHead
  <2> QED
    BY <1>3, <2>1 DEF TypeOf, TypeOK, Relinked
<1>5. /\ HeadOf(G, n)' /\ ~HeadOf(G, old)'
      /\ \A m \in F : m # old => (HeadOf(G, m)' <=> HeadOf(F, m))
  <2>1. \A m \in F : hash[m] = hash[old] => key[old] <= key[m] /\ key[m] \in Nat
    BY <1>1, Typed DEF HeadOf
  <2>2. HeadOf(G, n)'
    BY <1>1, <1>3, <2>1 DEF HeadOf
  <2>3. ~HeadOf(G, old)'
    BY <1>1, <1>3 DEF HeadOf
  <2>4. ASSUME NEW m \in F, m # old PROVE HeadOf(G, m)' <=> HeadOf(F, m)
    <3>1. CASE hash[m] = hash[old]
      <4>1. ~HeadOf(F, m)
        BY <1>1, <2>4, <3>1, HeadUnique DEF ListsOf
      <4>2. ~HeadOf(G, m)'
        BY <1>1, <1>3, <2>1, <2>4, <3>1 DEF HeadOf
      <4> QED
        BY <4>1, <4>2
    <3>2. CASE hash[m] # hash[old]
      BY <1>3, <2>4, <3>2 DEF HeadOf
    <3> QED
      BY <3>1, <3>2
  <2> QED
    BY <2>2, <2>3, <2>4
<1>6. HeadsLinked(G)'
  <2>1. \A m \in G : \E d \in F : hash[d] = hash'[m]
    BY <1>3
  <2> QED
    BY <1>3, <1>4, <1>5, <2>1, HeadMoved DEF Relinked
<1>7. QueuesLinked(G)'
  BY <1>1, <1>3, <1>4, HeadLowered
<1> QED
  BY <1>3, <1>4, <1>6, <1>7 DEF ListsOf

\* The item is dropped.
LEMMA Dropped ==
  ASSUME NEW F, ListsOf(F), NEW n \in Node, n \notin F, NEW k \in Key, Drop(n, k)
  PROVE  ListsOf(F)'
<1>1. TypeOf(F) /\ Hash[k] \in Nat
  BY Hashed DEF ListsOf
<1>2. /\ hash' = [hash EXCEPT ![n] = Hash[k]]
      /\ UNCHANGED <<baskets, fwdPtrH, fwdPtrsL, curHeight, key>>
  BY DEF Drop
<1>3. \A m \in F : m \in Node /\ m # n /\ hash'[m] = hash[m]
  BY <1>1, <1>2, Typed DEF TypeOf, TypeOK
<1>4. TypeOf(F)'
  BY <1>1, <1>2 DEF TypeOf, TypeOK, Filled
<1>5. KeysHashed(F)'
  BY <1>2, <1>3 DEF ListsOf, KeysHashed
<1>6. \A m \in F : HeadOf(F, m)' <=> HeadOf(F, m)
  BY <1>2, <1>3 DEF HeadOf
<1>7. HeadsLinked(F)'
  BY <1>2, <1>3, <1>4, <1>6, HeadsKept
<1>8. QueuesLinked(F)'
  <2>1. ASSUME NEW m \in Node, NEW h \in Level, m \in F, h <= curHeight'[m]
        PROVE  \E S, p : S = After(F, m)' /\ p = fwdPtrsL'[m][h] /\ FirstOnLevel(S, h, p)'
    <3>1. PICK S, p : S = After(F, m) /\ p = fwdPtrsL[m][h]
      OBVIOUS
    <3>2. FirstOnLevel(S, h, p)
      BY <1>2, <1>3, <2>1, <3>1, Pointers
    <3>3. FirstOnLevel(S, h, p)'
      BY <1>2, <3>2 DEF FirstOnLevel
    <3>4. After(F, m)' = After(F, m)
      BY <1>2, <1>3, <2>1 DEF After
    <3> QED
      BY <1>2, <3>1, <3>3, <3>4
  <2>2. \A m \in Node, h \in Level : ~(m \in F /\ h <= curHeight'[m]) => fwdPtrsL'[m][h] = Null
    BY <1>2, <1>3, Pointers
  <2>3. \A m \in F : HeadOf(F, m)' => curHeight'[m] = 2
    BY <1>2, <1>3, <1>6, Pointers
  <2> QED
    BY <1>4, <2>1, <2>2, <2>3, PointersAfter
<1> QED
  BY <1>4, <1>5, <1>7, <1>8 DEF ListsOf

\* The item goes behind the head of its queue, at the end of the path to its key.
LEMMA InsertInner ==
  ASSUME NEW F, NEW G, ListsOf(F), NEW n \in Node, Comes(F, G, n), NEW k \in Key,
         NEW head \in F, HeadOf(F, head), hash[head] = Hash[k], key[head] < k,
         \A m \in F : key[m] # k,
         Keep(n, k), NEW ht \in Level, LinkBelow(n, Path(head, k), ht)
  PROVE  ListsOf(G)'
<1> n \notin F /\ n \in G /\ (\A m \in F : m \in G) /\ \A m \in G : m \in F \/ m = n
  BY DEF Comes
<1>1. TypeOf(F) /\ k \in Nat /\ Hash[k] \in Nat /\ key[head] \in Nat
  BY Hashed, Typed DEF ListsOf
<1>2. /\ G \subseteq Filled' /\ hash'[n] = Hash[k] /\ key'[n] = k
      /\ \A m \in F : hash'[m] = hash[m] /\ key'[m] = key[m] /\ m # n /\ m \in Node
      /\ hash' \in [Node -> Nat] /\ key' \in [Node -> Key \cup {NoKey}] /\ KeysHashed(G)'
  <2>1. Extended(F, G, n, k)
    BY Added
  <2> QED
    BY <2>1 DEF Extended
<1>3. TypeOf(G)'
  <2>1. /\ baskets' = baskets /\ fwdPtrH' = fwdPtrH
        /\ curHeight' = [curHeight EXCEPT ![n] = ht]
    BY DEF LinkBelow
  <2>2. fwdPtrsL' \in [Node -> [Level -> Node \cup {Null}]]
    <3>1. \A m \in Node, h \in Level :
             fwdPtrsL[m][h] \in Node \cup {Null} /\ Path(head, k)[h] \in Node
      BY <1>1, Typed, PathFacts DEF Reaching
    <3>2. fwdPtrsL' = [m \in Node |-> [h \in Level |->
             CASE h <= ht /\ m = n                -> fwdPtrsL[Path(head, k)[h]][h]
               [] h <= ht /\ m = Path(head, k)[h] -> n
               [] OTHER                           -> fwdPtrsL[m][h]]]
      BY DEF LinkBelow
    <3> QED
      BY <3>1, <3>2
  <2> QED
    BY <1>1, <1>2, <2>1, <2>2 DEF TypeOf, TypeOK
<1>4. ~HeadOf(G, n)' /\ \A m \in F : HeadOf(G, m)' <=> HeadOf(F, m)
  <2>1. ~HeadOf(G, n)'
    BY <1>1, <1>2 DEF HeadOf
  <2>2. \A m \in F : HeadOf(G, m)' => HeadOf(F, m)
    BY <1>2 DEF HeadOf
  <2>3. ASSUME NEW m \in F, HeadOf(F, m) PROVE HeadOf(G, m)'
    <3>1. hash[m] = hash[head] => key[m] <= k
      BY <1>1, <2>3, HeadUnique DEF ListsOf
    <3> QED
      BY <1>2, <2>3, <3>1 DEF HeadOf
  <2> QED
    BY <2>1, <2>2, <2>3
<1>5. HeadsLinked(G)'
  <2>1. baskets' = baskets /\ fwdPtrH' = fwdPtrH
    BY DEF LinkBelow
  <2>2. \A m \in G : \E d \in F : hash[d] = hash'[m]
    BY <1>2
  <2>3. \A m \in Node : m \in G /\ HeadOf(G, m)' <=> m \in F /\ HeadOf(F, m)
    BY <1>2, <1>4
  <2> QED
    BY <1>2, <1>3, <2>1, <2>2, <2>3, HeadsKept
<1>6. QueuesLinked(G)'
  BY <1>1, <1>2, <1>3, NodeLinked
<1> QED
  BY <1>2, <1>3, <1>5, <1>6 DEF ListsOf

\* What insertN does with a queue that starts at a smaller key or at the key.
LEMMA InsertQueued ==
  ASSUME NEW F, NEW G, ListsOf(F), NEW n \in Node, n \notin F, NEW k \in Key,
         Keep(n, k) => Comes(F, G, n), Drop(n, k) => G = F,
         NEW head \in F, HeadOf(F, head), hash[head] = Hash[k], k >= key[head],
         InsertInQueue(n, k, head)
  PROVE  ListsOf(G)'
<1>1. TypeOf(F) /\ k \in Nat /\ key[head] \in Nat
  BY Hashed, Typed DEF ListsOf
<1>2. CASE key[head] = k \/ Below(head, k) # Null
  <2>1. Drop(n, k)
    BY <1>2 DEF InsertInQueue
  <2> QED
    BY <2>1, Dropped
<1>3. CASE ~(key[head] = k \/ Below(head, k) # Null)
  <2>1. Keep(n, k) /\ \E ht \in Level : LinkBelow(n, Path(head, k), ht)
    BY <1>3 DEF InsertInQueue
  <2>2. PICK ht \in Level : LinkBelow(n, Path(head, k), ht)
    BY <2>1
  <2>3. key[head] < k
    BY <1>1, <1>3
  <2>4. \A m \in F : hash[m] = hash[head] => key[m] # k
    BY <1>1, <1>3, <2>3, BelowFacts
  <2>5. \A m \in F : key[m] # k
    BY <2>4 DEF ListsOf, KeysHashed
  <2> QED
    BY <2>1, <2>2, <2>3, <2>5, InsertInner
<1> QED
  BY <1>2, <1>3

\* insertN keeps the invariant.
LEMMA InsertKeeps ==
  ASSUME NEW F, NEW G, ListsOf(F), F = Filled, G = Filled', NEW n \in Node, NEW k \in Key, InsertN(n, k)
  PROVE  ListsOf(G)'
<1> DEFINE b == BasketId(Hash[k])
           first == baskets[b]
<1>1. /\ TypeOf(F) /\ key[n] = NoKey /\ Hash[k] \in Nat /\ b \in Basket /\ n \notin F
      /\ Keep(n, k) => Comes(F, G, n)
      /\ Drop(n, k) => G = F
  BY Hashed DEF InsertN, ListsOf, TypeOf, TypeOK, Filled, Keep, Drop, Comes
<1>2. first # Null => first \in F /\ HeadOf(F, first) /\ In(F, first, b) /\ hash[first] \in Nat
  <2>1. HeadFrom(F, b, 0, first)
    BY <1>1, Links
  <2> QED
    BY <1>1, <2>1, Typed DEF HeadFrom
<1>3. CASE /\ first = Null \/ (first # Null /\ hash[first] > Hash[k])
           /\ Keep(n, k) /\ StartQueue(n)
           /\ baskets' = [baskets EXCEPT ![b] = n]
           /\ fwdPtrH' = [fwdPtrH EXCEPT ![n] = first]
  BY <1>1, <1>3, InsertFirst
<1>4. CASE first # Null /\ hash[first] = Hash[k] /\ SetOnBasketHead(n, k, b, first)
  <2>1. first \in F /\ HeadOf(F, first) /\ first # n /\ fwdPtrH[n] # first
    <3>1. fwdPtrH[n] = Null
      BY <1>1, Links
    <3> QED
      BY <1>1, <1>2, <1>4, <3>1
  <2>2. CASE /\ k < key[first]
             /\ Keep(n, k)
             /\ \E ht \in Level : LowerHead(n, first, ht)
             /\ baskets' = [baskets EXCEPT ![b] = n]
             /\ fwdPtrH' = [fwdPtrH EXCEPT ![n] = fwdPtrH[first], ![first] = Null]
    <3>1. Relinked(first, n)
      BY <1>1, <2>1, <2>2, RelinkBasket
    <3> QED
      BY <1>1, <1>4, <2>1, <2>2, <3>1, InsertSmallest
  <2>3. CASE k >= key[first] /\ InsertInQueue(n, k, first)
    BY <1>1, <1>4, <2>1, <2>3, InsertQueued
  <2> QED
    BY <1>4, <2>2, <2>3 DEF SetOnBasketHead
<1>5. CASE /\ first # Null /\ hash[first] < Hash[k]
           /\ SetOther(n, k, LastBelowHash(first, Hash[k]))
  <2>1. PICK c : c = LastBelowHash(first, Hash[k])
    OBVIOUS
  <2>2. PICK q \in Nat : q = Hash[k]
    BY <1>1
  <2>3. first \in BeforeIn(F, BasketId(q), q)
    BY <1>2, <1>5, <2>2 DEF BeforeIn
  <2>4. /\ c \in BeforeIn(F, BasketId(Hash[k]), Hash[k])
        /\ fwdPtrH[c] # Null => Hash[k] <= hash[fwdPtrH[c]]
    BY <2>1, <2>2, <2>3, LastBelow
  <2>5. PICK head : head = fwdPtrH[c]
    OBVIOUS
  <2>6. /\ c \in F /\ HeadOf(F, c)
        /\ head # Null => /\ head \in F /\ HeadOf(F, head) /\ n # head
                          /\ ~(n \in F /\ HeadOf(F, n))
    BY <1>1, <2>4, <2>5, HeadStep DEF BeforeIn
  <2>7. CASE /\ head # Null /\ hash[head] = Hash[k] /\ k < key[head]
             /\ Keep(n, k)
             /\ \E ht \in Level : LowerHead(n, head, ht)
             /\ fwdPtrH' = [fwdPtrH EXCEPT ![c] = n, ![n] = fwdPtrH[head], ![head] = Null]
             /\ UNCHANGED baskets
    <3>1. Relinked(head, n)
      BY <2>5, <2>6, <2>7, RelinkHead
    <3> QED
      BY <1>1, <2>6, <2>7, <3>1, InsertSmallest
  <2>8. CASE head # Null /\ hash[head] = Hash[k] /\ k >= key[head] /\ InsertInQueue(n, k, head)
    BY <1>1, <2>6, <2>8, InsertQueued
  <2>9. CASE /\ ~(head # Null /\ hash[head] = Hash[k])
             /\ Keep(n, k) /\ StartQueue(n)
             /\ fwdPtrH' = [fwdPtrH EXCEPT ![n] = head, ![c] = n]
             /\ UNCHANGED baskets
    BY <1>1, <2>4, <2>5, <2>9, InsertBehind
  <2> QED
    BY <1>5, <2>1, <2>5, <2>7, <2>8, <2>9 DEF SetOther
<1> QED
  BY <1>3, <1>4, <1>5 DEF InsertN

(***************************************************************************)
(* The deletion.                                                           *)
(***************************************************************************)
\* A node loses its key.
LEMMA Emptied ==
  ASSUME NEW F, NEW G, ListsOf(F), NEW n \in F, Goes(F, G, n), key' = [key EXCEPT ![n] = NoKey], hash' = hash
  PROVE  /\ G \subseteq Filled' /\ KeysHashed(G)'
         /\ hash' \in [Node -> Nat] /\ key' \in [Node -> Key \cup {NoKey}]
         /\ \A m \in G : key'[m] = key[m] /\ m \in F /\ m # n
<1> n \notin G /\ (\A m \in G : m \in F) /\ \A m \in F : m # n => m \in G
  BY DEF Goes
<1>1. TypeOf(F) /\ KeysHashed(F) /\ n \in Node
  BY Typed DEF ListsOf
<1>2. hash' \in [Node -> Nat] /\ key' \in [Node -> Key \cup {NoKey}]
  BY <1>1 DEF TypeOf, TypeOK
<1>3. G \subseteq Filled' /\ \A m \in G : key'[m] = key[m]
  BY <1>1 DEF Filled, TypeOf, TypeOK
<1>4. KeysHashed(G)'
  BY <1>1, <1>3 DEF KeysHashed
<1> QED
  BY <1>2, <1>3, <1>4

\* The second node of the queue becomes its head.
LEMMA EvictHead ==
  ASSUME NEW F, NEW G, ListsOf(F), NEW n \in F, Goes(F, G, n), HeadOf(F, n),
         key' = [key EXCEPT ![n] = NoKey], hash' = hash,
         NEW second, second = fwdPtrsL[n][0], second # Null,
         PromoteSecond(n, second), Relinked(n, second)
  PROVE  ListsOf(G)'
<1> n \notin G /\ (\A m \in G : m \in F) /\ \A m \in F : m # n => m \in G
  BY DEF Goes
<1>1. /\ TypeOf(F) /\ n \in Node /\ 0 \in Level /\ 2 \in Level
  BY Typed DEF ListsOf, Level
<1>2. /\ G \subseteq Filled' /\ KeysHashed(G)'
      /\ hash' \in [Node -> Nat] /\ key' \in [Node -> Key \cup {NoKey}]
      /\ \A m \in G : key'[m] = key[m] /\ m \in F /\ m # n
  BY Emptied
<1>3. TypeOf(G)'
  <2>1. fwdPtrsL \in [Node -> [Level -> Node \cup {Null}]] /\ curHeight \in [Node -> Level]
    BY <1>1 DEF TypeOf, TypeOK
  <2>2. fwdPtrsL' \in [Node -> [Level -> Node \cup {Null}]]
    BY <1>1, <2>1, SMTT(30) DEF PromoteSecond, NoLevels
  <2>3. curHeight' \in [Node -> Level]
    BY <1>1, <2>1 DEF PromoteSecond
  <2> QED
    BY <1>2, <2>2, <2>3 DEF TypeOf, TypeOK, Relinked
<1>4. QueuesLinked(G)' /\ second \in G /\ hash[second] = hash[n] /\ HeadOf(G, second)'
  BY <1>2, <1>3, SecondPromoted
<1>5. ASSUME NEW m \in G, m # second PROVE HeadOf(G, m)' <=> HeadOf(F, m)
  <2>1. \A d \in F : key[d] \in Nat
    BY <1>1, Typed
  <2>2. \A d \in G : hash[d] = hash[second] => key[second] <= key[d]
    BY <1>2, <1>4 DEF HeadOf
  <2>3. CASE hash[m] = hash[n]
    <3>1. ~HeadOf(F, m)
      BY <1>1, <1>2, <1>5, <2>3, HeadUnique DEF ListsOf
    <3>2. key[second] # key[m]
      BY <1>2, <1>4, <1>5 DEF ListsOf, KeysHashed
    <3>3. ~HeadOf(G, m)'
      BY <1>2, <1>4, <1>5, <2>1, <2>2, <2>3, <3>2 DEF HeadOf
    <3> QED
      BY <3>1, <3>3
  <2>4. CASE hash[m] # hash[n]
    BY <1>2, <1>5, <2>4 DEF HeadOf
  <2> QED
    BY <2>3, <2>4
<1>6. HeadsLinked(G)'
  <2>1. second \in Node /\ second # n /\ ~(second \in F /\ HeadOf(F, second))
    BY <1>1, <1>2, <1>4, HeadUnique, Typed DEF ListsOf
  <2>2. \A m \in F : HeadOf(F, m) /\ m # n => m \in G /\ HeadOf(G, m)' /\ hash'[m] = hash[m]
    BY <1>2, <1>5, <2>1
  <2>3. \A m \in G : \E d \in F : hash[d] = hash'[m]
    BY <1>2
  <2> QED
    BY <1>2, <1>3, <1>4, <1>5, <2>1, <2>2, <2>3, HeadMoved DEF Relinked
<1> QED
  BY <1>2, <1>3, <1>4, <1>6 DEF ListsOf

\* The links once every link to head n leads on to the head after it.
Unlinked(n) ==
    /\ baskets' \in [Basket -> Node \cup {Null}] /\ fwdPtrH' \in [Node -> Node \cup {Null}]
    /\ \A b \in Basket : baskets'[b] = IF baskets[b] = n THEN fwdPtrH[n] ELSE baskets[b]
    /\ \A m \in Node : fwdPtrH'[m] = IF m = n THEN Null
                                     ELSE IF fwdPtrH[m] = n THEN fwdPtrH[n] ELSE fwdPtrH[m]

\* A queue of one node ends.
LEMMA EvictQueue ==
  ASSUME NEW F, NEW G, ListsOf(F), NEW n \in F, Goes(F, G, n), HeadOf(F, n), fwdPtrsL[n][0] = Null,
         key' = [key EXCEPT ![n] = NoKey], hash' = hash, curHeight' = curHeight,
         fwdPtrsL' = [fwdPtrsL EXCEPT ![n] = NoLevels],
         Unlinked(n)
  PROVE  ListsOf(G)'
<1> n \notin G /\ (\A m \in G : m \in F) /\ \A m \in F : m # n => m \in G
  BY DEF Goes
<1>1. TypeOf(F) /\ n \in Node /\ 0 \in Level
  BY Typed DEF ListsOf, Level
<1>2. /\ G \subseteq Filled' /\ KeysHashed(G)'
      /\ hash' \in [Node -> Nat] /\ key' \in [Node -> Key \cup {NoKey}]
      /\ \A m \in G : key'[m] = key[m] /\ m \in F /\ m # n
  BY Emptied
<1>3. TypeOf(G)'
  <2>1. fwdPtrsL' \in [Node -> [Level -> Node \cup {Null}]] /\ curHeight' \in [Node -> Level]
    BY <1>1 DEF TypeOf, TypeOK, NoLevels
  <2> QED
    BY <1>2, <2>1 DEF TypeOf, TypeOK, Unlinked
<1>4. \A m \in F : hash[m] = hash[n] => m = n
  <2>1. SUFFICES ASSUME NEW m \in F, hash[m] = hash[n], m # n PROVE FALSE
    OBVIOUS
  <2>2. m \in After(F, n) /\ curHeight[m] \in 0 .. 2 /\ 0 <= curHeight[n]
    BY <1>1, <2>1, Pointers
  <2>3. FirstOnLevel(After(F, n), 0, Null)
    BY <1>1, <2>2, Pointers
  <2> QED
    BY <2>2, <2>3 DEF FirstOnLevel
<1>5. QueuesLinked(G)' /\ \A m \in G : HeadOf(G, m)' <=> HeadOf(F, m)
  BY <1>2, <1>3, <1>4, QueueGone
<1>6. HeadsLinked(G)'
  BY <1>2, <1>3, <1>4, <1>5, HeadGone DEF Unlinked
<1> QED
  BY <1>2, <1>3, <1>5, <1>6 DEF ListsOf

\* A node behind the head of its queue goes.
LEMMA EvictInner ==
  ASSUME NEW F, NEW G, ListsOf(F), NEW n \in F, Goes(F, G, n), NEW head \in F, HeadOf(F, head), hash[head] = hash[n],
         head # n, key' = [key EXCEPT ![n] = NoKey], hash' = hash, DelInSameHashCmp3(n, head)
  PROVE  ListsOf(G)'
<1> n \notin G /\ (\A m \in G : m \in F) /\ \A m \in F : m # n => m \in G
  BY DEF Goes
<1>1. TypeOf(F) /\ n \in Node /\ key[head] < key[n] /\ key[n] \in Nat
  BY Typed, Pointers DEF ListsOf
<1>2. /\ G \subseteq Filled' /\ KeysHashed(G)'
      /\ hash' \in [Node -> Nat] /\ key' \in [Node -> Key \cup {NoKey}]
      /\ \A m \in G : key'[m] = key[m] /\ m \in F /\ m # n
  BY Emptied
<1>3. ~HeadOf(F, n)
  BY <1>1, HeadUnique DEF ListsOf
<1>4. baskets' = baskets /\ fwdPtrH' = fwdPtrH /\ curHeight' = curHeight
  <2>1. fwdPtrH[n] = Null
    BY <1>1, <1>3, Links
  <2> QED
    BY <1>1, <2>1 DEF DelInSameHashCmp3, TypeOf, TypeOK
<1>5. TypeOf(G)'
  <2>1. fwdPtrsL' \in [Node -> [Level -> Node \cup {Null}]]
    <3>1. \A m \in Node, h \in Level : fwdPtrsL[m][h] \in Node \cup {Null}
      BY <1>1, Typed
    <3>2. fwdPtrsL' = [m \in Node |-> [h \in Level |->
               CASE m = n -> Null
                 [] h <= curHeight[n] /\ m = Path(head, key[n])[h] -> fwdPtrsL[n][h]
                 [] OTHER -> fwdPtrsL[m][h]]]
      BY DEF DelInSameHashCmp3
    <3> QED
      BY <1>1, <3>1, <3>2
  <2> QED
    BY <1>1, <1>2, <1>4, <2>1 DEF TypeOf, TypeOK
<1>6. QueuesLinked(G)' /\ \A m \in G : HeadOf(G, m)' <=> HeadOf(F, m)
  BY <1>2, <1>5, NodeUnlinked
<1>7. HeadsLinked(G)'
  <2>1. \A m \in Node : m \in G /\ HeadOf(G, m)' <=> m \in F /\ HeadOf(F, m)
    BY <1>2, <1>3, <1>6
  <2>2. \A m \in G : \E d \in F : hash[d] = hash'[m]
    BY <1>2
  <2> QED
    BY <1>4, <1>5, <2>1, <2>2, HeadsKept
<1> QED
  BY <1>2, <1>5, <1>6, <1>7 DEF ListsOf

\* allocNode's deletion keeps the invariant.
LEMMA EvictKeeps ==
  ASSUME NEW F, NEW G, ListsOf(F), F = Filled, G = Filled', NEW n \in Node, Evict(n)
  PROVE  ListsOf(G)'
<1> DEFINE b == BasketId(hash[n])
           first == baskets[b]
           second == fwdPtrsL[n][0]
<1>1. /\ TypeOf(F) /\ n \in F /\ Goes(F, G, n) /\ key' = [key EXCEPT ![n] = NoKey] /\ hash' = hash
      /\ baskets \in [Basket -> Node \cup {Null}] /\ fwdPtrH \in [Node -> Node \cup {Null}]
  BY DEF Goes, Evict, ListsOf, TypeOf, TypeOK, Filled
<1>2. /\ hash[n] \in Nat /\ b \in Basket /\ In(F, n, b) /\ 0 \in Level
      /\ first \in F /\ HeadOf(F, first) /\ In(F, first, b) /\ hash[first] <= hash[n]
      /\ hash[first] \in Nat /\ n # Null
  <2>1. hash[n] \in Nat /\ b \in Basket /\ In(F, n, b) /\ 0 \in Level /\ n # Null
    BY <1>1, Links, Typed DEF Level
  <2>2. HeadFrom(F, b, 0, first)
    BY <2>1, Links
  <2>3. first \in F /\ HeadOf(F, first) /\ In(F, first, b) /\ hash[first] <= hash[n]
    BY <2>1, <2>2, <1>1 DEF HeadFrom
  <2> QED
    BY <1>1, <2>1, <2>3, Typed
<1>3. second \in Node \cup {Null} /\ fwdPtrH[n] \in Node \cup {Null}
  BY <1>1, <1>2, Typed
<1>4. HeadOf(F, n) /\ second # Null =>
         second \in Node /\ second # n /\ ~(second \in F /\ HeadOf(F, second)) /\ fwdPtrH[second] # n
  <2>1. SUFFICES ASSUME HeadOf(F, n), second # Null
                 PROVE  /\ second \in Node /\ second # n /\ ~(second \in F /\ HeadOf(F, second))
                        /\ fwdPtrH[second] # n
    OBVIOUS
  <2>2. second \in F /\ hash[second] = hash[n] /\ key[n] < key[second]
    <3>1. 0 <= curHeight[n]
      BY <1>1, <1>2, <2>1, Pointers
    <3> QED
      BY <1>1, <1>2, <2>1, <3>1, KeyStep
  <2>3. second # n
    BY <1>1, <2>2, Typed
  <2>4. ~HeadOf(F, second)
    BY <1>1, <2>1, <2>2, <2>3, HeadUnique DEF ListsOf
  <2>5. fwdPtrH[second] = Null
    BY <1>1, <2>1, <1>3, <2>4, Links
  <2> QED
    BY <1>2, <1>3, <2>1, <2>3, <2>4, <2>5
<1>5. CASE hash[first] = hash[n] /\ DelOnBasketHead(n, b)
  <2>1. CASE /\ n = first /\ second # Null
             /\ PromoteSecond(n, second)
             /\ baskets' = [baskets EXCEPT ![b] = second]
             /\ fwdPtrH' = [fwdPtrH EXCEPT ![second] = fwdPtrH[n], ![n] = Null]
    <3>1. Relinked(n, second)
      BY <1>1, <1>2, <1>4, <2>1, RelinkBasket
    <3> QED
      BY <1>1, <1>2, <2>1, <3>1, EvictHead
  <2>2. CASE /\ n = first /\ second = Null
             /\ baskets' = [baskets EXCEPT ![b] = fwdPtrH[n]]
             /\ fwdPtrH' = [fwdPtrH EXCEPT ![n] = Null]
             /\ fwdPtrsL' = [fwdPtrsL EXCEPT ![n] = NoLevels]
             /\ UNCHANGED curHeight
    <3>1. (\A a \in Basket : baskets[a] = n => a = b) /\ \A m \in Node : fwdPtrH[m] # n
      BY <1>2, <2>2, OneLink
    <3>2. Unlinked(n)
      BY <1>1, <1>2, <1>3, <2>2, <3>1 DEF Unlinked
    <3> QED
      BY <1>1, <1>2, <2>2, <3>2, EvictQueue
  <2>3. CASE n # first /\ DelInSameHashCmp3(n, first)
    BY <1>1, <1>2, <1>5, <2>3, EvictInner
  <2> QED
    BY <1>5, <2>1, <2>2, <2>3 DEF DelOnBasketHead
<1>6. CASE hash[first] # hash[n] /\ DelWithOtherHash(n, BeforeHash(first, hash[n]))
  <2>1. PICK q \in Nat : q = hash[n]
    BY <1>2
  <2>2. PICK c : c = BeforeHash(first, hash[n])
    OBVIOUS
  <2>3. first \in BeforeIn(F, BasketId(q), q)
    BY <1>2, <1>6, <2>1 DEF BeforeIn
  <2>4. c \in BeforeIn(F, b, q) /\ fwdPtrH[c] # Null /\ hash[fwdPtrH[c]] = hash[n]
    BY <1>1, <2>1, <2>2, <2>3, BeforeQueue
  <2>5. PICK head : head = fwdPtrH[c]
    OBVIOUS
  <2>6. /\ c \in F /\ HeadOf(F, c) /\ c \in Node /\ c # n
        /\ head \in F /\ HeadOf(F, head) /\ hash[head] = hash[n]
    <3>1. c \in F /\ HeadOf(F, c) /\ hash[c] < q
      BY <2>4 DEF BeforeIn
    <3> QED
      BY <1>2, <2>1, <2>4, <2>5, <3>1, HeadStep, Links
  <2>7. CASE /\ n = head /\ second # Null
             /\ PromoteSecond(n, second)
             /\ fwdPtrH' = [fwdPtrH EXCEPT ![c] = second, ![second] = fwdPtrH[n], ![n] = Null]
             /\ UNCHANGED baskets
    <3>1. Relinked(n, second)
      BY <1>1, <1>4, <2>5, <2>6, <2>7, RelinkHead
    <3> QED
      BY <1>1, <2>6, <2>7, <3>1, EvictHead
  <2>8. CASE /\ n = head /\ second = Null
             /\ fwdPtrH' = [fwdPtrH EXCEPT ![c] = fwdPtrH[n], ![n] = Null]
             /\ fwdPtrsL' = [fwdPtrsL EXCEPT ![n] = NoLevels]
             /\ UNCHANGED <<baskets, curHeight>>
    <3>1. (\A a \in Basket : baskets[a] # n) /\ \A m \in Node : fwdPtrH[m] = n => m = c
      BY <1>2, <2>5, <2>6, <2>8, OneLink
    <3>2. Unlinked(n)
      BY <1>1, <1>2, <1>3, <2>5, <2>6, <2>8, <3>1 DEF Unlinked
    <3> QED
      BY <1>1, <2>6, <2>8, <3>2, EvictQueue
  <2>9. CASE n # head /\ DelInSameHashCmp3(n, head)
    BY <1>1, <2>6, <2>9, EvictInner
  <2> QED
    BY <1>6, <2>2, <2>5, <2>7, <2>8, <2>9 DEF DelWithOtherHash
<1> QED
  BY <1>5, <1>6 DEF Evict

\* Init establishes the invariant, and each step keeps it.
LEMMA InitLists == Init => ListInv
<1> SUFFICES ASSUME Init PROVE ListInv
  OBVIOUS
<1>1. Filled = {}
  BY DEF Init, Filled
<1>2. PICK F : F = Filled
  OBVIOUS
<1>3. TypeOf(F)
  BY <1>2 DEF Init, TypeOf, TypeOK, Level, NoLevels
<1>4. KeysHashed(F)
  BY <1>1, <1>2 DEF KeysHashed
<1>5. HeadsLinked(F)
  BY <1>1, <1>2 DEF Init, HeadsLinked, IsFirstHead
<1>6. QueuesLinked(F)
  BY <1>1, <1>2 DEF Init, QueuesLinked, NoLevels
<1> QED
  BY <1>2, <1>3, <1>4, <1>5, <1>6 DEF ListInv, ListsOf

\* What does not change the pool does not change what its lists hold.
LEMMA ListsUnchanged ==
  ASSUME UNCHANGED vars, NEW F, ListsOf(F)
  PROVE  ListsOf(F)'
<1>1. TypeOf(F)' /\ KeysHashed(F)'
  BY DEF vars, ListsOf, TypeOf, TypeOK, KeysHashed, Filled
<1>2. HeadsLinked(F)'
  BY DEF vars, ListsOf, HeadsLinked, IsFirstHead, IsNextHead, In, HeadOf
<1>3. QueuesLinked(F)'
  BY DEF vars, ListsOf, QueuesLinked, IsNextKey, HeadOf
<1> QED
  BY <1>1, <1>2, <1>3 DEF ListsOf

LEMMA StepLists == ListInv /\ [Next]_vars => ListInv'
<1> SUFFICES ASSUME ListInv, [Next]_vars PROVE ListInv'
  OBVIOUS
<1>1. PICK F, G : F = Filled /\ G = Filled'
  OBVIOUS
<1>2. ListsOf(F)
  BY <1>1 DEF ListInv
<1>3. ASSUME NEW n \in Node, NEW k \in Key, InsertN(n, k) PROVE ListsOf(G)'
  BY <1>1, <1>2, <1>3, InsertKeeps
<1>4. ASSUME NEW n \in Node, Evict(n) PROVE ListsOf(G)'
  BY <1>1, <1>2, <1>4, EvictKeeps
<1>5. ASSUME UNCHANGED vars PROVE ListsOf(G)'
  <2>1. G = F
    BY <1>1, <1>5 DEF vars, Filled
  <2> QED
    BY <1>2, <1>5, <2>1, ListsUnchanged
<1>6. ListsOf(G)'
  BY <1>3, <1>4, <1>5 DEF Next
<1> QED
  BY <1>1, <1>6 DEF ListInv

\* In every state each pointer of the pool leads to the one node that the keys,
\* hashes and heights ask for.
THEOREM ListInvariant == Spec => []ListInv
BY InitLists, StepLists, PTL DEF Spec

\* The hash lists and the skip lists are exact after every insertN and every
\* deletion, through each demotion and promotion of a head: for all capacities,
\* pools, keys, hash functions and landscapes.
THEOREM ListsStayExact == Spec => []ListsExact
<1>1. ListInv => ListsExact
  BY ListsFollow DEF ListInv
<1> QED
  BY <1>1, ListInvariant, PTL

\* getData finds a key if and only if a node holds it.
THEOREM FindsWhatIsFilled == Spec => []FindsFilled
BY ListInvariant, FindsFollow, PTL

(***************************************************************************)
(* Refinement.  What the pointers reach from a basket are the nodes of the *)
(* basket, so the lists implement BasketSets.                              *)
(***************************************************************************)
\* f gathers what the nodes own along a walk that ends at Null.
IsGather(f, D, own, next) == f = [c \in D |-> IF c = Null THEN {} ELSE own[c] \cup f[next[c]]]

\* The equation has a solution: what is owned by the nodes that are met.
LEMMA GatherExists ==
  ASSUME NEW D, Null \in D, NEW own, NEW next, \A c \in D \ {Null} : next[c] \in D
  PROVE  \E f : IsGather(f, D, own, next)
<1> DEFINE M(c) == Met(D, {Null}, next, c)
           f == [c \in D |-> UNION {own[d] : d \in M(c) \ {Null}}]
<1>1. M(Null) = {Null}
  <2>1. {Null} \in SUBSET D /\ Null \in {Null} /\ \A x \in {Null} \ {Null} : next[x] \in {Null}
    OBVIOUS
  <2>2. \A d \in M(Null) : d \in {Null}
    BY <2>1 DEF Met
  <2>3. Null \in M(Null)
    BY DEF Met
  <2> QED
    BY <2>2, <2>3
<1>2. ASSUME NEW c \in D \ {Null} PROVE M(c) = {c} \cup M(next[c])
  <2>1. ASSUME NEW d \in M(next[c]) PROVE d \in M(c)
    <3>1. SUFFICES ASSUME NEW S \in SUBSET D, c \in S, \A x \in S \ {Null} : next[x] \in S
                   PROVE  d \in S
      BY <2>1 DEF Met
    <3>2. next[c] \in S
      BY <3>1
    <3> QED
      BY <2>1, <3>1, <3>2 DEF Met
  <2>2. c \in M(c)
    BY DEF Met
  <2>3. PICK T : T = {c} \cup M(next[c])
    OBVIOUS
  <2>4. T \in SUBSET D /\ c \in T
    BY <2>3 DEF Met
  <2>5. ASSUME NEW x \in T \ {Null} PROVE next[x] \in T
    <3>1. next[c] \in M(next[c])
      BY DEF Met
    <3>2. ASSUME x \in M(next[c]) PROVE next[x] \in M(next[c])
      <4>1. x \in D /\ next[x] \in D
        BY <2>4, <2>5
      <4>2. ASSUME NEW S \in SUBSET D, next[c] \in S, \A y \in S \ {Null} : next[y] \in S
            PROVE  next[x] \in S
        <5>1. x \in S
          BY <3>2, <4>2 DEF Met
        <5> QED
          BY <2>5, <4>2, <5>1
      <4> QED
        BY <4>1, <4>2 DEF Met
    <3> QED
      BY <2>3, <2>5, <3>1, <3>2
  <2>6. \A d \in M(c) : d \in T
    BY <2>4, <2>5 DEF Met
  <2> QED
    BY <2>1, <2>2, <2>3, <2>6
<1>3. f[Null] = {}
  BY <1>1
<1>4. \A c \in D \ {Null} : f[c] = own[c] \cup f[next[c]]
  <2>1. SUFFICES ASSUME NEW c \in D \ {Null} PROVE f[c] = own[c] \cup f[next[c]]
    OBVIOUS
  <2>2. M(c) = {c} \cup M(next[c]) /\ next[c] \in D
    BY <1>2
  <2> HIDE DEF M
  <2>3. f[c] = UNION {own[d] : d \in M(c) \ {Null}} /\ f[next[c]] = UNION {own[d] : d \in M(next[c]) \ {Null}}
    BY <2>2
  <2> HIDE DEF f
  <2> QED
    BY <2>2, <2>3
<1> HIDE DEF f
<1>5. f = [c \in D |-> f[c]]
  BY DEF f
<1>6. IsGather(f, D, own, next)
  BY <1>3, <1>4, <1>5 DEF IsGather
<1> QED
  BY <1>6

\* What is gathered, if T says so step by step on a closed set P.
LEMMA GatherRule ==
  ASSUME NEW D, NEW own, NEW next, NEW f, IsGather(f, D, own, next),
         NEW P \in SUBSET D, IsFiniteSet(P), NEW m, \A c \in P : m[c] \in Nat,
         NEW T, \A c \in P : IF c = Null THEN T[c] = {}
                             ELSE /\ next[c] \in P /\ (next[c] # Null => m[c] < m[next[c]])
                                  /\ T[c] = own[c] \cup T[next[c]]
  PROVE  \A c \in P : f[c] = T[c]
<1> USE DEF IsGather
<1> DEFINE S == {x \in P : f[x] # T[x]}
<1>1. ASSUME S # {} PROVE FALSE
  <2>1. IsFiniteSet(S) /\ \A x \in S : m[x] \in Nat
    BY FS_Subset
  <2>2. PICK x \in S : \A y \in S : m[y] <= m[x]
    <3> HIDE DEF S
    <3> QED
      BY <1>1, <2>1, GreatestMember
  <2>3. x # Null
    OBVIOUS
  <2>4. next[x] \in P /\ f[next[x]] # T[next[x]]
    BY <2>3, Zenon
  <2>5. next[x] # Null
    BY <2>4
  <2>6. m[x] < m[next[x]] /\ m[x] \in Nat /\ m[next[x]] \in Nat /\ next[x] \in S
    BY <2>3, <2>4, <2>5
  <2>7. m[next[x]] <= m[x]
    <3> HIDE DEF S
    <3> QED
      BY <2>2, <2>6
  <2> QED
    BY <2>6, <2>7
<1> QED
  BY <1>1

\* The nodes of basket b.
Nodes(F, b) == {m \in F : In(F, m, b)}

\* A walk along the heads, and from each along level 0, meets just the nodes
\* of the basket.
LEMMA ReachedNodes ==
  ASSUME NEW F, ListsOf(F), NEW b \in Basket
  PROVE  Reached(b) = Nodes(F, b)
<1> DEFINE D == Node \cup {Null}
           EqQ(f) == f = [c \in D |-> IF c = Null THEN {} ELSE {c} \cup f[fwdPtrsL[c][0]]]
           queue == CHOOSE f : EqQ(f)
           EqH(f) == f = [c \in D |-> IF c = Null THEN {} ELSE queue[c] \cup f[fwdPtrH[c]]]
           heads == CHOOSE f : EqH(f)
           own == [c \in D |-> {c}]
           next == [c \in D |-> fwdPtrsL[c][0]]
           TQ == [c \in D |-> IF c = Null THEN {} ELSE {c} \cup After(F, c)]
           TH == [c \in D |-> IF c = Null THEN {}
                              ELSE {m \in F : In(F, m, BasketId(hash[c])) /\ hash[c] <= hash[m]}]
           mQ == [c \in D |-> IF c \in F THEN key[c] ELSE 0]
           mH == [c \in D |-> IF c \in F THEN hash[c] ELSE 0]
           PQ == F \cup {Null}
           PH == {c \in F : HeadOf(F, c)} \cup {Null}
<1>1. /\ TypeOf(F) /\ KeysHashed(F) /\ 0 \in Level /\ F \subseteq Node /\ Null \notin F /\ Null \notin Node
      /\ \A m \in F : key[m] \in Nat /\ hash[m] \in Nat /\ curHeight[m] \in 0 .. 2
  BY Typed, NullAssumption DEF ListsOf, Level
<1>2. /\ PQ \in SUBSET D /\ PH \in SUBSET D /\ IsFiniteSet(PQ) /\ IsFiniteSet(PH)
      /\ (\A c \in PQ : mQ[c] \in Nat) /\ \A c \in PH : mH[c] \in Nat
  <2>1. IsFiniteSet(D)
    BY NodeAssumption, FS_AddElement
  <2>2. PQ \in SUBSET D /\ PH \in SUBSET D
    BY <1>1
  <2>3. IsFiniteSet(PQ) /\ IsFiniteSet(PH)
    <3> HIDE DEF PQ, PH, D
    <3> QED
      BY <2>1, <2>2, FS_Subset
  <2>4. (\A c \in PQ : mQ[c] \in Nat) /\ \A c \in PH : mH[c] \in Nat
    BY <1>1
  <2> QED
    BY <2>2, <2>3, <2>4
<1>3. Null \in D /\ (\A c \in D \ {Null} : next[c] \in D) /\ \A c \in D \ {Null} : fwdPtrH[c] \in D
  BY <1>1, Typed
<1>4. Reached(b) = heads[baskets[b]]
  BY DEF Reached
<1>5. IsGather(queue, D, own, next)
  <2>1. \A f : EqQ(f) <=> IsGather(f, D, own, next)
    BY DEF IsGather
  <2>2. \E f : EqQ(f)
    <3> HIDE DEF D, own, next, EqQ
    <3> QED
      BY <1>3, <2>1, GatherExists
  <2>3. EqQ(queue)
    <3> HIDE DEF EqQ
    <3> QED
      BY <2>2
  <2> QED
    BY <2>1, <2>3
<1>6. \A c \in PQ : queue[c] = TQ[c]
  <2>1. ASSUME NEW c \in PQ
        PROVE  IF c = Null THEN TQ[c] = {}
               ELSE /\ next[c] \in PQ /\ (next[c] # Null => mQ[c] < mQ[next[c]])
                    /\ TQ[c] = own[c] \cup TQ[next[c]]
    <3>1. CASE c = Null
      BY <3>1
    <3>2. CASE c # Null
      <4>1. PICK p : p = fwdPtrsL[c][0]
        OBVIOUS
      <4>2. c \in F /\ c \in D /\ next[c] = p
        BY <1>1, <3>2, <4>1
      <4>3. FirstOnLevel(After(F, c), 0, p) /\ 0 <= curHeight[c]
        BY <1>1, <4>1, <4>2, Pointers
      <4>4. CASE p = Null
        <5>1. After(F, c) = {}
          BY <1>1, <4>3, <4>4 DEF FirstOnLevel, After
        <5> QED
          BY <3>2, <4>2, <4>4, <5>1
      <4>5. CASE p # Null
        <5>1. /\ p \in F /\ hash[p] = hash[c] /\ key[c] < key[p]
              /\ \A d \in After(F, c) : key[p] <= key[d]
          BY <1>1, <4>3, <4>5 DEF FirstOnLevel, After
        <5>2. ASSUME NEW d \in F PROVE d \in After(F, c) <=> d = p \/ d \in After(F, p)
          <6>1. d \in After(F, c) => d = p \/ d \in After(F, p)
            <7>1. key[d] = key[p] => d = p
              BY <5>1 DEF ListsOf, KeysHashed
            <7> QED
              BY <1>1, <5>1, <7>1 DEF After
          <6>2. d = p \/ d \in After(F, p) => d \in After(F, c)
            BY <1>1, <4>2, <5>1 DEF After
          <6> QED
            BY <6>1, <6>2
        <5>3. After(F, c) = {p} \cup After(F, p)
          BY <5>1, <5>2 DEF After
        <5> QED
          BY <3>2, <4>2, <4>5, <5>1, <5>3, <1>1
      <4> QED
        BY <4>4, <4>5
    <3> QED
      BY <3>1, <3>2
  <2> HIDE DEF queue, D, own, next, TQ, mQ, PQ
  <2> QED
    BY <1>2, <1>5, <2>1, GatherRule
<1> HIDE DEF queue
<1>7. IsGather(heads, D, queue, fwdPtrH)
  <2>1. \A f : EqH(f) <=> IsGather(f, D, queue, fwdPtrH)
    BY DEF IsGather
  <2>2. \E f : EqH(f)
    <3> HIDE DEF D, EqH
    <3> QED
      BY <1>3, <2>1, GatherExists
  <2>3. EqH(heads)
    <3> HIDE DEF EqH
    <3> QED
      BY <2>2
  <2> QED
    BY <2>1, <2>3
<1>8. \A c \in PH : heads[c] = TH[c]
  <2>1. ASSUME NEW c \in PH
        PROVE  IF c = Null THEN TH[c] = {}
               ELSE /\ fwdPtrH[c] \in PH /\ (fwdPtrH[c] # Null => mH[c] < mH[fwdPtrH[c]])
                    /\ TH[c] = queue[c] \cup TH[fwdPtrH[c]]
    <3>1. CASE c = Null
      BY <3>1
    <3>2. CASE c # Null
      <4>1. PICK p : p = fwdPtrH[c]
        OBVIOUS
      <4>2. c \in F /\ HeadOf(F, c) /\ c \in D
        BY <1>1, <3>2
      <4>3. queue[c] = {m \in F : hash[m] = hash[c]}
        <5>1. queue[c] = {c} \cup After(F, c)
          BY <1>6, <3>2, <4>2
        <5>2. \A m \in F : hash[m] = hash[c] => m = c \/ m \in After(F, c)
          BY <4>2, Pointers
        <5> QED
          BY <4>2, <5>1, <5>2 DEF After
      <4>4. HeadFrom(F, BasketId(hash[c]), hash[c] + 1, p)
        BY <4>1, <4>2, Links
      <4>5. TH[c] = {m \in F : In(F, m, BasketId(hash[c])) /\ hash[c] <= hash[m]}
        BY <3>2, <4>2
      <4>6. \A m \in F : hash[m] = hash[c] => In(F, m, BasketId(hash[c]))
        BY DEF In
      <4>7. CASE p = Null
        <5>1. \A m \in F : In(F, m, BasketId(hash[c])) /\ hash[c] <= hash[m] => hash[m] = hash[c]
          BY <1>1, <4>2, <4>4, <4>7 DEF HeadFrom
        <5>2. TH[c] = queue[c]
          <6> HIDE DEF TH
          <6> QED
            BY <1>1, <4>2, <4>3, <4>5, <4>6, <5>1
        <5>3. TH[Null] = {}
          OBVIOUS
        <5> HIDE DEF TH
        <5> QED
          BY <3>2, <4>1, <4>7, <5>2, <5>3
      <4>8. CASE p # Null
        <5>1. /\ p \in F /\ HeadOf(F, p) /\ BasketId(hash[p]) = BasketId(hash[c])
              /\ hash[c] < hash[p]
              /\ \A m \in F : In(F, m, BasketId(hash[c])) /\ hash[c] < hash[m] => hash[p] <= hash[m]
          BY <1>1, <4>2, <4>4, <4>8 DEF HeadFrom, In
        <5>2. TH[p] = {m \in F : In(F, m, BasketId(hash[c])) /\ hash[p] <= hash[m]}
          BY <1>1, <4>8, <5>1
        <5>3. TH[c] = queue[c] \cup TH[p]
          <6> HIDE DEF TH
          <6> QED
            BY <1>1, <4>2, <4>3, <4>5, <4>6, <5>1, <5>2
        <5>4. p \in PH /\ mH[c] < mH[p]
          BY <1>1, <4>2, <5>1
        <5> HIDE DEF TH, PH, mH
        <5> QED
          BY <3>2, <4>1, <5>3, <5>4
      <4> QED
        BY <4>7, <4>8
    <3> QED
      BY <3>1, <3>2
  <2> HIDE DEF heads, D, TH, mH, PH
  <2> QED
    BY <1>2, <1>7, <2>1, GatherRule
<1> HIDE DEF heads
<1>9. PICK first : first = baskets[b]
  OBVIOUS
<1>10. HeadFrom(F, b, 0, first)
  BY <1>9, Links
<1>11. CASE first = Null
  <2>1. heads[first] = {}
    BY <1>8, <1>11
  <2>2. Nodes(F, b) = {}
    BY <1>1, <1>10, <1>11 DEF HeadFrom, Nodes
  <2> QED
    BY <1>4, <1>9, <2>1, <2>2
<1>12. CASE first # Null
  <2>1. /\ first \in F /\ HeadOf(F, first) /\ BasketId(hash[first]) = b
        /\ \A m \in F : In(F, m, b) => hash[first] <= hash[m]
    BY <1>1, <1>10, <1>12 DEF HeadFrom, In
  <2>2. first \in PH /\ first \in D
    BY <1>1, <2>1
  <2>3. heads[first] = {m \in F : In(F, m, b) /\ hash[first] <= hash[m]}
    BY <1>8, <1>12, <2>1, <2>2
  <2>4. heads[first] = Nodes(F, b)
    BY <2>1, <2>3 DEF Nodes
  <2> QED
    BY <1>4, <1>9, <2>4
<1> QED
  BY <1>11, <1>12

\* The refinement mapping in terms of the invariant.
Linked == [b \in Basket |-> Nodes(Filled, b)]
Viewed == [b \in Basket |-> Reached(b)] = Linked

LEMMA ListsViewed == ListInv => Viewed
BY ReachedNodes DEF Viewed, Linked, ListInv

\* insertN links a node or drops it.
LEMMA InsertMaps ==
  ASSUME ListInv, ListInv', NEW n \in Node, NEW k \in Key, InsertN(n, k)
  PROVE  \/ /\ key[n] = NoKey /\ (\A m \in Node : key[m] # k)
            /\ key' = [key EXCEPT ![n] = k]
            /\ Linked' = [Linked EXCEPT ![Hash[k] % Capacity] = @ \cup {n}]
         \/ key' = key /\ Linked' = Linked
<1>1. PICK F, G : F = Filled /\ G = Filled'
  OBVIOUS
<1>2. /\ ListsOf(F) /\ KeysHashed(G)' /\ TypeOK /\ k # NoKey
      /\ key[n] = NoKey /\ n \notin F
      /\ BasketId(Hash[k]) \in Basket /\ BasketId(Hash[k]) = Hash[k] % Capacity
  BY <1>1, Hashed DEF InsertN, ListInv, ListsOf, TypeOf, Filled, BasketId
<1>3. Keep(n, k) \/ Drop(n, k)
  BY DEF InsertN, SetOnBasketHead, SetOther, InsertInQueue
<1>4. CASE Keep(n, k)
  <2>1. \A m \in Node : key[m] # k
    <3>1. SUFFICES ASSUME NEW m \in Node, key[m] = k PROVE FALSE
      OBVIOUS
    <3>2. key' = [key EXCEPT ![n] = k] /\ key \in [Node -> Key \cup {NoKey}] /\ m # n
      BY <1>2, <1>4, <3>1 DEF Keep, TypeOK
    <3>3. key'[m] = k /\ key'[n] = k
      BY <3>1, <3>2
    <3>4. m \in G /\ n \in G
      BY <1>1, <1>2, <3>3 DEF Filled
    <3> QED
      BY <1>2, <3>2, <3>3, <3>4 DEF KeysHashed
  <2>2. Comes(F, G, n) /\ G = F \cup {n} /\ \A m \in F : key[m] # k
    BY <1>1, <1>2, <1>4, <2>1 DEF Comes, Filled, Keep, TypeOK
  <2>3. hash'[n] = Hash[k] /\ \A m \in F : hash'[m] = hash[m]
    <3>1. Extended(F, G, n, k)
      BY <1>2, <1>4, <2>2, Added
    <3> QED
      BY <3>1 DEF Extended
  <2>4. \A b \in Basket :
           Nodes(G, b)' = IF b = BasketId(Hash[k]) THEN Nodes(F, b) \cup {n} ELSE Nodes(F, b)
    BY <1>2, <2>2, <2>3 DEF Nodes, In
  <2>5. Linked' = [Linked EXCEPT ![Hash[k] % Capacity] = @ \cup {n}]
    BY <1>1, <1>2, <2>4 DEF Linked
  <2> QED
    BY <1>2, <1>4, <2>1, <2>5 DEF Keep
<1>5. CASE Drop(n, k)
  <2>1. key' = key /\ G = F /\ \A m \in F : hash'[m] = hash[m]
    BY <1>1, <1>2, <1>5 DEF Drop, Filled, TypeOK
  <2>2. \A b \in Basket : Nodes(G, b)' = Nodes(F, b)
    BY <2>1 DEF Nodes, In
  <2> QED
    BY <1>1, <2>1, <2>2 DEF Linked
<1> QED
  BY <1>3, <1>4, <1>5

\* A deletion unlinks a node.
LEMMA EvictMaps ==
  ASSUME ListInv, NEW n \in Node, Evict(n)
  PROVE  /\ key[n] # NoKey /\ key' = [key EXCEPT ![n] = NoKey]
         /\ Linked' = [Linked EXCEPT ![Hash[key[n]] % Capacity] = @ \ {n}]
<1>1. PICK F, G : F = Filled /\ G = Filled'
  OBVIOUS
<1>2. /\ ListsOf(F) /\ TypeOK /\ key[n] # NoKey /\ n \in F
      /\ key' = [key EXCEPT ![n] = NoKey] /\ hash' = hash
  BY <1>1 DEF Evict, ListInv, ListsOf, TypeOf, Filled
<1>3. /\ hash[n] = Hash[key[n]] /\ BasketId(hash[n]) \in Basket
      /\ BasketId(hash[n]) = Hash[key[n]] % Capacity
  BY <1>2, Links DEF ListsOf, KeysHashed, BasketId
<1>4. G = F \ {n}
  BY <1>1, <1>2 DEF Filled, TypeOK
<1>5. \A b \in Basket :
         Nodes(G, b)' = IF b = BasketId(hash[n]) THEN Nodes(F, b) \ {n} ELSE Nodes(F, b)
  BY <1>2, <1>4 DEF Nodes, In
<1>6. Linked' = [Linked EXCEPT ![Hash[key[n]] % Capacity] = @ \ {n}]
  BY <1>1, <1>3, <1>5 DEF Linked
<1> QED
  BY <1>2, <1>6

\* The lists implement sets of nodes with unique keys: each insertN adds one
\* node to the set of its basket or, for a key that is present, none, and each
\* deletion takes out its node and no other.
THEOREM ListsImplementSets == Spec => ImplementsSets
<1>1. ListInv /\ Viewed /\ Init => Sets!Init
  <2>1. SUFFICES ASSUME ListInv, Viewed, Init PROVE Sets!Init
    OBVIOUS
  <2>2. Filled = {}
    BY <2>1 DEF Init, Filled
  <2>3. Linked = [b \in Basket |-> {}]
    BY <2>2 DEF Linked, Nodes
  <2> QED
    BY <2>1, <2>3 DEF Viewed, Init, Sets!Init, Sets!Basket, Basket
<1>2. ListInv /\ ListInv' /\ Viewed /\ Viewed' /\ [Next]_vars => [Sets!Next]_(Sets!vars)
  <2>1. SUFFICES ASSUME ListInv, ListInv', Viewed, Viewed', [Next]_vars
                 PROVE  [Sets!Next]_(Sets!vars)
    OBVIOUS
  <2>2. ASSUME NEW n \in Node, NEW k \in Key, InsertN(n, k) PROVE [Sets!Next]_(Sets!vars)
    <3>1. CASE /\ key[n] = NoKey /\ (\A m \in Node : key[m] # k)
               /\ key' = [key EXCEPT ![n] = k]
               /\ Linked' = [Linked EXCEPT ![Hash[k] % Capacity] = @ \cup {n}]
      <4>1. Sets!Link(n, k)
        BY <2>1, <3>1 DEF Viewed, Sets!Link, Sets!BasketId
      <4> QED
        BY <4>1 DEF Sets!Next
    <3>2. CASE key' = key /\ Linked' = Linked
      BY <2>1, <3>2 DEF Viewed, Sets!vars
    <3> QED
      BY <2>1, <2>2, <3>1, <3>2, InsertMaps
  <2>3. ASSUME NEW n \in Node, Evict(n) PROVE [Sets!Next]_(Sets!vars)
    <3>1. Sets!Unlink(n)
      BY <2>1, <2>3, EvictMaps DEF Viewed, Sets!Unlink, Sets!BasketId
    <3> QED
      BY <3>1 DEF Sets!Next
  <2>4. CASE UNCHANGED vars
    <3>1. key' = key /\ hash' = hash
      BY <2>4 DEF vars
    <3>2. Linked' = Linked
      BY <3>1 DEF Linked, Nodes, In, Filled
    <3> QED
      BY <2>1, <3>1, <3>2 DEF Viewed, Sets!vars
  <2> QED
    BY <2>1, <2>2, <2>3, <2>4 DEF Next
<1> QED
  BY <1>1, <1>2, ListInvariant, ListsViewed, PTL DEF Spec, ImplementsSets, Sets!Spec
=============================================================================
