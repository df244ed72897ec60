----------------------- MODULE ConcurrentHashMap_proofs -----------------------
(***************************************************************************)
(* Proofs about ConcurrentHashMap: what the source asserts holds, items    *)
(* are where searches end, no key has two items, no deleted item is        *)
(* reached, and the table implements ItemMap.                              *)
(*                                                                         *)
(* The first part is arithmetic: the line of a bucket h is h modulo every  *)
(* power of two; Parent, Masked and NextApplicable move along it.          *)
(*                                                                         *)
(* The invariant, MapInv, then describes the table by its lines.  A bucket *)
(* is filled when it is rehashed and no thread has still to fill it, and   *)
(* an item is in the last filled bucket of its line (Buckets, LastFilled). *)
(* The path of a thread goes down a line (Paths), its marked buckets are   *)
(* not filled and locked for writing (AllMarked, BucketLocks).  What a     *)
(* thread has read of the mask is a mask the table had (AllMasks), and a   *)
(* search that found nothing stays true while the bucket is locked and the *)
(* bucket is the last filled one (Searches).  Nodes have one owner each:   *)
(* a chain or a thread (Nodes, NodeLocks).                                 *)
(*                                                                         *)
(* There is one lemma per part, that says every step of a thread preserves *)
(* it; its cases are the actions that may disturb it.                      *)
(***************************************************************************)
EXTENDS ConcurrentHashMap, FiniteSetTheorems, SequenceTheorems,
        WellFoundedInduction, TLAPS

(***************************************************************************)
(* Powers of two, division and the lines of buckets.                       *)
(***************************************************************************)
\* A set of numbers has a least one.
LEMMA LeastNumber ==
  ASSUME NEW S \in SUBSET Nat, S # {}
  PROVE  \E x \in S : \A y \in S : x <= y
<1> DEFINE R == OpToRel(<, Nat)
<1>1. IsWellFoundedOn(R, Nat)
  BY NatLessThanWellFounded, Zenon
<1>2. \A x, y \in Nat : y < x => <<y, x>> \in R
  BY DEF OpToRel
<1> HIDE DEF R
<1>3. \E x \in S : \A y \in S : <<y, x>> \notin R
  BY <1>1, WFMin
<1>4. PICK x \in S : \A y \in S : <<y, x>> \notin R
  BY <1>3
<1>5. ASSUME NEW y \in S PROVE x <= y
  <2>1. x \in Nat /\ y \in Nat
    OBVIOUS
  <2>2. ~(y < x)
    BY <1>2, <1>4, <2>1
  <2> QED
    BY <2>1, <2>2
<1> QED
  BY <1>5

\* Division with remainder has one result.
LEMMA DivisionUnique ==
  ASSUME NEW p \in Nat, NEW a \in Nat, NEW b \in Nat, NEW r \in 0 .. p - 1, NEW s \in 0 .. p - 1,
         p * a + r = p * b + s
  PROVE  r = s
<1>1. ASSUME a < b PROVE FALSE
  <2>1. p * b >= p * (a + 1)
    BY <1>1
  <2> QED
    BY <2>1
<1>2. ASSUME b < a PROVE FALSE
  <2>1. p * a >= p * (b + 1)
    BY <1>2
  <2> QED
    BY <2>1
<1> QED
  BY <1>1, <1>2

LEMMA Division ==
  ASSUME NEW h \in Nat, NEW p \in Nat \ {0}
  PROVE  /\ h % p \in 0 .. p - 1 /\ h \div p \in Nat
         /\ h = p * (h \div p) + (h % p)
         /\ h % p <= h
         /\ h < p => h % p = h
<1>1. h % p \in 0 .. p - 1 /\ h \div p \in Nat /\ h = p * (h \div p) + (h % p)
  <2>1. h % p \in 0 .. p - 1
    OBVIOUS
  <2>2. h \div p \in Nat
    OBVIOUS
  <2>3. h = p * (h \div p) + (h % p)
    OBVIOUS
  <2> QED
    BY <2>1, <2>2, <2>3
<1>2. h % p <= h
  <2>1. p * (h \div p) \in Nat
    BY <1>1
  <2> QED
    BY <1>1, <2>1
<1>3. ASSUME h < p PROVE h % p = h
  <2>1. h \in 0 .. p - 1 /\ p * 0 + h = h
    BY <1>3
  <2> QED
    BY <1>1, <2>1, DivisionUnique
<1> QED
  BY <1>1, <1>2, <1>3

\* A remainder modulo a multiple keeps the remainder.
LEMMA RemainderOfRemainder ==
  ASSUME NEW h \in Nat, NEW p \in Nat \ {0}, NEW k \in Nat \ {0}
  PROVE  (h % (p * k)) % p = h % p
<1>1. PICK m \in Nat \ {0} : m = p * k
  OBVIOUS
<1> DEFINE a == h \div m
           r == h % m
           b == r \div p
           s == r % p
<1>2. h = m * a + r /\ r \in Nat /\ a \in Nat
  BY Division
<1>3. r = p * b + s /\ s \in 0 .. p - 1 /\ b \in Nat
  BY <1>2, Division
<1>4. h = p * (h \div p) + (h % p) /\ h % p \in 0 .. p - 1 /\ h \div p \in Nat
  BY Division
<1> HIDE DEF a, r, b, s
<1>5. k * a + b \in Nat
  BY <1>2, <1>3
<1>6. h = p * (k * a + b) + s
  BY <1>1, <1>2, <1>3
<1>7. s = h % p
  BY <1>3, <1>4, <1>5, <1>6, DivisionUnique, Zenon
<1> QED
  BY <1>1, <1>7 DEF s, r

\* The larger of two powers is a multiple of the smaller one.
LEMMA Powers ==
  /\ Pow \subseteq Nat \ {0} /\ 1 \in Pow /\ 2 \in Pow
  /\ 2^Bits \in Pow /\ 2^FirstBlock \in Pow
  /\ \A p \in Pow : p <= 2^Bits
  /\ \A p \in Pow : p < 2^Bits => 2 * p \in Pow
  /\ \A p, q \in Pow : p < q => \E k \in Nat \ {0} : q = p * k /\ 2 * p <= q
<1> DEFINE N == Bits
<1>1. FirstBlock \in Nat /\ FirstBlock >= 2 /\ N \in Nat /\ FirstBlock <= N
  BY BlockAssumption
<1>2. /\ 2^0 = 1 /\ 2^1 = 2 /\ \A i \in 0 .. N : 2^i \in Nat \ {0}
      /\ \A i, j \in 0 .. N : 2^(i + j) = 2^i * 2^j
  BY PowerAssumption
<1>3. Pow = {2^i : i \in 0 .. N}
  BY DEF Pow
<1>4. 0 \in 0 .. N /\ 1 \in 0 .. N /\ N \in 0 .. N /\ FirstBlock \in 0 .. N
  BY <1>1
<1>5. ASSUME NEW i \in 0 .. N, NEW j \in 0 .. N, i <= j
      PROVE  \E k \in Nat \ {0} : 2^j = 2^i * k /\ (i < j => 2 * 2^i <= 2^j)
  <2>1. j - i \in 0 .. N /\ i + (j - i) = j
    BY <1>1, <1>5
  <2>2. 2^j = 2^i * 2^(j - i)
    BY <1>2, <2>1
  <2>3. ASSUME i < j PROVE 2 * 2^i <= 2^j
    <3>1. j - i - 1 \in 0 .. N /\ 1 + (j - i - 1) = j - i
      BY <1>1, <2>1, <2>3
    <3>2. 2^(j - i) = 2 * 2^(j - i - 1)
      <4>1. 2^(1 + (j - i - 1)) = 2^1 * 2^(j - i - 1)
        BY <1>2, <1>4, <3>1
      <4> QED
        BY <1>2, <3>1, <4>1
    <3>3. PICK x \in Nat \ {0} : x = 2^(j - i - 1)
      BY <1>2, <3>1
    <3>4. PICK y \in Nat \ {0} : y = 2^i
      BY <1>2
    <3>5. 2^j = y * (2 * x)
      BY <2>2, <3>2, <3>3, <3>4
    <3>6. y * (2 * x) >= 2 * y
      BY <3>3, <3>4
    <3> QED
      BY <3>4, <3>5, <3>6
  <2> QED
    BY <1>2, <2>1, <2>2, <2>3
<1>6. ASSUME NEW i \in 0 .. N, NEW j \in 0 .. N, i <= j PROVE 2^i <= 2^j
  <2>1. PICK k \in Nat \ {0} : 2^j = 2^i * k
    BY <1>5, <1>6
  <2>2. PICK x \in Nat \ {0} : x = 2^i
    BY <1>2
  <2>3. x * k >= x
    BY <2>1, <2>2
  <2> QED
    BY <2>1, <2>2, <2>3
<1>7. ASSUME NEW p \in Pow PROVE p <= 2^N
  <2>1. PICK i \in 0 .. N : p = 2^i
    BY <1>3
  <2>2. i <= N
    BY <1>1
  <2> QED
    BY <1>4, <1>6, <2>1, <2>2
<1>8. ASSUME NEW p \in Pow, p < 2^N PROVE 2 * p \in Pow
  <2>1. PICK i \in 0 .. N : p = 2^i
    BY <1>3
  <2>2. i # N
    BY <1>2, <1>8, <2>1
  <2>3. 1 + i \in 0 .. N
    BY <1>1, <2>2
  <2>4. 2^(1 + i) = 2 * p
    BY <1>2, <1>4, <2>1, Zenon
  <2> QED
    BY <1>3, <2>3, <2>4
<1>9. ASSUME NEW p \in Pow, NEW q \in Pow, p < q
      PROVE  \E k \in Nat \ {0} : q = p * k /\ 2 * p <= q
  <2>1. PICK i \in 0 .. N, j \in 0 .. N : p = 2^i /\ q = 2^j
    BY <1>3
  <2>2. ~(j <= i)
    <3>1. SUFFICES ASSUME j <= i PROVE FALSE
      OBVIOUS
    <3>2. q <= p
      BY <1>6, <2>1, <3>1
    <3> QED
      BY <1>2, <1>9, <2>1, <3>2
  <2>3. i < j /\ i <= j
    BY <1>1, <2>2
  <2> QED
    BY <1>5, <2>1, <2>3
<1> HIDE DEF N
<1>10. Pow \subseteq Nat \ {0} /\ 1 \in Pow /\ 2 \in Pow /\ 2^N \in Pow /\ 2^FirstBlock \in Pow
  BY <1>2, <1>3, <1>4, Zenon
<1> QED
  BY <1>7, <1>8, <1>9, <1>10 DEF N

LEMMA BucketFacts ==
  /\ Bucket \subseteq Nat /\ 0 \in Bucket /\ 1 \in Bucket
  /\ 2^Bits \in Nat
  /\ \A b \in Bucket : b < 2^Bits
  /\ \A n \in Nat : n < 2^Bits => n \in Bucket
<1>1. 2^Bits \in Nat /\ 2 <= 2^Bits
  BY Powers
<1> QED
  BY <1>1 DEF Bucket

LEMMA BucketNumbers ==
  \A b \in Bucket : b \in Nat
BY BucketFacts

\* The line of a bucket goes down from it, and has the lines of its members.
LEMMA LineMembers ==
  ASSUME NEW h \in Bucket
  PROVE  /\ h \in Line(h)
         /\ \A x \in Line(h) : x \in Bucket /\ x <= h
<1>1. h \in Nat /\ h < 2^Bits
  BY BucketFacts
<1>2. 2^Bits \in Pow \ {1} /\ Pow \subseteq Nat \ {0}
  <2>1. 2 <= 2^Bits
    BY Powers
  <2> QED
    BY <2>1, Powers
<1>3. h % 2^Bits = h
  BY <1>1, <1>2, Division
<1>4. ASSUME NEW p \in Pow \ {1} PROVE h % p \in Bucket /\ h % p <= h
  <2>1. h % p \in Nat /\ h % p <= h
    BY <1>1, <1>2, Division
  <2> QED
    BY <1>1, <2>1, BucketFacts
<1> QED
  BY <1>2, <1>3, <1>4 DEF Line

LEMMA LineTransitive ==
  ASSUME NEW h \in Bucket, NEW y \in Line(h), NEW x \in Line(y)
  PROVE  x \in Line(h)
<1>1. PICK q \in Pow \ {1} : y = h % q
  BY DEF Line
<1>2. PICK p \in Pow \ {1} : x = y % p
  BY DEF Line
<1>3. p \in Nat \ {0} /\ q \in Nat \ {0} /\ h \in Nat
  BY Powers, BucketFacts
<1>4. CASE p < q
  <2>1. PICK k \in Nat \ {0} : q = p * k
    BY <1>4, Powers
  <2>2. x = h % p
    BY <1>1, <1>2, <1>3, <2>1, RemainderOfRemainder, Zenon
  <2> QED
    BY <2>2 DEF Line
<1>5. CASE q <= p
  <2>1. y \in Nat /\ y < q
    BY <1>1, <1>3, Division
  <2>2. y < p
    BY <1>3, <1>5, <2>1
  <2>3. x = y
    BY <1>2, <1>3, <2>1, <2>2, Division
  <2> QED
    BY <2>3
<1> QED
  BY <1>3, <1>4, <1>5

LEMMA LineOrdered ==
  ASSUME NEW h \in Bucket, NEW x \in Line(h), NEW y \in Line(h), x <= y
  PROVE  x \in Line(y)
<1>1. PICK p \in Pow \ {1} : x = h % p
  BY DEF Line
<1>2. PICK q \in Pow \ {1} : y = h % q
  BY DEF Line
<1>3. p \in Nat \ {0} /\ q \in Nat \ {0} /\ h \in Nat
  BY Powers, BucketFacts
<1>4. x \in Bucket /\ y \in Bucket /\ x \in Nat /\ y \in Nat
  BY LineMembers, BucketFacts
<1>5. CASE p = q
  BY <1>1, <1>2, <1>4, <1>5, LineMembers
<1>6. CASE p < q
  <2>1. PICK k \in Nat \ {0} : q = p * k
    BY <1>6, Powers
  <2>2. x = y % p
    BY <1>1, <1>2, <1>3, <2>1, RemainderOfRemainder, Zenon
  <2> QED
    BY <2>2 DEF Line
<1>7. CASE q < p
  <2>1. PICK k \in Nat \ {0} : p = q * k
    BY <1>7, Powers
  <2>2. y = x % q
    BY <1>1, <1>2, <1>3, <2>1, RemainderOfRemainder, Zenon
  <2>3. y <= x
    BY <1>3, <1>4, <2>2, Division
  <2>4. x = y
    BY <1>4, <2>3
  <2> QED
    BY <1>4, <2>4, LineMembers
<1> QED
  BY <1>3, <1>5, <1>6, <1>7

\* Every bucket but the first two has a topmost bit.
LEMMA TopBitFacts ==
  ASSUME NEW d \in Bucket, d >= 2
  PROVE  /\ TopBit(d) \in Pow \ {1} /\ TopBit(d) <= d /\ d < 2 * TopBit(d)
         /\ 2 * TopBit(d) \in Pow \ {1}
<1> DEFINE N == Bits
           S == {i \in 0 .. N : d < 2^i}
<1>1. FirstBlock \in Nat /\ N \in Nat /\ 1 \in 0 .. N /\ d \in Nat /\ d < 2^N
  BY BlockAssumption, BucketFacts
<1>2. /\ 2^0 = 1 /\ 2^1 = 2 /\ \A i \in 0 .. N : 2^i \in Nat \ {0}
      /\ \A i, j \in 0 .. N : 2^(i + j) = 2^i * 2^j
  BY PowerAssumption
<1>3. Pow = {2^i : i \in 0 .. N}
  BY DEF Pow
<1> HIDE DEF N
<1>4. S \in SUBSET Nat /\ S # {}
  BY <1>1
<1>5. PICK i \in S : \A j \in S : i <= j
  BY <1>4, LeastNumber
<1>6. i \in 0 .. N /\ d < 2^i
  BY <1>5
<1>7. i # 0
  <2>1. ~(d < 1)
    BY <1>1
  <2> QED
    BY <1>2, <1>6, <2>1
<1>8. i - 1 \in 0 .. N /\ 1 + (i - 1) = i
  BY <1>1, <1>6, <1>7
<1>9. 2^i = 2 * 2^(i - 1)
  <2>1. 2^(1 + (i - 1)) = 2^1 * 2^(i - 1)
    BY <1>1, <1>2, <1>8
  <2> QED
    BY <1>2, <1>8, <2>1
<1>10. PICK p \in Pow : p = 2^(i - 1)
  BY <1>3, <1>8
<1>11. i - 1 \notin S
  BY <1>5, <1>6, <1>8
<1>12. p <= d /\ d < 2 * p /\ 2 * p \in Pow
  BY <1>1, <1>2, <1>3, <1>6, <1>8, <1>9, <1>10, <1>11
<1>13. TopBit(d) \in Pow /\ TopBit(d) <= d /\ d < 2 * TopBit(d)
  BY <1>12 DEF TopBit
<1>14. PICK q \in Nat \ {0} : q = TopBit(d)
  BY <1>13, Powers
<1>15. q # 1 /\ 2 * q # 1
  BY <1>1, <1>13, <1>14
<1>16. 2 * q \in Pow
  <2>1. q < 2^N
    BY <1>1, <1>2, <1>13, <1>14
  <2> QED
    BY <1>13, <1>14, <2>1, Powers DEF N
<1> QED
  BY <1>13, <1>14, <1>15, <1>16

\* The parent comes next on the line.
LEMMA ParentFacts ==
  ASSUME NEW d \in Bucket, d >= 2
  PROVE  /\ Parent(d) \in Line(d) /\ Parent(d) \in Bucket /\ Parent(d) < d
         /\ \A x \in Line(d) : x = d \/ (x <= Parent(d) /\ x \in Line(Parent(d)))
<1>1. PICK T \in Pow \ {1} : T = TopBit(d) /\ T <= d /\ d < 2 * T /\ 2 * T \in Pow
  BY TopBitFacts
<1>2. T \in Nat \ {0} /\ d \in Nat
  BY Powers, BucketFacts
<1>3. Parent(d) = d % T
  BY <1>1 DEF Parent
<1>4. Parent(d) \in Line(d)
  BY <1>3 DEF Line
<1>5. Parent(d) \in Bucket
  BY <1>4, LineMembers
<1>6. Parent(d) < d
  BY <1>1, <1>2, <1>3, Division
<1>7. ASSUME NEW x \in Line(d), x # d PROVE x <= Parent(d) /\ x \in Line(Parent(d))
  <2>1. PICK p \in Pow \ {1} : x = d % p
    BY DEF Line
  <2>2. p \in Nat \ {0}
    BY Powers
  <2>3. ~(T < p)
    <3>1. SUFFICES ASSUME T < p PROVE FALSE
      OBVIOUS
    <3>2. 2 * T <= p
      BY <3>1, Powers
    <3>3. d < p
      BY <1>1, <1>2, <2>2, <3>2
    <3> QED
      BY <1>2, <1>7, <2>1, <2>2, <3>3, Division
  <2>4. x <= Parent(d)
    <3>1. CASE p = T
      BY <1>2, <1>3, <1>5, <2>1, <3>1, BucketFacts
    <3>2. CASE p < T
      <4>1. PICK k \in Nat \ {0} : T = p * k
        BY <3>2, Powers
      <4>2. x = Parent(d) % p
        <5>1. (d % (p * k)) % p = d % p
          BY <1>2, <2>2, RemainderOfRemainder
        <5> QED
          BY <1>3, <2>1, <4>1, <5>1
      <4>3. Parent(d) \in Nat
        BY <1>5, BucketFacts
      <4> QED
        BY <2>2, <4>2, <4>3, Division
    <3> QED
      BY <1>2, <2>2, <2>3, <3>1, <3>2
  <2> QED
    BY <1>4, <2>4, LineOrdered
<1> QED
  BY <1>4, <1>5, <1>6, <1>7

\* The items that belong to a bucket are those on whose line it is.
LEMMA MoversOnLine ==
  ASSUME NEW d \in Bucket, d >= 2, NEW h \in Bucket
  PROVE  h % (2 * TopBit(d)) = d <=> d \in Line(h)
<1>1. PICK U \in Pow \ {1} : U = 2 * TopBit(d)
  BY TopBitFacts
<1>2. PICK T \in Pow \ {1} : T = TopBit(d) /\ T <= d /\ d < U /\ U = 2 * T
  BY <1>1, TopBitFacts
<1>3. T \in Nat \ {0} /\ U \in Nat \ {0} /\ d \in Nat /\ h \in Nat
  BY Powers, BucketFacts
<1>4. ASSUME h % U = d PROVE d \in Line(h)
  BY <1>4 DEF Line
<1>5. ASSUME d \in Line(h) PROVE h % U = d
  <2>1. PICK q \in Pow \ {1} : d = h % q
    BY <1>5 DEF Line
  <2>2. q \in Nat \ {0}
    BY Powers
  <2>3. d < q
    BY <1>3, <2>1, <2>2, Division
  <2>4. T < q
    BY <1>2, <1>3, <2>2, <2>3
  <2>5. U <= q
    BY <1>2, <2>4, Powers
  <2>6. CASE U = q
    BY <2>1, <2>6
  <2>7. CASE U < q
    <3>1. PICK k \in Nat \ {0} : q = U * k
      BY <2>7, Powers
    <3>2. d % U = h % U
      BY <1>3, <2>1, <3>1, RemainderOfRemainder
    <3> QED
      BY <1>2, <1>3, <3>2, Division
  <2> QED
    BY <1>3, <2>2, <2>5, <2>6, <2>7
<1> QED
  BY <1>1, <1>4, <1>5

\* The bucket of a mask is the last one on the line that the mask covers.
LEMMA MaskedFacts ==
  ASSUME NEW h \in Bucket, NEW m \in Nat, m + 1 \in Pow \ {1}
  PROVE  /\ Masked(h, m) \in Line(h) /\ Masked(h, m) <= m /\ Masked(h, m) \in Bucket
         /\ \A x \in Line(h) : x <= m => x <= Masked(h, m) /\ x \in Line(Masked(h, m))
<1>1. PICK q \in Pow \ {1} : q = m + 1
  OBVIOUS
<1>2. q \in Nat \ {0} /\ h \in Nat
  BY Powers, BucketFacts
<1>3. Masked(h, m) = h % q
  BY <1>1 DEF Masked
<1>4. Masked(h, m) \in Line(h)
  BY <1>3 DEF Line
<1>5. Masked(h, m) <= m
  BY <1>1, <1>2, <1>3, Division
<1>6. Masked(h, m) \in Bucket /\ Masked(h, m) \in Nat
  BY <1>4, LineMembers, BucketFacts
<1>7. ASSUME NEW x \in Line(h), x <= m PROVE x <= Masked(h, m)
  <2>1. PICK p \in Pow \ {1} : x = h % p
    BY DEF Line
  <2>2. p \in Nat \ {0} /\ x \in Nat
    BY Powers, LineMembers, BucketFacts
  <2>3. CASE p = q
    BY <1>3, <1>6, <2>1, <2>3
  <2>4. CASE p < q
    <3>1. PICK k \in Nat \ {0} : q = p * k
      BY <2>4, Powers
    <3>2. x = Masked(h, m) % p
      <4>1. (h % (p * k)) % p = h % p
        BY <1>2, <2>2, RemainderOfRemainder
      <4> QED
        BY <1>3, <2>1, <3>1, <4>1
    <3> QED
      BY <1>6, <2>2, <3>2, Division
  <2>5. CASE q < p
    <3>1. PICK k \in Nat \ {0} : p = q * k
      BY <2>5, Powers
    <3>2. x % q = Masked(h, m)
      BY <1>2, <1>3, <2>1, <2>2, <3>1, RemainderOfRemainder, Zenon
    <3>3. x < q
      BY <1>1, <1>7, <2>2
    <3>4. x % q = x
      BY <1>2, <2>2, <3>3, Division
    <3> QED
      BY <1>6, <3>2, <3>4
  <2> QED
    BY <1>2, <2>2, <2>3, <2>4, <2>5
<1>8. ASSUME NEW x \in Line(h), x <= m PROVE x \in Line(Masked(h, m))
  BY <1>4, <1>7, <1>8, LineOrdered
<1> QED
  BY <1>4, <1>5, <1>6, <1>7, <1>8

\* One more bit of a remainder.
LEMMA NextBit ==
  ASSUME NEW h \in Nat, NEW p \in Nat \ {0}
  PROVE  /\ (h \div p) % 2 \in {0, 1}
         /\ (h \div p) % 2 = 0 => h % (2 * p) = h % p
         /\ (h \div p) % 2 = 1 => h % (2 * p) = (h % p) + p
<1> DEFINE a == h \div p
           r == h % p
           s == a % 2
           b == a \div 2
<1>1. h = p * a + r /\ r \in 0 .. p - 1 /\ a \in Nat
  BY Division
<1>2. a = 2 * b + s /\ s \in 0 .. 1 /\ b \in Nat
  BY <1>1, Division
<1>3. PICK q \in Nat \ {0} : q = 2 * p
  OBVIOUS
<1>4. h = q * (h \div q) + (h % q) /\ h % q \in 0 .. q - 1 /\ h \div q \in Nat
  BY Division
<1> HIDE DEF a, r, s, b
<1>5. CASE s = 0
  <2>1. h = q * b + r /\ r \in 0 .. q - 1
    BY <1>1, <1>2, <1>3, <1>5
  <2>2. h % q = r
    BY <1>2, <1>4, <2>1, DivisionUnique
  <2> QED
    BY <1>3, <1>5, <2>2 DEF s, a, r
<1>6. CASE s = 1
  <2>1. h = q * b + (r + p) /\ r + p \in 0 .. q - 1
    BY <1>1, <1>2, <1>3, <1>6
  <2>2. h % q = r + p
    BY <1>2, <1>4, <2>1, DivisionUnique, Zenon
  <2> QED
    BY <1>3, <1>6, <2>2 DEF s, a, r
<1> QED
  BY <1>2, <1>5, <1>6

\* The half of a power is a power.
LEMMA Half ==
  ASSUME NEW q \in Pow \ {1}
  PROVE  \E p \in Pow : q = 2 * p
<1> DEFINE N == Bits
<1>1. FirstBlock \in Nat /\ N \in Nat /\ 1 \in 0 .. N
  BY BlockAssumption
<1>2. /\ 2^0 = 1 /\ 2^1 = 2
      /\ \A i, j \in 0 .. N : 2^(i + j) = 2^i * 2^j
  BY PowerAssumption
<1>3. Pow = {2^i : i \in 0 .. N}
  BY DEF Pow
<1> HIDE DEF N
<1>4. PICK i \in 0 .. N : q = 2^i
  BY <1>3
<1>5. i # 0
  BY <1>2, <1>4
<1>6. i - 1 \in 0 .. N /\ 1 + (i - 1) = i
  BY <1>1, <1>5
<1>7. 2^(1 + (i - 1)) = 2^1 * 2^(i - 1)
  BY <1>1, <1>2, <1>6
<1>8. q = 2 * 2^(i - 1) /\ 2^(i - 1) \in Pow
  BY <1>2, <1>3, <1>4, <1>6, <1>7
<1> QED
  BY <1>8

\* next_applicable: the next bucket on the line, when a larger mask has one.
LEMMA NextFacts ==
  ASSUME NEW h \in Bucket, NEW m \in Nat, m + 1 \in Pow \ {1},
         NEW m2 \in Nat, m2 + 1 \in Pow \ {1}, m <= m2, Masked(h, m) # Masked(h, m2)
  PROVE  /\ NextApplicable(h, m) \in Line(h)
         /\ NextApplicable(h, m) > Masked(h, m)
         /\ \A x \in Line(h) : x > Masked(h, m) => x >= NextApplicable(h, m)
<1>1. PICK o \in Pow \ {1} : o = m + 1
  OBVIOUS
<1>2. o \in Nat \ {0} /\ h \in Nat
  BY Powers, BucketFacts
<1>3. Masked(h, m) = h % o
  BY <1>1 DEF Masked
<1> DEFINE S == {p \in Pow : p > o /\ h % p # h % o}
<1>4. S \in SUBSET Nat /\ m2 + 1 \in S
  <2>1. h % (m2 + 1) # h % o
    BY <1>3 DEF Masked
  <2>2. m2 + 1 > o
    BY <1>1, <2>1
  <2> QED
    BY <2>1, <2>2, Powers
<1>5. PICK P \in S : \A y \in S : P <= y
  BY <1>4, LeastNumber
<1>6. P \in Pow /\ P > o /\ h % P # h % o /\ P \in Nat \ {0}
  BY <1>5, Powers
<1>7. \A q \in Pow : q >= o /\ q < P => h % q = h % o
  <2>1. SUFFICES ASSUME NEW q \in Pow, q >= o, q < P PROVE h % q = h % o
    OBVIOUS
  <2>2. q \in Nat
    BY Powers
  <2>3. q \notin S
    BY <1>5, <1>6, <2>1, <2>2
  <2> QED
    BY <1>2, <2>1, <2>2, <2>3
<1> HIDE DEF S
<1>8. P # 1
  BY <1>2, <1>6
<1>9. PICK p \in Pow : P = 2 * p
  BY <1>6, <1>8, Half
<1>10. p \in Nat \ {0} /\ p < P
  BY <1>9, Powers
<1>11. o <= p
  <2>1. 2 * o <= P
    BY <1>1, <1>6, Powers
  <2> QED
    BY <1>2, <1>9, <1>10, <2>1
<1>12. h % p = h % o
  BY <1>7, <1>10, <1>11
<1>13. (h \div p) % 2 = 1 /\ h % P = (h % p) + p
  BY <1>2, <1>6, <1>9, <1>10, <1>12, NextBit, Zenon
<1>14. \A q \in Pow : q > m /\ q < p => (h \div q) % 2 = 0
  <2>1. SUFFICES ASSUME NEW q \in Pow, q > m, q < p PROVE (h \div q) % 2 = 0
    OBVIOUS
  <2>2. q \in Nat \ {0} /\ q >= o
    BY <1>1, <2>1, Powers
  <2>3. 2 * q <= p
    BY <2>1, Powers
  <2>4. 2 * q \in Pow
    <3>1. q < 2^Bits
      <4>1. p <= 2^Bits /\ 2^Bits \in Nat
        BY Powers
      <4> QED
        BY <1>10, <2>1, <2>2, <4>1
    <3> QED
      BY <2>1, <3>1, Powers
  <2>5. PICK r \in Pow : r = 2 * q
    BY <2>4
  <2>6. h % q = h % o /\ h % r = h % o
    <3>1. q < P /\ r < P /\ r >= o /\ q >= o
      BY <1>2, <1>6, <1>10, <2>1, <2>2, <2>3, <2>5
    <3> QED
      BY <1>7, <2>5, <3>1
  <2>7. (h \div q) % 2 = 1 => h % r = (h % q) + q
    BY <1>2, <2>2, <2>5, NextBit, Zenon
  <2>8. h % o \in Nat
    BY <1>2, Division
  <2>9. (h \div q) % 2 # 1
    BY <2>2, <2>6, <2>7, <2>8
  <2> QED
    BY <1>2, <2>2, <2>9, NextBit
<1> DEFINE IsBit(z) == /\ z > m /\ (h \div z) % 2 = 1
                       /\ \A q \in Pow : q > m /\ q < z => (h \div q) % 2 = 0
           bit == CHOOSE z \in Pow : IsBit(z)
<1>15. IsBit(p)
  BY <1>1, <1>2, <1>10, <1>11, <1>13, <1>14
<1>16. bit \in Pow /\ IsBit(bit)
  BY <1>15
<1>17. NextApplicable(h, m) = h % (2 * bit)
  BY DEF NextApplicable
<1> HIDE DEF bit
<1>18. bit = p
  <2>1. bit \in Nat
    BY <1>16, Powers
  <2>2. ~(bit < p)
    BY <1>15, <1>16
  <2>3. ~(p < bit)
    BY <1>15, <1>16
  <2> QED
    BY <1>10, <2>1, <2>2, <2>3
<1>19. NextApplicable(h, m) = h % P
  BY <1>9, <1>17, <1>18
<1>20. NextApplicable(h, m) \in Line(h)
  BY <1>6, <1>8, <1>19 DEF Line
<1>21. NextApplicable(h, m) > Masked(h, m)
  <2>1. h % o \in Nat
    BY <1>2, Division
  <2> QED
    BY <1>3, <1>10, <1>12, <1>13, <1>19, <2>1
<1>22. ASSUME NEW x \in Line(h), x > Masked(h, m) PROVE x >= NextApplicable(h, m)
  <2>1. PICK r \in Pow \ {1} : x = h % r
    BY DEF Line
  <2>2. r \in Nat \ {0}
    BY Powers
  <2>3. x \in Nat /\ x < r /\ Masked(h, m) \in Nat
    BY <1>2, <1>3, <2>1, <2>2, Division
  <2>4. ~(x <= m)
    <3>1. SUFFICES ASSUME x <= m PROVE FALSE
      OBVIOUS
    <3>2. x <= Masked(h, m)
      BY <3>1, MaskedFacts
    <3> QED
      BY <1>22, <2>3, <3>2
  <2>5. r > o
    BY <1>1, <2>2, <2>3, <2>4
  <2>6. r \in S
    BY <1>3, <1>22, <2>1, <2>3, <2>5 DEF S
  <2>7. P <= r
    BY <1>5, <2>6
  <2>8. CASE P = r
    BY <1>19, <2>1, <2>3, <2>8
  <2>9. CASE P < r
    <3>1. PICK k \in Nat \ {0} : r = P * k
      BY <1>6, <2>9, Powers
    <3>2. (h % (P * k)) % P = h % P
      BY <1>2, <1>6, RemainderOfRemainder
    <3>3. x % P = h % P
      BY <2>1, <3>1, <3>2
    <3>4. x % P <= x
      BY <1>6, <2>3, Division
    <3> QED
      BY <1>19, <3>3, <3>4
  <2> QED
    BY <1>6, <2>2, <2>7, <2>8, <2>9
<1> QED
  BY <1>20, <1>21, <1>22

(***************************************************************************)
(* The inductive invariant.                                                *)
(***************************************************************************)
\* A bucket that has its items.
Filled(c) == c \in rehashed /\ \A t \in Thread : ~Pending(t, c)

\* Each bucket of a path is followed by its parent.
Descends(path) ==
    /\ path \in Seq(Bucket)
    /\ \A i, j \in 1 .. Len(path) : i < j => path[j] < path[i]
    /\ \A i \in 1 .. Len(path) - 1 : path[i] >= 2 /\ path[i + 1] = Parent(path[i])

Rehashing == {"flag", "try", "recheck", "acquire"}
Moving    == {"move", "move_upgrade", "move_reacquire"}
Searching == {"search", "upgrade", "reacquire", "again", "race"}
InBucket  == Searching \cup {"collision", "link", "claim", "item"}
Removals  == {"item_upgrade", "item_reacquire", "delete"}
After     == {"restart", "growth", "missed", "gone"} \cup Removals

Removing(t) == pc[t] \in Removals

Frame == [op : {"none", "find", "insert", "exclude", "use"}, key : Key \cup {Nil},
          write : BOOLEAN, m : Nat, path : Seq(Bucket), collision : Nat,
          n : Node \cup {Nil}, tmp_n : Node \cup {Nil}, new : BOOLEAN, grow : BOOLEAN]

Types ==
    /\ my_mask \in Nat /\ my_mask + 1 \in Pow \ {1}
    /\ my_size \in Nat
    /\ \A m \in my_table : m \in Nat /\ m + 1 \in Pow \ {1}
    /\ rehashed \subseteq 0 .. my_mask
    /\ node_list \in [Bucket -> SUBSET Node]
    /\ key \in [Node -> Key \cup {Nil}]
    /\ bucket_mutex \in [Bucket -> Lock]
    /\ node_mutex \in [Node -> Lock]
    /\ accessor \in [Thread -> Node \cup {Nil}]
    /\ frame \in [Thread -> Frame]
    /\ pc \in [Thread -> PC]
    /\ calls \in [Thread -> 0 .. MaxCalls]

\* What a call has in its frame at each of its steps.
StageOp(t) ==
    /\ pc[t] = "idle" => frame[t] = NoFrame
    /\ pc[t] # "idle" => frame[t].key \in Key
    /\ pc[t] = "using" => frame[t].op = "use"
    /\ pc[t] \in Rehashing \cup Moving \cup InBucket
          => frame[t].op \in {"find", "insert", "exclude"}
    /\ pc[t] \in {"upgrade", "reacquire", "again", "link", "claim"}
          => frame[t].op = "insert"
    /\ pc[t] \in {"item", "restart", "growth"} => frame[t].op \in {"find", "insert"}
    /\ pc[t] = "missed" => frame[t].op = "find"
    /\ pc[t] \in {"gone"} \cup Removals => frame[t].op = "exclude"
    /\ frame[t].op = "insert" => frame[t].write

StageAccessor(t) ==
    accessor[t] # Nil <=> pc[t] \in {"growth", "using"} \/ frame[t].op = "exclude"

StageNode(t) ==
    /\ frame[t].tmp_n # Nil => frame[t].op = "insert"
    /\ pc[t] \in {"upgrade", "reacquire", "again", "race", "collision", "link"}
       /\ frame[t].op = "insert" => frame[t].tmp_n # Nil

StageNew(t) ==
    /\ frame[t].new => /\ pc[t] \in {"claim", "item", "growth"}
                       /\ frame[t].op = "insert" /\ frame[t].tmp_n = Nil
    /\ pc[t] = "claim" => frame[t].new
    /\ frame[t].grow => frame[t].new /\ pc[t] # "claim"

Stage(t) == StageOp(t) /\ StageAccessor(t) /\ StageNode(t) /\ StageNew(t)

Stages == \A t \in Thread : Stage(t)

\* The path of a call starts on the line of its key.
Path(t) ==
    /\ Descends(frame[t].path)
    /\ pc[t] \in {"idle", "using"} => frame[t].path = << >>
    /\ pc[t] \in Rehashing => Len(frame[t].path) >= 1
    /\ pc[t] \in Moving => Len(frame[t].path) >= 2
    /\ pc[t] \in InBucket \cup After => Len(frame[t].path) = 1
    /\ pc[t] \notin {"idle", "using"} => /\ MyBucket(t) \in Line(MyHash(t))
                                         /\ MyBucket(t) <= my_mask

Paths == \A t \in Thread : Path(t)

\* The locks of the buckets belong to threads that need them.
Holds(lock, t) == t = lock.writer \/ t \in lock.readers

Exclusive(lock) == lock.writer # Nil => lock.readers = {}

NeedsBucket(t) ==
    \/ pc[t] \in {"recheck", "again", "link", "claim"}
    \/ pc[t] \in {"search", "race", "collision"} /\ frame[t].op = "exclude"
    \/ pc[t] \in {"race", "collision"} /\ frame[t].op = "insert"
    \/ pc[t] = "item" /\ frame[t].new

HoldsBuckets(t) ==
    /\ \A c \in Bucket :
          /\ bucket_mutex[c].writer = t =>
                Pending(t, c) \/ ((Inside(t) \/ pc[t] = "recheck") /\ Top(t) = c)
          /\ t \in bucket_mutex[c].readers => Inside(t) /\ Top(t) = c
          /\ Pending(t, c) => bucket_mutex[c].writer = t
    /\ Inside(t) => Holds(bucket_mutex[Top(t)], t)
    /\ NeedsBucket(t) => bucket_mutex[Top(t)].writer = t
    /\ pc[t] \in {"upgrade", "move_upgrade"} => t \in bucket_mutex[Top(t)].readers

BucketLocks ==
    /\ \A c \in Bucket : Exclusive(bucket_mutex[c])
    /\ \A t \in Thread : HoldsBuckets(t)

\* Who tried a bucket in vain gets its lock when it is marked.
Marked(t) ==
    /\ \A c \in Bucket : Pending(t, c) => c \in rehashed
    /\ pc[t] \in Moving \cup InBucket => Top(t) \in rehashed
    /\ pc[t] = "acquire" => \/ Top(t) \in rehashed
                            \/ \E u \in Thread : pc[u] = "recheck" /\ Top(u) = Top(t)

AllMarked == \A t \in Thread : Marked(t)

\* The masks that the calls have read, and who stores the next one.
Masks(t) ==
    /\ pc[t] \notin {"idle", "using"} => frame[t].m \in my_table \cup {my_mask}
    /\ pc[t] = "claim" \/ frame[t].grow => frame[t].m <= Cardinality(Key)
    /\ frame[t].grow => frame[t].m = my_mask /\ my_mask \in my_table
    /\ pc[t] \in Rehashing \cup Moving \cup Searching
          => MyBucket(t) = Masked(MyHash(t), frame[t].m)
    /\ pc[t] = "collision" =>
          /\ frame[t].collision \in Line(MyHash(t)) /\ frame[t].collision > MyBucket(t)
          /\ \A c \in Line(MyHash(t)) : c > MyBucket(t) => c >= frame[t].collision

AllMasks ==
    /\ \A m \in my_table : m <= my_mask
    /\ my_mask \in my_table => \E t \in Thread : frame[t].grow
    /\ \A t, u \in Thread : frame[t].grow /\ frame[u].grow => t = u
    /\ \A t \in Thread : Masks(t)

\* The last filled bucket on the line of a hash.
LastFilled(b, h) == b \in Line(h) /\ \A c \in Line(h) : Filled(c) => c <= b

\* An item is in the last filled bucket on its line.
Buckets ==
    /\ Filled(0) /\ Filled(1)
    /\ \A b \in Bucket : Filled(b) => \A c \in Line(b) : Filled(c)
    /\ \A b \in Bucket : \A n \in node_list[b] :
          /\ Filled(b)
          /\ key[n] \in Key
          /\ LastFilled(b, HashOf(n))

\* An item has one owner: the chain that it is in, the thread that is about to
\* link it, or the thread that removed it.
OwnNodes(t) ==
    /\ accessor[t] # Nil => key[accessor[t]] = frame[t].key
    /\ pc[t] \in {"claim", "item"} => /\ frame[t].n \in node_list[MyBucket(t)]
                                      /\ key[frame[t].n] = frame[t].key
    /\ frame[t].tmp_n # Nil => /\ frame[t].tmp_n \notin Linked
                               /\ key[frame[t].tmp_n] = frame[t].key
    /\ Removing(t) => accessor[t] \notin Linked
    /\ \A u \in Thread :
          /\ frame[t].tmp_n # Nil => accessor[u] # frame[t].tmp_n
          /\ frame[t].tmp_n # Nil /\ frame[t].tmp_n = frame[u].tmp_n => t = u
          /\ Removing(t) /\ Removing(u) /\ accessor[t] = accessor[u] => t = u

Nodes == \A t \in Thread : OwnNodes(t)

Sizes ==
    /\ \A n, o \in Linked : key[n] = key[o] => n = o
    /\ my_size = Cardinality(Linked)

\* The locks of the items are those of the accessors.
HoldsItems(t) ==
    /\ \A n \in Node : Holds(node_mutex[n], t) => accessor[t] = n
    /\ accessor[t] # Nil /\ ~Removing(t) =>
          IF frame[t].write THEN node_mutex[accessor[t]].writer = t
                            ELSE t \in node_mutex[accessor[t]].readers
    /\ pc[t] = "item_upgrade" => t \in node_mutex[accessor[t]].readers
    /\ pc[t] = "delete" => node_mutex[accessor[t]].writer = t
    /\ pc[t] \in {"claim", "item"} /\ frame[t].new =>
          \A u \in Thread : accessor[u] # frame[t].n

NodeLocks ==
    /\ \A n \in Node : Exclusive(node_mutex[n])
    /\ \A t \in Thread : HoldsItems(t)

\* A search that found nothing stays right while the lock is kept, and an item
\* is linked where every search for it ends.
Missed(t) ==
    \/ pc[t] \in {"upgrade", "link"}
    \/ pc[t] \in {"race", "collision"} /\ frame[t].op # "exclude"

Search(t) ==
    /\ Missed(t) => Matching(t) = {}
    /\ pc[t] = "link" => LastFilled(MyBucket(t), MyHash(t))

Searches == \A t \in Thread : Search(t)

MapInv ==
    /\ Types /\ Stages /\ Paths /\ BucketLocks /\ AllMarked /\ AllMasks /\ Buckets
    /\ Nodes /\ Sizes /\ NodeLocks /\ Searches

(***************************************************************************)
(* Paths.                                                                  *)
(***************************************************************************)
LEMMA PathEnds ==
  ASSUME NEW path, Descends(path), Len(path) >= 1
  PROVE  /\ path[1] \in Bucket /\ Last(path) \in Bucket /\ Last(path) = path[Len(path)]
         /\ Last(path) <= path[1]
         /\ ~PendingIn(path, Last(path))
         /\ \A c : PendingIn(path, c) => c \in Bucket /\ c >= 2
         /\ Len(path) = 1 => Last(path) = path[1] /\ \A c : ~PendingIn(path, c)
<1>1. path \in Seq(Bucket) /\ Len(path) \in Nat
  BY DEF Descends
<1>2. \A i \in 1 .. Len(path) : path[i] \in Bucket /\ path[i] \in Nat
  BY <1>1, BucketNumbers
<1>3. 1 \in 1 .. Len(path) /\ Len(path) \in 1 .. Len(path)
  BY <1>1
<1>4. Last(path) <= path[1]
  BY <1>1, <1>2, <1>3 DEF Descends, Last
<1>5. ~PendingIn(path, Last(path))
  <2>1. SUFFICES ASSUME NEW i \in 1 .. Len(path) - 1, path[i] = Last(path) PROVE FALSE
    BY DEF PendingIn
  <2>2. i \in 1 .. Len(path) /\ i < Len(path)
    BY <1>1
  <2>3. path[Len(path)] < path[i]
    BY <1>3, <2>2 DEF Descends
  <2> QED
    BY <1>2, <1>3, <2>1, <2>2, <2>3 DEF Last
<1>6. \A c : PendingIn(path, c) => c \in Bucket /\ c >= 2
  BY <1>1, <1>2 DEF PendingIn, Descends
<1>7. Len(path) = 1 => Last(path) = path[1] /\ \A c : ~PendingIn(path, c)
  BY DEF PendingIn, Last
<1> QED
  BY <1>2, <1>3, <1>4, <1>5, <1>6, <1>7 DEF Last

LEMMA EmptyPath ==
  Descends(<< >>) /\ Len(<< >>) = 0 /\ \A c : ~PendingIn(<< >>, c)
BY DEF Descends, PendingIn

LEMMA OnePath ==
  ASSUME NEW b \in Bucket
  PROVE  /\ Descends(<<b>>) /\ Len(<<b>>) = 1 /\ <<b>>[1] = b /\ Last(<<b>>) = b
         /\ \A c : ~PendingIn(<<b>>, c)
BY DEF Descends, PendingIn, Last

WithParent(path) == Append(path, Parent(Last(path)))

LEMMA AppendedPath ==
  ASSUME NEW path, Descends(path), Len(path) >= 1, Last(path) >= 2
  PROVE  /\ Descends(WithParent(path)) /\ Len(WithParent(path)) = Len(path) + 1
         /\ WithParent(path)[1] = path[1]
         /\ \A c : PendingIn(WithParent(path), c) <=> PendingIn(path, c) \/ c = Last(path)
<1> DEFINE d == Last(path)
           q == WithParent(path)
<1>0. q = Append(path, Parent(d)) /\ d = Last(path)
  BY DEF WithParent
<1> HIDE DEF d, q
<1>1. path \in Seq(Bucket) /\ Len(path) \in Nat
  BY DEF Descends
<1>2. d \in Bucket /\ d = path[Len(path)] /\ d >= 2
  BY <1>0, PathEnds
<1>3. Parent(d) \in Bucket /\ Parent(d) < d
  BY <1>2, ParentFacts
<1>4. /\ q \in Seq(Bucket) /\ Len(q) = Len(path) + 1
      /\ \A i \in 1 .. Len(path) : q[i] = path[i]
      /\ q[Len(path) + 1] = Parent(d)
  BY <1>0, <1>1, <1>3
<1>5. \A i \in 1 .. Len(path) : path[i] \in Nat
  BY <1>1, BucketNumbers
<1>6. \A i, j \in 1 .. Len(q) : i < j => q[j] < q[i]
  <2>1. SUFFICES ASSUME NEW i \in 1 .. Len(q), NEW j \in 1 .. Len(q), i < j
                 PROVE  q[j] < q[i]
    OBVIOUS
  <2>2. i \in 1 .. Len(path)
    BY <1>1, <1>4, <2>1
  <2>3. CASE j \in 1 .. Len(path)
    BY <1>4, <2>1, <2>2, <2>3 DEF Descends
  <2>4. CASE j = Len(path) + 1
    <3>1. q[j] < d
      BY <1>3, <1>4, <2>4
    <3>2. i = Len(path) \/ i < Len(path)
      BY <1>1, <2>2
    <3>3. i < Len(path) => d < path[i]
      BY <1>1, <1>2, <2>2 DEF Descends
    <3>4. q[j] \in Nat /\ d \in Nat /\ path[i] \in Nat /\ q[i] = path[i]
      BY <1>2, <1>3, <1>4, <1>5, <2>2, <2>4, BucketFacts
    <3> QED
      BY <1>2, <3>1, <3>2, <3>3, <3>4
  <2> QED
    BY <1>1, <1>4, <2>3, <2>4
<1>7. \A i \in 1 .. Len(q) - 1 : q[i] >= 2 /\ q[i + 1] = Parent(q[i])
  <2>1. SUFFICES ASSUME NEW i \in 1 .. Len(path)
                 PROVE  q[i] >= 2 /\ q[i + 1] = Parent(q[i])
    BY <1>1, <1>4
  <2>2. CASE i = Len(path)
    BY <1>1, <1>2, <1>4, <2>2
  <2>3. CASE i \in 1 .. Len(path) - 1
    <3>1. i + 1 \in 1 .. Len(path)
      BY <1>1, <2>3
    <3> QED
      BY <1>4, <2>3, <3>1 DEF Descends
  <2> QED
    BY <1>1, <2>2, <2>3
<1>8. q[1] = path[1]
  BY <1>1, <1>4
<1>9. ASSUME NEW c PROVE PendingIn(q, c) <=> PendingIn(path, c) \/ c = d
  <2>1. PendingIn(q, c) <=> \E i \in 1 .. Len(path) : path[i] = c
    BY <1>1, <1>4 DEF PendingIn
  <2>2. \A i \in 1 .. Len(path) : i = Len(path) \/ i \in 1 .. Len(path) - 1
    BY <1>1
  <2>3. Len(path) \in 1 .. Len(path) /\ \A i \in 1 .. Len(path) - 1 : i \in 1 .. Len(path)
    BY <1>1
  <2> QED
    BY <1>2, <2>1, <2>2, <2>3 DEF PendingIn
<1> QED
  BY <1>4, <1>6, <1>7, <1>8, <1>9 DEF Descends, d, q

LEMMA ShortenedPath ==
  ASSUME NEW path, Descends(path), Len(path) >= 2, NEW q, q = Front(path)
  PROVE  /\ Descends(q) /\ Len(q) = Len(path) - 1 /\ Len(q) >= 1 /\ q[1] = path[1]
         /\ Last(q) = path[Len(path) - 1] /\ Last(q) \in Bucket /\ Last(q) >= 2
         /\ Last(path) = Parent(Last(q)) /\ Last(q) # Last(path)
         /\ PendingIn(path, Last(q)) /\ ~PendingIn(q, Last(q))
         /\ \A c : PendingIn(path, c) <=> PendingIn(q, c) \/ c = Last(q)
<1>1. path \in Seq(Bucket) /\ Len(path) \in Nat
  BY DEF Descends
<1>2. PICK k \in Nat : k = Len(path) - 1 /\ k >= 1
  BY <1>1
<1>3. /\ q \in Seq(Bucket) /\ Len(q) = k
      /\ \A i \in 1 .. k : q[i] = path[i]
  BY <1>1, <1>2 DEF Front
<1>4. Descends(q)
  <2>1. \A i, j \in 1 .. Len(q) : i < j => q[j] < q[i]
    BY <1>1, <1>2, <1>3, SMTT(30) DEF Descends
  <2>2. \A i \in 1 .. Len(q) - 1 : q[i] >= 2 /\ q[i + 1] = Parent(q[i])
    <3>1. SUFFICES ASSUME NEW i \in 1 .. k - 1
                   PROVE  q[i] >= 2 /\ q[i + 1] = Parent(q[i])
      BY <1>3
    <3>2. i \in 1 .. Len(path) - 1 /\ i \in 1 .. k /\ i + 1 \in 1 .. k
      BY <1>2
    <3> QED
      BY <1>3, <3>2 DEF Descends
  <2> QED
    BY <1>3, <2>1, <2>2 DEF Descends
<1>5. q[1] = path[1] /\ Last(q) = path[k]
  BY <1>2, <1>3 DEF Last
<1>6. Last(q) >= 2 /\ path[k + 1] = Parent(Last(q))
  BY <1>2, <1>5 DEF Descends
<1>7. Last(path) = Parent(Last(q))
  BY <1>1, <1>2, <1>6 DEF Last
<1>8. Last(q) \in Bucket /\ ~PendingIn(q, Last(q))
  BY <1>2, <1>3, <1>4, PathEnds
<1>9. ASSUME NEW c PROVE PendingIn(path, c) <=> PendingIn(q, c) \/ c = Last(q)
  <2>1. PendingIn(path, c) <=> \E i \in 1 .. k : q[i] = c
    BY <1>2, <1>3 DEF PendingIn
  <2>2. \A i \in 1 .. k : i = k \/ i \in 1 .. k - 1
    BY <1>2
  <2>3. k \in 1 .. k /\ \A i \in 1 .. k - 1 : i \in 1 .. k
    BY <1>2
  <2> QED
    BY <1>3, <2>1, <2>2, <2>3 DEF PendingIn, Last
<1>10. Last(q) # Last(path)
  <2>1. ~PendingIn(path, Last(path))
    BY <1>1, <1>2, PathEnds
  <2> QED
    BY <1>9, <2>1
<1> QED
  BY <1>2, <1>3, <1>4, <1>5, <1>6, <1>7, <1>8, <1>9, <1>10

(***************************************************************************)
(* Locks.                                                                  *)
(***************************************************************************)
\* A change of a lock by t is nothing to the other threads.
SameForOthers(l, l2, t) ==
    \A u \in Thread \ {t} : /\ l2.writer = u <=> l.writer = u
                            /\ u \in l2.readers <=> u \in l.readers

LEMMA UnlockFacts ==
  ASSUME NEW l \in Lock, Exclusive(l), NEW t \in Thread
  PROVE  /\ Unlocked(l, t) \in Lock /\ Exclusive(Unlocked(l, t))
         /\ SameForOthers(l, Unlocked(l, t), t)
         /\ ~Holds(Unlocked(l, t), t)
BY NilAssumption DEF Lock, Exclusive, Unlocked, SameForOthers, Holds

LEMMA LockFacts ==
  ASSUME NEW l \in Lock, Exclusive(l), NEW t \in Thread, NEW w \in BOOLEAN, CanLock(l, w)
  PROVE  /\ Locked(l, t, w) \in Lock /\ Exclusive(Locked(l, t, w))
         /\ SameForOthers(l, Locked(l, t, w), t)
         /\ w => Locked(l, t, w).writer = t
         /\ ~w => t \in Locked(l, t, w).readers
         /\ Holds(Locked(l, t, w), t)
         /\ Locked(l, t, w).writer = t => w
         /\ t \in Locked(l, t, w).readers => ~w
BY NilAssumption DEF Lock, Exclusive, Locked, SameForOthers, Holds, CanLock, CanRead, CanWrite, Free

LEMMA WriterFacts ==
  ASSUME NEW l \in Lock, Exclusive(l), NEW t \in Thread
  PROVE  /\ Writer(t) \in Lock /\ Exclusive(Writer(t))
         /\ Writer(t).writer = t /\ t \notin Writer(t).readers
         /\ l.readers = {t} => SameForOthers(l, Writer(t), t)
         /\ CanWrite(l) => SameForOthers(l, Writer(t), t)
BY NilAssumption DEF Lock, Exclusive, Writer, SameForOthers, CanWrite, Free

\* The writer of a lock hands it over to itself as a reader, or frees it.
LEMMA OwnerAlone ==
  ASSUME NEW l \in Lock, Exclusive(l), NEW t \in Thread, l.writer = t
  PROVE  l = Writer(t)
BY NilAssumption DEF Lock, Exclusive, Writer, Free

LEMMA DowngradeFacts ==
  ASSUME NEW l \in Lock, Exclusive(l), NEW t \in Thread, l.writer = t
  PROVE  /\ Locked(Free, t, FALSE) \in Lock /\ Exclusive(Locked(Free, t, FALSE))
         /\ Locked(Free, t, FALSE).writer # t /\ t \in Locked(Free, t, FALSE).readers
         /\ SameForOthers(l, Locked(Free, t, FALSE), t)
         /\ Free \in Lock /\ Exclusive(Free) /\ ~Holds(Free, t)
         /\ SameForOthers(l, Free, t)
BY NilAssumption DEF Lock, Exclusive, Locked, SameForOthers, Holds, Free

\* Two threads hold a lock together only as readers.
LEMMA ExclusiveFacts ==
  ASSUME NEW l \in Lock, Exclusive(l), NEW t \in Thread, NEW u \in Thread,
         l.writer = t, Holds(l, u)
  PROVE  t = u
BY NilAssumption DEF Lock, Exclusive, Holds

(***************************************************************************)
(* What the invariant says of a state.                                     *)
(***************************************************************************)
LEMMA PathFacts ==
  ASSUME MapInv, NEW t \in Thread
  PROVE  /\ Descends(frame[t].path)
         /\ pc[t] \notin {"idle", "using"} =>
               /\ Len(frame[t].path) >= 1
               /\ Top(t) \in Bucket /\ MyBucket(t) \in Bucket
               /\ Top(t) <= MyBucket(t) /\ MyBucket(t) <= my_mask
               /\ frame[t].key \in Key /\ MyHash(t) \in Bucket
               /\ MyBucket(t) \in Line(MyHash(t))
         /\ pc[t] \in Moving \cup Rehashing \cup InBucket \cup After => pc[t] \notin {"idle", "using"}
         /\ pc[t] \in InBucket \cup After => Top(t) = MyBucket(t)
         /\ pc[t] \in InBucket \cup After \cup {"idle", "using"} => \A c : ~Pending(t, c)
         /\ ~Pending(t, Top(t)) \/ pc[t] \in {"idle", "using"}
         /\ \A c : Pending(t, c) => c \in Bucket /\ c >= 2
<1>1. Path(t) /\ Stage(t) /\ pc[t] \in PC
  BY DEF MapInv, Paths, Stages, Types
<1>2. Descends(frame[t].path)
  BY <1>1 DEF Path
<1>3. pc[t] \in {"idle", "using"} \/ pc[t] \in Rehashing \/ pc[t] \in Moving
         \/ pc[t] \in InBucket \cup After
  BY <1>1 DEF PC, Rehashing, Moving, InBucket, Searching, After, Removals
<1>4. pc[t] \in Moving \cup Rehashing \cup InBucket \cup After => pc[t] \notin {"idle", "using"}
  BY DEF Rehashing, Moving, InBucket, Searching, After, Removals
<1>5. pc[t] \in {"idle", "using"} => \A c : ~Pending(t, c)
  BY <1>1, EmptyPath DEF Path, Pending
<1>6. ASSUME pc[t] \notin {"idle", "using"} PROVE Len(frame[t].path) >= 1
  <2>1. PICK n \in Nat : n = Len(frame[t].path)
    BY <1>2 DEF Descends
  <2>2. pc[t] \in Rehashing => n >= 1
    BY <1>1, <2>1 DEF Path
  <2>3. pc[t] \in Moving => n >= 2
    BY <1>1, <2>1 DEF Path
  <2>4. pc[t] \in InBucket \cup After => n = 1
    BY <1>1, <2>1 DEF Path
  <2> QED
    BY <1>3, <1>6, <2>1, <2>2, <2>3, <2>4
<1>7. ASSUME pc[t] \notin {"idle", "using"}
      PROVE  /\ Top(t) \in Bucket /\ MyBucket(t) \in Bucket
             /\ Top(t) <= MyBucket(t) /\ MyBucket(t) <= my_mask
             /\ frame[t].key \in Key /\ MyHash(t) \in Bucket
             /\ MyBucket(t) \in Line(MyHash(t))
             /\ ~Pending(t, Top(t))
  <2>1. /\ Top(t) \in Bucket /\ MyBucket(t) \in Bucket
        /\ Top(t) <= MyBucket(t) /\ ~Pending(t, Top(t))
    BY <1>2, <1>6, <1>7, PathEnds DEF Top, MyBucket, Pending
  <2>2. frame[t].key \in Key
    BY <1>1, <1>7 DEF Stage, StageOp
  <2> QED
    BY <1>1, <1>7, <2>1, <2>2, HashAssumption DEF Path, MyHash
<1>8. pc[t] \in InBucket \cup After => Top(t) = MyBucket(t) /\ \A c : ~Pending(t, c)
  BY <1>1, <1>2, <1>4, <1>6, PathEnds DEF Path, Top, MyBucket, Pending
<1>9. \A c : Pending(t, c) => c \in Bucket /\ c >= 2
  <2>1. CASE pc[t] \in {"idle", "using"}
    BY <1>5, <2>1
  <2>2. CASE pc[t] \notin {"idle", "using"}
    BY <1>2, <1>6, <2>2, PathEnds DEF Pending
  <2> QED
    BY <2>1, <2>2
<1> QED
  BY <1>2, <1>4, <1>5, <1>6, <1>7, <1>8, <1>9

LEMMA InsideFacts ==
  ASSUME MapInv, NEW t \in Thread, Inside(t)
  PROVE  /\ pc[t] \in Moving \cup InBucket /\ Top(t) \in Bucket
         /\ Holds(bucket_mutex[Top(t)], t)
         /\ Filled(Top(t))
         /\ \A u \in Thread : bucket_mutex[Top(t)].writer = u => u = t
<1>1. pc[t] \in Moving \cup InBucket /\ pc[t] \notin {"idle", "using"}
  BY DEF Inside, Moving, InBucket, Searching
<1>2. Top(t) \in Bucket /\ ~Pending(t, Top(t))
  BY <1>1, PathFacts
<1>3. Holds(bucket_mutex[Top(t)], t)
  BY DEF MapInv, BucketLocks, HoldsBuckets
<1>4. bucket_mutex[Top(t)] \in Lock /\ Exclusive(bucket_mutex[Top(t)])
  BY <1>2 DEF MapInv, BucketLocks, Types
<1>5. \A u \in Thread : bucket_mutex[Top(t)].writer = u => u = t
  BY <1>3, <1>4, ExclusiveFacts
<1>6. \A u \in Thread : Pending(u, Top(t)) => bucket_mutex[Top(t)].writer = u
  BY <1>2 DEF MapInv, BucketLocks, HoldsBuckets
<1>7. Top(t) \in rehashed
  BY <1>1 DEF MapInv, AllMarked, Marked
<1>8. Filled(Top(t))
  BY <1>2, <1>5, <1>6, <1>7 DEF Filled
<1> QED
  BY <1>1, <1>2, <1>3, <1>5, <1>8

\* Who writes to a bucket is the only one in it.
LEMMA WriterAlone ==
  ASSUME MapInv, NEW t \in Thread, NEW u \in Thread, Inside(u),
         bucket_mutex[Top(u)].writer = t
  PROVE  t = u
BY InsideFacts

LEMMA LinkedFacts ==
  ASSUME MapInv
  PROVE  /\ Linked \subseteq Node
         /\ \A n \in Linked : key[n] \in Key /\ HashOf(n) \in Bucket
         /\ \A b \in Bucket : node_list[b] \subseteq Linked
         /\ \A n \in Linked : \E b \in Bucket : n \in node_list[b]
         /\ \A b, c \in Bucket : b # c => node_list[b] \cap node_list[c] = {}
<1>1. Linked \subseteq Node
  BY DEF MapInv, Types, Linked
<1>2. /\ \A b \in Bucket : node_list[b] \subseteq Linked
      /\ \A n \in Linked : \E b \in Bucket : n \in node_list[b]
  BY DEF Linked
<1>3. \A n \in Linked : key[n] \in Key
  BY <1>2 DEF MapInv, Buckets
<1>4. \A n \in Linked : HashOf(n) \in Bucket
  BY <1>3, HashAssumption DEF HashOf
<1>5. ASSUME NEW b \in Bucket, NEW c \in Bucket, NEW n \in node_list[b], n \in node_list[c]
      PROVE  b = c
  <2>1. /\ Filled(b) /\ LastFilled(b, HashOf(n))
        /\ Filled(c) /\ LastFilled(c, HashOf(n))
    BY <1>5 DEF MapInv, Buckets
  <2>2. b <= c /\ c <= b
    BY <2>1 DEF LastFilled
  <2> QED
    BY <2>2, BucketNumbers
<1> QED
  BY <1>1, <1>2, <1>3, <1>4, <1>5

(***************************************************************************)
(* Steps.                                                                  *)
(***************************************************************************)
Step(t) == Begin(t) \/ Rehash(t) \/ Lookup(t) \/ Exclude(t)

\* A step of t leaves the locals of the other threads alone.
Others(t) ==
    \A u \in Thread \ {t} : pc'[u] = pc[u] /\ frame'[u] = frame[u] /\ accessor'[u] = accessor[u]

LEMMA OthersStep ==
  ASSUME MapInv, NEW t \in Thread, Step(t)
  PROVE  Others(t)
<1>1. /\ pc \in [Thread -> PC] /\ frame \in [Thread -> Frame]
      /\ accessor \in [Thread -> Node \cup {Nil}]
  BY DEF MapInv, Types
<1>2. CASE Begin(t)
  BY <1>1, <1>2, Zenon DEF Begin, Others, CallLookup, CallErase, ReleaseAccessor, ReturnMissed,
     LoadMask, Goto
<1>3. CASE Rehash(t)
  BY <1>1, <1>3, Zenon DEF Rehash, Others, SeeFlag, TryBucket, FailToTryBucket, SeeRehashed,
     MarkRehashed, AcquireBucket, MoveNone, MoveItems, LeaveParent, NeedWriter, Upgrade,
     ReleaseToUpgrade, Reacquire, Goto
<1>4. CASE Lookup(t)
  BY <1>1, <1>4, Zenon DEF Lookup, Others, Found, FoundAfterUpgrade, FindInBucket, NotFound,
     NotFoundToInsert, Upgrade, ReleaseToUpgrade, Reacquire, NotFoundAfterUpgrade, MaskKept,
     MaskChanged, NoCollision, Collision, Absent, LinkNode, ClaimSegment, TryItem,
     GiveUpItem, Restart, LoadMask, Growth, Goto
<1>5. CASE Exclude(t)
  BY <1>1, <1>5 DEF Exclude, Others, Unlink, NotThere, UpgradeItem, ReleaseItem,
     ReacquireItem, DeleteNode, ReleaseAccessor, Goto
<1> QED
  BY <1>2, <1>3, <1>4, <1>5 DEF Step

\* Which steps change what.
LEMMA Effects ==
  ASSUME NEW t \in Thread, Step(t)
  PROVE  /\ my_mask' = my_mask \/ Growth(t)
         /\ my_table' = my_table \/ ClaimSegment(t)
         /\ my_size' = my_size \/ LinkNode(t) \/ Unlink(t)
         /\ rehashed' = rehashed \/ MarkRehashed(t)
         /\ node_list' = node_list \/ MoveItems(t) \/ LinkNode(t) \/ Unlink(t)
         /\ key' = key \/ NotFoundToInsert(t) \/ Growth(t) \/ DeleteNode(t)
<1> USE DEF table, items
<1>1. CASE Begin(t)
  BY <1>1, Zenon DEF Begin, CallLookup, CallErase, ReleaseAccessor, ReturnMissed, LoadMask
<1>2. CASE Rehash(t)
  BY <1>2 DEF Rehash, SeeFlag, TryBucket, FailToTryBucket, SeeRehashed, AcquireBucket,
     MoveNone, LeaveParent, NeedWriter, Upgrade, ReleaseToUpgrade, Reacquire,
     MarkRehashed, MoveItems
<1>3. CASE Lookup(t)
  BY <1>3, Zenon DEF Lookup, Found, FoundAfterUpgrade, FindInBucket, NotFound, NotFoundToInsert,
     Upgrade, ReleaseToUpgrade, Reacquire, NotFoundAfterUpgrade, MaskKept, MaskChanged,
     NoCollision, Collision, Absent, LinkNode, ClaimSegment, TryItem, GiveUpItem, Restart, LoadMask,
     Growth
<1>4. CASE Exclude(t)
  BY <1>4 DEF Exclude, Unlink, NotThere, UpgradeItem, ReleaseItem, ReacquireItem, DeleteNode,
     ReleaseAccessor
<1> QED
  BY <1>1, <1>2, <1>3, <1>4 DEF Step

\* The locks change only for the thread that moves.
BucketLocksKept(t) ==
    /\ bucket_mutex' \in [Bucket -> Lock]
    /\ \A c \in Bucket : /\ Exclusive(bucket_mutex'[c])
                         /\ SameForOthers(bucket_mutex[c], bucket_mutex'[c], t)
                         /\ c # Top(t) => bucket_mutex'[c] = bucket_mutex[c]

NodeLocksKept(t) ==
    /\ node_mutex' \in [Node -> Lock]
    /\ \A n \in Node : /\ Exclusive(node_mutex'[n])
                       /\ SameForOthers(node_mutex[n], node_mutex'[n], t)

LEMMA OneBucketLock ==
  ASSUME MapInv, NEW t \in Thread, Top(t) \in Bucket,
         NEW L \in Lock, Exclusive(L), SameForOthers(bucket_mutex[Top(t)], L, t),
         bucket_mutex' = [bucket_mutex EXCEPT ![Top(t)] = L]
  PROVE  BucketLocksKept(t)
<1>1. bucket_mutex \in [Bucket -> Lock] /\ \A c \in Bucket : Exclusive(bucket_mutex[c])
  BY DEF MapInv, Types, BucketLocks
<1>2. \A c \in Bucket \ {Top(t)} : bucket_mutex'[c] = bucket_mutex[c]
  BY <1>1
<1>3. bucket_mutex'[Top(t)] = L
  BY <1>1
<1> QED
  BY <1>1, <1>2, <1>3 DEF BucketLocksKept, SameForOthers

LEMMA NoBucketLock ==
  ASSUME MapInv, NEW t \in Thread, bucket_mutex' = bucket_mutex
  PROVE  BucketLocksKept(t)
BY DEF MapInv, Types, BucketLocks, BucketLocksKept, SameForOthers

LEMMA BucketLocksStep ==
  ASSUME MapInv, NEW t \in Thread, Step(t)
  PROVE  BucketLocksKept(t)
<1> DEFINE l == bucket_mutex[Top(t)]
<1>1. pc[t] \notin {"idle", "using"} => Top(t) \in Bucket /\ l \in Lock /\ Exclusive(l)
  BY PathFacts DEF MapInv, Types, BucketLocks
<1>2. pc[t] \in InBucket => MyBucket(t) = Top(t)
  BY PathFacts
<1> HIDE DEF l
<1>3. ASSUME NEW w \in BOOLEAN, LockBucket(t, Top(t), w), pc[t] \notin {"idle", "using"}
      PROVE  BucketLocksKept(t)
  <2>1. CanLock(l, w) /\ bucket_mutex' = [bucket_mutex EXCEPT ![Top(t)] = Locked(l, t, w)]
    BY <1>3 DEF LockBucket, l
  <2>2. /\ Locked(l, t, w) \in Lock /\ Exclusive(Locked(l, t, w))
        /\ SameForOthers(l, Locked(l, t, w), t)
    BY <1>1, <1>3, <2>1, LockFacts
  <2> QED
    BY <1>1, <1>3, <2>1, <2>2, OneBucketLock DEF l
<1>4. ASSUME ReleaseBucket(t, Top(t)), pc[t] \notin {"idle", "using"}
      PROVE  BucketLocksKept(t)
  BY <1>1, <1>4, UnlockFacts, OneBucketLock DEF ReleaseBucket, l
<1>5. ASSUME NEW from, NEW to, Upgrade(t, from, to), pc[t] \notin {"idle", "using"}
      PROVE  BucketLocksKept(t)
  <2>1. bucket_mutex' = [bucket_mutex EXCEPT ![Top(t)] = Writer(t)] /\ l.readers = {t}
    BY <1>5 DEF Upgrade, l
  <2> QED
    BY <1>1, <1>5, <2>1, WriterFacts, OneBucketLock DEF l
<1>6. CASE Begin(t)
  <2>1. bucket_mutex' = bucket_mutex
    BY <1>6, Zenon DEF Begin, CallLookup, CallErase, ReleaseAccessor, ReturnMissed, locks
  <2> QED
    BY <2>1, NoBucketLock
<1>7. CASE Rehash(t)
  <2>1. \/ bucket_mutex' = bucket_mutex
        \/ \E w \in BOOLEAN : LockBucket(t, Top(t), w) /\ pc[t] \notin {"idle", "using"}
        \/ ReleaseBucket(t, Top(t)) /\ pc[t] \notin {"idle", "using"}
        \/ Upgrade(t, "move_upgrade", "move") /\ pc[t] \notin {"idle", "using"}
    BY <1>7 DEF Rehash, SeeFlag, TryBucket, FailToTryBucket, SeeRehashed, MarkRehashed,
       AcquireBucket, MoveNone, MoveItems, LeaveParent, NeedWriter, Upgrade,
       ReleaseToUpgrade, Reacquire, Goto, locks
  <2> QED
    BY <1>3, <1>4, <1>5, <2>1, NoBucketLock
<1>8. CASE Lookup(t)
  <2>1. CASE FoundAfterUpgrade(t)
    <3>1. /\ bucket_mutex' = [bucket_mutex EXCEPT ![MyBucket(t)] = Locked(Free, t, FALSE)]
          /\ pc[t] = "again"
      BY <2>1 DEF FoundAfterUpgrade, FindInBucket, Goto
    <3>2. MyBucket(t) = Top(t) /\ pc[t] \notin {"idle", "using"}
      BY <1>2, <3>1 DEF InBucket, Searching
    <3>3. l.writer = t
      BY <3>1 DEF MapInv, BucketLocks, HoldsBuckets, NeedsBucket, l
    <3> QED
      BY <1>1, <3>1, <3>2, <3>3, DowngradeFacts, OneBucketLock DEF l
  <2>2. CASE ~FoundAfterUpgrade(t)
    <3>1. \/ bucket_mutex' = bucket_mutex
          \/ \E w \in BOOLEAN : LockBucket(t, Top(t), w) /\ pc[t] \in InBucket
          \/ ReleaseBucket(t, Top(t)) /\ pc[t] \in InBucket
          \/ ReleaseBucket(t, MyBucket(t)) /\ pc[t] \in InBucket
          \/ Upgrade(t, "upgrade", "race") /\ pc[t] \in InBucket
      BY <1>8, <2>2, Zenon DEF Lookup, Found, NotFound, NotFoundToInsert, Upgrade,
         ReleaseToUpgrade, Reacquire, NotFoundAfterUpgrade, MaskKept, MaskChanged,
         NoCollision, Collision, Absent, LinkNode, ClaimSegment, TryItem, GiveUpItem, Restart,
         LoadMask, Growth, Goto, InBucket, Searching, locks
    <3>2. pc[t] \in InBucket => pc[t] \notin {"idle", "using"}
      BY DEF InBucket, Searching
    <3> QED
      BY <1>2, <1>3, <1>4, <1>5, <3>1, <3>2, NoBucketLock
  <2> QED
    BY <2>1, <2>2
<1>9. CASE Exclude(t)
  <2>1. \/ bucket_mutex' = bucket_mutex
        \/ ReleaseBucket(t, MyBucket(t)) /\ pc[t] = "search"
    BY <1>9 DEF Exclude, Unlink, NotThere, UpgradeItem, ReleaseItem, ReacquireItem,
       DeleteNode, ReleaseAccessor, Goto, locks
  <2>2. "search" \in InBucket
    BY DEF InBucket, Searching
  <2> QED
    BY <1>2, <1>4, <2>1, <2>2, NoBucketLock
<1> QED
  BY <1>6, <1>7, <1>8, <1>9 DEF Step

LEMMA OneNodeLock ==
  ASSUME MapInv, NEW t \in Thread, NEW n \in Node,
         NEW L \in Lock, Exclusive(L), SameForOthers(node_mutex[n], L, t),
         node_mutex' = [node_mutex EXCEPT ![n] = L]
  PROVE  NodeLocksKept(t)
<1>1. node_mutex \in [Node -> Lock] /\ \A o \in Node : Exclusive(node_mutex[o])
  BY DEF MapInv, Types, NodeLocks
<1>2. \A o \in Node \ {n} : node_mutex'[o] = node_mutex[o]
  BY <1>1
<1>3. node_mutex'[n] = L
  BY <1>1
<1> QED
  BY <1>1, <1>2, <1>3 DEF NodeLocksKept, SameForOthers

LEMMA NoNodeLock ==
  ASSUME MapInv, NEW t \in Thread, node_mutex' = node_mutex
  PROVE  NodeLocksKept(t)
BY DEF MapInv, Types, NodeLocks, NodeLocksKept, SameForOthers

\* A call has the node that it works on.
LEMMA NodeFacts ==
  ASSUME MapInv, NEW t \in Thread
  PROVE  /\ pc[t] \in {"growth", "using", "gone"} \cup Removals \/ frame[t].op = "exclude"
               => accessor[t] \in Node
         /\ accessor[t] = Nil \/ accessor[t] \in Node
         /\ pc[t] \in {"claim", "item"} =>
               /\ frame[t].n \in Node /\ frame[t].n \in node_list[MyBucket(t)]
               /\ frame[t].n \in Linked
         /\ frame[t].tmp_n = Nil \/ frame[t].tmp_n \in Node
         /\ node_mutex \in [Node -> Lock] /\ \A n \in Node : Exclusive(node_mutex[n])
<1>1. /\ accessor[t] \in Node \cup {Nil} /\ frame[t] \in Frame /\ Stage(t) /\ OwnNodes(t)
      /\ node_mutex \in [Node -> Lock] /\ \A n \in Node : Exclusive(node_mutex[n])
  BY DEF MapInv, Types, Stages, Nodes, NodeLocks
<1>2. pc[t] \in {"growth", "using", "gone"} \cup Removals \/ frame[t].op = "exclude"
               => accessor[t] \in Node
  BY <1>1 DEF Stage, StageAccessor, StageOp
<1>3. pc[t] \in {"claim", "item"} => frame[t].n \in node_list[MyBucket(t)] /\ MyBucket(t) \in Bucket
  BY <1>1, PathFacts DEF OwnNodes, InBucket, Searching
<1> QED
  BY <1>1, <1>2, <1>3, LinkedFacts DEF Frame

LEMMA NodeLocksStep ==
  ASSUME MapInv, NEW t \in Thread, Step(t)
  PROVE  NodeLocksKept(t)
<1>1. \/ node_mutex' = node_mutex
      \/ ReleaseAccessor(t, "using") \/ ReleaseAccessor(t, "gone")
      \/ TryItem(t) \/ UpgradeItem(t) \/ ReleaseItem(t) \/ ReacquireItem(t) \/ DeleteNode(t)
  <2>1. Begin(t) => \/ node_mutex' = node_mutex
                    \/ ReleaseAccessor(t, "using")
    BY Zenon DEF Begin, CallLookup, CallErase, ReturnMissed, LoadMask, locks
  <2>2. Rehash(t) => node_mutex' = node_mutex
    BY DEF Rehash, SeeFlag, TryBucket, FailToTryBucket, SeeRehashed, MarkRehashed,
       AcquireBucket, MoveNone, MoveItems, LeaveParent, NeedWriter, Upgrade,
       ReleaseToUpgrade, Reacquire, locks
  <2>3. Lookup(t) => node_mutex' = node_mutex \/ TryItem(t)
    BY DEF Lookup, Found, FoundAfterUpgrade, FindInBucket, NotFound, NotFoundToInsert,
       Upgrade, ReleaseToUpgrade, Reacquire, NotFoundAfterUpgrade, MaskKept, MaskChanged,
       NoCollision, Collision, Absent, LinkNode, ClaimSegment, GiveUpItem, Restart, Growth, locks
  <2>4. Exclude(t) => \/ node_mutex' = node_mutex
                      \/ ReleaseAccessor(t, "gone") \/ UpgradeItem(t) \/ ReleaseItem(t)
                      \/ ReacquireItem(t) \/ DeleteNode(t)
    BY DEF Exclude, Unlink, NotThere, locks
  <2> QED
    BY <2>1, <2>2, <2>3, <2>4 DEF Step
<1> DEFINE l == node_mutex[accessor[t]]
           k == node_mutex[frame[t].n]
<1>2. accessor[t] \in Node => l \in Lock /\ Exclusive(l)
  BY NodeFacts
<1>3. pc[t] = "item" => frame[t].n \in Node /\ k \in Lock /\ Exclusive(k)
  BY NodeFacts
<1>4. pc[t] \in {"using", "gone", "item_upgrade", "item_reacquire", "delete"}
        => accessor[t] \in Node
  BY NodeFacts DEF Removals
<1> HIDE DEF l, k
<1>5. CASE ReleaseAccessor(t, "using") \/ ReleaseAccessor(t, "gone") \/ ReleaseItem(t)
  <2>1. /\ node_mutex' = [node_mutex EXCEPT ![accessor[t]] = Unlocked(l, t)]
        /\ accessor[t] \in Node
    BY <1>4, <1>5 DEF ReleaseAccessor, ReleaseItem, Goto, l
  <2> QED
    BY <1>2, <2>1, UnlockFacts, OneNodeLock DEF l
<1>6. CASE TryItem(t)
  <2>1. /\ node_mutex' = [node_mutex EXCEPT ![frame[t].n] = Locked(k, t, frame[t].write)]
        /\ CanLock(k, frame[t].write) /\ pc[t] = "item" /\ frame[t].write \in BOOLEAN
    BY <1>6 DEF TryItem, Goto, k, MapInv, Types, Frame
  <2>2. /\ Locked(k, t, frame[t].write) \in Lock /\ Exclusive(Locked(k, t, frame[t].write))
        /\ SameForOthers(k, Locked(k, t, frame[t].write), t)
    BY <1>3, <2>1, LockFacts
  <2> QED
    BY <1>3, <2>1, <2>2, OneNodeLock DEF k
<1>7. CASE UpgradeItem(t) \/ ReacquireItem(t)
  <2>1. /\ node_mutex' = [node_mutex EXCEPT ![accessor[t]] = Writer(t)]
        /\ l.readers = {t} \/ CanWrite(l)
        /\ accessor[t] \in Node
    BY <1>4, <1>7 DEF UpgradeItem, ReacquireItem, Goto, l
  <2> QED
    BY <1>2, <2>1, WriterFacts, OneNodeLock DEF l
<1>8. CASE DeleteNode(t)
  <2>1. /\ node_mutex' = [node_mutex EXCEPT ![accessor[t]] = Free]
        /\ pc[t] = "delete" /\ accessor[t] \in Node
    BY <1>4, <1>8 DEF DeleteNode, Goto
  <2>2. l.writer = t
    BY <2>1 DEF MapInv, NodeLocks, HoldsItems, l
  <2> QED
    BY <1>2, <2>1, <2>2, DowngradeFacts, OneNodeLock DEF l
<1> QED
  BY <1>1, <1>5, <1>6, <1>7, <1>8, NoNodeLock

(***************************************************************************)
(* Types.                                                                  *)
(***************************************************************************)
\* The assignments to the locals keep their types.
LEMMA FrameUpdates ==
  ASSUME NEW f \in Frame
  PROVE  /\ \A op \in {"find", "insert", "exclude", "use"}, k \in Key, w \in BOOLEAN :
               [f EXCEPT !.op = op, !.key = k, !.write = w] \in Frame
         /\ \A n \in Node : [f EXCEPT !.n = n] \in Frame /\ [f EXCEPT !.tmp_n = n] \in Frame
         /\ \A path \in Seq(Bucket) : [f EXCEPT !.path = path] \in Frame
         /\ \A m \in Nat : [f EXCEPT !.m = m] \in Frame
         /\ \A m, c \in Nat : [f EXCEPT !.m = m, !.collision = c] \in Frame
         /\ \A b \in BOOLEAN : [f EXCEPT !.grow = b] \in Frame
         /\ [f EXCEPT !.n = f.tmp_n, !.tmp_n = Nil, !.new = TRUE] \in Frame
<1>1. \A op \in {"find", "insert", "exclude", "use"}, k \in Key, w \in BOOLEAN :
         [f EXCEPT !.op = op, !.key = k, !.write = w] \in Frame
  BY DEF Frame
<1>2. \A n \in Node : [f EXCEPT !.n = n] \in Frame
  BY DEF Frame
<1>3. \A n \in Node : [f EXCEPT !.tmp_n = n] \in Frame
  BY DEF Frame
<1>4. \A path \in Seq(Bucket) : [f EXCEPT !.path = path] \in Frame
  BY DEF Frame
<1>5. \A m \in Nat : [f EXCEPT !.m = m] \in Frame
  BY DEF Frame
<1>6. \A m, c \in Nat : [f EXCEPT !.m = m, !.collision = c] \in Frame
  BY DEF Frame
<1>7. \A b \in BOOLEAN : [f EXCEPT !.grow = b] \in Frame
  BY DEF Frame
<1>8. [f EXCEPT !.n = f.tmp_n, !.tmp_n = Nil, !.new = TRUE] \in Frame
  BY DEF Frame
<1> QED
  BY <1>1, <1>2, <1>3, <1>4, <1>5, <1>6, <1>7, <1>8, Zenon

LEMMA FrameStep ==
  ASSUME MapInv, NEW t \in Thread, Step(t)
  PROVE  frame' \in [Thread -> Frame]
<1>1. frame \in [Thread -> Frame] /\ frame[t] \in Frame /\ my_mask \in Nat
  BY DEF MapInv, Types
<1>2. NoFrame \in Frame
  BY DEF NoFrame, Frame
<1>3. ASSUME NEW from, NEW f \in Frame, f.key \in Key, LoadMask(t, from, f)
      PROVE  frame' \in [Thread -> Frame]
  <2>1. Masked(Hash[f.key], my_mask) \in Bucket
    BY <1>3, HashAssumption, MaskedFacts DEF MapInv, Types
  <2>2. <<Masked(Hash[f.key], my_mask)>> \in Seq(Bucket)
    BY <2>1
  <2>3. [f EXCEPT !.m = my_mask, !.path = <<Masked(Hash[f.key], my_mask)>>] \in Frame
    BY <1>1, <2>2 DEF Frame
  <2> QED
    BY <1>1, <1>3, <2>3 DEF LoadMask
<1>4. CASE Begin(t)
  <2>1. ASSUME NEW k \in Key, NEW w \in BOOLEAN, NEW op \in {"find", "insert"},
               CallLookup(t, op, k, w)
        PROVE  frame' \in [Thread -> Frame]
    <3>1. [NoFrame EXCEPT !.op = op, !.key = k, !.write = w] \in Frame
      BY <1>2, FrameUpdates, Zenon
    <3> QED
      BY <1>3, <2>1, <3>1 DEF CallLookup, NoFrame
  <2>2. ASSUME CallErase(t) PROVE frame' \in [Thread -> Frame]
    <3>1. pc[t] = "using"
      BY <2>2 DEF CallErase, LoadMask, Goto
    <3>2. frame[t].key \in Key
      BY <3>1 DEF MapInv, Stages, Stage, StageOp
    <3>3. [frame[t] EXCEPT !.op = "exclude"] \in Frame
      BY <1>1 DEF Frame
    <3>4. [frame[t] EXCEPT !.op = "exclude"].key = frame[t].key
      BY <1>1 DEF Frame
    <3> QED
      BY <1>3, <2>2, <3>2, <3>3, <3>4 DEF CallErase
  <2>3. ASSUME ReleaseAccessor(t, "using") \/ ReturnMissed(t) PROVE frame' \in [Thread -> Frame]
    BY <1>1, <1>2, <2>3 DEF ReleaseAccessor, ReturnMissed
  <2> QED
    BY <1>4, <2>1, <2>2, <2>3 DEF Begin
<1>5. CASE Rehash(t)
  <2>1. CASE MarkRehashed(t)
    <3>1. pc[t] = "recheck"
      BY <2>1 DEF MarkRehashed, Goto
    <3>2. Top(t) \in Bucket /\ Top(t) >= 2
      <4>1. Top(t) \in Bucket
        BY <3>1, PathFacts DEF Rehashing
      <4>2. Top(t) # 0 /\ Top(t) # 1
        BY <2>1 DEF MarkRehashed, MapInv, Buckets, Filled
      <4> QED
        BY <4>1, <4>2, BucketNumbers
    <3>3. Parent(Top(t)) \in Bucket
      BY <3>2, ParentFacts
    <3>4. Append(frame[t].path, Parent(Top(t))) \in Seq(Bucket)
      BY <1>1, <3>3 DEF Frame
    <3> QED
      BY <1>1, <2>1, <3>4 DEF MarkRehashed, Frame
  <2>2. CASE MoveNone(t) \/ MoveItems(t)
    <3>1. pc[t] = "move"
      BY <2>2 DEF MoveNone, MoveItems
    <3>2. Descends(frame[t].path) /\ Len(frame[t].path) >= 2
      BY <3>1 DEF MapInv, Paths, Path, Moving
    <3>3. Front(frame[t].path) \in Seq(Bucket)
      BY <3>2, ShortenedPath, SMTT(30) DEF Descends
    <3>4. frame' = [frame EXCEPT ![t] = [frame[t] EXCEPT !.path = Front(frame[t].path)]]
      BY <1>1, <2>2 DEF MoveNone, MoveItems, LeaveParent
    <3> QED
      BY <1>1, <3>3, <3>4, FrameUpdates, Zenon
  <2>3. CASE ~(MarkRehashed(t) \/ MoveNone(t) \/ MoveItems(t))
    BY <1>1, <1>5, <2>3 DEF Rehash, SeeFlag, TryBucket, FailToTryBucket, SeeRehashed,
       AcquireBucket, NeedWriter, Upgrade, ReleaseToUpgrade, Reacquire
  <2> QED
    BY <2>1, <2>2, <2>3
<1>6. CASE Lookup(t)
  <2>1. CASE Found(t) \/ FoundAfterUpgrade(t)
    <3>1. pc[t] \in InBucket /\ Matching(t) # {}
      BY <2>1 DEF Found, FoundAfterUpgrade, FindInBucket, Goto, InBucket, Searching
    <3>2. Matching(t) \subseteq Node
      BY <3>1, PathFacts DEF MapInv, Types, Matching
    <3>3. (CHOOSE n \in Matching(t) : TRUE) \in Node
      BY <3>1, <3>2
    <3>4. frame' = [frame EXCEPT ![t] =
                       [frame[t] EXCEPT !.n = CHOOSE n \in Matching(t) : TRUE]]
      BY <1>1, <2>1 DEF Found, FoundAfterUpgrade, FindInBucket
    <3> QED
      BY <1>1, <3>3, <3>4, FrameUpdates, Zenon
  <2>2. CASE NotFoundToInsert(t)
    <3>1. \/ frame' = frame
          \/ /\ NewNode \in Node
             /\ frame' = [frame EXCEPT ![t] = [frame[t] EXCEPT !.tmp_n = NewNode]]
      BY <1>1, <2>2 DEF NotFoundToInsert, NewNode
    <3> QED
      BY <1>1, <3>1, FrameUpdates, Zenon
  <2>3. CASE MaskKept(t) \/ MaskChanged(t) \/ NoCollision(t) \/ Collision(t)
    <3>1. pc[t] \in InBucket
      BY <2>3 DEF MaskKept, MaskChanged, NoCollision, Collision, Goto, InBucket, Searching
    <3>2. MyHash(t) \in Bucket /\ MyHash(t) \in Nat
      BY <3>1, PathFacts, BucketNumbers
    <3>3. frame[t].m \in Nat /\ frame[t].m + 1 \in Pow \ {1}
      BY <3>1, PathFacts DEF MapInv, AllMasks, Masks, Types
    <3>4. <<Masked(MyHash(t), frame[t].m)>> \in Seq(Bucket)
      BY <3>2, <3>3, MaskedFacts
    <3>5. MaskChanged(t) => NextApplicable(MyHash(t), frame[t].m) \in Nat
      <4>1. SUFFICES ASSUME MaskChanged(t)
                     PROVE  NextApplicable(MyHash(t), frame[t].m) \in Nat
        OBVIOUS
      <4>2. Masked(MyHash(t), my_mask) # Masked(MyHash(t), frame[t].m)
        BY <4>1 DEF MaskChanged
      <4>3. frame[t].m <= my_mask /\ my_mask + 1 \in Pow \ {1}
        BY <3>1, PathFacts DEF MapInv, AllMasks, Masks, Types
      <4> QED
        BY <1>1, <3>2, <3>3, <4>2, <4>3, NextFacts, LineMembers, BucketNumbers
    <3>6. CASE MaskKept(t) \/ NoCollision(t)
      <4>1. \/ frame' = frame
            \/ frame' = [frame EXCEPT ![t] = [frame[t] EXCEPT !.m = my_mask]]
        BY <1>1, <3>6 DEF MaskKept, NoCollision
      <4> QED
        BY <1>1, <4>1, FrameUpdates, Zenon
    <3>7. CASE MaskChanged(t)
      <4>1. PICK c \in Nat : c = NextApplicable(MyHash(t), frame[t].m)
        BY <3>5, <3>7
      <4>2. frame' = [frame EXCEPT ![t] = [frame[t] EXCEPT !.m = my_mask, !.collision = c]]
        BY <1>1, <3>7, <4>1 DEF MaskChanged
      <4> QED
        BY <1>1, <4>2, FrameUpdates, Zenon
    <3>8. CASE Collision(t)
      <4>1. PICK path \in Seq(Bucket) : path = <<Masked(MyHash(t), frame[t].m)>>
        BY <3>4
      <4>2. frame' = [frame EXCEPT ![t] = [frame[t] EXCEPT !.path = path]]
        BY <1>1, <3>8, <4>1 DEF Collision
      <4> QED
        BY <1>1, <4>2, FrameUpdates, Zenon
    <3> QED
      BY <2>3, <3>6, <3>7, <3>8
  <2>4. CASE LinkNode(t) \/ ClaimSegment(t)
    <3>1. LinkNode(t) => frame' = [frame EXCEPT ![t] =
              [frame[t] EXCEPT !.n = frame[t].tmp_n, !.tmp_n = Nil, !.new = TRUE]]
      BY <1>1 DEF LinkNode
    <3>2. ClaimSegment(t) => \E b \in BOOLEAN :
              frame' = [frame EXCEPT ![t] = [frame[t] EXCEPT !.grow = b]]
      BY <1>1 DEF ClaimSegment
    <3> QED
      BY <1>1, <2>4, <3>1, <3>2, FrameUpdates, Zenon
  <2>5. CASE GiveUpItem(t)
    <3>1. frame' = [frame EXCEPT ![t] = [frame[t] EXCEPT !.n = Nil]]
      BY <2>5 DEF GiveUpItem
    <3>2. [frame[t] EXCEPT !.n = Nil] \in Frame
      BY <1>1 DEF Frame
    <3> QED
      BY <1>1, <3>1, <3>2
  <2>8. CASE Restart(t)
    <3>1. pc[t] = "restart"
      BY <2>8 DEF Restart, LoadMask, Goto
    <3>2. frame[t].key \in Key
      BY <3>1 DEF MapInv, Stages, Stage, StageOp
    <3> QED
      BY <1>1, <1>3, <2>8, <3>2 DEF Restart
  <2>6. CASE Growth(t)
    <3>1. frame[t].key \in Key /\ frame[t].write \in BOOLEAN
      BY <1>1, <2>6 DEF Growth, Goto, MapInv, Stages, Stage, StageOp, Frame
    <3>2. [NoFrame EXCEPT !.op = "use", !.key = frame[t].key, !.write = frame[t].write] \in Frame
      BY <1>2, <3>1, FrameUpdates, Zenon
    <3> QED
      BY <1>1, <2>6, <3>2 DEF Growth
  <2>7. CASE frame' = frame
    BY <1>1, <2>7
  <2> QED
    BY <1>6, <2>1, <2>2, <2>3, <2>4, <2>5, <2>6, <2>7, <2>8 DEF Lookup, NotFound, Upgrade,
       ReleaseToUpgrade, Reacquire, NotFoundAfterUpgrade, TryItem
<1>7. CASE Exclude(t)
  BY <1>1, <1>2, <1>7 DEF Exclude, Unlink, NotThere, UpgradeItem, ReleaseItem,
     ReacquireItem, DeleteNode, ReleaseAccessor
<1> QED
  BY <1>4, <1>5, <1>6, <1>7 DEF Step

\* There are no more items than keys.
LEMMA ItemCount ==
  ASSUME NEW L, NEW k, \A n \in L : k[n] \in Key, \A n, o \in L : k[n] = k[o] => n = o
  PROVE  IsFiniteSet(L) /\ Cardinality(L) \in Nat /\ Cardinality(L) <= Cardinality(Key)
<1> DEFINE f == [n \in L |-> k[n]]
<1>1. f \in Injection(L, Key)
  BY DEF Injection, IsInjective
<1>2. IsFiniteSet(Key)
  BY CapacityAssumption
<1> HIDE DEF f
<1> QED
  BY <1>1, <1>2, FS_Injection, FS_CardinalityType

LEMMA SizeFacts ==
  ASSUME MapInv
  PROVE  /\ IsFiniteSet(Linked) /\ my_size = Cardinality(Linked)
         /\ my_size \in Nat /\ my_size <= Cardinality(Key)
<1>1. \A n \in Linked : key[n] \in Key
  BY LinkedFacts
<1>2. \A n, o \in Linked : key[n] = key[o] => n = o
  BY DEF MapInv, Sizes
<1> QED
  BY <1>1, <1>2, ItemCount DEF MapInv, Sizes

(***************************************************************************)
(* The steps that move items.                                              *)
(***************************************************************************)
\* The bucket that the items of a bucket are moved to.
Child(t) == frame[t].path[Len(frame[t].path) - 1]

LEMMA MoveFacts ==
  ASSUME MapInv, NEW t \in Thread, pc[t] = "move"
  PROVE  /\ Top(t) \in Bucket /\ Child(t) \in Bucket /\ Child(t) # Top(t)
         /\ Child(t) >= 2 /\ Top(t) = Parent(Child(t))
         /\ Child(t) = Last(Front(frame[t].path))
         /\ Pending(t, Child(t)) /\ Child(t) \in rehashed /\ node_list[Child(t)] = {}
         /\ bucket_mutex[Child(t)].writer = t
         /\ Filled(Top(t))
         /\ Movers(t) = {n \in node_list[Top(t)] : Child(t) \in Line(HashOf(n))}
<1>1. Descends(frame[t].path) /\ Len(frame[t].path) >= 2
  BY DEF MapInv, Paths, Path, Moving
<1>2. /\ Child(t) = Last(Front(frame[t].path)) /\ Child(t) \in Bucket /\ Child(t) # Top(t)
      /\ Child(t) >= 2 /\ Top(t) = Parent(Child(t))
      /\ Pending(t, Child(t))
  BY <1>1, ShortenedPath DEF Child, Top, Pending
<1>3. Inside(t)
  BY DEF Inside
<1>4. Top(t) \in Bucket /\ Filled(Top(t))
  BY <1>3, InsideFacts
<1>5. Child(t) \in rehashed /\ bucket_mutex[Child(t)].writer = t
  BY <1>2 DEF MapInv, AllMarked, Marked, BucketLocks, HoldsBuckets
<1>6. node_list[Child(t)] = {}
  <2>1. ~Filled(Child(t))
    BY <1>2 DEF Filled
  <2> QED
    BY <1>2, <2>1 DEF MapInv, Buckets
<1>7. \A n \in node_list[Top(t)] : HashOf(n) \in Bucket
  BY <1>4, LinkedFacts
<1>8. \A n \in node_list[Top(t)] :
          HashOf(n) % (2 * TopBit(Child(t))) = Child(t) <=> Child(t) \in Line(HashOf(n))
  BY <1>2, <1>7, MoversOnLine
<1>9. Movers(t) = {n \in node_list[Top(t)] : Child(t) \in Line(HashOf(n))}
  BY <1>8 DEF Movers, Child
<1> QED
  BY <1>2, <1>4, <1>5, <1>6, <1>9

\* What the chains are after each step.
LEMMA MoveItemsLists ==
  ASSUME MapInv, NEW t \in Thread, MoveItems(t)
  PROVE  /\ Linked' = Linked
         /\ node_list'[Top(t)] = node_list[Top(t)] \ Movers(t)
         /\ node_list'[Child(t)] = Movers(t)
         /\ \A b \in Bucket \ {Top(t), Child(t)} : node_list'[b] = node_list[b]
<1>1. /\ Top(t) \in Bucket /\ Child(t) \in Bucket /\ Child(t) # Top(t)
      /\ node_list[Child(t)] = {}
  BY MoveFacts DEF MoveItems
<1>2. node_list' = [node_list EXCEPT ![Top(t)] = @ \ Movers(t), ![Child(t)] = @ \cup Movers(t)]
  BY DEF MoveItems, Child
<1>3. node_list \in [Bucket -> SUBSET Node]
  BY DEF MapInv, Types
<1>4. node_list'[Top(t)] = node_list[Top(t)] \ Movers(t)
  BY <1>1, <1>2, <1>3
<1>5. node_list'[Child(t)] = Movers(t)
  BY <1>1, <1>2, <1>3
<1>6. \A b \in Bucket \ {Top(t), Child(t)} : node_list'[b] = node_list[b]
  BY <1>2, <1>3
<1>7. Movers(t) \subseteq node_list[Top(t)]
  BY DEF Movers
<1>8. Linked' \subseteq Linked
  BY <1>1, <1>4, <1>5, <1>6, <1>7 DEF Linked
<1>9. Linked \subseteq Linked'
  BY <1>1, <1>4, <1>5, <1>6, <1>7 DEF Linked
<1> QED
  BY <1>4, <1>5, <1>6, <1>8, <1>9

LEMMA LinkNodeLists ==
  ASSUME MapInv, NEW t \in Thread, LinkNode(t)
  PROVE  /\ MyBucket(t) \in Bucket /\ Top(t) = MyBucket(t)
         /\ frame[t].tmp_n \in Node /\ frame[t].tmp_n \notin Linked
         /\ key[frame[t].tmp_n] = frame[t].key
         /\ Linked' = Linked \cup {frame[t].tmp_n}
         /\ node_list'[MyBucket(t)] = node_list[MyBucket(t)] \cup {frame[t].tmp_n}
         /\ \A b \in Bucket \ {MyBucket(t)} : node_list'[b] = node_list[b]
<1>1. pc[t] = "link" /\ pc[t] \in InBucket
  BY DEF LinkNode, Goto, InBucket
<1>2. MyBucket(t) \in Bucket /\ Top(t) = MyBucket(t)
  BY <1>1, PathFacts
<1>3. frame[t].tmp_n # Nil
  BY <1>1 DEF MapInv, Stages, Stage, StageOp, StageNode
<1>4. /\ frame[t].tmp_n \in Node /\ frame[t].tmp_n \notin Linked
      /\ key[frame[t].tmp_n] = frame[t].key
  BY <1>3, NodeFacts DEF MapInv, Nodes, OwnNodes
<1>5. /\ node_list' = [node_list EXCEPT ![MyBucket(t)] = @ \cup {frame[t].tmp_n}]
      /\ node_list \in [Bucket -> SUBSET Node]
  BY DEF LinkNode, MapInv, Types
<1>6. /\ node_list'[MyBucket(t)] = node_list[MyBucket(t)] \cup {frame[t].tmp_n}
      /\ \A b \in Bucket \ {MyBucket(t)} : node_list'[b] = node_list[b]
  BY <1>2, <1>5
<1>7. Linked' = Linked \cup {frame[t].tmp_n}
  BY <1>2, <1>6 DEF Linked
<1> QED
  BY <1>2, <1>4, <1>6, <1>7

LEMMA UnlinkLists ==
  ASSUME MapInv, NEW t \in Thread, Unlink(t)
  PROVE  /\ MyBucket(t) \in Bucket /\ Top(t) = MyBucket(t) /\ bucket_mutex[Top(t)].writer = t
         /\ accessor[t] \in Linked
         /\ Linked' = Linked \ {accessor[t]}
         /\ node_list'[MyBucket(t)] = node_list[MyBucket(t)] \ {accessor[t]}
         /\ \A b \in Bucket \ {MyBucket(t)} : node_list'[b] = node_list[b]
<1>1. pc[t] = "search" /\ pc[t] \in InBucket /\ frame[t].op = "exclude"
  BY DEF Unlink, Goto, InBucket, Searching
<1>2. MyBucket(t) \in Bucket /\ Top(t) = MyBucket(t)
  BY <1>1, PathFacts
<1>3. bucket_mutex[Top(t)].writer = t
  BY <1>1 DEF MapInv, BucketLocks, HoldsBuckets, NeedsBucket
<1>4. accessor[t] \in node_list[MyBucket(t)] /\ accessor[t] \in Linked
  BY <1>2, LinkedFacts DEF Unlink
<1>5. /\ node_list' = [node_list EXCEPT ![MyBucket(t)] = @ \ {accessor[t]}]
      /\ node_list \in [Bucket -> SUBSET Node]
  BY DEF Unlink, MapInv, Types
<1>6. /\ node_list'[MyBucket(t)] = node_list[MyBucket(t)] \ {accessor[t]}
      /\ \A b \in Bucket \ {MyBucket(t)} : node_list'[b] = node_list[b]
  BY <1>2, <1>5
<1>7. \A b \in Bucket \ {MyBucket(t)} : accessor[t] \notin node_list[b]
  BY <1>2, <1>4, LinkedFacts
<1>8. Linked' = Linked \ {accessor[t]}
  BY <1>2, <1>6, <1>7 DEF Linked
<1> QED
  BY <1>2, <1>3, <1>4, <1>6, <1>8

LEMMA LinkedStep ==
  ASSUME MapInv, NEW t \in Thread, Step(t), ~LinkNode(t), ~Unlink(t)
  PROVE  Linked' = Linked
BY Effects, MoveItemsLists DEF Linked

\* What the keys are after each step.
LEMMA KeyStep ==
  ASSUME MapInv, NEW t \in Thread, Step(t)
  PROVE  /\ key' \in [Node -> Key \cup {Nil}]
         /\ \A n \in Linked : key'[n] = key[n]
         /\ NotFoundToInsert(t) => frame[t].tmp_n # Nil \/ (NewNode \in Node /\ key[NewNode] = Nil)
<1>1. key \in [Node -> Key \cup {Nil}] /\ \A n \in Linked : n \in Node /\ key[n] \in Key
  BY LinkedFacts DEF MapInv, Types
<1>2. CASE NotFoundToInsert(t)
  <2>1. frame[t].key \in Key
    BY <1>2, PathFacts DEF NotFoundToInsert, Goto
  <2>2. CASE frame[t].tmp_n # Nil
    BY <1>1, <1>2, <2>2 DEF NotFoundToInsert
  <2>3. CASE frame[t].tmp_n = Nil
    <3>1. NewNode \in Node /\ key[NewNode] = Nil
      BY <1>2, <2>3 DEF NotFoundToInsert, NewNode
    <3>2. NewNode \notin Linked
      BY <1>1, <3>1, NilAssumption
    <3>3. key' = [key EXCEPT ![NewNode] = frame[t].key]
      BY <1>2, <2>3 DEF NotFoundToInsert
    <3> QED
      BY <1>1, <2>1, <3>1, <3>2, <3>3
  <2> QED
    BY <2>2, <2>3
<1>3. CASE Growth(t)
  <2>1. key' = [n \in Node |-> IF n = frame[t].tmp_n THEN Nil ELSE key[n]]
    BY <1>3 DEF Growth
  <2>2. frame[t].tmp_n # Nil => frame[t].tmp_n \notin Linked
    BY DEF MapInv, Nodes, OwnNodes
  <2>3. frame[t].tmp_n \notin Linked
    BY <1>1, <2>2, NilAssumption
  <2>4. ~NotFoundToInsert(t)
    BY <1>3 DEF Growth, NotFoundToInsert, Goto
  <2> QED
    BY <1>1, <2>1, <2>3, <2>4
<1>4. CASE DeleteNode(t)
  <2>1. key' = [key EXCEPT ![accessor[t]] = Nil] /\ pc[t] = "delete"
    BY <1>4 DEF DeleteNode, Goto
  <2>2. accessor[t] \notin Linked
    BY <2>1 DEF MapInv, Nodes, OwnNodes, Removing, Removals
  <2>3. ~NotFoundToInsert(t)
    BY <2>1 DEF NotFoundToInsert, Goto
  <2> QED
    BY <1>1, <2>1, <2>2, <2>3
<1>5. CASE ~NotFoundToInsert(t) /\ key' = key
  BY <1>1, <1>5
<1> QED
  BY <1>2, <1>3, <1>4, <1>5, Effects

LEMMA TableStep ==
  ASSUME MapInv, NEW t \in Thread, Step(t)
  PROVE  /\ my_mask' \in Nat /\ my_mask' + 1 \in Pow \ {1}
         /\ my_mask <= my_mask' /\ (Growth(t) /\ frame[t].grow => my_mask < my_mask')
         /\ my_mask' = my_mask \/ (Growth(t) /\ frame[t].grow)
         /\ \A m \in my_table' : m \in Nat /\ m + 1 \in Pow \ {1}
         /\ my_size' \in Nat
         /\ rehashed' \subseteq 0 .. my_mask'
         /\ rehashed \subseteq rehashed'
<1>1. /\ my_mask \in Nat /\ my_mask + 1 \in Pow \ {1}
      /\ \A m \in my_table : m \in Nat /\ m + 1 \in Pow \ {1}
      /\ rehashed \subseteq 0 .. my_mask
  BY DEF MapInv, Types
<1>2. /\ my_mask' \in Nat /\ my_mask' + 1 \in Pow \ {1} /\ my_mask <= my_mask'
      /\ (Growth(t) /\ frame[t].grow => my_mask < my_mask')
      /\ my_mask' = my_mask \/ (Growth(t) /\ frame[t].grow)
  <2>1. CASE Growth(t) /\ frame[t].grow
    <3>1. my_mask' = NextMask(my_mask) /\ my_mask <= Cardinality(Key)
      BY <2>1 DEF Growth, MapInv, AllMasks, Masks
    <3>2. PICK p \in Pow : p = my_mask + 1
      BY <1>1
    <3>3. PICK q \in Pow : q = 2^FirstBlock
      BY Powers
    <3>4. p \in Nat /\ q \in Nat
      BY Powers
    <3>5. CASE p < q
      <4>1. my_mask' = q - 1
        BY <3>1, <3>2, <3>3, <3>5 DEF NextMask
      <4>2. my_mask' + 1 = q /\ q # 1 /\ my_mask < my_mask' /\ my_mask' \in Nat
        BY <1>1, <3>2, <3>4, <3>5, <4>1
      <4>3. my_mask' + 1 \in Pow \ {1}
        BY <4>2
      <4>4. my_mask <= my_mask'
        BY <1>1, <4>2
      <4> QED
        BY <2>1, <4>2, <4>3, <4>4
    <3>6. CASE ~(p < q)
      <4>1. my_mask' = 2 * my_mask + 1
        BY <3>1, <3>2, <3>3, <3>6 DEF NextMask
      <4>2. p < 2^Bits
        <5>1. /\ Cardinality(Key) < 2^Bits - 1
              /\ Cardinality(Key) \in Nat /\ 2^Bits \in Nat
          BY CapacityAssumption, FS_CardinalityType, Powers
        <5> QED
          BY <1>1, <3>1, <3>2, <5>1
      <4>3. PICK r \in Pow : r = 2 * p
        BY <4>2, Powers
      <4>4. my_mask' + 1 = r /\ r # 1 /\ my_mask < my_mask' /\ my_mask' \in Nat
        BY <1>1, <3>2, <3>4, <4>1, <4>3
      <4>5. my_mask' + 1 \in Pow \ {1}
        BY <4>4
      <4>6. my_mask <= my_mask'
        BY <1>1, <4>4
      <4> QED
        BY <2>1, <4>4, <4>5, <4>6
    <3> QED
      BY <3>5, <3>6
  <2>2. CASE ~(Growth(t) /\ frame[t].grow)
    <3>1. my_mask' = my_mask
      BY <2>2, Effects, Zenon DEF Growth
    <3> QED
      BY <1>1, <2>2, <3>1
  <2> QED
    BY <2>1, <2>2
<1>3. \A m \in my_table' : m \in Nat /\ m + 1 \in Pow \ {1}
  <2>1. CASE ClaimSegment(t)
    <3>1. frame[t].m \in my_table \cup {my_mask} /\ my_table' = my_table \cup {frame[t].m}
      BY <2>1 DEF ClaimSegment, Goto, MapInv, AllMasks, Masks
    <3> QED
      BY <1>1, <3>1
  <2> QED
    BY <1>1, <2>1, Effects
<1>4. my_size' \in Nat
  <2>1. my_size \in Nat /\ my_size = Cardinality(Linked) /\ IsFiniteSet(Linked)
    BY SizeFacts
  <2>2. Unlink(t) => my_size # 0
    BY <2>1, UnlinkLists, FS_EmptySet
  <2>3. LinkNode(t) => my_size' = my_size + 1
    BY DEF LinkNode
  <2>4. Unlink(t) => my_size' = my_size - 1
    BY DEF Unlink
  <2> QED
    BY <2>1, <2>2, <2>3, <2>4, Effects
<1>5. rehashed' \subseteq 0 .. my_mask' /\ rehashed \subseteq rehashed'
  <2>1. CASE MarkRehashed(t)
    <3>1. pc[t] = "recheck" /\ rehashed' = rehashed \cup {Top(t)} /\ my_mask' = my_mask
      BY <2>1 DEF MarkRehashed, Goto, table
    <3>2. Top(t) \in Bucket /\ Top(t) <= MyBucket(t) /\ MyBucket(t) <= my_mask
          /\ MyBucket(t) \in Bucket
      BY <3>1, PathFacts
    <3>3. Top(t) \in 0 .. my_mask
      BY <1>1, <3>2, BucketNumbers
    <3> QED
      BY <1>1, <3>1, <3>3
  <2>2. CASE rehashed' = rehashed
    BY <1>1, <1>2, <2>2
  <2> QED
    BY <2>1, <2>2, Effects
<1> QED
  BY <1>2, <1>3, <1>4, <1>5

LEMMA TypesStep ==
  ASSUME MapInv, NEW t \in Thread, Step(t)
  PROVE  Types'
<1>1. Types
  BY DEF MapInv
<1>2. node_list' \in [Bucket -> SUBSET Node]
  <2>1. CASE MoveItems(t)
    <3>1. Movers(t) \subseteq node_list[Top(t)] /\ Top(t) \in Bucket /\ Child(t) \in Bucket
      BY <2>1, MoveFacts DEF MoveItems, Movers
    <3>2. Movers(t) \subseteq Node
      BY <1>1, <3>1 DEF Types
    <3>3. node_list' = [node_list EXCEPT ![Top(t)] = @ \ Movers(t),
                                         ![Child(t)] = @ \cup Movers(t)]
      BY <2>1 DEF MoveItems, Child
    <3> QED
      BY <1>1, <3>1, <3>2, <3>3 DEF Types
  <2>2. CASE LinkNode(t)
    <3>1. /\ frame[t].tmp_n \in Node
          /\ node_list' = [node_list EXCEPT ![MyBucket(t)] = @ \cup {frame[t].tmp_n}]
      BY <2>2, LinkNodeLists, Zenon DEF LinkNode
    <3> QED
      BY <1>1, <3>1 DEF Types
  <2>3. CASE Unlink(t)
    BY <1>1, <2>3 DEF Unlink, Types
  <2> QED
    BY <1>1, <2>1, <2>2, <2>3, Effects DEF Types
<1>3. accessor' \in [Thread -> Node \cup {Nil}]
  <2>1. pc[t] = "item" => frame[t].n \in Node
    BY NodeFacts
  <2>2. CASE Begin(t)
    BY <1>1, <2>2, Zenon DEF Begin, CallLookup, CallErase, ReleaseAccessor, ReturnMissed, LoadMask,
       Types
  <2>3. CASE Rehash(t)
    BY <1>1, <2>3 DEF Rehash, SeeFlag, TryBucket, FailToTryBucket, SeeRehashed,
       MarkRehashed, AcquireBucket, MoveNone, MoveItems, LeaveParent, NeedWriter, Upgrade,
       ReleaseToUpgrade, Reacquire, Types
  <2>4. CASE Lookup(t)
    BY <1>1, <2>1, <2>4 DEF Lookup, Found, FoundAfterUpgrade, FindInBucket, NotFound,
       NotFoundToInsert, Upgrade, ReleaseToUpgrade, Reacquire, NotFoundAfterUpgrade,
       MaskKept, MaskChanged, NoCollision, Collision, Absent, LinkNode, ClaimSegment,
       TryItem, GiveUpItem, Restart, LoadMask, Growth, Goto, Types
  <2>5. CASE Exclude(t)
    BY <1>1, <2>5 DEF Exclude, Unlink, NotThere, UpgradeItem, ReleaseItem, ReacquireItem,
       DeleteNode, ReleaseAccessor, Types
  <2> QED
    BY <2>2, <2>3, <2>4, <2>5 DEF Step
<1>4. pc' \in [Thread -> PC]
  <2>1. pc \in [Thread -> PC]
    BY <1>1 DEF Types
  <2>2. CASE Begin(t)
    BY <2>1, <2>2, Zenon DEF Begin, CallLookup, CallErase, ReleaseAccessor, ReturnMissed, LoadMask,
       Goto, PC
  <2>3. CASE Rehash(t)
    BY <2>1, <2>3, Zenon DEF Rehash, SeeFlag, TryBucket, FailToTryBucket, SeeRehashed,
       MarkRehashed, AcquireBucket, MoveNone, MoveItems, LeaveParent, NeedWriter, Upgrade,
       ReleaseToUpgrade, Reacquire, Entered, Goto, PC
  <2>4. CASE Lookup(t)
    BY <2>1, <2>4, Zenon DEF Lookup, Found, FoundAfterUpgrade, FindInBucket, NotFound,
       NotFoundToInsert, Upgrade, ReleaseToUpgrade, Reacquire, NotFoundAfterUpgrade,
       MaskKept, MaskChanged, NoCollision, Collision, Absent, LinkNode, ClaimSegment,
       TryItem, GiveUpItem, Restart, LoadMask, Growth, Goto, PC
  <2>5. CASE Exclude(t)
    BY <2>1, <2>5 DEF Exclude, Unlink, NotThere, UpgradeItem, ReleaseItem, ReacquireItem,
       DeleteNode, ReleaseAccessor, Goto, PC
  <2> QED
    BY <2>2, <2>3, <2>4, <2>5 DEF Step
<1>5. calls' \in [Thread -> 0 .. MaxCalls]
  <2>1. calls \in [Thread -> 0 .. MaxCalls] /\ calls[t] \in 0 .. MaxCalls /\ MaxCalls \in Nat
    BY <1>1, CallsAssumption DEF Types
  <2>2. CASE calls' = calls
    BY <2>1, <2>2
  <2>3. CASE calls' # calls
    <3>1. calls[t] < MaxCalls /\ calls' = [calls EXCEPT ![t] = @ + 1]
      <4>1. Begin(t) => calls' = calls \/ (calls[t] < MaxCalls /\ calls' = [calls EXCEPT ![t] = @ + 1])
        BY Zenon DEF Begin, CallLookup, CallErase, ReleaseAccessor, ReturnMissed
      <4>2. Rehash(t) => calls' = calls
        BY DEF Rehash, SeeFlag, TryBucket, FailToTryBucket, SeeRehashed, MarkRehashed,
           AcquireBucket, MoveNone, MoveItems, LeaveParent, NeedWriter, Upgrade,
           ReleaseToUpgrade, Reacquire
      <4>3. Lookup(t) => calls' = calls
        BY DEF Lookup, Found, FoundAfterUpgrade, FindInBucket, NotFound, NotFoundToInsert,
           Upgrade, ReleaseToUpgrade, Reacquire, NotFoundAfterUpgrade, MaskKept,
           MaskChanged, NoCollision, Collision, Absent, LinkNode, ClaimSegment, TryItem,
           GiveUpItem, Restart, Growth
      <4>4. Exclude(t) => calls' = calls
        BY DEF Exclude, Unlink, NotThere, UpgradeItem, ReleaseItem, ReacquireItem,
           DeleteNode, ReleaseAccessor
      <4> QED
        BY <2>3, <4>1, <4>2, <4>3, <4>4 DEF Step
    <3>2. calls[t] + 1 \in 0 .. MaxCalls
      BY <2>1, <3>1
    <3> QED
      BY <2>1, <3>1, <3>2
  <2> QED
    BY <2>2, <2>3
<1>6. bucket_mutex' \in [Bucket -> Lock] /\ node_mutex' \in [Node -> Lock]
  BY BucketLocksStep, NodeLocksStep DEF BucketLocksKept, NodeLocksKept
<1> QED
  BY <1>2, <1>3, <1>4, <1>5, <1>6, TableStep, FrameStep, KeyStep DEF Types

(***************************************************************************)
(* The stages of a call.                                                   *)
(***************************************************************************)
\* Nobody else gets at an item before the thread that has inserted it.
LEMMA NewItemAlone ==
  ASSUME MapInv, NEW t \in Thread, pc[t] \in {"claim", "item"}, frame[t].new
  PROVE  /\ CanWrite(node_mutex[frame[t].n])
         /\ \A u \in Thread : pc[u] = "item" /\ frame[u].n = frame[t].n => u = t
<1>1. /\ frame[t].n \in Node /\ node_mutex[frame[t].n] \in Lock
      /\ \A u \in Thread : accessor[u] # frame[t].n
  BY NodeFacts DEF MapInv, NodeLocks, HoldsItems
<1>2. \A u \in Thread : ~Holds(node_mutex[frame[t].n], u)
  BY <1>1 DEF MapInv, NodeLocks, HoldsItems
<1>3. CanWrite(node_mutex[frame[t].n])
  BY <1>1, <1>2 DEF CanWrite, Free, Lock, Holds
<1>4. ASSUME NEW u \in Thread, pc[u] = "item", frame[u].n = frame[t].n PROVE u = t
  <2>1. /\ frame[t].n \in node_list[MyBucket(t)] /\ frame[u].n \in node_list[MyBucket(u)]
        /\ MyBucket(t) = Top(t) /\ MyBucket(u) = Top(u)
        /\ Top(t) \in Bucket /\ Top(u) \in Bucket
    BY <1>4, NodeFacts, PathFacts DEF InBucket
  <2>2. Top(u) = Top(t)
    BY <1>4, <2>1, LinkedFacts
  <2>3. bucket_mutex[Top(t)].writer = t
    BY DEF MapInv, BucketLocks, HoldsBuckets, NeedsBucket
  <2>4. Inside(u)
    BY <1>4 DEF Inside
  <2> QED
    BY <2>2, <2>3, <2>4, WriterAlone
<1> QED
  BY <1>3, <1>4

\* The steps that keep what a call has in its frame.
StageKept(t) ==
    /\ frame'[t].op = frame[t].op /\ frame'[t].key = frame[t].key
    /\ frame'[t].write = frame[t].write /\ frame'[t].tmp_n = frame[t].tmp_n
    /\ frame'[t].new = frame[t].new /\ frame'[t].grow = frame[t].grow
    /\ accessor'[t] = accessor[t]

StageMove(t) ==
    \/ /\ pc[t] \in Rehashing \cup Moving
       /\ pc'[t] \in Rehashing \cup Moving \cup {"search"}
    \/ pc[t] = "search" /\ pc'[t] = "item" /\ frame[t].op # "exclude"
    \/ pc[t] = "search" /\ pc'[t] = "race" /\ frame[t].op # "insert"
    \/ pc[t] = "upgrade" /\ pc'[t] \in {"race", "reacquire"}
    \/ pc[t] = "reacquire" /\ pc'[t] = "again"
    \/ pc[t] = "again" /\ pc'[t] \in {"item", "race"}
    \/ pc[t] = "race" /\ pc'[t] = "collision"
    \/ /\ pc[t] \in {"race", "collision"}
       /\ \/ frame[t].op = "insert" /\ pc'[t] = "link"
          \/ frame[t].op = "find" /\ pc'[t] = "missed"
          \/ frame[t].op \notin {"insert", "find"} /\ pc'[t] = "gone"
    \/ pc[t] = "collision" /\ pc'[t] = "flag"
    \/ pc[t] = "item" /\ pc'[t] = "restart" /\ ~frame[t].new
    \/ pc[t] = "restart" /\ pc'[t] = "flag"
    \/ /\ frame[t].op = "exclude"
       /\ pc[t] \in {"search", "item_upgrade", "item_reacquire"} /\ pc'[t] \in Removals

LEMMA StageMoves ==
  ASSUME MapInv, NEW t \in Thread, Step(t)
  PROVE  \/ StageKept(t) /\ StageMove(t)
         \/ \E k \in Key, w \in BOOLEAN : \/ CallLookup(t, "insert", k, TRUE)
                                          \/ CallLookup(t, "find", k, w)
         \/ CallErase(t) \/ ReleaseAccessor(t, "using") \/ ReturnMissed(t)
         \/ NotFoundToInsert(t) \/ LinkNode(t) \/ ClaimSegment(t) \/ TryItem(t) \/ Growth(t)
         \/ DeleteNode(t) \/ ReleaseAccessor(t, "gone")
<1>1. /\ pc \in [Thread -> PC] /\ frame \in [Thread -> Frame] /\ frame[t] \in Frame
      /\ accessor \in [Thread -> Node \cup {Nil}]
  BY DEF MapInv, Types
<1>2. GiveUpItem(t) => ~frame[t].new
  <2>1. SUFFICES ASSUME GiveUpItem(t), frame[t].new PROVE FALSE
    BY <1>1 DEF Frame
  <2>2. pc[t] = "item" /\ frame[t].write
    BY <2>1 DEF GiveUpItem, MapInv, Stages, Stage, StageNew, StageOp
  <2> QED
    BY <2>1, <2>2, NewItemAlone DEF GiveUpItem, CanLock
<1>3. CASE Begin(t)
  BY <1>3 DEF Begin
<1>4. CASE Rehash(t)
  <2>1. /\ accessor' = accessor
        /\ frame' = frame \/ \E path : frame' = [frame EXCEPT ![t].path = path]
    BY <1>4 DEF Rehash, SeeFlag, TryBucket, FailToTryBucket, SeeRehashed, MarkRehashed,
       AcquireBucket, MoveNone, MoveItems, LeaveParent, NeedWriter, Upgrade,
       ReleaseToUpgrade, Reacquire
  <2>2. StageKept(t)
    BY <1>1, <2>1 DEF StageKept, Frame
  <2>3. pc[t] \in Rehashing \cup Moving /\ pc'[t] \in Rehashing \cup Moving \cup {"search"}
    BY <1>1, <1>4 DEF Rehash, SeeFlag, TryBucket, FailToTryBucket, SeeRehashed,
       MarkRehashed, AcquireBucket, MoveNone, MoveItems, LeaveParent, NeedWriter, Upgrade,
       ReleaseToUpgrade, Reacquire, Goto, Entered, Rehashing, Moving
  <2> QED
    BY <2>2, <2>3 DEF StageMove
<1>5. CASE Lookup(t)
  <2> SUFFICES ASSUME ~(\/ NotFoundToInsert(t) \/ LinkNode(t) \/ ClaimSegment(t)
                        \/ TryItem(t) \/ Growth(t))
               PROVE  StageKept(t) /\ StageMove(t)
    OBVIOUS
  <2>1. CASE \/ NotFound(t) \/ Upgrade(t, "upgrade", "race")
             \/ ReleaseToUpgrade(t, "upgrade", "reacquire")
             \/ Reacquire(t, "reacquire", "again") \/ NotFoundAfterUpgrade(t) \/ NoCollision(t)
    <3>1. StageKept(t)
      BY <1>1, <2>1 DEF NotFound, Upgrade, ReleaseToUpgrade, Reacquire,
         NotFoundAfterUpgrade, NoCollision, Absent, StageKept
    <3>2. StageMove(t)
      BY <1>1, <2>1 DEF NotFound, Upgrade, ReleaseToUpgrade, Reacquire,
         NotFoundAfterUpgrade, NoCollision, Absent, Goto, StageMove
    <3> QED
      BY <3>1, <3>2
  <2>2. CASE Found(t) \/ FoundAfterUpgrade(t)
    <3>1. StageKept(t)
      <4>1. accessor' = accessor /\ \E n : frame' = [frame EXCEPT ![t].n = n]
        BY <2>2 DEF Found, FoundAfterUpgrade, FindInBucket
      <4> QED
        BY <1>1, <4>1 DEF StageKept, Frame
    <3>2. StageMove(t)
      BY <1>1, <2>2 DEF Found, FoundAfterUpgrade, FindInBucket, Goto, StageMove
    <3> QED
      BY <3>1, <3>2
  <2>3. CASE MaskKept(t) \/ MaskChanged(t) \/ Collision(t)
    <3>1. StageKept(t)
      BY <1>1, <2>3 DEF MaskKept, MaskChanged, Collision, Absent, StageKept, Frame
    <3>2. StageMove(t)
      BY <1>1, <2>3 DEF MaskKept, MaskChanged, Collision, Absent, Goto, StageMove
    <3> QED
      BY <3>1, <3>2
  <2>4. CASE GiveUpItem(t)
    <3>1. StageKept(t)
      BY <1>1, <2>4 DEF GiveUpItem, StageKept, Frame
    <3>2. StageMove(t)
      BY <1>1, <1>2, <2>4 DEF GiveUpItem, StageMove
    <3> QED
      BY <3>1, <3>2
  <2>5. CASE Restart(t)
    <3>1. /\ accessor' = accessor
          /\ \E path : frame' = [frame EXCEPT ![t] =
                [frame[t] EXCEPT !.m = my_mask, !.path = path]]
      BY <2>5, Zenon DEF Restart, LoadMask
    <3>2. StageKept(t)
      BY <1>1, <3>1 DEF StageKept, Frame
    <3>3. StageMove(t)
      BY <1>1, <2>5 DEF Restart, LoadMask, Goto, StageMove
    <3> QED
      BY <3>2, <3>3
  <2> QED
    BY <1>5, <2>1, <2>2, <2>3, <2>4, <2>5 DEF Lookup
<1>6. CASE Exclude(t)
  <2>1. StageKept(t) \/ DeleteNode(t) \/ ReleaseAccessor(t, "gone")
    BY <1>1, <1>6 DEF Exclude, Unlink, NotThere, UpgradeItem, ReleaseItem, ReacquireItem,
       StageKept, Frame
  <2>2. pc[t] \in {"item_upgrade", "item_reacquire"} => frame[t].op = "exclude"
    BY DEF MapInv, Stages, Stage, StageOp, Removals
  <2>3. StageMove(t) \/ DeleteNode(t) \/ ReleaseAccessor(t, "gone")
    BY <1>1, <1>6, <2>2 DEF Exclude, Unlink, NotThere, UpgradeItem, ReleaseItem,
       ReacquireItem, Goto, StageMove, Removals
  <2> QED
    BY <2>1, <2>3
<1> QED
  BY <1>3, <1>4, <1>5, <1>6 DEF Step

LEMMA StagesStep ==
  ASSUME MapInv, NEW t \in Thread, Step(t)
  PROVE  Stages'
<1>1. /\ StageOp(t) /\ StageAccessor(t) /\ StageNode(t) /\ StageNew(t)
      /\ pc \in [Thread -> PC] /\ frame \in [Thread -> Frame] /\ frame[t] \in Frame
      /\ accessor \in [Thread -> Node \cup {Nil}]
  BY DEF MapInv, Types, Stages, Stage
<1>2. ASSUME NEW u \in Thread \ {t} PROVE Stage(u)'
  BY OthersStep
     DEF Others, MapInv, Stages, Stage, StageOp, StageAccessor, StageNode, StageNew
<1> SUFFICES Stage(t)'
  BY <1>2 DEF Stages
<1> USE DEF Rehashing, Moving, InBucket, Searching, Removals
<1>3. CASE StageKept(t) /\ StageMove(t)
  <2>1. StageOp(t)'
    BY <1>1, <1>3 DEF StageKept, StageMove, StageOp
  <2>2. StageAccessor(t)'
    BY <1>1, <1>3 DEF StageKept, StageMove, StageAccessor, StageOp
  <2>3. StageNode(t)'
    BY <1>1, <1>3 DEF StageKept, StageMove, StageNode
  <2>4. StageNew(t)'
    BY <1>1, <1>3 DEF StageKept, StageMove, StageNew
  <2> QED
    BY <2>1, <2>2, <2>3, <2>4 DEF Stage
<1>4. ASSUME NEW k \in Key, NEW w \in BOOLEAN, NEW op \in {"find", "insert"},
             CallLookup(t, op, k, w), op = "insert" => w
      PROVE  Stage(t)'
  <2>1. /\ pc[t] = "idle" /\ pc'[t] = "flag" /\ accessor'[t] = accessor[t]
        /\ frame'[t].op = op /\ frame'[t].key = k /\ frame'[t].write = w
        /\ frame'[t].tmp_n = Nil /\ ~frame'[t].new /\ ~frame'[t].grow
    BY <1>1, <1>4 DEF CallLookup, LoadMask, NoFrame, Goto
  <2>2. accessor[t] = Nil
    BY <1>1, <2>1 DEF StageAccessor, StageOp, NoFrame
  <2> QED
    BY <1>4, <2>1, <2>2 DEF Stage, StageOp, StageAccessor, StageNode, StageNew
<1>5. CASE CallErase(t)
  <2>1. /\ pc[t] = "using" /\ pc'[t] = "flag" /\ accessor'[t] = accessor[t]
        /\ frame'[t].op = "exclude" /\ frame'[t].key = frame[t].key
        /\ frame'[t].tmp_n = frame[t].tmp_n /\ frame'[t].new = frame[t].new
        /\ frame'[t].grow = frame[t].grow
    BY <1>1, <1>5 DEF CallErase, LoadMask, Goto, Frame
  <2> QED
    BY <1>1, <2>1 DEF Stage, StageOp, StageAccessor, StageNode, StageNew
<1>6. CASE \/ ReleaseAccessor(t, "using") \/ ReleaseAccessor(t, "gone") \/ ReturnMissed(t)
           \/ DeleteNode(t)
  <2>1. /\ pc[t] \in {"using", "gone", "missed", "delete"} /\ pc'[t] = "idle"
        /\ frame'[t] = NoFrame
        /\ accessor'[t] = Nil \/ (accessor'[t] = accessor[t] /\ pc[t] = "missed")
    BY <1>1, <1>6 DEF ReleaseAccessor, ReturnMissed, DeleteNode, Goto
  <2>2. accessor'[t] = Nil
    BY <1>1, <2>1 DEF StageAccessor, StageOp
  <2> QED
    BY <2>1, <2>2 DEF Stage, StageOp, StageAccessor, StageNode, StageNew, NoFrame
<1>7. CASE NotFoundToInsert(t)
  <2>1. /\ pc[t] = "search" /\ pc'[t] \in {"race", "upgrade"} /\ accessor'[t] = accessor[t]
        /\ frame[t].op = "insert"
        /\ \/ frame'[t] = frame[t] /\ frame[t].tmp_n # Nil
           \/ frame'[t] = [frame[t] EXCEPT !.tmp_n = NewNode] /\ NewNode \in Node
    BY <1>1, <1>7, KeyStep DEF NotFoundToInsert, Goto
  <2>2. /\ frame'[t].op = frame[t].op /\ frame'[t].key = frame[t].key
        /\ frame'[t].write = frame[t].write
        /\ frame'[t].new = frame[t].new /\ frame'[t].grow = frame[t].grow
        /\ frame'[t].tmp_n # Nil
    BY <1>1, <2>1, NilAssumption DEF Frame
  <2> QED
    BY <1>1, <2>1, <2>2 DEF Stage, StageOp, StageAccessor, StageNode, StageNew
<1>8. CASE LinkNode(t)
  <2>1. /\ pc[t] = "link" /\ pc'[t] \in {"claim", "item"} /\ accessor'[t] = accessor[t]
        /\ frame'[t].op = frame[t].op /\ frame'[t].key = frame[t].key
        /\ frame'[t].write = frame[t].write /\ frame'[t].tmp_n = Nil
        /\ frame'[t].new /\ frame'[t].grow = frame[t].grow
    BY <1>1, <1>8 DEF LinkNode, Goto, Frame
  <2> QED
    BY <1>1, <2>1 DEF Stage, StageOp, StageAccessor, StageNode, StageNew
<1>9. CASE ClaimSegment(t)
  <2>1. /\ pc[t] = "claim" /\ pc'[t] = "item" /\ accessor'[t] = accessor[t]
        /\ frame'[t].op = frame[t].op /\ frame'[t].key = frame[t].key
        /\ frame'[t].write = frame[t].write /\ frame'[t].tmp_n = frame[t].tmp_n
        /\ frame'[t].new = frame[t].new
    BY <1>1, <1>9 DEF ClaimSegment, Goto, Frame
  <2> QED
    BY <1>1, <2>1 DEF Stage, StageOp, StageAccessor, StageNode, StageNew
<1>10. CASE TryItem(t)
  <2>1. /\ pc[t] = "item" /\ pc'[t] = "growth" /\ frame'[t] = frame[t]
        /\ accessor'[t] # Nil
    BY <1>1, <1>10, NodeFacts, NilAssumption DEF TryItem, Goto
  <2> QED
    BY <1>1, <2>1 DEF Stage, StageOp, StageAccessor, StageNode, StageNew
<1>11. CASE Growth(t)
  <2>1. /\ pc[t] = "growth" /\ pc'[t] = "using" /\ accessor'[t] = accessor[t]
        /\ frame'[t].op = "use" /\ frame'[t].key = frame[t].key
        /\ frame'[t].tmp_n = Nil /\ ~frame'[t].new /\ ~frame'[t].grow
    BY <1>1, <1>11 DEF Growth, Goto, NoFrame, Frame
  <2> QED
    BY <1>1, <2>1 DEF Stage, StageOp, StageAccessor, StageNode, StageNew
<1> QED
  BY <1>3, <1>4, <1>5, <1>6, <1>7, <1>8, <1>9, <1>10, <1>11, StageMoves

(***************************************************************************)
(* Paths.                                                                  *)
(***************************************************************************)
\* The steps that keep the path of a call.
PathKept(t) ==
    /\ frame'[t].path = frame[t].path /\ frame'[t].key = frame[t].key
    /\ \/ pc[t] \in Rehashing /\ pc'[t] \in Rehashing
       \/ pc[t] \in Rehashing /\ pc'[t] = Entered(t, frame[t].path)
       \/ pc[t] \in Moving /\ pc'[t] \in Moving
       \/ pc[t] \in InBucket \cup After /\ pc'[t] \in InBucket \cup After

\* The steps that begin a path, and that end one.
PathBegun(t) ==
    /\ pc'[t] = "flag" /\ frame'[t].key \in Key
    /\ pc[t] \in InBucket \cup {"restart", "idle", "using"}
    /\ frame'[t].m \in Nat /\ frame'[t].m + 1 \in Pow \ {1} /\ frame'[t].m <= my_mask
    /\ frame'[t].path = <<Masked(Hash[frame'[t].key], frame'[t].m)>>

PathEnded(t) ==
    /\ pc[t] \in After \cup {"using"} /\ pc'[t] \in {"idle", "using"}
    /\ frame'[t].path = << >>

LEMMA LoadMaskPath ==
  ASSUME MapInv, NEW t \in Thread, NEW from \in {"restart", "idle", "using"},
         NEW f \in Frame, f.key \in Key, LoadMask(t, from, f)
  PROVE  PathBegun(t) /\ frame'[t].key = f.key /\ frame'[t].m = my_mask
<1>1. pc \in [Thread -> PC] /\ frame \in [Thread -> Frame] /\ my_mask \in Nat
      /\ my_mask + 1 \in Pow \ {1}
  BY DEF MapInv, Types
<1>2. /\ pc[t] = from /\ pc'[t] = "flag"
      /\ frame'[t] = [f EXCEPT !.m = my_mask, !.path = <<Masked(Hash[f.key], my_mask)>>]
  BY <1>1 DEF LoadMask, Goto
<1>3. /\ frame'[t].key = f.key /\ frame'[t].m = my_mask
      /\ frame'[t].path = <<Masked(Hash[f.key], my_mask)>>
  BY <1>2 DEF Frame
<1> QED
  BY <1>1, <1>2, <1>3 DEF PathBegun

LEMMA PathMoves ==
  ASSUME MapInv, NEW t \in Thread, Step(t)
  PROVE  \/ PathKept(t) \/ PathBegun(t) \/ PathEnded(t)
         \/ MarkRehashed(t) \/ MoveNone(t) \/ MoveItems(t)
<1>1. /\ pc \in [Thread -> PC] /\ frame \in [Thread -> Frame] /\ frame[t] \in Frame
      /\ accessor \in [Thread -> Node \cup {Nil}] /\ StageOp(t) /\ NoFrame \in Frame
  BY DEF MapInv, Types, Stages, Stage, NoFrame, Frame
<1>2. CASE Begin(t)
  <2>1. ASSUME NEW k \in Key, NEW w \in BOOLEAN, NEW op \in {"find", "insert"},
               CallLookup(t, op, k, w)
        PROVE  PathBegun(t)
    <3>1. [NoFrame EXCEPT !.op = op, !.key = k, !.write = w] \in Frame
      BY <1>1, FrameUpdates, Zenon
    <3> QED
      BY <2>1, <3>1, LoadMaskPath DEF CallLookup, NoFrame
  <2>2. ASSUME CallErase(t) PROVE PathBegun(t)
    <3>1. pc[t] = "using" /\ frame[t].key \in Key
      BY <1>1, <2>2 DEF CallErase, LoadMask, Goto, StageOp
    <3>2. /\ [frame[t] EXCEPT !.op = "exclude"] \in Frame
          /\ [frame[t] EXCEPT !.op = "exclude"].key = frame[t].key
      BY <1>1 DEF Frame
    <3> QED
      BY <2>2, <3>1, <3>2, LoadMaskPath DEF CallErase
  <2>3. ASSUME ReleaseAccessor(t, "using") \/ ReturnMissed(t) PROVE PathEnded(t)
    BY <1>1, <2>3 DEF ReleaseAccessor, ReturnMissed, Goto, PathEnded, After, NoFrame
  <2> QED
    BY <1>2, <2>1, <2>2, <2>3 DEF Begin
<1>3. CASE Rehash(t) /\ ~MarkRehashed(t) /\ ~MoveNone(t) /\ ~MoveItems(t)
  <2>1. frame' = frame
    BY <1>3 DEF Rehash, SeeFlag, TryBucket, FailToTryBucket, SeeRehashed, AcquireBucket,
       NeedWriter, Upgrade, ReleaseToUpgrade, Reacquire
  <2>2. \/ pc[t] \in Rehashing /\ pc'[t] \in Rehashing
        \/ pc[t] \in Rehashing /\ pc'[t] = Entered(t, frame[t].path)
        \/ pc[t] \in Moving /\ pc'[t] \in Moving
    BY <1>1, <1>3 DEF Rehash, SeeFlag, TryBucket, FailToTryBucket, SeeRehashed,
       AcquireBucket, NeedWriter, Upgrade, ReleaseToUpgrade, Reacquire, Goto, Rehashing,
       Moving
  <2> QED
    BY <2>1, <2>2 DEF PathKept
<1>4. CASE Lookup(t)
  <2>1. CASE Collision(t)
    <3>1. /\ pc[t] = "collision" /\ pc'[t] = "flag"
          /\ frame' = [frame EXCEPT ![t].path = <<Masked(MyHash(t), frame[t].m)>>]
      BY <1>1, <2>1 DEF Collision, Goto
    <3>2. /\ frame'[t].key = frame[t].key /\ frame'[t].m = frame[t].m
          /\ frame'[t].path = <<Masked(MyHash(t), frame[t].m)>>
      BY <1>1, <3>1 DEF Frame
    <3>3. pc[t] \in InBucket /\ frame[t].key \in Key
      BY <3>1, PathFacts DEF InBucket
    <3>4. frame[t].m \in Nat /\ frame[t].m + 1 \in Pow \ {1} /\ frame[t].m <= my_mask
      BY <3>1 DEF MapInv, AllMasks, Masks, Types
    <3> QED
      BY <3>1, <3>2, <3>3, <3>4 DEF PathBegun, MyHash
  <2>2. CASE Restart(t)
    <3>1. pc[t] = "restart" /\ frame[t].key \in Key
      BY <1>1, <2>2 DEF Restart, LoadMask, Goto, StageOp
    <3> QED
      BY <1>1, <2>2, <3>1, LoadMaskPath DEF Restart
  <2>3. CASE Growth(t)
    BY <1>1, <2>3 DEF Growth, Goto, PathEnded, After, NoFrame
  <2>4. CASE ~Collision(t) /\ ~Restart(t) /\ ~Growth(t)
    <3>1. frame'[t].path = frame[t].path /\ frame'[t].key = frame[t].key
      <4>1. CASE NotFoundToInsert(t)
        BY <1>1, <4>1 DEF NotFoundToInsert, Frame
      <4>2. CASE Found(t) \/ FoundAfterUpgrade(t)
        <5>1. \E n : frame' = [frame EXCEPT ![t].n = n]
          BY <4>2 DEF Found, FoundAfterUpgrade, FindInBucket
        <5> QED
          BY <1>1, <5>1 DEF Frame
      <4>3. CASE MaskKept(t) \/ MaskChanged(t) \/ LinkNode(t) \/ ClaimSegment(t) \/ GiveUpItem(t)
        BY <1>1, <4>3 DEF MaskKept, MaskChanged, LinkNode, ClaimSegment, GiveUpItem, Frame
      <4>4. CASE frame' = frame
        BY <4>4
      <4> QED
        BY <1>4, <2>4, <4>1, <4>2, <4>3, <4>4 DEF Lookup, NotFound, Upgrade,
           ReleaseToUpgrade, Reacquire, NotFoundAfterUpgrade, NoCollision, TryItem
    <3>2. pc[t] \in InBucket \cup After /\ pc'[t] \in InBucket \cup After
      BY <1>1, <1>4, <2>4 DEF Lookup, Found, FoundAfterUpgrade, FindInBucket, NotFound,
         NotFoundToInsert, Upgrade, ReleaseToUpgrade, Reacquire, NotFoundAfterUpgrade,
         MaskKept, MaskChanged, NoCollision, Absent, LinkNode, ClaimSegment, TryItem,
         GiveUpItem, Goto, InBucket, Searching, After
    <3> QED
      BY <3>1, <3>2 DEF PathKept
  <2> QED
    BY <2>1, <2>2, <2>3, <2>4
<1>5. CASE Exclude(t)
  <2>1. CASE DeleteNode(t) \/ ReleaseAccessor(t, "gone")
    BY <1>1, <2>1 DEF DeleteNode, ReleaseAccessor, Goto, PathEnded, After, Removals, NoFrame
  <2>2. CASE ~DeleteNode(t) /\ ~ReleaseAccessor(t, "gone")
    BY <1>1, <1>5, <2>2 DEF Exclude, Unlink, NotThere, UpgradeItem, ReleaseItem,
       ReacquireItem, Goto, PathKept, InBucket, Searching, After, Removals
  <2> QED
    BY <2>1, <2>2
<1> QED
  BY <1>2, <1>3, <1>4, <1>5 DEF Step

\* What marking and moving do to the path.
LEMMA MarkFacts ==
  ASSUME MapInv, NEW t \in Thread, MarkRehashed(t)
  PROVE  /\ pc[t] = "recheck" /\ pc'[t] = "flag"
         /\ Top(t) \in Bucket /\ Top(t) >= 2 /\ Top(t) \notin rehashed
         /\ bucket_mutex[Top(t)].writer = t /\ bucket_mutex' = bucket_mutex
         /\ rehashed' = rehashed \cup {Top(t)}
         /\ frame'[t] = [frame[t] EXCEPT !.path = Append(frame[t].path, Parent(Top(t)))]
         /\ frame'[t].path = Append(frame[t].path, Parent(Top(t)))
         /\ Descends(frame'[t].path) /\ Len(frame'[t].path) >= 2
         /\ frame'[t].path[1] = frame[t].path[1] /\ frame'[t].key = frame[t].key
         /\ \A c : Pending(t, c)' <=> Pending(t, c) \/ c = Top(t)
<1>1. pc[t] = "recheck" /\ pc'[t] = "flag" /\ Top(t) \notin rehashed
  BY DEF MarkRehashed, Goto, MapInv, Types
<1>2. Top(t) \in Bucket /\ Descends(frame[t].path) /\ Len(frame[t].path) >= 1
  BY <1>1, PathFacts
<1>3. Top(t) >= 2
  <2>1. Top(t) # 0 /\ Top(t) # 1
    BY <1>1 DEF MapInv, Buckets, Filled
  <2> QED
    BY <1>2, <2>1, BucketNumbers
<1>4. frame \in [Thread -> Frame] /\ frame[t] \in Frame
  BY DEF MapInv, Types
<1>5. frame'[t] = [frame[t] EXCEPT !.path = Append(frame[t].path, Parent(Top(t)))]
  BY <1>4 DEF MarkRehashed
<1>6. frame'[t].path = Append(frame[t].path, Parent(Top(t))) /\ frame'[t].key = frame[t].key
  BY <1>4, <1>5 DEF Frame
<1>7. /\ Descends(frame'[t].path) /\ Len(frame'[t].path) = Len(frame[t].path) + 1
      /\ frame'[t].path[1] = frame[t].path[1]
      /\ \A c : PendingIn(frame'[t].path, c) <=> PendingIn(frame[t].path, c) \/ c = Top(t)
  <2>1. frame'[t].path = WithParent(frame[t].path)
    BY <1>6 DEF WithParent, Top
  <2> QED
    BY <1>2, <1>3, <2>1, AppendedPath DEF Top
<1>8. Len(frame'[t].path) >= 2
  <2>1. PICK n \in Nat : n = Len(frame[t].path)
    BY <1>2 DEF Descends
  <2> QED
    BY <1>2, <1>7, <2>1
<1>9. \A c : Pending(t, c)' <=> Pending(t, c) \/ c = Top(t)
  BY <1>7 DEF Pending
<1>10. bucket_mutex[Top(t)].writer = t
  BY <1>1 DEF MapInv, BucketLocks, HoldsBuckets, NeedsBucket
<1> QED
  BY <1>1, <1>2, <1>3, <1>5, <1>6, <1>7, <1>8, <1>9, <1>10 DEF MarkRehashed, locks

LEMMA LeaveFacts ==
  ASSUME MapInv, NEW t \in Thread, MoveNone(t) \/ MoveItems(t)
  PROVE  /\ pc[t] = "move" /\ pc'[t] = Entered(t, frame'[t].path)
         /\ frame'[t].path = Front(frame[t].path) /\ frame'[t].key = frame[t].key
         /\ Descends(frame'[t].path) /\ Len(frame'[t].path) >= 1
         /\ frame'[t].path[1] = frame[t].path[1]
         /\ Top(t)' = Child(t)
         /\ ~PendingIn(frame'[t].path, Child(t))
         /\ \A c : Pending(t, c) <=> Pending(t, c)' \/ c = Child(t)
<1>1. pc[t] = "move" /\ LeaveParent(t)
  BY DEF MoveNone, MoveItems
<1>2. Descends(frame[t].path) /\ Len(frame[t].path) >= 2
  BY <1>1 DEF MapInv, Paths, Path, Moving
<1>3. frame \in [Thread -> Frame] /\ frame[t] \in Frame /\ pc \in [Thread -> PC]
  BY DEF MapInv, Types
<1>4. frame'[t].path = Front(frame[t].path) /\ frame'[t].key = frame[t].key
  BY <1>1, <1>3 DEF LeaveParent, Frame
<1>5. /\ Descends(frame'[t].path) /\ Len(frame'[t].path) >= 1
      /\ frame'[t].path[1] = frame[t].path[1]
      /\ Last(frame'[t].path) = Child(t)
      /\ ~PendingIn(frame'[t].path, Child(t))
      /\ \A c : PendingIn(frame[t].path, c) <=> PendingIn(frame'[t].path, c) \/ c = Child(t)
  BY <1>2, <1>4, ShortenedPath DEF Child
<1>6. pc'[t] = Entered(t, frame'[t].path)
  BY <1>1, <1>3, <1>4 DEF LeaveParent, Entered
<1> QED
  BY <1>1, <1>4, <1>5, <1>6 DEF Pending, Top

LEMMA PathsStep ==
  ASSUME MapInv, NEW t \in Thread, Step(t)
  PROVE  Paths'
<1>1. my_mask \in Nat /\ my_mask' \in Nat /\ my_mask <= my_mask'
  BY TableStep DEF MapInv, Types
<1>2. ASSUME NEW u \in Thread \ {t} PROVE Path(u)'
  <2>1. pc'[u] = pc[u] /\ frame'[u] = frame[u] /\ Path(u)
    BY OthersStep DEF Others, MapInv, Paths
  <2>2. pc[u] \notin {"idle", "using"} => MyBucket(u) \in Nat
    BY PathFacts, BucketNumbers
  <2> QED
    BY <1>1, <2>1, <2>2 DEF Path, MyBucket, MyHash
<1> SUFFICES Path(t)'
  BY <1>2 DEF Paths
<1>3. Path(t) /\ (pc[t] \notin {"idle", "using"} => MyBucket(t) \in Nat)
  BY PathFacts, BucketNumbers DEF MapInv, Paths
<1>4. pc'[t] \in PC
  BY TypesStep DEF Types
<1> USE DEF Rehashing, Moving, InBucket, Searching, After, Removals
<1>5. CASE PathKept(t)
  <2>1. PICK n \in Nat : n = Len(frame[t].path)
    BY <1>3 DEF Path, Descends
  <2>2. pc[t] \notin {"idle", "using"} /\ n >= 1
    BY <1>5, <2>1, PathFacts DEF PathKept
  <2>3. MyBucket(t) \in Line(MyHash(t)) /\ MyBucket(t) <= my_mask'
    BY <1>1, <1>3, <2>2 DEF Path
  <2>6. ~(n > 1) => n = 1
    <3>1. n >= 1
      BY <2>2
    <3> HIDE <2>1
    <3> QED
      BY <3>1
  <2>4. Entered(t, frame[t].path) = IF n > 1 THEN "move" ELSE "search"
    BY <2>1 DEF Entered
  <2>5. /\ pc'[t] \in Rehashing => n >= 1
        /\ pc'[t] \in Moving => n >= 2
        /\ pc'[t] \in InBucket \cup After => n = 1
        /\ pc'[t] \notin {"idle", "using"}
    <3>1. /\ pc[t] \in Moving => n >= 2
          /\ pc[t] \in InBucket \cup After => n = 1
      BY <1>3, <2>1 DEF Path
    <3>2. CASE pc[t] \in Rehashing /\ pc'[t] \in Rehashing
      BY <2>2, <3>2
    <3>3. CASE pc'[t] = Entered(t, frame[t].path)
      <4>1. CASE n > 1
        BY <2>1, <2>4, <3>3, <4>1
      <4>2. CASE ~(n > 1)
        <5>1. n = 1
          BY <2>6, <4>2
        <5>2. pc'[t] = "search"
          BY <2>4, <3>3, <4>2
        <5> QED
          BY <2>1, <5>1, <5>2
      <4> QED
        BY <4>1, <4>2
    <3>4. CASE pc[t] \in Moving /\ pc'[t] \in Moving
      BY <2>2, <3>1, <3>4
    <3>5. CASE pc[t] \in InBucket \cup After /\ pc'[t] \in InBucket \cup After
      BY <2>2, <3>1, <3>5
    <3> QED
      BY <1>5, <3>2, <3>3, <3>4, <3>5 DEF PathKept
  <2> QED
    BY <1>3, <1>5, <2>1, <2>3, <2>5 DEF Path, PathKept, MyBucket, MyHash
<1>6. CASE PathBegun(t)
  <2>1. PICK k \in Key : k = frame'[t].key
    BY <1>6 DEF PathBegun
  <2>2. PICK m \in Nat : m = frame'[t].m /\ m + 1 \in Pow \ {1} /\ m <= my_mask
    BY <1>6 DEF PathBegun
  <2>3. Hash[k] \in Bucket
    BY HashAssumption
  <2>4. PICK b \in Bucket : b = Masked(Hash[k], m) /\ b \in Line(Hash[k]) /\ b <= m
    BY <2>2, <2>3, MaskedFacts
  <2>5. b <= my_mask'
    BY <1>1, <2>2, <2>4, BucketNumbers
  <2>6. frame'[t].path = <<b>> /\ pc'[t] = "flag"
    BY <1>6, <2>1, <2>2, <2>4 DEF PathBegun
  <2>7. Descends(<<b>>) /\ Len(<<b>>) = 1 /\ <<b>>[1] = b
    BY OnePath
  <2> QED
    BY <2>1, <2>4, <2>5, <2>6, <2>7 DEF Path, MyBucket, MyHash
<1>7. CASE PathEnded(t)
  BY <1>7, EmptyPath DEF PathEnded, Path
<1>8. CASE MarkRehashed(t)
  <2>1. PICK q : q = frame'[t].path
    OBVIOUS
  <2>2. /\ pc[t] = "recheck" /\ pc'[t] = "flag"
        /\ Descends(q) /\ Len(q) >= 2
        /\ q[1] = frame[t].path[1] /\ frame'[t].key = frame[t].key
    BY <1>8, <2>1, MarkFacts
  <2>3. PICK n \in Nat : n = Len(q) /\ n >= 2
    BY <2>2 DEF Descends
  <2>4. MyBucket(t) \in Line(MyHash(t)) /\ MyBucket(t) <= my_mask'
    BY <1>1, <1>3, <2>2 DEF Path
  <2> QED
    BY <2>1, <2>2, <2>3, <2>4 DEF Path, MyBucket, MyHash
<1>9. CASE MoveNone(t) \/ MoveItems(t)
  <2>1. PICK q : q = frame'[t].path
    OBVIOUS
  <2>2. /\ pc[t] = "move" /\ pc'[t] = Entered(t, q)
        /\ Descends(q) /\ Len(q) >= 1
        /\ q[1] = frame[t].path[1] /\ frame'[t].key = frame[t].key
    BY <1>9, <2>1, LeaveFacts
  <2>3. PICK n \in Nat : n = Len(q) /\ n >= 1
    BY <2>2 DEF Descends
  <2>4. MyBucket(t) \in Line(MyHash(t)) /\ MyBucket(t) <= my_mask'
    BY <1>1, <1>3, <2>2 DEF Path
  <2>5. pc'[t] = IF n > 1 THEN "move" ELSE "search"
    BY <2>2, <2>3 DEF Entered
  <2>6. pc'[t] \in Moving => n >= 2
    BY <2>3, <2>5
  <2>7. pc'[t] = "search" => n = 1
    BY <2>3, <2>5
  <2>8. pc'[t] = "move" \/ pc'[t] = "search"
    BY <2>5
  <2> QED
    BY <2>1, <2>2, <2>3, <2>4, <2>6, <2>7, <2>8 DEF Path, MyBucket, MyHash
<1> QED
  BY <1>5, <1>6, <1>7, <1>8, <1>9, PathMoves

(***************************************************************************)
(* The locks of the buckets.                                               *)
(***************************************************************************)
\* What a call that is under way has to do with the lock of the bucket on top.
HoldsTop(lock, t) ==
    /\ lock.writer = t => Inside(t) \/ pc[t] = "recheck"
    /\ t \in lock.readers => Inside(t)
    /\ Inside(t) => Holds(lock, t)
    /\ NeedsBucket(t) => lock.writer = t
    /\ pc[t] \in {"upgrade", "move_upgrade"} => t \in lock.readers

LEMMA HoldsTopFacts ==
  ASSUME MapInv, NEW t \in Thread, pc[t] \notin {"idle", "using"}
  PROVE  /\ HoldsTop(bucket_mutex[Top(t)], t) /\ Top(t) \in Bucket
         /\ \A c \in Bucket \ {Top(t)} :
               /\ bucket_mutex[c].writer = t <=> Pending(t, c)
               /\ t \notin bucket_mutex[c].readers
<1>1. HoldsBuckets(t) /\ Top(t) \in Bucket /\ ~Pending(t, Top(t))
  BY PathFacts DEF MapInv, BucketLocks
<1> QED
  BY <1>1 DEF HoldsBuckets, HoldsTop

LEMMA HoldsKept ==
  ASSUME MapInv, NEW t \in Thread, Step(t), pc[t] \notin {"idle", "using"},
         frame'[t].path = frame[t].path, HoldsTop(bucket_mutex[Top(t)], t)'
  PROVE  HoldsBuckets(t)'
<1>1. Top(t)' = Top(t) /\ \A c : Pending(t, c)' <=> Pending(t, c)
  BY DEF Top, Pending
<1>2. /\ Top(t) \in Bucket /\ ~Pending(t, Top(t))
      /\ \A c \in Bucket \ {Top(t)} :
               /\ bucket_mutex[c].writer = t <=> Pending(t, c)
               /\ t \notin bucket_mutex[c].readers
  BY HoldsTopFacts, PathFacts
<1>3. \A c \in Bucket \ {Top(t)} : bucket_mutex'[c] = bucket_mutex[c]
  BY BucketLocksStep DEF BucketLocksKept
<1>4. /\ bucket_mutex'[Top(t)].writer = t => Inside(t)' \/ pc'[t] = "recheck"
      /\ t \in bucket_mutex'[Top(t)].readers => Inside(t)'
      /\ Inside(t)' => Holds(bucket_mutex[Top(t)], t)'
      /\ NeedsBucket(t)' => bucket_mutex'[Top(t)].writer = t
      /\ pc'[t] \in {"upgrade", "move_upgrade"} => t \in bucket_mutex'[Top(t)].readers
  BY <1>1 DEF HoldsTop
<1>5. \A c \in Bucket :
          /\ bucket_mutex'[c].writer = t =>
                Pending(t, c)' \/ ((Inside(t)' \/ pc'[t] = "recheck") /\ Top(t)' = c)
          /\ t \in bucket_mutex'[c].readers => Inside(t)' /\ Top(t)' = c
          /\ Pending(t, c)' => bucket_mutex'[c].writer = t
  BY <1>1, <1>2, <1>3, <1>4
<1>6. /\ Inside(t)' => Holds(bucket_mutex'[Top(t)'], t)
      /\ NeedsBucket(t)' => bucket_mutex'[Top(t)'].writer = t
      /\ pc'[t] \in {"upgrade", "move_upgrade"} => t \in bucket_mutex'[Top(t)'].readers
  BY <1>1, <1>4 DEF Holds
<1> QED
  BY <1>5, <1>6 DEF HoldsBuckets, Holds

LEMMA HoldsNothing ==
  ASSUME NEW t \in Thread, pc'[t] \in {"idle", "using", "flag"},
         \A c \in Bucket : ~Holds(bucket_mutex'[c], t), \A c : ~Pending(t, c)'
  PROVE  HoldsBuckets(t)'
BY DEF HoldsBuckets, Holds, Inside, NeedsBucket

\* Who releases the bucket on top has nothing to do with it afterwards.
Outside == {"flag", "restart", "move_reacquire", "reacquire", "missed", "gone", "growth"} \cup Removals

LEMMA HoldsReleased ==
  ASSUME MapInv, NEW t \in Thread, Step(t), pc[t] \notin {"idle", "using"},
         ReleaseBucket(t, Top(t)), pc'[t] \in Outside
  PROVE  /\ frame'[t].path = frame[t].path => HoldsBuckets(t)'
         /\ pc'[t] = "flag" /\ (\A c : ~Pending(t, c)) /\ (\A c : ~Pending(t, c)')
               => HoldsBuckets(t)'
<1>1. /\ Top(t) \in Bucket /\ bucket_mutex \in [Bucket -> Lock]
      /\ Exclusive(bucket_mutex[Top(t)]) /\ bucket_mutex[Top(t)] \in Lock
  BY HoldsTopFacts DEF MapInv, Types, BucketLocks
<1>2. bucket_mutex'[Top(t)] = Unlocked(bucket_mutex[Top(t)], t)
  BY <1>1 DEF ReleaseBucket
<1>3. ~Holds(bucket_mutex'[Top(t)], t)
  BY <1>1, <1>2, UnlockFacts
<1>4. ASSUME frame'[t].path = frame[t].path PROVE HoldsBuckets(t)'
  <2>1. Top(t)' = Top(t)
    BY <1>4 DEF Top
  <2>2. HoldsTop(bucket_mutex[Top(t)], t)'
    BY <1>3, <2>1 DEF Outside, Removals, HoldsTop, Holds, Inside, NeedsBucket
  <2> QED
    BY <1>4, <2>2, HoldsKept
<1>5. ASSUME pc'[t] = "flag", \A c : ~Pending(t, c), \A c : ~Pending(t, c)'
      PROVE  HoldsBuckets(t)'
  <2>1. \A c \in Bucket \ {Top(t)} : bucket_mutex'[c] = bucket_mutex[c]
    BY BucketLocksStep DEF BucketLocksKept
  <2>2. \A c \in Bucket : ~Holds(bucket_mutex'[c], t)
    BY <1>3, <1>5, <2>1, HoldsTopFacts DEF Holds
  <2> QED
    BY <1>5, <2>2, HoldsNothing
<1> QED
  BY <1>4, <1>5

\* The steps that leave the locks and the path alone.
LEMMA HoldsUnlocked ==
  ASSUME MapInv, NEW t \in Thread, Step(t), bucket_mutex' = bucket_mutex,
         frame'[t].path = frame[t].path,
         \/ SeeFlag(t) \/ FailToTryBucket(t) \/ SeeRehashed(t) \/ NeedWriter(t)
         \/ Found(t) \/ NotFound(t) \/ NotFoundToInsert(t) \/ NotFoundAfterUpgrade(t)
         \/ MaskKept(t) \/ MaskChanged(t) \/ NoCollision(t) \/ LinkNode(t) \/ ClaimSegment(t)
         \/ Growth(t) \/ NotThere(t) \/ UpgradeItem(t) \/ ReleaseItem(t) \/ ReacquireItem(t)
  PROVE  pc[t] \notin {"idle", "using"} /\ (Growth(t) \/ HoldsBuckets(t)')
<1>1. /\ pc \in [Thread -> PC] /\ frame \in [Thread -> Frame] /\ frame[t] \in Frame
      /\ Stage(t)
  BY DEF MapInv, Types, Stages
<1>2. pc[t] \notin {"idle", "using"}
  BY DEF SeeFlag, FailToTryBucket, SeeRehashed, NeedWriter, Found, FindInBucket, NotFound,
     NotFoundToInsert, NotFoundAfterUpgrade, MaskKept, MaskChanged, NoCollision, LinkNode,
     ClaimSegment, Growth, NotThere, UpgradeItem, ReleaseItem, ReacquireItem, Goto
<1>3. HoldsTop(bucket_mutex[Top(t)], t)
  BY <1>2, HoldsTopFacts
<1>4. PICK l : l = bucket_mutex[Top(t)] /\ l = bucket_mutex[Top(t)]'
  BY DEF Top
<1>5. SUFFICES ASSUME ~Growth(t) PROVE HoldsTop(bucket_mutex[Top(t)], t)'
  BY <1>2, HoldsKept
<1>6. HoldsTop(l, t) /\ (IsWriter(t) <=> l.writer = t)
  BY <1>3, <1>4 DEF IsWriter
<1>7. SUFFICES /\ l.writer = t => Inside(t)' \/ pc'[t] = "recheck"
               /\ t \in l.readers => Inside(t)'
               /\ Inside(t)' => t = l.writer \/ t \in l.readers
               /\ NeedsBucket(t)' => l.writer = t
               /\ pc'[t] \in {"upgrade", "move_upgrade"} => t \in l.readers
  BY <1>4 DEF HoldsTop, Holds
<1> USE DEF HoldsTop, Holds, Inside, NeedsBucket
<1>8. CASE SeeFlag(t) \/ FailToTryBucket(t)
  BY <1>1, <1>6, <1>8 DEF SeeFlag, FailToTryBucket, Goto
<1>9. CASE SeeRehashed(t) \/ NeedWriter(t)
  BY <1>1, <1>6, <1>9 DEF SeeRehashed, NeedWriter, Entered, Goto
<1>10. CASE Found(t)
  <2>1. /\ pc[t] = "search" /\ pc'[t] = "item" /\ ~frame[t].new /\ frame[t].op # "exclude"
        /\ \E n : frame' = [frame EXCEPT ![t] = [frame[t] EXCEPT !.n = n]]
    BY <1>1, <1>10 DEF Found, FindInBucket, Goto, Stage, StageNew, Frame
  <2>2. ~frame'[t].new
    BY <1>1, <2>1 DEF Frame
  <2> QED
    BY <1>1, <1>6, <2>1, <2>2
<1>11. CASE NotFound(t) \/ NotFoundAfterUpgrade(t) \/ NotThere(t)
  BY <1>1, <1>6, <1>11 DEF NotFound, NotFoundAfterUpgrade, NotThere, Goto
<1>12. CASE NotFoundToInsert(t)
  <2>1. pc[t] = "search" /\ pc'[t] = (IF IsWriter(t) THEN "race" ELSE "upgrade")
    BY <1>1, <1>12 DEF NotFoundToInsert, Goto
  <2> QED
    BY <1>1, <1>6, <2>1
<1>13. CASE MaskKept(t) \/ NoCollision(t)
  <2>1. \/ frame[t].op = "insert" /\ pc[t] \in {"race", "collision"} /\ pc'[t] = "link"
        \/ frame[t].op # "insert" /\ ReleaseBucket(t, MyBucket(t))
           /\ pc[t] \in {"race", "collision"} /\ pc'[t] \in {"missed", "gone"}
    BY <1>1, <1>13 DEF MaskKept, NoCollision, Absent
  <2>2. CASE frame[t].op = "insert" /\ pc[t] \in {"race", "collision"} /\ pc'[t] = "link"
    BY <1>1, <1>6, <2>2
  <2>3. CASE ReleaseBucket(t, MyBucket(t)) /\ pc[t] \in {"race", "collision"}
             /\ pc'[t] \in {"missed", "gone"}
    <3>1. MyBucket(t) = Top(t)
      BY <2>3, PathFacts DEF InBucket, Searching
    <3>2. HoldsBuckets(t)'
      BY <1>2, <2>3, <3>1, HoldsReleased DEF Outside
    <3>3. Path(t)'
      BY PathsStep DEF Paths
    <3>4. ~Pending(t, Top(t))
      BY <1>2, PathFacts
    <3>5. ~(l.writer = t) /\ t \notin l.readers
      <4>1. Top(t) \in Bucket
        BY <1>2, HoldsTopFacts
      <4> QED
        BY <1>4, <2>3, <3>2, <3>4, <4>1 DEF HoldsBuckets, Top, Pending
    <3> QED
      BY <2>3, <3>5
  <2> QED
    BY <2>1, <2>2, <2>3
<1>14. CASE MaskChanged(t)
  <2>1. pc[t] = "race" /\ pc'[t] = "collision"
    BY <1>1, <1>14 DEF MaskChanged, Goto
  <2>2. frame'[t].op = frame[t].op
    BY <1>1, <1>14 DEF MaskChanged, Frame
  <2> QED
    BY <1>1, <1>6, <2>1, <2>2
<1>15. CASE LinkNode(t) \/ ClaimSegment(t)
  BY <1>1, <1>6, <1>15 DEF LinkNode, ClaimSegment, Goto
<1>16. CASE UpgradeItem(t) \/ ReleaseItem(t) \/ ReacquireItem(t)
  BY <1>1, <1>6, <1>16 DEF UpgradeItem, ReleaseItem, ReacquireItem, Goto
<1> QED
  BY <1>5, <1>8, <1>9, <1>10, <1>11, <1>12, <1>13, <1>14, <1>15, <1>16

LEMMA BeginFacts ==
  ASSUME MapInv, NEW t \in Thread, Begin(t)
  PROVE  /\ bucket_mutex' = bucket_mutex /\ table' = table /\ items' = items
         /\ pc[t] \in {"idle", "using", "missed"} /\ pc'[t] \in {"idle", "flag"}
<1>1. pc \in [Thread -> PC]
  BY DEF MapInv, Types
<1>2. bucket_mutex' = bucket_mutex
  BY Zenon DEF Begin, CallLookup, CallErase, ReleaseAccessor, ReturnMissed, locks
<1>3. table' = table /\ items' = items
  BY Zenon DEF Begin, CallLookup, CallErase, ReleaseAccessor, ReturnMissed, LoadMask
<1>4. pc[t] \in {"idle", "using", "missed"} /\ pc'[t] \in {"idle", "flag"}
  BY <1>1, Zenon DEF Begin, CallLookup, CallErase, ReleaseAccessor, ReturnMissed, LoadMask, Goto
<1> QED
  BY <1>2, <1>3, <1>4

LEMMA HoldsStep ==
  ASSUME MapInv, NEW t \in Thread, Step(t)
  PROVE  BucketLocks'
<1>1. /\ pc \in [Thread -> PC] /\ frame \in [Thread -> Frame] /\ frame[t] \in Frame
      /\ Stage(t) /\ bucket_mutex \in [Bucket -> Lock] /\ HoldsBuckets(t)
      /\ \A c \in Bucket : Exclusive(bucket_mutex[c])
  BY DEF MapInv, Types, Stages, BucketLocks
<1>2. \A c \in Bucket : Exclusive(bucket_mutex[c])'
  BY BucketLocksStep DEF BucketLocksKept, Exclusive
<1>3. ASSUME NEW u \in Thread \ {t} PROVE HoldsBuckets(u)'
  <2>1. /\ pc'[u] = pc[u] /\ frame'[u] = frame[u] /\ HoldsBuckets(u)
        /\ \A c \in Bucket : SameForOthers(bucket_mutex[c], bucket_mutex'[c], t)
    BY OthersStep, BucketLocksStep DEF Others, MapInv, BucketLocks, BucketLocksKept
  <2>2. pc[u] \notin {"idle", "using"} => Top(u) \in Bucket
    BY PathFacts
  <2>3. /\ Top(u)' = Top(u) /\ Inside(u)' = Inside(u) /\ NeedsBucket(u)' = NeedsBucket(u)
        /\ \A c : Pending(u, c)' = Pending(u, c)
    BY <2>1 DEF Top, Inside, NeedsBucket, Pending
  <2>4. \A c \in Bucket : /\ bucket_mutex'[c].writer = u <=> bucket_mutex[c].writer = u
                          /\ u \in bucket_mutex'[c].readers <=> u \in bucket_mutex[c].readers
    BY <2>1 DEF SameForOthers
  <2>5. /\ Inside(u) \/ NeedsBucket(u) \/ pc[u] \in {"upgrade", "move_upgrade"}
             => pc[u] \notin {"idle", "using"}
    BY DEF Inside, NeedsBucket
  <2> QED
    BY <2>1, <2>2, <2>3, <2>4, <2>5 DEF HoldsBuckets, Holds
<1> SUFFICES HoldsBuckets(t)'
  BY <1>2, <1>3 DEF BucketLocks
<1> DEFINE l == bucket_mutex[Top(t)]
<1>4. pc[t] \notin {"idle", "using"} => Top(t) \in Bucket /\ l \in Lock /\ Exclusive(l)
                                        /\ HoldsTop(l, t)
  BY <1>1, HoldsTopFacts
<1> HIDE DEF l
<1>5. ASSUME PathBegun(t) PROVE pc'[t] = "flag" /\ \A c : ~Pending(t, c)'
  <2>1. PICK k \in Key : k = frame'[t].key
    BY <1>5 DEF PathBegun
  <2>2. PICK m \in Nat : m = frame'[t].m /\ m + 1 \in Pow \ {1}
    BY <1>5 DEF PathBegun
  <2>3. PICK b \in Bucket : b = Masked(Hash[k], m)
    BY <2>2, HashAssumption, MaskedFacts
  <2>4. frame'[t].path = <<b>> /\ pc'[t] = "flag"
    BY <1>5, <2>1, <2>2, <2>3 DEF PathBegun
  <2> QED
    BY <2>4, OnePath DEF Pending
<1>6. ASSUME frame'[t] = NoFrame \/ frame'[t].path = << >> PROVE \A c : ~Pending(t, c)'
  <2>1. frame'[t].path = << >>
    BY <1>6 DEF NoFrame
  <2> QED
    BY <2>1, EmptyPath DEF Pending
<1>7. ASSUME NEW w \in BOOLEAN, LockBucket(t, Top(t), w),
             pc[t] \in {"try", "acquire", "move_reacquire", "reacquire"},
             frame' = frame,
             pc'[t] \in {"recheck", "move", "again"} \/ (pc'[t] = "search" /\
                                                  (frame[t].op = "exclude" => w)),
             pc'[t] \in {"recheck", "again"} => w
      PROVE  HoldsBuckets(t)'
  <2>1. pc[t] \notin {"idle", "using"} /\ CanLock(l, w)
        /\ bucket_mutex' = [bucket_mutex EXCEPT ![Top(t)] = Locked(l, t, w)]
    BY <1>7 DEF LockBucket, l
  <2>2. PICK k : k = Locked(l, t, w)
    OBVIOUS
  <2>3. Top(t)' = Top(t) /\ bucket_mutex[Top(t)]' = k
    BY <1>1, <1>4, <1>7, <2>1, <2>2 DEF Top
  <2>4. /\ w => k.writer = t
        /\ Holds(k, t)
        /\ k.writer = t => w
        /\ t \in k.readers => ~w
    BY <1>4, <2>1, <2>2, LockFacts
  <2>5. HoldsTop(bucket_mutex[Top(t)], t)'
    BY <1>7, <2>3, <2>4 DEF HoldsTop, Inside, NeedsBucket, Holds
  <2> QED
    BY <1>7, <2>1, <2>5, HoldsKept
<1>8. ASSUME NEW from \in {"upgrade", "move_upgrade"}, NEW to \in {"race", "move"},
             Upgrade(t, from, to)
      PROVE  HoldsBuckets(t)'
  <2>1. pc[t] = from /\ pc'[t] = to /\ frame' = frame
        /\ bucket_mutex' = [bucket_mutex EXCEPT ![Top(t)] = Writer(t)]
    BY <1>1, <1>8 DEF Upgrade, Goto
  <2>2. pc[t] \notin {"idle", "using"}
    BY <2>1
  <2>3. Top(t)' = Top(t) /\ bucket_mutex[Top(t)]' = Writer(t)
    BY <1>1, <1>4, <2>1, <2>2 DEF Top
  <2>4. Writer(t).writer = t /\ t \notin Writer(t).readers
    BY <1>4, <2>2, WriterFacts
  <2>5. HoldsTop(bucket_mutex[Top(t)], t)'
    BY <2>1, <2>3, <2>4 DEF HoldsTop, Inside, NeedsBucket, Holds
  <2> QED
    BY <2>1, <2>2, <2>5, HoldsKept
<1>9. CASE Begin(t) \/ Growth(t) \/ DeleteNode(t) \/ ReleaseAccessor(t, "gone")
  <2>1. /\ bucket_mutex' = bucket_mutex
        /\ pc[t] \in {"idle", "using", "missed", "growth", "delete", "gone"}
        /\ pc'[t] \in {"idle", "using", "flag"}
    <3>1. CASE Begin(t)
      BY <3>1, BeginFacts
    <3>2. CASE Growth(t) \/ DeleteNode(t) \/ ReleaseAccessor(t, "gone")
      BY <1>1, <3>2 DEF Growth, DeleteNode, ReleaseAccessor, Goto, locks
    <3> QED
      BY <1>9, <3>1, <3>2
  <2>2. \A c : ~Pending(t, c)
    BY <2>1, PathFacts DEF After, Removals
  <2>3. \A c \in Bucket : ~Holds(bucket_mutex[c], t)
    BY <1>1, <2>1, <2>2 DEF HoldsBuckets, Holds, Inside
  <2>4. \A c : ~Pending(t, c)'
    <3>1. PathKept(t) \/ PathBegun(t) \/ PathEnded(t) \/ MarkRehashed(t) \/ MoveNone(t)
            \/ MoveItems(t)
      BY PathMoves
    <3>2. ~(MarkRehashed(t) \/ MoveNone(t) \/ MoveItems(t))
      BY <2>1 DEF MarkRehashed, MoveNone, MoveItems, Goto
    <3>3. PathKept(t) => \A c : ~Pending(t, c)'
      BY <2>2 DEF PathKept, Pending
    <3> QED
      BY <1>5, <1>6, <3>1, <3>2, <3>3 DEF PathEnded
  <2> QED
    BY <2>1, <2>3, <2>4, HoldsNothing
<1>10. CASE Rehash(t)
  <2>1. CASE SeeFlag(t) \/ FailToTryBucket(t) \/ SeeRehashed(t) \/ NeedWriter(t)
    <3>1. bucket_mutex' = bucket_mutex /\ frame' = frame /\ ~Growth(t)
      BY <1>1, <2>1 DEF SeeFlag, FailToTryBucket, SeeRehashed, NeedWriter, Goto, locks, Growth
    <3> QED
      BY <2>1, <3>1, HoldsUnlocked
  <2>2. CASE TryBucket(t)
    <3>1. /\ LockBucket(t, Top(t), TRUE) /\ pc[t] = "try" /\ pc'[t] = "recheck"
          /\ frame' = frame
      BY <1>1, <2>2 DEF TryBucket, Goto
    <3> QED
      BY <1>7, <3>1
  <2>3. CASE AcquireBucket(t)
    <3>1. PICK w \in BOOLEAN : w = (frame[t].op = "exclude" /\ Len(frame[t].path) = 1)
      OBVIOUS
    <3>2. PICK n \in Nat : n = Len(frame[t].path)
      BY <1>1 DEF Frame
    <3>3. /\ LockBucket(t, Top(t), w) /\ pc[t] = "acquire" /\ frame' = frame
          /\ pc'[t] = IF n > 1 THEN "move" ELSE "search"
      BY <1>1, <2>3, <3>1, <3>2 DEF AcquireBucket, Goto, Entered
    <3>4. n >= 1
      BY <3>2, <3>3, PathFacts
    <3>5. pc'[t] = "move" \/ (pc'[t] = "search" /\ (frame[t].op = "exclude" => w))
      <4>1. n > 1 \/ n = 1
        BY <3>4
      <4> QED
        BY <3>1, <3>2, <3>3, <4>1
    <3> QED
      BY <1>7, <3>3, <3>5
  <2>4. CASE Reacquire(t, "move_reacquire", "move")
    <3>1. /\ LockBucket(t, Top(t), TRUE) /\ pc[t] = "move_reacquire" /\ pc'[t] = "move"
          /\ frame' = frame
      BY <1>1, <2>4 DEF Reacquire, Goto
    <3> QED
      BY <1>7, <3>1
  <2>5. CASE Upgrade(t, "move_upgrade", "move")
    BY <1>8, <2>5
  <2>6. CASE ReleaseToUpgrade(t, "move_upgrade", "move_reacquire")
    <3>1. /\ ReleaseBucket(t, Top(t)) /\ pc[t] = "move_upgrade" /\ pc'[t] = "move_reacquire"
          /\ frame' = frame
      BY <1>1, <2>6 DEF ReleaseToUpgrade, Goto
    <3> QED
      BY <3>1, HoldsReleased DEF Outside
  <2>7. CASE MarkRehashed(t)
    <3>1. PICK T \in Bucket : T = Top(t)
      BY <2>7, MarkFacts
    <3>2. /\ pc[t] = "recheck" /\ pc'[t] = "flag" /\ bucket_mutex' = bucket_mutex
          /\ bucket_mutex[T].writer = t
          /\ \A c : Pending(t, c)' <=> Pending(t, c) \/ c = T
      BY <2>7, <3>1, MarkFacts, Zenon
    <3>3. \A c \in Bucket \ {T} : /\ bucket_mutex[c].writer = t <=> Pending(t, c)
                                  /\ t \notin bucket_mutex[c].readers
      BY <3>1, <3>2, HoldsTopFacts
    <3>4. t \notin bucket_mutex[T].readers
      BY <1>1, <3>2, NilAssumption DEF Exclusive
    <3> QED
      BY <3>2, <3>3, <3>4 DEF HoldsBuckets, Inside, NeedsBucket
  <2>8. CASE MoveNone(t) \/ MoveItems(t)
    <3>1. pc[t] = "move"
      BY <2>8, LeaveFacts
    <3>2. PICK T \in Bucket, d \in Bucket : /\ T = Top(t) /\ d = Child(t) /\ d # T
                                            /\ bucket_mutex[d].writer = t
      BY <3>1, MoveFacts
    <3>3. /\ Top(t)' = d
          /\ pc'[t] \in {"move", "search"}
          /\ \A c : Pending(t, c) <=> Pending(t, c)' \/ c = d
      BY <2>8, <3>2, LeaveFacts DEF Entered
    <3>4. /\ bucket_mutex' = [bucket_mutex EXCEPT ![T] = Unlocked(bucket_mutex[T], t)]
      BY <2>8, <3>2 DEF MoveNone, MoveItems, LeaveParent, ReleaseBucket
    <3>5. /\ \A c \in Bucket \ {T} : bucket_mutex'[c] = bucket_mutex[c]
          /\ ~Holds(bucket_mutex'[T], t)
      BY <1>1, <3>2, <3>4, UnlockFacts
    <3>6. /\ \A c \in Bucket \ {T} : /\ bucket_mutex[c].writer = t <=> Pending(t, c)
                                     /\ t \notin bucket_mutex[c].readers
          /\ ~Pending(t, T)
      BY <3>1, <3>2, HoldsTopFacts, PathFacts
    <3> QED
      BY <3>2, <3>3, <3>5, <3>6 DEF HoldsBuckets, Inside, NeedsBucket, Holds
  <2> QED
    BY <1>10, <2>1, <2>2, <2>3, <2>4, <2>5, <2>6, <2>7, <2>8 DEF Rehash
<1>11. CASE Lookup(t)
  <2>1. CASE \/ Found(t) \/ NotFound(t) \/ NotFoundToInsert(t) \/ NotFoundAfterUpgrade(t)
             \/ MaskChanged(t) \/ LinkNode(t) \/ ClaimSegment(t)
             \/ ((MaskKept(t) \/ NoCollision(t)) /\ frame[t].op = "insert")
    <3>1. bucket_mutex' = bucket_mutex /\ ~Growth(t)
      BY <1>1, <2>1 DEF Found, FindInBucket, NotFound, NotFoundToInsert, NotFoundAfterUpgrade,
         MaskChanged, LinkNode, ClaimSegment, MaskKept, NoCollision, Absent, Goto, Growth, locks
    <3>2. frame'[t].path = frame[t].path
      <4>1. Found(t) => \E n : frame' = [frame EXCEPT ![t] = [frame[t] EXCEPT !.n = n]]
        BY DEF Found, FindInBucket
      <4>2. Found(t) => frame'[t].path = frame[t].path
        BY <1>1, <4>1 DEF Frame
      <4> QED
        BY <1>1, <2>1, <4>2 DEF NotFound, NotFoundToInsert, NotFoundAfterUpgrade,
           MaskChanged, LinkNode, ClaimSegment, MaskKept, NoCollision, Frame
    <3> QED
      BY <2>1, <3>1, <3>2, HoldsUnlocked
  <2>2. CASE Reacquire(t, "reacquire", "again")
    <3>1. /\ LockBucket(t, Top(t), TRUE) /\ pc[t] = "reacquire" /\ pc'[t] = "again"
          /\ frame' = frame
      BY <1>1, <2>2 DEF Reacquire, Goto
    <3> QED
      BY <1>7, <3>1
  <2>3. CASE Upgrade(t, "upgrade", "race")
    BY <1>8, <2>3
  <2>4. CASE ReleaseToUpgrade(t, "upgrade", "reacquire")
    <3>1. /\ ReleaseBucket(t, Top(t)) /\ pc[t] = "upgrade" /\ pc'[t] = "reacquire"
          /\ frame' = frame
      BY <1>1, <2>4 DEF ReleaseToUpgrade, Goto
    <3> QED
      BY <3>1, HoldsReleased DEF Outside
  <2>5. CASE TryItem(t) \/ GiveUpItem(t)
             \/ ((MaskKept(t) \/ NoCollision(t)) /\ frame[t].op # "insert")
    <3>1. /\ ReleaseBucket(t, MyBucket(t)) /\ pc[t] \in {"item", "race", "collision"}
          /\ pc'[t] \in {"growth", "restart", "missed", "gone"}
          /\ frame'[t].path = frame[t].path
      BY <1>1, <2>5 DEF TryItem, GiveUpItem, MaskKept, NoCollision, Absent, Goto, Frame
    <3>2. MyBucket(t) = Top(t) /\ pc[t] \notin {"idle", "using"}
      BY <3>1, PathFacts DEF InBucket, Searching
    <3> QED
      BY <3>1, <3>2, HoldsReleased DEF Outside
  <2>6. CASE Collision(t)
    <3>1. ReleaseBucket(t, MyBucket(t)) /\ pc[t] = "collision" /\ pc'[t] = "flag"
      BY <1>1, <2>6 DEF Collision, Goto
    <3>2. /\ MyBucket(t) = Top(t) /\ pc[t] \notin {"idle", "using"}
          /\ \A c : ~Pending(t, c)
      BY <3>1, PathFacts DEF InBucket, Searching
    <3>3. PathBegun(t)
      BY <3>1, PathMoves DEF PathKept, PathEnded, MarkRehashed, MoveNone, MoveItems, Goto,
         Rehashing, Moving, InBucket, Searching, After, Removals, Entered
    <3> QED
      BY <1>5, <3>1, <3>2, <3>3, HoldsReleased DEF Outside
  <2>7. CASE FoundAfterUpgrade(t)
    <3>1. /\ bucket_mutex' = [bucket_mutex EXCEPT ![MyBucket(t)] = Locked(Free, t, FALSE)]
          /\ pc[t] = "again" /\ pc'[t] = "item"
          /\ \E n : frame' = [frame EXCEPT ![t] = [frame[t] EXCEPT !.n = n]]
      BY <1>1, <2>7 DEF FoundAfterUpgrade, FindInBucket, Goto
    <3>2. /\ MyBucket(t) = Top(t) /\ pc[t] \notin {"idle", "using"}
          /\ ~frame[t].new
      BY <1>1, <3>1, PathFacts DEF InBucket, Searching, Stage, StageNew, Frame
    <3>3. frame'[t].path = frame[t].path /\ ~frame'[t].new
      BY <1>1, <3>1, <3>2 DEF Frame
    <3>4. l.writer = t
      BY <1>1, <3>1 DEF HoldsBuckets, NeedsBucket, l
    <3>5. PICK k : k = Locked(Free, t, FALSE)
      OBVIOUS
    <3>6. k.writer # t /\ t \in k.readers
      BY <1>4, <3>2, <3>4, <3>5, DowngradeFacts
    <3>7. Top(t)' = Top(t) /\ bucket_mutex[Top(t)]' = k
      BY <1>1, <1>4, <3>1, <3>2, <3>3, <3>5 DEF Top
    <3>8. HoldsTop(bucket_mutex[Top(t)], t)'
      BY <3>1, <3>3, <3>6, <3>7 DEF HoldsTop, Inside, NeedsBucket, Holds
    <3> QED
      BY <3>2, <3>3, <3>8, HoldsKept
  <2>8. CASE Restart(t)
    <3>1. bucket_mutex' = bucket_mutex /\ pc[t] = "restart" /\ pc'[t] = "flag"
      BY <1>1, <2>8 DEF Restart, LoadMask, Goto, locks
    <3>2. \A c : ~Pending(t, c)
      BY <3>1, PathFacts DEF After
    <3>3. \A c \in Bucket : ~Holds(bucket_mutex[c], t)
      BY <1>1, <3>1, <3>2 DEF HoldsBuckets, Holds, Inside
    <3>4. PathBegun(t)
      BY <3>1, PathMoves DEF PathKept, PathEnded, MarkRehashed, MoveNone, MoveItems, Goto,
         Rehashing, Moving, InBucket, Searching, After, Removals, Entered
    <3> QED
      BY <1>5, <3>1, <3>3, <3>4, HoldsNothing
  <2> QED
    BY <1>9, <1>11, <2>1, <2>2, <2>3, <2>4, <2>5, <2>6, <2>7, <2>8 DEF Lookup
<1>12. CASE Exclude(t)
  <2>1. CASE NotThere(t) \/ UpgradeItem(t) \/ ReleaseItem(t) \/ ReacquireItem(t)
    <3>1. bucket_mutex' = bucket_mutex /\ frame' = frame /\ ~Growth(t)
      BY <2>1 DEF NotThere, UpgradeItem, ReleaseItem, ReacquireItem, Goto, Growth, locks
    <3> QED
      BY <2>1, <3>1, HoldsUnlocked
  <2>2. CASE Unlink(t)
    <3>1. /\ ReleaseBucket(t, MyBucket(t)) /\ pc[t] = "search"
          /\ pc'[t] \in Outside /\ frame' = frame
      BY <1>1, <2>2 DEF Unlink, Goto, Outside, Removals
    <3>2. MyBucket(t) = Top(t)
      BY <3>1, PathFacts DEF InBucket, Searching
    <3> QED
      BY <3>1, <3>2, HoldsReleased
  <2> QED
    BY <1>9, <1>12, <2>1, <2>2 DEF Exclude
<1> QED
  BY <1>9, <1>10, <1>11, <1>12 DEF Step

(***************************************************************************)
(* The buckets that are marked and those that are filled.                  *)
(***************************************************************************)
LEMMA NoPending ==
  ASSUME MapInv, NEW t \in Thread, PathBegun(t) \/ PathEnded(t)
  PROVE  /\ \A c : ~Pending(t, c) /\ ~Pending(t, c)'
         /\ PathBegun(t) => /\ frame'[t].path[1] = Masked(Hash[frame'[t].key], frame'[t].m)
                            /\ frame'[t].path[1] \in Bucket
<1>1. \A c : ~Pending(t, c)
  <2>1. pc[t] \in InBucket \cup After \cup {"idle", "using"}
    BY DEF PathBegun, PathEnded, After
  <2> QED
    BY <2>1, PathFacts
<1>2. CASE PathBegun(t)
  <2>1. PICK k \in Key : k = frame'[t].key
    BY <1>2 DEF PathBegun
  <2>2. PICK m \in Nat : m = frame'[t].m /\ m + 1 \in Pow \ {1}
    BY <1>2 DEF PathBegun
  <2>3. PICK b \in Bucket : b = Masked(Hash[k], m)
    BY <2>2, HashAssumption, MaskedFacts
  <2>4. frame'[t].path = <<b>>
    BY <1>2, <2>1, <2>2, <2>3 DEF PathBegun
  <2>5. frame'[t].path[1] = b /\ \A c : ~Pending(t, c)'
    BY <2>4, OnePath DEF Pending
  <2> QED
    BY <1>1, <2>1, <2>2, <2>3, <2>5
<1>3. CASE PathEnded(t) /\ ~PathBegun(t)
  <2>1. frame'[t].path = << >>
    BY <1>3 DEF PathEnded
  <2> QED
    BY <1>1, <1>3, <2>1, EmptyPath DEF Pending
<1> QED
  BY <1>2, <1>3

\* A bucket is filled by the thread that has moved its items into it.
Fills(t, c) == (MoveNone(t) \/ MoveItems(t)) /\ c = Child(t)

LEMMA FilledStep ==
  ASSUME MapInv, NEW t \in Thread, Step(t)
  PROVE  \A c : Filled(c)' <=> Filled(c) \/ Fills(t, c)
<1>1. \A u \in Thread \ {t} : \A c : Pending(u, c)' <=> Pending(u, c)
  BY OthersStep DEF Others, Pending
<1>2. CASE MarkRehashed(t)
  <2>1. PICK T : T = Top(t)
    OBVIOUS
  <2>2. /\ rehashed' = rehashed \cup {T} /\ T \notin rehashed
        /\ \A c : Pending(t, c)' <=> Pending(t, c) \/ c = T
        /\ ~MoveNone(t) /\ ~MoveItems(t)
    BY <1>2, <2>1, MarkFacts, Zenon DEF MoveNone, MoveItems
  <2> QED
    BY <1>1, <2>2 DEF Filled, Fills
<1>3. CASE MoveNone(t) \/ MoveItems(t)
  <2>1. PICK d \in Bucket : d = Child(t) /\ d \in rehashed /\ bucket_mutex[d].writer = t
    BY <1>3, LeaveFacts, MoveFacts
  <2>2. /\ ~Pending(t, d)'
        /\ \A c : Pending(t, c) <=> Pending(t, c)' \/ c = d
    BY <1>3, <2>1, LeaveFacts DEF Pending
  <2>3. \A u \in Thread \ {t} : ~Pending(u, d)
    BY <2>1 DEF MapInv, BucketLocks, HoldsBuckets
  <2>4. rehashed' = rehashed
    BY <1>3 DEF MoveNone, MoveItems, LeaveParent
  <2> QED
    BY <1>1, <1>3, <2>1, <2>2, <2>3, <2>4 DEF Filled, Fills
<1>4. CASE ~MarkRehashed(t) /\ ~MoveNone(t) /\ ~MoveItems(t)
  <2>1. rehashed' = rehashed
    BY <1>4, Effects
  <2>2. \A c : Pending(t, c)' <=> Pending(t, c)
    BY <1>4, PathMoves, NoPending DEF PathKept, Pending
  <2> QED
    BY <1>1, <1>4, <2>1, <2>2 DEF Filled, Fills
<1> QED
  BY <1>2, <1>3, <1>4

LEMMA MarkedStep ==
  ASSUME MapInv, NEW t \in Thread, Step(t)
  PROVE  AllMarked'
<1>1. pc \in [Thread -> PC] /\ frame \in [Thread -> Frame] /\ bucket_mutex \in [Bucket -> Lock]
  BY DEF MapInv, Types
<1>2. rehashed \subseteq rehashed' /\ Others(t)
  BY TableStep, OthersStep
<1>3. pc[t] = "recheck" => pc'[t] = "recheck" \/ Top(t) \in rehashed'
  <2>1. SUFFICES ASSUME pc[t] = "recheck", pc'[t] # "recheck" PROVE Top(t) \in rehashed'
    OBVIOUS
  <2>2. SeeRehashed(t) \/ MarkRehashed(t)
    BY <2>1 DEF Step, Begin, CallLookup, CallErase, ReleaseAccessor, ReturnMissed, LoadMask,
       Rehash, SeeFlag, TryBucket, FailToTryBucket, AcquireBucket, MoveNone, MoveItems,
       NeedWriter, Upgrade, ReleaseToUpgrade, Reacquire, Lookup, Found, FoundAfterUpgrade,
       FindInBucket, NotFound, NotFoundToInsert, NotFoundAfterUpgrade, MaskKept, MaskChanged,
       NoCollision, Collision, LinkNode, ClaimSegment, TryItem, GiveUpItem, Restart, Growth, Exclude,
       Unlink, NotThere, UpgradeItem, ReleaseItem, ReacquireItem, DeleteNode, Goto
  <2> QED
    BY <1>2, <2>2 DEF SeeRehashed, MarkRehashed
<1>4. ASSUME NEW u \in Thread, NEW b,
             b \in rehashed \/ \E v \in Thread : pc[v] = "recheck" /\ Top(v) = b,
             pc[t] # "recheck" \/ pc'[t] # "recheck"
      PROVE  b \in rehashed' \/ \E v \in Thread : pc'[v] = "recheck" /\ Top(v)' = b
  <2>1. \A v \in Thread \ {t} : pc'[v] = pc[v] /\ Top(v)' = Top(v)
    BY <1>2 DEF Others, Top
  <2> QED
    BY <1>2, <1>3, <1>4, <2>1
<1>5. ASSUME NEW u \in Thread \ {t} PROVE Marked(u)'
  <2>1. /\ pc'[u] = pc[u] /\ frame'[u] = frame[u] /\ Top(u)' = Top(u)
        /\ \A c : Pending(u, c)' <=> Pending(u, c)
        /\ Marked(u)
    BY <1>2 DEF Others, Top, Pending, MapInv, AllMarked
  <2>2. pc[t] # "recheck" \/ pc'[t] # "recheck"
    BY <1>1, Zenon DEF Step, Begin, CallLookup, CallErase, ReleaseAccessor, ReturnMissed, LoadMask,
       Rehash, SeeFlag, TryBucket, FailToTryBucket, SeeRehashed, MarkRehashed, AcquireBucket,
       MoveNone, MoveItems, NeedWriter, Upgrade, ReleaseToUpgrade, Reacquire, Lookup, Found,
       FoundAfterUpgrade, FindInBucket, NotFound, NotFoundToInsert, NotFoundAfterUpgrade,
       MaskKept, MaskChanged, NoCollision, Collision, LinkNode, ClaimSegment, TryItem,
       GiveUpItem, Restart, Growth, Exclude, Unlink, NotThere, UpgradeItem, ReleaseItem,
       ReacquireItem, DeleteNode, Goto, Entered
  <2>3. pc[u] = "acquire" => \/ Top(u) \in rehashed'
                             \/ \E v \in Thread : pc'[v] = "recheck" /\ Top(v)' = Top(u)
    BY <1>4, <2>1, <2>2 DEF Marked
  <2> QED
    BY <1>2, <2>1, <2>3 DEF Marked
<1> SUFFICES Marked(t)'
  BY <1>5 DEF AllMarked
<1>6. Marked(t) /\ HoldsBuckets(t)
  BY DEF MapInv, AllMarked, BucketLocks
<1>7. \A c \in Bucket : Pending(t, c)' => c \in rehashed'
  <2>1. CASE MarkRehashed(t)
    <3>1. PICK T : T = Top(t)
      OBVIOUS
    <3>2. rehashed' = rehashed \cup {T} /\ \A c : Pending(t, c)' <=> Pending(t, c) \/ c = T
      BY <2>1, <3>1, MarkFacts, Zenon
    <3> QED
      BY <1>6, <3>2 DEF Marked
  <2>2. CASE MoveNone(t) \/ MoveItems(t)
    BY <1>2, <1>6, <2>2, LeaveFacts DEF Marked
  <2>3. CASE PathBegun(t) \/ PathEnded(t)
    BY <2>3, NoPending
  <2>4. CASE PathKept(t)
    BY <1>2, <1>6, <2>4 DEF PathKept, Pending, Marked
  <2> QED
    BY <2>1, <2>2, <2>3, <2>4, PathMoves
<1>8. ASSUME pc'[t] \in Moving \cup InBucket PROVE Top(t)' \in rehashed'
  <2>1. CASE MoveNone(t) \/ MoveItems(t)
    BY <1>2, <2>1, LeaveFacts, MoveFacts
  <2>2. CASE PathKept(t) /\ pc[t] \in Moving \cup InBucket
    BY <1>2, <1>6, <2>2 DEF PathKept, Top, Marked
  <2>3. CASE PathKept(t) /\ pc[t] \in Rehashing
    <3>1. SeeRehashed(t) \/ AcquireBucket(t)
      <4>1. Rehash(t)
        BY <2>3, Zenon DEF Step, Begin, CallLookup, CallErase, ReleaseAccessor, ReturnMissed,
           LoadMask, Lookup, Found, FoundAfterUpgrade, FindInBucket, NotFound,
           NotFoundToInsert, Upgrade, ReleaseToUpgrade, Reacquire, NotFoundAfterUpgrade,
           MaskKept, MaskChanged, NoCollision, Collision, LinkNode, ClaimSegment, TryItem,
           GiveUpItem, Restart, Growth, Exclude, Unlink, NotThere, UpgradeItem, ReleaseItem,
           ReacquireItem, DeleteNode, Goto, Rehashing
      <4> QED
        BY <1>1, <1>8, <2>3, <4>1 DEF Rehash, SeeFlag, TryBucket, FailToTryBucket,
           MarkRehashed, MoveNone, MoveItems, NeedWriter, Upgrade, ReleaseToUpgrade,
           Reacquire, Goto, Rehashing, Moving, InBucket, Searching
    <3>2. ASSUME AcquireBucket(t), Top(t) \notin rehashed PROVE FALSE
      <4>1. pc[t] = "acquire" /\ bucket_mutex[Top(t)].writer = Nil
        BY <3>2 DEF AcquireBucket, Goto, LockBucket, CanLock, CanRead, CanWrite, Free
      <4>2. PICK u \in Thread : pc[u] = "recheck" /\ Top(u) = Top(t)
        BY <1>6, <3>2, <4>1 DEF Marked
      <4>3. bucket_mutex[Top(u)].writer = u
        BY <4>2 DEF MapInv, BucketLocks, HoldsBuckets, NeedsBucket
      <4> QED
        BY <4>1, <4>2, <4>3, NilAssumption
    <3>3. Top(t)' = Top(t)
      BY <2>3 DEF PathKept, Top
    <3> QED
      BY <1>2, <3>1, <3>2, <3>3 DEF SeeRehashed
  <2>4. ~PathBegun(t) /\ ~PathEnded(t) /\ ~MarkRehashed(t)
    BY <1>1, <1>8 DEF PathBegun, PathEnded, MarkRehashed, Goto, Moving, InBucket, Searching
  <2>5. PathKept(t) => pc[t] \in Rehashing \cup Moving \cup InBucket \cup After
    BY DEF PathKept
  <2>6. pc[t] \notin After
    <3>1. SUFFICES ASSUME pc[t] \in After PROVE FALSE
      OBVIOUS
    <3>2. pc'[t] \in {"flag", "idle", "using"} \cup Removals
      BY <1>1, <3>1, Zenon DEF Step, Begin, CallLookup, CallErase, ReleaseAccessor, ReturnMissed,
         LoadMask, Rehash, SeeFlag, TryBucket, FailToTryBucket, SeeRehashed, MarkRehashed,
         AcquireBucket, MoveNone, MoveItems, NeedWriter, Upgrade, ReleaseToUpgrade,
         Reacquire, Lookup, Found, FoundAfterUpgrade, FindInBucket, NotFound,
         NotFoundToInsert, NotFoundAfterUpgrade, MaskKept, MaskChanged, NoCollision,
         Collision, LinkNode, ClaimSegment, TryItem, GiveUpItem, Restart, Growth, Exclude, Unlink,
         NotThere, UpgradeItem, ReleaseItem, ReacquireItem, DeleteNode, Goto, After, Removals
    <3> QED
      BY <1>8, <3>2 DEF Removals, Moving, InBucket, Searching
  <2> QED
    BY <2>1, <2>2, <2>3, <2>4, <2>5, <2>6, PathMoves
<1>9. ASSUME pc'[t] = "acquire"
      PROVE  Top(t)' \in rehashed' \/ \E u \in Thread : pc'[u] = "recheck" /\ Top(u)' = Top(t)'
  <2>1. SeeFlag(t) \/ FailToTryBucket(t)
    BY <1>1, <1>9, Zenon DEF Step, Begin, CallLookup, CallErase, ReleaseAccessor, ReturnMissed,
       LoadMask, Rehash, TryBucket, SeeRehashed, MarkRehashed, AcquireBucket, MoveNone,
       MoveItems, LeaveParent, NeedWriter, Upgrade, ReleaseToUpgrade, Reacquire, Lookup,
       Found, FoundAfterUpgrade, FindInBucket, NotFound, NotFoundToInsert,
       NotFoundAfterUpgrade, MaskKept, MaskChanged, NoCollision, Collision, Absent, LinkNode,
       ClaimSegment, TryItem, GiveUpItem, Restart, Growth, Exclude, Unlink, NotThere, UpgradeItem,
       ReleaseItem, ReacquireItem, DeleteNode, Goto, Entered
  <2>2. /\ pc[t] \in {"flag", "try"} /\ frame' = frame /\ Top(t)' = Top(t)
    BY <2>1 DEF SeeFlag, FailToTryBucket, Goto, Top
  <2>3. Top(t) \in Bucket
    BY <2>2, PathFacts
  <2>4. Top(t) \in rehashed \/ \E v \in Thread : pc[v] = "recheck" /\ Top(v) = Top(t)
    <3>1. CASE SeeFlag(t)
      BY <1>1, <1>9, <3>1 DEF SeeFlag, Goto
    <3>2. ASSUME NEW u \in Thread, Holds(bucket_mutex[Top(t)], u)
          PROVE  Top(t) \in rehashed \/ \E v \in Thread : pc[v] = "recheck" /\ Top(v) = Top(t)
      <4>1. \/ Pending(u, Top(t))
            \/ (Inside(u) \/ pc[u] = "recheck") /\ Top(u) = Top(t)
        BY <2>3, <3>2 DEF MapInv, BucketLocks, HoldsBuckets, Holds
      <4>2. Marked(u)
        BY DEF MapInv, AllMarked
      <4>3. Inside(u) => pc[u] \in Moving \cup InBucket
        BY InsideFacts
      <4> QED
        BY <2>3, <4>1, <4>2, <4>3 DEF Marked
    <3>3. ASSUME NEW u \in Thread, WaitsForBucket(u), Top(u) = Top(t)
          PROVE  Top(t) \in rehashed \/ \E v \in Thread : pc[v] = "recheck" /\ Top(v) = Top(t)
      BY <3>3 DEF WaitsForBucket, MapInv, AllMarked, Marked, Moving, InBucket, Searching
    <3>4. ~CanWrite(bucket_mutex[Top(t)])
             => \E u \in Thread : Holds(bucket_mutex[Top(t)], u)
      <4>1. bucket_mutex[Top(t)] \in Lock
        BY <1>1, <2>3
      <4> QED
        BY <4>1 DEF Lock, CanWrite, Free, Holds
    <3> QED
      BY <2>1, <3>1, <3>2, <3>3, <3>4 DEF FailToTryBucket
  <2> QED
    BY <1>4, <1>9, <2>2, <2>4
<1> QED
  BY <1>7, <1>8, <1>9 DEF Marked

(***************************************************************************)
(* One item per key.                                                       *)
(***************************************************************************)
\* Two buckets on which the items of one hash can be are the same.
LEMMA LastFilledUnique ==
  ASSUME NEW h \in Bucket, NEW b \in Bucket, NEW c \in Bucket,
         Filled(b), Filled(c), LastFilled(b, h), LastFilled(c, h)
  PROVE  b = c
<1>1. b <= c /\ c <= b
  BY DEF LastFilled
<1> QED
  BY <1>1, BucketNumbers

\* An insertion links its item where no item has its key.
LEMMA LinkNodeAlone ==
  ASSUME MapInv, NEW t \in Thread, LinkNode(t)
  PROVE  \A o \in Linked : key[o] # frame[t].key
<1> SUFFICES ASSUME NEW o \in Linked, key[o] = frame[t].key PROVE FALSE
  OBVIOUS
<1>1. pc[t] = "link" /\ MyBucket(t) \in Bucket /\ Top(t) = MyBucket(t)
  BY LinkNodeLists, Zenon DEF LinkNode, Goto
<1>2. Matching(t) = {} /\ LastFilled(MyBucket(t), MyHash(t))
  BY <1>1 DEF MapInv, Searches, Search, Missed
<1>3. Filled(MyBucket(t))
  <2>1. Inside(t)
    BY <1>1 DEF Inside
  <2> QED
    BY <1>1, <2>1, InsideFacts
<1>4. PICK b \in Bucket : o \in node_list[b]
  BY LinkedFacts
<1>5. Filled(b) /\ LastFilled(b, HashOf(o))
  BY <1>4 DEF MapInv, Buckets
<1>6. HashOf(o) = MyHash(t) /\ MyHash(t) \in Bucket
  <2>1. HashOf(o) = MyHash(t)
    BY DEF HashOf, MyHash
  <2> QED
    BY <2>1, LinkedFacts
<1>7. b = MyBucket(t)
  BY <1>1, <1>2, <1>3, <1>5, <1>6, LastFilledUnique
<1> QED
  BY <1>2, <1>4, <1>7 DEF Matching

LEMMA SizesStep ==
  ASSUME MapInv, NEW t \in Thread, Step(t)
  PROVE  Sizes' /\ IsFiniteSet(Linked') /\ my_size' <= Cardinality(Key)
<1>1. /\ \A n, o \in Linked : key[n] = key[o] => n = o
      /\ IsFiniteSet(Linked) /\ my_size = Cardinality(Linked)
      /\ \A n \in Linked : key'[n] = key[n] /\ key[n] \in Key
  BY SizeFacts, KeyStep, LinkedFacts DEF MapInv, Sizes
<1>2. /\ \A n, o \in Linked' : key'[n] = key'[o] => n = o
      /\ \A n \in Linked' : key'[n] \in Key
      /\ my_size' = Cardinality(Linked')
  <2>1. CASE LinkNode(t)
    <3>1. PICK n \in Node : n = frame[t].tmp_n
      BY <2>1, LinkNodeLists
    <3>2. /\ n \notin Linked /\ key[n] = frame[t].key /\ Linked' = Linked \cup {n}
          /\ key' = key /\ my_size' = my_size + 1
      BY <2>1, <3>1, LinkNodeLists, Zenon DEF LinkNode
    <3>3. \A o \in Linked : key[o] # key[n]
      BY <2>1, <3>2, LinkNodeAlone
    <3>4. frame[t].key \in Key
      BY <2>1, PathFacts DEF LinkNode, Goto
    <3>5. Cardinality(Linked \cup {n}) = Cardinality(Linked) + 1
      BY <1>1, <3>2, FS_AddElement
    <3> QED
      BY <1>1, <3>2, <3>3, <3>4, <3>5
  <2>2. CASE Unlink(t)
    <3>1. PICK n : n = accessor[t]
      OBVIOUS
    <3>2. /\ n \in Linked /\ Linked' = Linked \ {n} /\ my_size' = my_size - 1
      BY <2>2, <3>1, UnlinkLists DEF Unlink
    <3>3. Cardinality(Linked \ {n}) = Cardinality(Linked) - 1
      BY <1>1, <3>2, FS_RemoveElement
    <3> QED
      BY <1>1, <3>2, <3>3
  <2>3. CASE ~LinkNode(t) /\ ~Unlink(t)
    <3>1. Linked' = Linked /\ my_size' = my_size
      BY <2>3, LinkedStep, Effects
    <3> QED
      BY <1>1, <3>1
  <2> QED
    BY <2>1, <2>2, <2>3
<1>3. PICK L, k : L = Linked' /\ k = key'
  OBVIOUS
<1>4. IsFiniteSet(L) /\ Cardinality(L) <= Cardinality(Key)
  BY <1>2, <1>3, ItemCount
<1> QED
  BY <1>2, <1>3, <1>4 DEF Sizes

(***************************************************************************)
(* The masks.                                                              *)
(***************************************************************************)
\* Only the thread that claims a segment begins to grow the table.
LEMMA GrowStep ==
  ASSUME MapInv, NEW t \in Thread, Step(t)
  PROVE  /\ ClaimSegment(t) =>
               /\ pc[t] = "claim" /\ pc'[t] = "item" /\ ~frame[t].grow
               /\ frame'[t].grow = (frame[t].m \notin my_table) /\ frame'[t].m = frame[t].m
               /\ my_table' = my_table \cup {frame[t].m} /\ my_mask' = my_mask
         /\ ~ClaimSegment(t) => /\ my_table' = my_table
                                /\ frame'[t].grow => frame[t].grow /\ frame'[t].m = frame[t].m
                                                     /\ my_mask' = my_mask
                                /\ frame[t].grow => frame'[t].grow \/ Growth(t)
<1>1. /\ pc \in [Thread -> PC] /\ frame \in [Thread -> Frame] /\ frame[t] \in Frame
      /\ Stage(t)
  BY DEF MapInv, Types, Stages
<1>2. CASE ClaimSegment(t)
  BY <1>1, <1>2 DEF ClaimSegment, Goto, Stage, StageNew, Frame
<1>3. CASE ~ClaimSegment(t)
  <2>1. my_table' = my_table
    BY <1>3, Effects
  <2>2. CASE Growth(t)
    <3>1. ~frame'[t].grow
      BY <1>1, <2>2 DEF Growth, NoFrame
    <3> QED
      BY <1>3, <2>1, <2>2, <3>1
  <2>3. CASE ~Growth(t) /\ ~frame[t].grow
    <3>1. ~frame'[t].grow
      <4>1. CASE StageKept(t)
        BY <2>3, <4>1 DEF StageKept
      <4>2. ASSUME NEW k \in Key, NEW w \in BOOLEAN, NEW op \in {"find", "insert"},
                   CallLookup(t, op, k, w)
            PROVE  ~frame'[t].grow
        BY <1>1, <4>2 DEF CallLookup, LoadMask, NoFrame
      <4>3. CASE CallErase(t)
        BY <1>1, <2>3, <4>3 DEF CallErase, LoadMask, Frame
      <4>4. CASE \/ ReleaseAccessor(t, "using") \/ ReleaseAccessor(t, "gone")
                 \/ ReturnMissed(t) \/ DeleteNode(t)
        BY <1>1, <4>4 DEF ReleaseAccessor, ReturnMissed, DeleteNode, NoFrame
      <4>5. CASE NotFoundToInsert(t)
        <5>1. frame'[t] = frame[t] \/ frame'[t] = [frame[t] EXCEPT !.tmp_n = NewNode]
          BY <1>1, <4>5 DEF NotFoundToInsert
        <5> QED
          BY <1>1, <2>3, <5>1 DEF Frame
      <4>6. CASE LinkNode(t)
        BY <1>1, <2>3, <4>6 DEF LinkNode, Frame
      <4>7. CASE TryItem(t)
        BY <1>1, <2>3, <4>7 DEF TryItem
      <4> QED
        BY <1>3, <2>3, <4>1, <4>2, <4>3, <4>4, <4>5, <4>6, <4>7, StageMoves
    <3> QED
      BY <1>3, <2>1, <2>3, <3>1
  <2>4. CASE ~Growth(t) /\ frame[t].grow
    <3>1. frame[t].new /\ pc[t] \in {"item", "growth"}
      BY <1>1, <2>4 DEF Stage, StageNew
    <3>2. TryItem(t)
      <4>2. TryItem(t) \/ GiveUpItem(t)
        BY <1>3, <2>4, <3>1, Zenon DEF Step, Begin, CallLookup, CallErase, ReleaseAccessor,
           ReturnMissed, LoadMask, Rehash, SeeFlag, TryBucket, FailToTryBucket, SeeRehashed,
           MarkRehashed, AcquireBucket, MoveNone, MoveItems, NeedWriter, Upgrade,
           ReleaseToUpgrade, Reacquire, Lookup, Found, FoundAfterUpgrade, FindInBucket,
           NotFound, NotFoundToInsert, NotFoundAfterUpgrade, MaskKept, MaskChanged,
           NoCollision, Collision, LinkNode, Restart, Exclude, Unlink, NotThere, UpgradeItem,
           ReleaseItem, ReacquireItem, DeleteNode, Goto
      <4>3. GiveUpItem(t) => FALSE
        <5>1. SUFFICES ASSUME GiveUpItem(t) PROVE FALSE
          OBVIOUS
        <5>2. pc[t] = "item" /\ frame[t].write
          BY <1>1, <3>1, <5>1 DEF GiveUpItem, Stage, StageNew, StageOp
        <5> QED
          BY <3>1, <5>1, <5>2, NewItemAlone DEF GiveUpItem, CanLock
      <4> QED
        BY <4>2, <4>3
    <3>3. frame' = frame /\ my_mask' = my_mask
      BY <3>2 DEF TryItem, table
    <3> QED
      BY <1>3, <2>1, <2>4, <3>3
  <2> QED
    BY <2>2, <2>3, <2>4
<1> QED
  BY <1>2, <1>3

\* What a call has read of the mask.
LEMMA ReadStep ==
  ASSUME MapInv, NEW t \in Thread, Step(t)
  PROVE  \/ pc'[t] \in {"idle", "using"}
         \/ frame'[t].m = my_mask /\ my_mask' = my_mask
         \/ /\ frame'[t].m = frame[t].m /\ pc[t] \notin {"idle", "using"}
            /\ my_mask' = my_mask
<1>1. /\ pc \in [Thread -> PC] /\ frame \in [Thread -> Frame] /\ frame[t] \in Frame
      /\ Stage(t)
  BY DEF MapInv, Types, Stages
<1>2. CASE Growth(t)
  BY <1>1, <1>2 DEF Growth, Goto
<1>3. ASSUME ~Growth(t) PROVE my_mask' = my_mask
  BY <1>3, Effects
<1>4. CASE PathBegun(t)
  <2>1. CASE Collision(t)
    BY <1>1, <1>3, <2>1 DEF Collision, Goto, Growth, Frame
  <2>2. CASE Restart(t)
    <3>1. frame'[t].m = my_mask
      BY <1>1, <2>2 DEF Restart, LoadMask, Frame
    <3>2. ~Growth(t)
      BY <2>2 DEF Restart, LoadMask, Growth, Goto
    <3> QED
      BY <1>3, <3>1, <3>2
  <2>3. CASE Begin(t)
    <3>1. pc'[t] = "flag" /\ frame \in [Thread -> Frame]
      BY <1>1, <1>4 DEF PathBegun
    <3>2. my_mask' = my_mask
      BY <2>3, BeginFacts DEF table
    <3>3. ASSUME NEW k \in Key, NEW w \in BOOLEAN, NEW op \in {"find", "insert"},
                 CallLookup(t, op, k, w)
          PROVE  frame'[t].m = my_mask
      BY <1>1, <3>3 DEF CallLookup, LoadMask, NoFrame
    <3>4. ASSUME CallErase(t) PROVE frame'[t].m = my_mask
      BY <1>1, <3>4 DEF CallErase, LoadMask, Frame
    <3>5. ~ReleaseAccessor(t, "using") /\ ~ReturnMissed(t)
      BY <1>1, <3>1 DEF ReleaseAccessor, ReturnMissed, Goto
    <3> QED
      BY <2>3, <3>2, <3>3, <3>4, <3>5 DEF Begin
  <2>4. Collision(t) \/ Restart(t) \/ Begin(t)
    <3>1. pc'[t] = "flag" /\ pc[t] \in InBucket \cup {"restart", "idle", "using"}
      BY <1>4 DEF PathBegun
    <3> QED
      BY <1>1, <3>1, Zenon DEF Step, Rehash, SeeFlag, TryBucket, FailToTryBucket, SeeRehashed,
         MarkRehashed, AcquireBucket, MoveNone, MoveItems, NeedWriter, Upgrade,
         ReleaseToUpgrade, Reacquire, Lookup, Found, FoundAfterUpgrade, FindInBucket,
         NotFound, NotFoundToInsert, NotFoundAfterUpgrade, MaskKept, MaskChanged,
         NoCollision, Absent, LinkNode, ClaimSegment, TryItem, GiveUpItem, Growth, Exclude,
         Unlink, NotThere, UpgradeItem, ReleaseItem, ReacquireItem, DeleteNode, ReleaseAccessor,
         Goto, InBucket, Searching
  <2> QED
    BY <2>1, <2>2, <2>3, <2>4
<1>5. CASE PathEnded(t)
  BY <1>5 DEF PathEnded
<1>6. CASE MarkRehashed(t) \/ MoveNone(t) \/ MoveItems(t)
  <2>1. pc[t] \in {"recheck", "move"} /\ frame'[t].m = frame[t].m
    BY <1>1, <1>6 DEF MarkRehashed, MoveNone, MoveItems, LeaveParent, Goto, Frame
  <2>2. ~Growth(t)
    BY <2>1 DEF Growth, Goto
  <2> QED
    BY <1>3, <2>1, <2>2
<1>7. CASE PathKept(t) /\ ~Growth(t) /\ ~MarkRehashed(t) /\ ~MoveNone(t) /\ ~MoveItems(t)
  <2>1. pc[t] \notin {"idle", "using"}
    BY <1>7, PathFacts DEF PathKept
  <2>2. CASE MaskKept(t) \/ MaskChanged(t)
    <3>1. frame'[t].m = my_mask
      BY <1>1, <2>2 DEF MaskKept, MaskChanged, Frame
    <3> QED
      BY <1>3, <1>7, <3>1
  <2>3. CASE NotFoundToInsert(t)
    <3>1. frame'[t] = frame[t] \/ frame'[t] = [frame[t] EXCEPT !.tmp_n = NewNode]
      BY <1>1, <2>3 DEF NotFoundToInsert
    <3>2. frame'[t].m = frame[t].m
      BY <1>1, <3>1 DEF Frame
    <3> QED
      BY <1>3, <1>7, <2>1, <3>2
  <2>4. CASE Found(t) \/ FoundAfterUpgrade(t)
    <3>1. \E n : frame' = [frame EXCEPT ![t] = [frame[t] EXCEPT !.n = n]]
      BY <2>4 DEF Found, FoundAfterUpgrade, FindInBucket
    <3>2. frame'[t].m = frame[t].m
      BY <1>1, <3>1 DEF Frame
    <3> QED
      BY <1>3, <1>7, <2>1, <3>2
  <2>5. CASE LinkNode(t) \/ ClaimSegment(t) \/ GiveUpItem(t)
    <3>1. frame'[t].m = frame[t].m
      BY <1>1, <2>5 DEF LinkNode, ClaimSegment, GiveUpItem, Frame
    <3> QED
      BY <1>3, <1>7, <2>1, <3>1
  <2>6. CASE Begin(t) \/ DeleteNode(t) \/ ReleaseAccessor(t, "gone") \/ Restart(t)
    <3>1. pc'[t] \in {"idle", "using"} \/ PathBegun(t)
      <4>1. Restart(t) => pc[t] = "restart" /\ pc'[t] = "flag"
        BY <1>1 DEF Restart, LoadMask, Goto
      <4>2. ~Restart(t)
        BY <1>7, <4>1 DEF PathKept, Rehashing, Moving, InBucket, Searching, After,
           Removals, Entered
      <4>3. Begin(t) => pc[t] \in {"idle", "using", "missed"} /\ pc'[t] \in {"idle", "flag"}
        BY BeginFacts
      <4>4. DeleteNode(t) \/ ReleaseAccessor(t, "gone") => pc'[t] = "idle"
        BY <1>1 DEF DeleteNode, ReleaseAccessor, Goto
      <4>5. Begin(t) => pc'[t] = "idle"
        BY <1>7, <4>3 DEF PathKept, Rehashing, Moving, InBucket, Searching, After,
           Removals, Entered
      <4> QED
        BY <2>6, <4>2, <4>4, <4>5
    <3> QED
      BY <1>4, <3>1
  <2>7. CASE frame' = frame
    BY <1>3, <1>7, <2>1, <2>7
  <2>8. frame' = frame \/ Collision(t) \/ Begin(t) \/ DeleteNode(t)
         \/ ReleaseAccessor(t, "gone") \/ GiveUpItem(t) \/ Restart(t)
         \/ LinkNode(t) \/ ClaimSegment(t) \/ Found(t) \/ FoundAfterUpgrade(t)
         \/ NotFoundToInsert(t) \/ MaskKept(t) \/ MaskChanged(t)
    BY <1>7 DEF Step, Rehash, SeeFlag, TryBucket, FailToTryBucket, SeeRehashed,
       AcquireBucket, NeedWriter, Upgrade, ReleaseToUpgrade, Reacquire, Lookup, NotFound,
       NotFoundAfterUpgrade, NoCollision, TryItem, Exclude, Unlink, NotThere, UpgradeItem,
       ReleaseItem, ReacquireItem
  <2>9. CASE Collision(t)
    <3>1. frame'[t].m = frame[t].m
      BY <1>1, <2>9 DEF Collision, Frame
    <3> QED
      BY <1>3, <1>7, <2>1, <3>1
  <2> QED
    BY <2>2, <2>3, <2>4, <2>5, <2>6, <2>7, <2>8, <2>9
<1> QED
  BY <1>2, <1>4, <1>5, <1>6, <1>7, PathMoves

LEMMA MasksStep ==
  ASSUME MapInv, NEW t \in Thread, Step(t)
  PROVE  AllMasks'
<1>1. /\ pc \in [Thread -> PC] /\ frame \in [Thread -> Frame] /\ frame[t] \in Frame
      /\ Stage(t) /\ Others(t) /\ pc' \in [Thread -> PC]
      /\ my_mask \in Nat /\ my_mask' \in Nat /\ my_mask <= my_mask'
      /\ \A m \in my_table : m \in Nat
  BY TypesStep, TableStep, OthersStep DEF MapInv, Types, Stages
<1>2. /\ \A m \in my_table : m <= my_mask
      /\ my_mask \in my_table => \E u \in Thread : frame[u].grow
      /\ \A u, v \in Thread : frame[u].grow /\ frame[v].grow => u = v
      /\ \A u \in Thread : Masks(u)
  BY DEF MapInv, AllMasks
<1>3. \A u \in Thread \ {t} : pc'[u] = pc[u] /\ frame'[u] = frame[u]
  BY <1>1 DEF Others
<1>4. \/ my_mask' = my_mask
      \/ /\ Growth(t) /\ frame[t].grow /\ my_mask < my_mask' /\ my_mask \in my_table
         /\ ~frame'[t].grow /\ my_table' = my_table /\ \A u \in Thread \ {t} : ~frame[u].grow
  <2>1. Growth(t) => ~frame'[t].grow /\ ~ClaimSegment(t)
    BY <1>1 DEF Growth, NoFrame, ClaimSegment, Goto
  <2> QED
    BY <1>2, <2>1, TableStep, GrowStep DEF Masks
<1>5. my_table \cup {my_mask} \subseteq my_table' \cup {my_mask'}
  BY <1>4, GrowStep
<1>6. \A m \in my_table' : m <= my_mask'
  <2>1. CASE ClaimSegment(t)
    <3>1. my_table' = my_table \cup {frame[t].m} /\ frame[t].m \in my_table \cup {my_mask}
      BY <1>2, <2>1, GrowStep DEF Masks
    <3> QED
      BY <1>1, <1>2, <3>1
  <2>2. CASE my_table' = my_table
    BY <1>1, <1>2, <2>2
  <2> QED
    BY <2>1, <2>2, GrowStep
<1>7. my_mask' \in my_table' => \E u \in Thread : frame'[u].grow
  <2>1. SUFFICES ASSUME my_mask' \in my_table' PROVE \E u \in Thread : frame'[u].grow
    OBVIOUS
  <2>2. my_mask' = my_mask
    <3>1. my_mask < my_mask' => my_mask' \notin my_table
      BY <1>1, <1>2
    <3> QED
      BY <1>4, <2>1, <3>1
  <2>3. CASE my_mask \in my_table
    <3>1. PICK u \in Thread : frame[u].grow
      BY <1>2, <2>3
    <3>2. CASE u # t
      BY <1>3, <3>1, <3>2
    <3>3. CASE u = t
      <4>1. ~(Growth(t))
        <5>1. Growth(t) => my_mask < my_mask'
          BY <3>1, <3>3, TableStep
        <5> QED
          BY <1>1, <2>2, <5>1
      <4>2. frame'[t].grow
        BY <3>1, <3>3, <4>1, GrowStep
      <4> QED
        BY <4>2
    <3> QED
      BY <3>2, <3>3
  <2>4. CASE my_mask \notin my_table
    BY <2>1, <2>2, <2>4, GrowStep
  <2> QED
    BY <2>3, <2>4
<1>8. ASSUME frame'[t].grow
      PROVE  /\ \A u \in Thread \ {t} : ~frame[u].grow
             /\ frame'[t].m = my_mask' /\ my_mask' \in my_table'
             /\ frame'[t].m <= Cardinality(Key)
  <2>1. CASE ClaimSegment(t)
    <3>1. /\ frame[t].m \notin my_table /\ frame'[t].m = frame[t].m /\ pc[t] = "claim"
          /\ my_table' = my_table \cup {frame[t].m} /\ my_mask' = my_mask
      BY <1>8, <2>1, GrowStep
    <3>2. frame[t].m = my_mask /\ frame[t].m <= Cardinality(Key)
      BY <1>2, <3>1 DEF Masks
    <3>3. \A u \in Thread : ~frame[u].grow
      BY <1>2, <3>1, <3>2 DEF Masks
    <3> QED
      BY <3>1, <3>2, <3>3
  <2>2. CASE ~ClaimSegment(t)
    <3>1. frame[t].grow /\ frame'[t].m = frame[t].m /\ my_mask' = my_mask /\ my_table' = my_table
      BY <1>8, <2>2, GrowStep
    <3>2. frame[t].m <= Cardinality(Key) /\ frame[t].m = my_mask /\ my_mask \in my_table
      BY <1>2, <3>1 DEF Masks
    <3>3. \A u \in Thread \ {t} : ~frame[u].grow
      BY <1>2, <3>1
    <3> QED
      BY <3>1, <3>2, <3>3
  <2> QED
    BY <2>1, <2>2
<1>9. \A u, v \in Thread : frame'[u].grow /\ frame'[v].grow => u = v
  BY <1>2, <1>3, <1>8
<1>10. ASSUME NEW u \in Thread \ {t} PROVE Masks(u)'
  <2>1. /\ pc'[u] = pc[u] /\ frame'[u] = frame[u] /\ MyBucket(u)' = MyBucket(u)
        /\ MyHash(u)' = MyHash(u) /\ Masks(u)
    BY <1>2, <1>3 DEF MyBucket, MyHash
  <2>2. frame[u].grow => my_mask' = my_mask /\ my_table \subseteq my_table'
    BY <1>4, GrowStep
  <2>3. frame[u].grow => frame[u].m = my_mask' /\ my_mask' \in my_table'
    BY <2>1, <2>2 DEF Masks
  <2>4. pc[u] \notin {"idle", "using"} => frame[u].m \in my_table' \cup {my_mask'}
    BY <1>5, <2>1 DEF Masks
  <2> QED
    BY <2>1, <2>3, <2>4 DEF Masks
<1> SUFFICES Masks(t)'
  BY <1>6, <1>7, <1>9, <1>10 DEF AllMasks
<1>11. pc'[t] \notin {"idle", "using"} => frame'[t].m \in my_table' \cup {my_mask'}
  BY <1>2, <1>5, ReadStep DEF Masks
<1>12. pc'[t] = "claim" => frame'[t].m <= Cardinality(Key)
  <2>1. SUFFICES ASSUME pc'[t] = "claim" PROVE frame'[t].m <= Cardinality(Key)
    OBVIOUS
  <2>2. LinkNode(t)
    BY <1>1, <2>1 DEF Step, Begin, CallLookup, CallErase, ReleaseAccessor, ReturnMissed,
       LoadMask, Rehash, SeeFlag, TryBucket, FailToTryBucket, SeeRehashed, MarkRehashed,
       AcquireBucket, MoveNone, MoveItems, LeaveParent, NeedWriter, Upgrade, ReleaseToUpgrade,
       Reacquire, Lookup, Found, FoundAfterUpgrade, FindInBucket, NotFound, NotFoundToInsert,
       NotFoundAfterUpgrade, MaskKept, MaskChanged, NoCollision, Collision, Absent,
       ClaimSegment, TryItem, GiveUpItem, Restart, Growth, Exclude, Unlink, NotThere, UpgradeItem,
       ReleaseItem, ReacquireItem, DeleteNode, Goto, Entered
  <2>3. my_size' = my_size + 1 /\ my_size + 1 >= frame[t].m
    BY <1>1, <2>1, <2>2 DEF LinkNode, Goto
  <2>4. frame'[t].m = frame[t].m /\ frame[t].m \in Nat
    BY <1>1, <2>2 DEF LinkNode, Frame
  <2>5. my_size' <= Cardinality(Key) /\ Cardinality(Key) \in Nat /\ my_size \in Nat
    BY SizesStep, SizeFacts, CapacityAssumption, FS_CardinalityType
  <2> QED
    BY <2>3, <2>4, <2>5
<1>13. ASSUME pc'[t] \in Rehashing \cup Moving \cup Searching
       PROVE  MyBucket(t)' = Masked(MyHash(t)', frame'[t].m)
  <2>1. CASE PathBegun(t)
    BY <2>1, NoPending DEF MyBucket, MyHash
  <2>2. CASE ~PathBegun(t)
    <3>1. /\ frame'[t].path[1] = frame[t].path[1] /\ frame'[t].key = frame[t].key
      <4>1. ~PathEnded(t)
        BY <1>13 DEF PathEnded, Rehashing, Moving, Searching
      <4> QED
        BY <2>2, <4>1, PathMoves, MarkFacts, LeaveFacts DEF PathKept
    <3>2. pc[t] \in Rehashing \cup Moving \cup Searching /\ frame'[t].m = frame[t].m
      <4>1. CASE StageKept(t) /\ StageMove(t)
        <5>1. pc[t] \in Rehashing \cup Moving \cup Searching
          <6>1. ~(pc[t] \in {"collision", "restart"} /\ pc'[t] = "flag")
            BY <2>2, PathMoves DEF PathKept, PathEnded, MarkRehashed, MoveNone, MoveItems,
               Goto, Rehashing, Moving, InBucket, Searching, After, Removals, Entered
          <6> QED
            BY <1>13, <4>1, <6>1 DEF StageMove, Rehashing, Moving, Searching, Removals
        <5>2. frame'[t].m = frame[t].m
          <6>1. ~MaskKept(t) /\ ~MaskChanged(t)
            BY <1>1, <1>13 DEF MaskKept, MaskChanged, Absent, Goto, Rehashing, Moving,
               Searching
          <6>2. CASE Rehash(t)
            BY <1>1, <6>2, Zenon DEF Rehash, SeeFlag, TryBucket, FailToTryBucket, SeeRehashed,
               MarkRehashed, AcquireBucket, MoveNone, MoveItems, LeaveParent, NeedWriter,
               Upgrade, ReleaseToUpgrade, Reacquire, Frame
          <6>3. CASE \/ NotFound(t) \/ Upgrade(t, "upgrade", "race")
                     \/ ReleaseToUpgrade(t, "upgrade", "reacquire")
                     \/ Reacquire(t, "reacquire", "again") \/ NotFoundAfterUpgrade(t)
                     \/ NotThere(t)
            BY <1>1, <6>3 DEF NotFound, Upgrade, ReleaseToUpgrade, Reacquire,
               NotFoundAfterUpgrade, NotThere
          <6>4. CASE NotFoundToInsert(t)
            <7>1. frame'[t] = frame[t] \/ frame'[t] = [frame[t] EXCEPT !.tmp_n = NewNode]
              BY <1>1, <6>4 DEF NotFoundToInsert
            <7> QED
              BY <1>1, <7>1 DEF Frame
          <6>5. \/ Rehash(t) \/ NotFoundToInsert(t)
                \/ NotFound(t) \/ Upgrade(t, "upgrade", "race")
                \/ ReleaseToUpgrade(t, "upgrade", "reacquire")
                \/ Reacquire(t, "reacquire", "again") \/ NotFoundAfterUpgrade(t)
                \/ NotThere(t)
            BY <1>1, <1>13, <5>1, <6>1, Zenon DEF Step, Begin, CallLookup, CallErase,
               ReleaseAccessor, ReturnMissed, LoadMask, Lookup, Found, FoundAfterUpgrade,
               FindInBucket, NoCollision, Collision, Absent, LinkNode, ClaimSegment, TryItem,
               GiveUpItem, Restart, Growth, Exclude, Unlink, UpgradeItem, ReleaseItem, ReacquireItem,
               DeleteNode, Goto, Rehashing, Moving, Searching
          <6> QED
            BY <6>2, <6>3, <6>4, <6>5
        <5> QED
          BY <5>1, <5>2
      <4>2. CASE NotFoundToInsert(t)
        <5>1. frame'[t] = frame[t] \/ frame'[t] = [frame[t] EXCEPT !.tmp_n = NewNode]
          BY <1>1, <4>2 DEF NotFoundToInsert
        <5>2. frame'[t].m = frame[t].m
          BY <1>1, <5>1 DEF Frame
        <5> QED
          BY <4>2, <5>2 DEF NotFoundToInsert, Goto, Searching
      <4>3. ASSUME NEW k \in Key, NEW w \in BOOLEAN, NEW op \in {"find", "insert"},
                   CallLookup(t, op, k, w)
            PROVE  FALSE
        <5>1. pc[t] = "idle" /\ pc'[t] = "flag"
          BY <1>1, <4>3 DEF CallLookup, LoadMask, Goto
        <5> QED
          BY <2>2, <5>1, PathMoves DEF PathKept, PathEnded, MarkRehashed, MoveNone,
             MoveItems, Goto, Rehashing, Moving, InBucket, Searching, After, Removals
      <4>4. ASSUME CallErase(t) PROVE FALSE
        <5>1. pc[t] = "using" /\ pc'[t] = "flag"
          BY <1>1, <4>4 DEF CallErase, LoadMask, Goto
        <5> QED
          BY <2>2, <5>1, PathMoves DEF PathKept, PathEnded, MarkRehashed, MoveNone,
             MoveItems, Goto, Rehashing, Moving, InBucket, Searching, After, Removals
      <4>5. ~(\/ ReleaseAccessor(t, "using") \/ ReturnMissed(t) \/ LinkNode(t)
              \/ ClaimSegment(t) \/ TryItem(t) \/ Growth(t) \/ DeleteNode(t)
              \/ ReleaseAccessor(t, "gone"))
        BY <1>1, <1>13 DEF ReleaseAccessor, ReturnMissed, LinkNode, ClaimSegment, TryItem,
           Growth, DeleteNode, Goto, Rehashing, Moving, Searching
      <4> QED
        BY <4>1, <4>2, <4>3, <4>4, <4>5, StageMoves
    <3> QED
      BY <1>2, <3>1, <3>2 DEF Masks, MyBucket, MyHash
  <2> QED
    BY <2>1, <2>2
<1>14. ASSUME pc'[t] = "collision"
       PROVE  /\ frame'[t].collision \in Line(MyHash(t)') /\ frame'[t].collision > MyBucket(t)'
              /\ \A c \in Line(MyHash(t)') : c > MyBucket(t)' => c >= frame'[t].collision
  <2>1. MaskChanged(t)
    BY <1>1, <1>14 DEF Step, Begin, CallLookup, CallErase, ReleaseAccessor, ReturnMissed,
       LoadMask, Rehash, SeeFlag, TryBucket, FailToTryBucket, SeeRehashed, MarkRehashed,
       AcquireBucket, MoveNone, MoveItems, LeaveParent, NeedWriter, Upgrade, ReleaseToUpgrade,
       Reacquire, Lookup, Found, FoundAfterUpgrade, FindInBucket, NotFound, NotFoundToInsert,
       NotFoundAfterUpgrade, MaskKept, NoCollision, Collision, Absent, LinkNode,
       ClaimSegment, TryItem, GiveUpItem, Restart, Growth, Exclude, Unlink, NotThere, UpgradeItem,
       ReleaseItem, ReacquireItem, DeleteNode, Goto, Entered
  <2>2. PICK h \in Bucket, m \in Nat, m2 \in Nat : h = MyHash(t) /\ m = frame[t].m /\ m2 = my_mask
    BY <1>1, <2>1, PathFacts DEF MaskChanged, Goto, Frame
  <2>3. /\ pc[t] = "race" /\ Masked(h, m) # Masked(h, m2)
        /\ frame'[t].collision = NextApplicable(h, m)
        /\ frame'[t].path = frame[t].path /\ frame'[t].key = frame[t].key
    BY <1>1, <2>1, <2>2 DEF MaskChanged, Goto, Frame
  <2>4. m + 1 \in Pow \ {1} /\ m2 + 1 \in Pow \ {1} /\ m <= m2
    BY <1>1, <1>2, <2>2, <2>3 DEF MapInv, Types, Masks
  <2>5. MyBucket(t) = Masked(h, m)
    BY <1>2, <2>2, <2>3 DEF Masks, Searching
  <2>6. /\ NextApplicable(h, m) \in Line(h) /\ NextApplicable(h, m) > Masked(h, m)
        /\ \A x \in Line(h) : x > Masked(h, m) => x >= NextApplicable(h, m)
    BY <2>3, <2>4, NextFacts
  <2>7. MyBucket(t)' = Masked(h, m) /\ MyHash(t)' = h
    BY <2>2, <2>3, <2>5 DEF MyBucket, MyHash
  <2> QED
    BY <2>3, <2>6, <2>7
<1> QED
  BY <1>8, <1>11, <1>12, <1>13, <1>14 DEF Masks

(***************************************************************************)
(* The chains.                                                             *)
(***************************************************************************)
\* Who fills a bucket leaves in the bucket above the items that stay there.
LEMMA MovedLists ==
  ASSUME MapInv, NEW t \in Thread, MoveNone(t) \/ MoveItems(t)
  PROVE  /\ node_list'[Top(t)] = node_list[Top(t)] \ Movers(t)
         /\ node_list'[Child(t)] = Movers(t)
         /\ \A b \in Bucket \ {Top(t), Child(t)} : node_list'[b] = node_list[b]
         /\ Linked' = Linked /\ key' = key
<1>1. CASE MoveItems(t)
  BY <1>1, MoveItemsLists, Zenon DEF MoveItems, LeaveParent
<1>2. CASE MoveNone(t)
  <2>1. /\ pc[t] = "move" /\ Movers(t) = {} /\ node_list' = node_list /\ key' = key
    BY <1>2 DEF MoveNone, LeaveParent
  <2>2. node_list[Child(t)] = {}
    BY <2>1, MoveFacts
  <2> QED
    BY <2>1, <2>2 DEF Linked
<1> QED
  BY <1>1, <1>2

LEMMA FilledLine ==
  ASSUME MapInv, NEW b \in Bucket, Filled(b), NEW c \in Line(b)
  PROVE  Filled(c)
BY DEF MapInv, Buckets

\* An item whose line has the new bucket is in its parent.
LEMMA BelowChild ==
  ASSUME MapInv, NEW t \in Thread, pc[t] = "move", NEW h \in Bucket, Child(t) \in Line(h),
         NEW b \in Bucket, Filled(b), LastFilled(b, h), b < Child(t)
  PROVE  b = Top(t)
<1>1. PICK d \in Bucket, T \in Bucket : d = Child(t) /\ T = Top(t)
  BY MoveFacts
<1>2. d >= 2 /\ T = Parent(d) /\ Filled(T) /\ d \in Line(h) /\ b < d /\ b \in Line(h)
  BY <1>1, MoveFacts DEF LastFilled
<1>3. b \in Nat /\ d \in Nat /\ T \in Nat
  BY BucketNumbers
<1>4. b \in Line(d)
  BY <1>2, <1>3, LineOrdered
<1>5. b <= T
  BY <1>2, <1>3, <1>4, ParentFacts
<1>6. T \in Line(h)
  <2>1. T \in Line(d)
    BY <1>2, ParentFacts
  <2> QED
    BY <1>2, <2>1, LineTransitive
<1>7. T <= b
  BY <1>2, <1>6 DEF LastFilled
<1> QED
  BY <1>1, <1>3, <1>5, <1>7

LEMMA BucketsStep ==
  ASSUME MapInv, NEW t \in Thread, Step(t)
  PROVE  Buckets'
<1>1. \A c : Filled(c)' <=> Filled(c) \/ Fills(t, c)
  BY FilledStep
<1>2. Filled(0)' /\ Filled(1)'
  BY <1>1 DEF MapInv, Buckets
<1>3. ASSUME NEW b \in Bucket, Filled(b)', NEW c \in Line(b) PROVE Filled(c)'
  <2>1. CASE Filled(b)
    BY <1>1, <2>1, FilledLine
  <2>2. CASE Fills(t, b)
    <3>1. pc[t] = "move" /\ b = Child(t) /\ b >= 2 /\ Top(t) = Parent(b)
      BY <2>2, LeaveFacts, MoveFacts DEF Fills
    <3>2. Filled(Parent(b)) /\ Parent(b) \in Bucket
      BY <3>1, MoveFacts
    <3>3. c = b \/ c \in Line(Parent(b))
      BY <3>1, ParentFacts
    <3> QED
      BY <1>1, <1>3, <3>2, <3>3, FilledLine
  <2> QED
    BY <1>1, <1>3, <2>1, <2>2
<1>4. \A n \in Linked : /\ key'[n] = key[n] /\ key[n] \in Key /\ HashOf(n)' = HashOf(n)
                        /\ HashOf(n) \in Bucket
  BY KeyStep, LinkedFacts DEF HashOf
<1>5. \A b \in Bucket : \A n \in node_list[b] :
          n \in Linked /\ Filled(b) /\ LastFilled(b, HashOf(n))
  BY LinkedFacts DEF MapInv, Buckets
<1>6. ASSUME NEW b \in Bucket, NEW n \in node_list[b], ~MoveNone(t), ~MoveItems(t)
      PROVE  Filled(b)' /\ key'[n] \in Key /\ LastFilled(b, HashOf(n))'
  BY <1>1, <1>4, <1>5, <1>6 DEF LastFilled, Fills
<1>7. ASSUME NEW b \in Bucket, NEW n \in node_list'[b]
      PROVE  Filled(b)' /\ key'[n] \in Key /\ LastFilled(b, HashOf(n))'
  <2>1. CASE MoveNone(t) \/ MoveItems(t)
    <3>1. PICK d \in Bucket, T \in Bucket :
              /\ d = Child(t) /\ T = Top(t) /\ d # T /\ pc[t] = "move"
              /\ Movers(t) = {o \in node_list[T] : d \in Line(HashOf(o))}
              /\ d >= 2 /\ T = Parent(d)
      BY <2>1, LeaveFacts, MoveFacts
    <3>2. /\ node_list'[T] = node_list[T] \ Movers(t) /\ node_list'[d] = Movers(t)
          /\ \A c \in Bucket \ {T, d} : node_list'[c] = node_list[c]
      BY <2>1, <3>1, MovedLists
    <3>3. \A c : Filled(c)' <=> Filled(c) \/ c = d
      BY <1>1, <2>1, <3>1 DEF Fills
    <3>4. CASE b = d
      <4>1. n \in node_list[T] /\ d \in Line(HashOf(n))
        BY <1>7, <3>1, <3>2, <3>4
      <4>2. n \in Linked /\ LastFilled(T, HashOf(n))
        BY <1>5, <4>1
      <4>3. HashOf(n)' = HashOf(n) /\ key'[n] \in Key /\ HashOf(n) \in Bucket
        BY <1>4, <4>2
      <4>4. T < d /\ T \in Nat /\ d \in Nat
        BY <3>1, ParentFacts, BucketNumbers
      <4>5. \A c \in Line(HashOf(n)) : Filled(c)' => c <= d
        <5>1. SUFFICES ASSUME NEW c \in Line(HashOf(n)), Filled(c) PROVE c <= d
          BY <3>3, <4>4
        <5>2. c <= T /\ c \in Nat
          BY <4>2, <4>3, LineMembers, BucketNumbers, <5>1 DEF LastFilled
        <5> QED
          BY <4>4, <5>2
      <4> QED
        BY <3>3, <3>4, <4>1, <4>3, <4>5 DEF LastFilled
    <3>5. CASE b # d
      <4>1. n \in node_list[b] /\ (b = T => d \notin Line(HashOf(n)))
        BY <1>7, <3>1, <3>2, <3>5
      <4>2. n \in Linked /\ LastFilled(b, HashOf(n)) /\ Filled(b)
        BY <1>5, <4>1
      <4>3. HashOf(n)' = HashOf(n) /\ key'[n] \in Key /\ HashOf(n) \in Bucket
        BY <1>4, <4>2
      <4>4. d \in Line(HashOf(n)) => d <= b
        <5>1. SUFFICES ASSUME d \in Line(HashOf(n)), b < d PROVE FALSE
          BY BucketNumbers
        <5>2. b = T
          BY <3>1, <4>2, <4>3, <5>1, BelowChild
        <5> QED
          BY <4>1, <5>1, <5>2
      <4> QED
        BY <3>3, <4>2, <4>3, <4>4 DEF LastFilled
    <3> QED
      BY <3>4, <3>5
  <2>2. CASE LinkNode(t)
    <3>1. PICK o \in Node : o = frame[t].tmp_n
      BY <2>2, LinkNodeLists
    <3>2. /\ MyBucket(t) \in Bucket /\ Top(t) = MyBucket(t)
          /\ key[o] = frame[t].key
          /\ node_list'[MyBucket(t)] = node_list[MyBucket(t)] \cup {o}
          /\ \A c \in Bucket \ {MyBucket(t)} : node_list'[c] = node_list[c]
          /\ key' = key
      BY <2>2, <3>1, LinkNodeLists, Zenon DEF LinkNode
    <3>3. pc[t] = "link" /\ ~MoveNone(t) /\ ~MoveItems(t)
      BY <2>2 DEF LinkNode, Goto, MoveNone, MoveItems
    <3>4. CASE n \in node_list[b]
      BY <1>6, <3>3, <3>4
    <3>5. CASE n \notin node_list[b]
      <4>1. b = MyBucket(t) /\ n = o
        BY <1>7, <3>2, <3>5
      <4>2. Filled(b)
        <5>1. Inside(t)
          BY <3>3 DEF Inside
        <5> QED
          BY <3>2, <4>1, <5>1, InsideFacts
      <4>3. LastFilled(b, MyHash(t))
        BY <3>3, <4>1 DEF MapInv, Searches, Search
      <4>4. frame[t].key \in Key
        BY <3>3, PathFacts
      <4>5. HashOf(n)' = MyHash(t) /\ key'[n] \in Key
        BY <3>2, <4>1, <4>4 DEF HashOf, MyHash
      <4>6. \A c : Filled(c)' <=> Filled(c)
        BY <1>1, <3>3 DEF Fills
      <4> QED
        BY <4>2, <4>3, <4>5, <4>6 DEF LastFilled
    <3> QED
      BY <3>4, <3>5
  <2>3. CASE ~MoveNone(t) /\ ~MoveItems(t) /\ ~LinkNode(t)
    <3>1. node_list' = node_list \/ Unlink(t)
      BY <2>3, Effects
    <3>2. n \in node_list[b]
      BY <1>7, <3>1, UnlinkLists
    <3> QED
      BY <1>6, <2>3, <3>2
  <2> QED
    BY <2>1, <2>2, <2>3
<1> QED
  BY <1>2, <1>3, <1>7 DEF Buckets

\* The chain of a bucket stays the same for a thread that is in the bucket.
LEMMA ChainKept ==
  ASSUME MapInv, NEW t \in Thread, Step(t), NEW u \in Thread, u # t, Inside(u)
  PROVE  node_list'[Top(u)] = node_list[Top(u)]
<1>1. Top(u) \in Bucket
  BY InsideFacts
<1>2. ASSUME NEW b \in Bucket, bucket_mutex[b].writer = t PROVE Top(u) # b
  BY <1>2, WriterAlone
<1>3. CASE MoveItems(t)
  <2>1. Top(u) # Top(t) /\ Top(u) # Child(t)
    BY <1>2, <1>3, MoveFacts DEF MoveItems, IsWriter
  <2> QED
    BY <1>1, <1>3, <2>1, MoveItemsLists
<1>4. CASE LinkNode(t)
  <2>1. bucket_mutex[Top(t)].writer = t
    BY <1>4 DEF LinkNode, Goto, MapInv, BucketLocks, HoldsBuckets, NeedsBucket
  <2>2. Top(u) # Top(t)
    BY <1>2, <1>4, <2>1, LinkNodeLists
  <2> QED
    BY <1>1, <1>4, <2>2, LinkNodeLists
<1>5. CASE Unlink(t)
  <2>1. Top(u) # Top(t)
    BY <1>2, <1>5, UnlinkLists
  <2> QED
    BY <1>1, <1>5, <2>1, UnlinkLists
<1> QED
  BY <1>3, <1>4, <1>5, Effects

(***************************************************************************)
(* The owners of the items.                                                *)
(***************************************************************************)
\* Who deletes an item is the last thread that knows of it.
LEMMA DeletedAlone ==
  ASSUME MapInv, NEW t \in Thread, pc[t] = "delete", NEW u \in Thread, u # t
  PROVE  accessor[u] # accessor[t]
<1> SUFFICES ASSUME accessor[u] = accessor[t] PROVE FALSE
  OBVIOUS
<1>1. /\ accessor[t] \in Node /\ node_mutex[accessor[t]] \in Lock
      /\ Exclusive(node_mutex[accessor[t]])
  BY NodeFacts DEF Removals
<1>2. node_mutex[accessor[t]].writer = t
  BY DEF MapInv, NodeLocks, HoldsItems
<1>3. ~Removing(u)
  BY DEF MapInv, Nodes, OwnNodes, Removing, Removals
<1>4. Holds(node_mutex[accessor[u]], u)
  BY <1>1, <1>3, NilAssumption DEF MapInv, NodeLocks, HoldsItems, Holds
<1> QED
  BY <1>1, <1>2, <1>4, ExclusiveFacts

\* Which keys change.
LEMMA KeyChanges ==
  ASSUME MapInv, NEW t \in Thread, Step(t)
  PROVE  \A n \in Node : \/ key'[n] = key[n]
                         \/ NotFoundToInsert(t) /\ key[n] = Nil
                         \/ Growth(t) /\ n = frame[t].tmp_n
                         \/ DeleteNode(t) /\ n = accessor[t]
<1>1. key \in [Node -> Key \cup {Nil}]
  BY DEF MapInv, Types
<1>2. CASE NotFoundToInsert(t)
  BY <1>1, <1>2, KeyStep DEF NotFoundToInsert
<1>3. CASE Growth(t)
  BY <1>1, <1>3 DEF Growth
<1>4. CASE DeleteNode(t)
  BY <1>1, <1>4 DEF DeleteNode
<1> QED
  BY <1>2, <1>3, <1>4, Effects

\* What happens to the nodes that a call has.
OwnKept(t) ==
    /\ \/ accessor'[t] \in {accessor[t], Nil}
       \/ TryItem(t) /\ accessor'[t] = frame[t].n
    /\ \/ frame'[t].tmp_n \in {frame[t].tmp_n, Nil}
       \/ NotFoundToInsert(t) /\ frame'[t].tmp_n = NewNode /\ key[NewNode] = Nil
          /\ NewNode \in Node /\ key'[NewNode] = frame[t].key /\ NewNode \notin Linked
    /\ accessor'[t] # Nil \/ frame'[t].tmp_n # Nil => frame'[t].key = frame[t].key
    /\ Growth(t) => frame'[t].tmp_n = Nil
    /\ DeleteNode(t) => accessor'[t] = Nil
    /\ LinkNode(t) => frame'[t].tmp_n = Nil
    /\ TryItem(t) => frame' = frame
    /\ pc'[t] \in Removals => /\ accessor'[t] = accessor[t]
                              /\ pc[t] \in Removals \/ Unlink(t)
    /\ pc'[t] \in {"claim", "item"} => /\ \/ Found(t) \/ FoundAfterUpgrade(t) \/ LinkNode(t)
                                          \/ ClaimSegment(t)
                                       /\ MyBucket(t)' = MyBucket(t)
                                       /\ frame'[t].key = frame[t].key

LEMMA OwnStep ==
  ASSUME MapInv, NEW t \in Thread, Step(t)
  PROVE  OwnKept(t)
<1>1. /\ pc \in [Thread -> PC] /\ frame \in [Thread -> Frame] /\ frame[t] \in Frame
      /\ Stage(t) /\ accessor \in [Thread -> Node \cup {Nil}]
      /\ key \in [Node -> Key \cup {Nil}]
  BY DEF MapInv, Types, Stages
<1>2. \/ accessor'[t] \in {accessor[t], Nil}
      \/ TryItem(t) /\ accessor'[t] = frame[t].n
  <2>1. CASE Begin(t)
    BY <1>1, <2>1, Zenon DEF Begin, CallLookup, CallErase, ReleaseAccessor, ReturnMissed, LoadMask
  <2>2. CASE Rehash(t)
    BY <2>2 DEF Rehash, SeeFlag, TryBucket, FailToTryBucket, SeeRehashed, MarkRehashed,
       AcquireBucket, MoveNone, MoveItems, LeaveParent, NeedWriter, Upgrade,
       ReleaseToUpgrade, Reacquire
  <2>3. CASE Lookup(t)
    BY <1>1, <2>3 DEF Lookup, Found, FoundAfterUpgrade, FindInBucket, NotFound,
       NotFoundToInsert, Upgrade, ReleaseToUpgrade, Reacquire, NotFoundAfterUpgrade,
       MaskKept, MaskChanged, NoCollision, Collision, Absent, LinkNode, ClaimSegment,
       TryItem, GiveUpItem, Restart, LoadMask, Growth
  <2>4. CASE Exclude(t)
    BY <1>1, <2>4 DEF Exclude, Unlink, NotThere, UpgradeItem, ReleaseItem, ReacquireItem,
       DeleteNode, ReleaseAccessor
  <2> QED
    BY <2>1, <2>2, <2>3, <2>4 DEF Step
<1>3. ASSUME NotFoundToInsert(t)
      PROVE  /\ \/ frame'[t].tmp_n = frame[t].tmp_n
                \/ /\ frame'[t].tmp_n = NewNode /\ key[NewNode] = Nil
                   /\ NewNode \in Node /\ key'[NewNode] = frame[t].key /\ NewNode \notin Linked
             /\ frame'[t].key = frame[t].key
  <2>1. CASE frame[t].tmp_n # Nil
    BY <1>1, <1>3, <2>1 DEF NotFoundToInsert
  <2>2. CASE frame[t].tmp_n = Nil
    <3>1. /\ frame'[t] = [frame[t] EXCEPT !.tmp_n = NewNode]
          /\ key' = [key EXCEPT ![NewNode] = frame[t].key]
      BY <1>1, <1>3, <2>2 DEF NotFoundToInsert
    <3>2. key[NewNode] = Nil /\ NewNode \in Node
      BY <1>3, <2>2, KeyStep
    <3>3. NewNode \notin Linked
      BY <3>2, LinkedFacts, NilAssumption
    <3>4. frame'[t].tmp_n = NewNode /\ frame'[t].key = frame[t].key
      BY <1>1, <3>1 DEF Frame
    <3> QED
      BY <1>1, <3>1, <3>2, <3>3, <3>4
  <2> QED
    BY <2>1, <2>2
<1>4. /\ frame'[t].tmp_n \in {frame[t].tmp_n, Nil} \/ NotFoundToInsert(t)
      /\ accessor'[t] # Nil \/ frame'[t].tmp_n # Nil => frame'[t].key = frame[t].key
  <2>1. CASE StageKept(t)
    BY <2>1 DEF StageKept
  <2>2. ASSUME NEW k \in Key, NEW w \in BOOLEAN, NEW op \in {"find", "insert"},
               CallLookup(t, op, k, w)
        PROVE  frame'[t].tmp_n = Nil /\ accessor'[t] = Nil
    <3>1. frame'[t].tmp_n = Nil /\ accessor' = accessor /\ pc[t] = "idle"
      BY <1>1, <2>2 DEF CallLookup, LoadMask, NoFrame, Goto
    <3>2. accessor[t] = Nil
      BY <1>1, <3>1 DEF Stage, StageOp, StageAccessor, NoFrame
    <3> QED
      BY <3>1, <3>2
  <2>3. CASE CallErase(t)
    BY <1>1, <2>3 DEF CallErase, LoadMask, Frame
  <2>4. CASE \/ ReleaseAccessor(t, "using") \/ ReleaseAccessor(t, "gone")
             \/ DeleteNode(t)
    BY <1>1, <2>4 DEF ReleaseAccessor, DeleteNode, NoFrame
  <2>5. CASE ReturnMissed(t)
    <3>1. frame'[t].tmp_n = Nil /\ accessor' = accessor /\ pc[t] = "missed"
      BY <1>1, <2>5 DEF ReturnMissed, NoFrame, Goto
    <3>2. accessor[t] = Nil
      BY <1>1, <3>1 DEF Stage, StageOp, StageAccessor
    <3> QED
      BY <3>1, <3>2
  <2>6. CASE NotFoundToInsert(t)
    BY <1>3, <2>6
  <2>7. CASE LinkNode(t)
    BY <1>1, <2>7 DEF LinkNode, Frame
  <2>8. CASE ClaimSegment(t)
    BY <1>1, <2>8 DEF ClaimSegment, Frame
  <2>9. CASE TryItem(t)
    BY <2>9 DEF TryItem
  <2>10. CASE Growth(t)
    BY <1>1, <2>10 DEF Growth, NoFrame
  <2> QED
    BY <2>1, <2>2, <2>3, <2>4, <2>5, <2>6, <2>7, <2>8, <2>9, <2>10, StageMoves
<1>5. /\ Growth(t) => frame'[t].tmp_n = Nil
      /\ DeleteNode(t) => accessor'[t] = Nil
      /\ LinkNode(t) => frame'[t].tmp_n = Nil
      /\ TryItem(t) => frame' = frame
  <2>1. ASSUME Growth(t) PROVE frame'[t].tmp_n = Nil
    BY <1>1, <2>1 DEF Growth, NoFrame
  <2>2. ASSUME DeleteNode(t) PROVE accessor'[t] = Nil
    BY <1>1, <2>2 DEF DeleteNode
  <2>3. ASSUME LinkNode(t) PROVE frame'[t].tmp_n = Nil
    BY <1>1, <2>3 DEF LinkNode, Frame
  <2>4. ASSUME TryItem(t) PROVE frame' = frame
    BY <2>4 DEF TryItem
  <2> QED
    BY <2>1, <2>2, <2>3, <2>4
<1>6. ASSUME pc'[t] \in Removals
      PROVE  accessor'[t] = accessor[t] /\ (pc[t] \in Removals \/ Unlink(t))
  <2>1. Unlink(t) \/ UpgradeItem(t) \/ ReleaseItem(t) \/ ReacquireItem(t)
    BY <1>1, <1>6, Zenon DEF Step, Begin, CallLookup, CallErase, ReleaseAccessor, ReturnMissed,
       LoadMask, Rehash, SeeFlag, TryBucket, FailToTryBucket, SeeRehashed, MarkRehashed,
       AcquireBucket, MoveNone, MoveItems, LeaveParent, NeedWriter, Upgrade, ReleaseToUpgrade,
       Reacquire, Lookup, Found, FoundAfterUpgrade, FindInBucket, NotFound, NotFoundToInsert,
       NotFoundAfterUpgrade, MaskKept, MaskChanged, NoCollision, Collision, Absent, LinkNode,
       ClaimSegment, TryItem, GiveUpItem, Restart, Growth, Exclude, NotThere, DeleteNode, Goto,
       Entered, Removals
  <2> QED
    BY <2>1 DEF Unlink, UpgradeItem, ReleaseItem, ReacquireItem, Goto, Removals
<1>7. ASSUME pc'[t] \in {"claim", "item"}
      PROVE  /\ Found(t) \/ FoundAfterUpgrade(t) \/ LinkNode(t) \/ ClaimSegment(t)
             /\ MyBucket(t)' = MyBucket(t)
             /\ frame'[t].key = frame[t].key
  <2>1. Found(t) \/ FoundAfterUpgrade(t) \/ LinkNode(t) \/ ClaimSegment(t)
    BY <1>1, <1>7, Zenon DEF Step, Begin, CallLookup, CallErase, ReleaseAccessor, ReturnMissed,
       LoadMask, Rehash, SeeFlag, TryBucket, FailToTryBucket, SeeRehashed, MarkRehashed,
       AcquireBucket, MoveNone, MoveItems, LeaveParent, NeedWriter, Upgrade, ReleaseToUpgrade,
       Reacquire, Lookup, NotFound, NotFoundToInsert, NotFoundAfterUpgrade, MaskKept,
       MaskChanged, NoCollision, Collision, Absent, TryItem, GiveUpItem, Restart, Growth, Exclude,
       Unlink, NotThere, UpgradeItem, ReleaseItem, ReacquireItem, DeleteNode, Goto, Entered
  <2>2. PathKept(t)
    BY <1>7, <2>1, PathMoves, Zenon DEF PathBegun, PathEnded, MarkRehashed, MoveNone, MoveItems, Goto,
       LeaveParent, Entered, Found, FoundAfterUpgrade, FindInBucket, LinkNode,
       ClaimSegment
  <2> QED
    BY <2>1, <2>2 DEF PathKept, MyBucket
<1> QED
  BY <1>2, <1>3, <1>4, <1>5, <1>6, <1>7 DEF OwnKept

LEMMA NodesStep ==
  ASSUME MapInv, NEW t \in Thread, Step(t)
  PROVE  Nodes'
<1>1. /\ \A u \in Thread \ {t} : /\ pc'[u] = pc[u] /\ frame'[u] = frame[u]
                                 /\ accessor'[u] = accessor[u]
      /\ OwnKept(t)
  BY OthersStep, OwnStep DEF Others
<1>2. \A u \in Thread : OwnNodes(u)
  BY DEF MapInv, Nodes
<1>3. \A u \in Thread : /\ accessor[u] = Nil \/ accessor[u] \in Node
                        /\ frame[u].tmp_n = Nil \/ frame[u].tmp_n \in Node
                        /\ accessor[u] # Nil \/ frame[u].tmp_n # Nil => frame[u].key \in Key
  <2>1. SUFFICES ASSUME NEW u \in Thread
                 PROVE  accessor[u] # Nil \/ frame[u].tmp_n # Nil => frame[u].key \in Key
    BY NodeFacts
  <2> QED
    BY DEF MapInv, Stages, Stage, StageOp, StageAccessor, StageNode, NoFrame
<1>4. Nil \notin Key /\ Nil \notin Node
  BY NilAssumption
<1>5. \A n \in Linked : n \in Node /\ key'[n] = key[n] /\ key[n] \in Key
  BY KeyStep, LinkedFacts

\* The nodes that the calls have keep their keys.
<1>6. ASSUME NEW u \in Thread, accessor[u] # Nil, ~(u = t /\ DeleteNode(t))
      PROVE  key'[accessor[u]] = frame[u].key
  <2>1. accessor[u] \in Node /\ key[accessor[u]] = frame[u].key /\ frame[u].key \in Key
    BY <1>2, <1>3, <1>6 DEF OwnNodes
  <2>2. accessor[u] # frame[t].tmp_n
    BY <1>2, <1>6 DEF OwnNodes
  <2>3. DeleteNode(t) => accessor[u] # accessor[t]
    BY <1>6, DeletedAlone DEF DeleteNode, Goto
  <2> QED
    BY <1>4, <2>1, <2>2, <2>3, KeyChanges
<1>7. ASSUME NEW u \in Thread, frame[u].tmp_n # Nil, ~(u = t /\ Growth(t))
      PROVE  key'[frame[u].tmp_n] = frame[u].key
  <2>1. /\ frame[u].tmp_n \in Node /\ key[frame[u].tmp_n] = frame[u].key
        /\ frame[u].key \in Key
    BY <1>2, <1>3, <1>7 DEF OwnNodes
  <2>2. frame[u].tmp_n = frame[t].tmp_n => ~Growth(t)
    BY <1>2, <1>7 DEF OwnNodes
  <2>3. accessor[t] # frame[u].tmp_n
    BY <1>2, <1>7 DEF OwnNodes
  <2> QED
    BY <1>4, <2>1, <2>2, <2>3, KeyChanges
<1>8. TryItem(t) => frame[t].n \in Linked /\ key[frame[t].n] = frame[t].key
  BY <1>2, NodeFacts DEF TryItem, Goto, OwnNodes

\* Where the nodes of the calls come from.
<1>9. \A u \in Thread : \/ accessor'[u] = accessor[u] \/ accessor'[u] = Nil
                        \/ TryItem(t) /\ u = t /\ accessor'[u] = frame[t].n
  BY <1>1 DEF OwnKept
<1>10. \A u \in Thread : \/ frame'[u].tmp_n = frame[u].tmp_n \/ frame'[u].tmp_n = Nil
                         \/ /\ u = t /\ NotFoundToInsert(t) /\ frame'[u].tmp_n \in Node
                            /\ key[frame'[u].tmp_n] = Nil
                            /\ frame'[u].tmp_n \notin Linked
                            /\ key'[frame'[u].tmp_n] = frame[t].key
  BY <1>1 DEF OwnKept
<1>11. \A u \in Thread : Removing(u)' => /\ accessor'[u] = accessor[u]
                                         /\ Removing(u) \/ (u = t /\ Unlink(t))
  BY <1>1 DEF OwnKept, Removing
<1>12. \/ LinkNode(t) /\ Linked' = Linked \cup {frame[t].tmp_n} /\ frame[t].tmp_n # Nil
          /\ frame'[t].tmp_n = Nil
       \/ ~LinkNode(t) /\ Linked' \subseteq Linked /\ (Unlink(t) => accessor[t] \notin Linked'
                                                                    /\ accessor[t] \in Linked)
  BY <1>1, <1>4, LinkNodeLists, UnlinkLists, LinkedStep DEF OwnKept
<1>13. ASSUME NEW u \in Thread, accessor'[u] # Nil
       PROVE  key'[accessor'[u]] = frame'[u].key
  <2>1. frame'[u].key = frame[u].key /\ ~(u = t /\ DeleteNode(t))
    BY <1>1, <1>13 DEF OwnKept
  <2>2. CASE accessor'[u] = accessor[u]
    BY <1>6, <1>13, <2>1, <2>2
  <2>3. CASE TryItem(t) /\ u = t /\ accessor'[u] = frame[t].n
    BY <1>5, <1>8, <2>1, <2>3
  <2> QED
    BY <1>9, <1>13, <2>2, <2>3
<1>14. ASSUME NEW u \in Thread, pc'[u] \in {"claim", "item"}
       PROVE  /\ frame'[u].n \in node_list'[frame'[u].path[1]]
              /\ key'[frame'[u].n] = frame'[u].key
  <2>1. CASE u # t
    <3>1. Inside(u) /\ Top(u) = MyBucket(u)
      BY <1>1, <1>14, <2>1, PathFacts DEF Inside, InBucket
    <3>2. frame[u].n \in node_list[MyBucket(u)] /\ key[frame[u].n] = frame[u].key
          /\ frame[u].n \in Linked
      BY <1>1, <1>2, <1>14, <2>1, NodeFacts DEF OwnNodes
    <3>3. node_list'[MyBucket(u)] = node_list[MyBucket(u)]
      BY <2>1, <3>1, ChainKept
    <3> QED
      BY <1>1, <1>5, <2>1, <3>2, <3>3 DEF MyBucket
  <2>2. CASE u = t
    <3>1. /\ Found(t) \/ FoundAfterUpgrade(t) \/ LinkNode(t) \/ ClaimSegment(t)
          /\ frame'[t].path[1] = MyBucket(t) /\ frame'[t].key = frame[t].key
      BY <1>1, <1>14, <2>2 DEF OwnKept, MyBucket
    <3>2. frame \in [Thread -> Frame]
      BY DEF MapInv, Types
    <3>3. CASE Found(t) \/ FoundAfterUpgrade(t)
      <4>1. PICK n : n = CHOOSE o \in Matching(t) : TRUE
        OBVIOUS
      <4>2. /\ frame' = [frame EXCEPT ![t].n = n] /\ Matching(t) # {}
            /\ node_list' = node_list /\ key' = key
        BY <3>3, <4>1 DEF Found, FoundAfterUpgrade, FindInBucket, items
      <4>3. n \in Matching(t)
        BY <4>1, <4>2
      <4>4. frame'[t].n = n
        BY <3>2, <4>2 DEF Frame
      <4> QED
        BY <2>2, <3>1, <4>2, <4>3, <4>4 DEF Matching
    <3>4. CASE LinkNode(t)
      <4>1. frame'[t].n = frame[t].tmp_n /\ key' = key
        BY <3>2, <3>4 DEF LinkNode, Frame
      <4> QED
        BY <2>2, <3>1, <3>4, <4>1, LinkNodeLists
    <3>5. CASE ClaimSegment(t)
      <4>1. frame'[t].n = frame[t].n /\ key' = key /\ node_list' = node_list
        BY <3>2, <3>5 DEF ClaimSegment, Frame, items
      <4> QED
        BY <1>2, <2>2, <3>1, <3>5, <4>1 DEF OwnNodes, ClaimSegment, Goto
    <3> QED
      BY <3>1, <3>3, <3>4, <3>5
  <2> QED
    BY <2>1, <2>2
<1>15. ASSUME NEW u \in Thread, frame'[u].tmp_n # Nil
       PROVE  frame'[u].tmp_n \notin Linked' /\ key'[frame'[u].tmp_n] = frame'[u].key
  <2>1. frame'[u].key = frame[u].key /\ ~(u = t /\ Growth(t)) /\ ~(u = t /\ LinkNode(t))
    BY <1>1, <1>15 DEF OwnKept
  <2>2. CASE frame'[u].tmp_n = frame[u].tmp_n
    <3>1. frame[u].tmp_n \notin Linked /\ (u # t => frame[u].tmp_n # frame[t].tmp_n)
      BY <1>2, <1>15, <2>2 DEF OwnNodes
    <3> QED
      BY <1>7, <1>12, <1>15, <2>1, <2>2, <3>1
  <2>3. CASE /\ u = t /\ frame'[u].tmp_n \notin Linked
             /\ key'[frame'[u].tmp_n] = frame[t].key
    BY <1>12, <2>1, <2>3
  <2> QED
    BY <1>10, <1>15, <2>2, <2>3
<1>16. ASSUME NEW u \in Thread, Removing(u)'
       PROVE  accessor'[u] \notin Linked'
  <2>1. CASE Removing(u)
    <3>1. /\ accessor[u] \notin Linked
          /\ frame[t].tmp_n # Nil => accessor[u] # frame[t].tmp_n
      BY <1>2, <2>1 DEF OwnNodes
    <3> QED
      BY <1>11, <1>12, <1>16, <3>1
  <2>2. CASE u = t /\ Unlink(t)
    <3>1. ~LinkNode(t)
      BY <2>2 DEF Unlink, LinkNode, Goto
    <3> QED
      BY <1>11, <1>12, <1>16, <2>2, <3>1
  <2> QED
    BY <1>11, <1>16, <2>1, <2>2
<1>17. ASSUME NEW u \in Thread, NEW v \in Thread, frame'[u].tmp_n # Nil
       PROVE  accessor'[v] # frame'[u].tmp_n
  <2>1. CASE frame'[u].tmp_n = frame[u].tmp_n
    BY <1>2, <1>8, <1>9, <1>17, <2>1 DEF OwnNodes
  <2>2. CASE frame'[u].tmp_n \notin Linked /\ key[frame'[u].tmp_n] = Nil
    <3>1. accessor[v] # Nil => key[accessor[v]] # Nil
      BY <1>2, <1>3, <1>4 DEF OwnNodes
    <3> QED
      BY <1>8, <1>9, <1>17, <2>2, <3>1
  <2> QED
    BY <1>10, <1>17, <2>1, <2>2
<1>18. ASSUME NEW u \in Thread, NEW v \in Thread, frame'[u].tmp_n # Nil,
              frame'[u].tmp_n = frame'[v].tmp_n
       PROVE  u = v
  <2>1. \A w \in Thread : frame[w].tmp_n # Nil => key[frame[w].tmp_n] # Nil
    BY <1>2, <1>3, <1>4 DEF OwnNodes
  <2>2. CASE frame'[u].tmp_n = frame[u].tmp_n /\ frame'[v].tmp_n = frame[v].tmp_n
    BY <1>2, <1>18, <2>2, Zenon DEF OwnNodes
  <2> QED
    BY <1>10, <1>18, <2>1, <2>2
<1>19. ASSUME NEW u \in Thread, NEW v \in Thread, Removing(u)', Removing(v)',
              accessor'[u] = accessor'[v]
       PROVE  u = v
  <2>1. \A w \in Thread : Removing(w) => accessor[w] \notin Linked
    BY <1>2 DEF OwnNodes
  <2>2. Unlink(t) => accessor[t] \in Linked
    BY UnlinkLists
  <2>3. accessor[u] = accessor[v]
    BY <1>11, <1>19
  <2>4. CASE Removing(u) /\ Removing(v)
    BY <1>2, <2>3, <2>4 DEF OwnNodes
  <2> QED
    BY <1>11, <1>19, <2>1, <2>2, <2>3, <2>4
<1>20. ASSUME NEW u \in Thread PROVE OwnNodes(u)'
  BY <1>13, <1>14, <1>15, <1>16, <1>17, <1>18, <1>19 DEF OwnNodes, MyBucket
<1> QED
  BY <1>20 DEF Nodes

(***************************************************************************)
(* The locks of the items.                                                 *)
(***************************************************************************)
LocksItem(t) ==
    \/ ReleaseAccessor(t, "using") \/ ReleaseAccessor(t, "gone") \/ TryItem(t)
    \/ UpgradeItem(t) \/ ReleaseItem(t) \/ ReacquireItem(t) \/ DeleteNode(t)

\* The other steps neither lock an item nor change what the call has locked.
LEMMA ItemKept ==
  ASSUME MapInv, NEW t \in Thread, Step(t), ~LocksItem(t)
  PROVE  /\ node_mutex' = node_mutex /\ accessor'[t] = accessor[t] /\ ~Removing(t)
         /\ accessor[t] # Nil => frame'[t].write = frame[t].write
         /\ Removing(t)' => Unlink(t)
<1>1. /\ pc \in [Thread -> PC] /\ frame \in [Thread -> Frame] /\ frame[t] \in Frame
      /\ Stage(t)
  BY DEF MapInv, Types, Stages
<1>2. CASE Begin(t)
  <2>1. /\ node_mutex' = node_mutex /\ accessor' = accessor
        /\ pc[t] \in {"idle", "using", "missed"} /\ pc'[t] \in {"flag", "idle"}
    BY <1>1, <1>2, Zenon DEF Begin, CallLookup, CallErase, ReturnMissed, LoadMask, Goto, LocksItem, locks
  <2>2. CASE CallErase(t)
    <3>1. frame'[t].write = frame[t].write
      BY <1>1, <2>2 DEF CallErase, LoadMask, Frame
    <3> QED
      BY <2>1, <3>1 DEF Removing, Removals
  <2>3. CASE ~CallErase(t)
    <3>1. pc[t] \in {"idle", "missed"}
      BY <1>2, <2>3, Zenon DEF Begin, CallLookup, LoadMask, ReturnMissed, Goto, LocksItem
    <3>2. accessor[t] = Nil
      BY <1>1, <3>1 DEF Stage, StageOp, StageAccessor, NoFrame
    <3> QED
      BY <2>1, <3>2 DEF Removing, Removals
  <2> QED
    BY <2>2, <2>3
<1>3. CASE Rehash(t)
  <2>1. node_mutex' = node_mutex /\ accessor' = accessor /\ ~MoveNone(t) /\ ~MoveItems(t)
           /\ ~MarkRehashed(t) => frame' = frame
    BY <1>3 DEF Rehash, SeeFlag, TryBucket, FailToTryBucket, SeeRehashed, AcquireBucket,
       NeedWriter, Upgrade, ReleaseToUpgrade, Reacquire
  <2>2. node_mutex' = node_mutex /\ accessor' = accessor
    BY <1>3 DEF Rehash, SeeFlag, TryBucket, FailToTryBucket, SeeRehashed, MarkRehashed,
       AcquireBucket, MoveNone, MoveItems, LeaveParent, NeedWriter, Upgrade,
       ReleaseToUpgrade, Reacquire, locks
  <2>3. ~Removing(t) /\ ~Removing(t)'
    BY <1>1, <1>3 DEF Rehash, SeeFlag, TryBucket, FailToTryBucket, SeeRehashed, MarkRehashed,
       AcquireBucket, MoveNone, MoveItems, LeaveParent, NeedWriter, Upgrade,
       ReleaseToUpgrade, Reacquire, Goto, Entered, Removing, Removals
  <2>4. ASSUME MoveNone(t) \/ MoveItems(t) \/ MarkRehashed(t)
        PROVE  frame'[t].write = frame[t].write
    BY <1>1, <2>4 DEF MoveNone, MoveItems, LeaveParent, MarkRehashed, Frame
  <2> QED
    BY <2>1, <2>2, <2>3, <2>4
<1>4. CASE Lookup(t)
  <2>1. node_mutex' = node_mutex /\ accessor' = accessor
    BY <1>4 DEF Lookup, Found, FoundAfterUpgrade, FindInBucket, NotFound, NotFoundToInsert,
       Upgrade, ReleaseToUpgrade, Reacquire, NotFoundAfterUpgrade, MaskKept, MaskChanged,
       NoCollision, Collision, Absent, LinkNode, ClaimSegment, GiveUpItem, Restart, LoadMask, Growth,
       locks, LocksItem
  <2>2. ~Removing(t) /\ ~Removing(t)'
    BY <1>1, <1>4 DEF Lookup, Found, FoundAfterUpgrade, FindInBucket, NotFound,
       NotFoundToInsert, Upgrade, ReleaseToUpgrade, Reacquire, NotFoundAfterUpgrade, MaskKept,
       MaskChanged, NoCollision, Collision, Absent, LinkNode, ClaimSegment, TryItem,
       GiveUpItem, Restart, LoadMask, Growth, Goto, Removing, Removals
  <2>3. accessor[t] # Nil => frame'[t].write = frame[t].write
    <3>1. CASE StageKept(t)
      BY <3>1 DEF StageKept
    <3>2. CASE NotFoundToInsert(t)
      <4>1. frame'[t] = frame[t] \/ frame'[t] = [frame[t] EXCEPT !.tmp_n = NewNode]
        BY <1>1, <3>2 DEF NotFoundToInsert
      <4> QED
        BY <1>1, <4>1 DEF Frame
    <3>3. CASE LinkNode(t)
      BY <1>1, <3>3 DEF LinkNode, Frame
    <3>4. CASE ClaimSegment(t)
      BY <1>1, <3>4 DEF ClaimSegment, Frame
    <3>5. CASE Growth(t)
      BY <1>1, <3>5 DEF Growth, NoFrame
    <3>6. pc[t] \notin {"idle", "using", "missed", "gone", "delete"}
      BY <1>4 DEF Lookup, Found, FoundAfterUpgrade, FindInBucket, NotFound,
         NotFoundToInsert, Upgrade, ReleaseToUpgrade, Reacquire, NotFoundAfterUpgrade, MaskKept,
         MaskChanged, NoCollision, Collision, LinkNode, ClaimSegment, TryItem,
         GiveUpItem, Restart, LoadMask, Growth, Goto
    <3> QED
      BY <3>1, <3>2, <3>3, <3>4, <3>5, <3>6, StageMoves, Zenon DEF LocksItem, CallLookup, CallErase,
         LoadMask, ReturnMissed, Goto
  <2> QED
    BY <2>1, <2>2, <2>3
<1>5. CASE Exclude(t)
  <2>1. CASE Unlink(t)
    BY <1>1, <2>1 DEF Unlink, Goto, Removing, Removals
  <2>2. CASE NotThere(t)
    BY <1>1, <2>2 DEF NotThere, Goto, Removing, Removals, locks
  <2> QED
    BY <1>5, <2>1, <2>2 DEF Exclude, LocksItem
<1> QED
  BY <1>2, <1>3, <1>4, <1>5 DEF Step

\* What a step that locks an item does to the locks of its own thread.
LEMMA ItemLocked ==
  ASSUME MapInv, NEW t \in Thread, Step(t), LocksItem(t)
  PROVE  /\ \A n \in Node : Holds(node_mutex'[n], t) => accessor'[t] = n
         /\ accessor'[t] # Nil /\ ~Removing(t)' =>
               IF frame'[t].write THEN node_mutex'[accessor'[t]].writer = t
                                  ELSE t \in node_mutex'[accessor'[t]].readers
         /\ pc'[t] # "item_upgrade" /\ pc'[t] \notin {"claim", "item"}
         /\ pc'[t] = "delete" => node_mutex'[accessor'[t]].writer = t
<1>1. /\ pc \in [Thread -> PC] /\ accessor \in [Thread -> Node \cup {Nil}]
      /\ node_mutex \in [Node -> Lock] /\ \A n \in Node : Exclusive(node_mutex[n])
      /\ \A n \in Node : Holds(node_mutex[n], t) => accessor[t] = n
      /\ frame[t].write \in BOOLEAN
  BY DEF MapInv, Types, NodeLocks, HoldsItems, Frame
<1>2. pc[t] \in {"using", "gone", "item_upgrade", "item_reacquire", "delete"}
        => accessor[t] \in Node
  BY NodeFacts DEF Removals
<1>3. ASSUME ReleaseAccessor(t, "using") \/ ReleaseAccessor(t, "gone") \/ DeleteNode(t)
      PROVE  /\ accessor'[t] = Nil /\ pc'[t] = "idle"
             /\ \A n \in Node : ~Holds(node_mutex'[n], t)
  <2>1. PICK a \in Node : a = accessor[t]
    BY <1>2, <1>3 DEF ReleaseAccessor, DeleteNode, Goto
  <2>2. PICK l \in Lock : l = node_mutex[a] /\ Exclusive(l)
    BY <1>1
  <2>3. accessor'[t] = Nil /\ pc'[t] = "idle"
    BY <1>1, <1>3 DEF ReleaseAccessor, DeleteNode, Goto
  <2>4. \/ node_mutex' = [node_mutex EXCEPT ![a] = Unlocked(l, t)]
        \/ node_mutex' = [node_mutex EXCEPT ![a] = Free]
    BY <1>3, <2>1, <2>2 DEF ReleaseAccessor, DeleteNode
  <2>5. ~Holds(Unlocked(l, t), t) /\ ~Holds(Free, t)
    BY <2>2, UnlockFacts, NilAssumption DEF Holds, Free
  <2> QED
    BY <1>1, <2>1, <2>3, <2>4, <2>5
<1>4. CASE TryItem(t)
  <2>1. PICK n \in Node, w \in BOOLEAN : n = frame[t].n /\ w = frame[t].write
    BY <1>1, <1>4, NodeFacts DEF TryItem, Goto
  <2>2. PICK l \in Lock : l = node_mutex[n] /\ Exclusive(l)
    BY <1>1
  <2>3. accessor[t] = Nil
    BY <1>4 DEF TryItem, Goto, MapInv, Stages, Stage, StageOp, StageAccessor
  <2>4. /\ node_mutex' = [node_mutex EXCEPT ![n] = Locked(l, t, w)]
        /\ accessor'[t] = n /\ pc'[t] = "growth" /\ frame' = frame /\ CanLock(l, w)
    BY <1>1, <1>4, <2>1, <2>2 DEF TryItem, Goto
  <2>5. /\ w => Locked(l, t, w).writer = t
        /\ ~w => t \in Locked(l, t, w).readers
    BY <2>2, <2>4, LockFacts
  <2>6. node_mutex'[n] = Locked(l, t, w) /\ \A o \in Node \ {n} : node_mutex'[o] = node_mutex[o]
    BY <1>1, <2>4
  <2> QED
    BY <1>1, <2>1, <2>3, <2>4, <2>5, <2>6, NilAssumption
<1>5. CASE UpgradeItem(t) \/ ReacquireItem(t)
  <2>1. PICK a \in Node : a = accessor[t]
    BY <1>2, <1>5 DEF UpgradeItem, ReacquireItem, Goto
  <2>2. /\ node_mutex' = [node_mutex EXCEPT ![a] = Writer(t)]
        /\ accessor'[t] = a /\ pc'[t] = "delete"
    BY <1>1, <1>5, <2>1 DEF UpgradeItem, ReacquireItem, Goto
  <2>3. Writer(t).writer = t
    BY DEF Writer, Free
  <2>4. node_mutex'[a] = Writer(t) /\ \A o \in Node \ {a} : node_mutex'[o] = node_mutex[o]
    BY <1>1, <2>2
  <2> QED
    BY <1>1, <2>1, <2>2, <2>3, <2>4 DEF Removing, Removals
<1>6. CASE ReleaseItem(t)
  <2>1. accessor'[t] = accessor[t] /\ pc'[t] = "item_reacquire"
    BY <1>1, <1>6 DEF ReleaseItem, Goto
  <2>2. PICK a \in Node : a = accessor[t]
    BY <1>2, <1>6 DEF ReleaseItem, Goto
  <2>3. PICK l \in Lock : l = node_mutex[a] /\ Exclusive(l)
    BY <1>1
  <2>4. node_mutex' = [node_mutex EXCEPT ![a] = Unlocked(l, t)]
    BY <1>6, <2>2, <2>3 DEF ReleaseItem
  <2>5. ~Holds(Unlocked(l, t), t)
    BY <2>3, UnlockFacts
  <2> QED
    BY <1>1, <2>1, <2>2, <2>4, <2>5 DEF Removing, Removals
<1> QED
  BY <1>3, <1>4, <1>5, <1>6 DEF LocksItem

LEMMA ItemLocksStep ==
  ASSUME MapInv, NEW t \in Thread, Step(t)
  PROVE  NodeLocks'
<1>1. /\ \A u \in Thread \ {t} : /\ pc'[u] = pc[u] /\ frame'[u] = frame[u]
                                 /\ accessor'[u] = accessor[u]
      /\ OwnKept(t) /\ NodeLocksKept(t)
  BY OthersStep, OwnStep, NodeLocksStep DEF Others
<1>2. \A u \in Thread : HoldsItems(u) /\ OwnNodes(u) /\ Stage(u)
  BY DEF MapInv, NodeLocks, Nodes, Stages
<1>3. \A u \in Thread : /\ accessor[u] = Nil \/ accessor[u] \in Node
                        /\ pc[u] = "item_upgrade" \/ pc[u] = "delete" => accessor[u] \in Node
                        /\ pc[u] \in {"claim", "item"} => frame[u].n \in Node
  BY NodeFacts DEF Removals
<1>4. \A n \in Node : Exclusive(node_mutex'[n])
  BY <1>1 DEF NodeLocksKept
<1>5. ASSUME NEW u \in Thread
      PROVE  /\ \A n \in Node : Holds(node_mutex'[n], u) => accessor'[u] = n
             /\ accessor'[u] # Nil /\ ~Removing(u)' =>
                   IF frame'[u].write THEN node_mutex'[accessor'[u]].writer = u
                                      ELSE u \in node_mutex'[accessor'[u]].readers
             /\ pc'[u] = "item_upgrade" => u \in node_mutex'[accessor'[u]].readers
             /\ pc'[u] = "delete" => node_mutex'[accessor'[u]].writer = u
  <2>1. CASE u # t
    <3>1. \A n \in Node : /\ node_mutex'[n].writer = u <=> node_mutex[n].writer = u
                          /\ u \in node_mutex'[n].readers <=> u \in node_mutex[n].readers
      BY <1>1, <2>1 DEF NodeLocksKept, SameForOthers
    <3>2. pc'[u] = pc[u] /\ frame'[u] = frame[u] /\ accessor'[u] = accessor[u]
      BY <1>1, <2>1
    <3>3. Removing(u)' <=> Removing(u)
      BY <3>2 DEF Removing
    <3>4. HoldsItems(u)
      BY <1>2
    <3> QED
      BY <1>3, <3>1, <3>2, <3>3, <3>4 DEF HoldsItems, Holds
  <2>2. CASE u = t /\ LocksItem(t)
    BY <2>2, ItemLocked
  <2>3. CASE u = t /\ ~LocksItem(t)
    <3>1. /\ node_mutex' = node_mutex /\ accessor'[t] = accessor[t] /\ ~Removing(t)
          /\ accessor[t] # Nil => frame'[t].write = frame[t].write
          /\ Removing(t)' => Unlink(t)
      BY <2>3, ItemKept
    <3>2. HoldsItems(t)
      BY <1>2
    <3>3. ASSUME Unlink(t)
          PROVE  /\ accessor[t] # Nil
                 /\ pc'[t] = IF node_mutex[accessor[t]].writer = t THEN "delete"
                             ELSE "item_upgrade"
      <4>1. frame[t].op = "exclude" /\ pc \in [Thread -> PC]
        BY <3>3 DEF Unlink, MapInv, Types
      <4> QED
        BY <1>2, <3>3, <4>1 DEF Unlink, Goto, Stage, StageAccessor
    <3>4. pc'[t] = "item_upgrade" \/ pc'[t] = "delete" => Unlink(t)
      BY <3>1 DEF Removing, Removals
    <3> QED
      BY <2>3, <3>1, <3>2, <3>3, <3>4 DEF HoldsItems
  <2> QED
    BY <2>1, <2>2, <2>3
<1>6. ASSUME NEW u \in Thread, pc'[u] \in {"claim", "item"}, frame'[u].new,
             NEW v \in Thread
      PROVE  accessor'[v] # frame'[u].n
  <2>1. CASE u # t
    <3>1. pc[u] \in {"claim", "item"} /\ frame[u].new /\ frame'[u].n = frame[u].n
          /\ frame[u].n \in Node /\ accessor[v] # frame[u].n
      BY <1>1, <1>2, <1>3, <1>6, <2>1 DEF HoldsItems
    <3>2. TryItem(t) => frame[t].n # frame[u].n
      BY <2>1, <3>1, NewItemAlone DEF TryItem, Goto
    <3>3. \/ accessor'[v] = accessor[v] \/ accessor'[v] = Nil
          \/ TryItem(t) /\ accessor'[v] = frame[t].n
      BY <1>1 DEF OwnKept
    <3> QED
      BY <3>1, <3>2, <3>3, NilAssumption
  <2>2. CASE u = t
    <3>1. /\ Found(t) \/ FoundAfterUpgrade(t) \/ LinkNode(t) \/ ClaimSegment(t)
          /\ frame \in [Thread -> Frame]
      BY <1>1, <1>6, <2>2 DEF OwnKept, MapInv, Types
    <3>2. accessor' = accessor
      BY <3>1 DEF Found, FoundAfterUpgrade, FindInBucket, LinkNode, ClaimSegment
    <3>3. CASE Found(t) \/ FoundAfterUpgrade(t)
      <4>1. PICK n : n = CHOOSE o \in Matching(t) : TRUE
        OBVIOUS
      <4>2. frame' = [frame EXCEPT ![t].n = n] /\ pc[t] \in {"search", "again"}
        BY <3>3, <4>1 DEF Found, FoundAfterUpgrade, FindInBucket, Goto
      <4>3. frame'[t].new = frame[t].new
        BY <3>1, <4>2 DEF Frame
      <4> QED
        BY <1>2, <1>6, <2>2, <4>2, <4>3 DEF Stage, StageNew
    <3>4. CASE LinkNode(t)
      <4>1. frame'[t].n = frame[t].tmp_n
        BY <3>1, <3>4 DEF LinkNode, Frame
      <4>2. frame[t].tmp_n # Nil
        BY <3>4, LinkNodeLists, NilAssumption
      <4> QED
        BY <1>2, <2>2, <3>2, <4>1, <4>2 DEF OwnNodes
    <3>5. CASE ClaimSegment(t)
      <4>1. /\ frame'[t].n = frame[t].n /\ frame'[t].new = frame[t].new
            /\ pc[t] = "claim"
        BY <3>1, <3>5 DEF ClaimSegment, Frame, Goto
      <4> QED
        BY <1>2, <1>6, <2>2, <3>2, <4>1 DEF HoldsItems
    <3> QED
      BY <3>1, <3>3, <3>4, <3>5
  <2> QED
    BY <2>1, <2>2
<1>7. ASSUME NEW u \in Thread PROVE HoldsItems(u)'
  BY <1>5, <1>6 DEF HoldsItems
<1> QED
  BY <1>4, <1>7 DEF NodeLocks

(***************************************************************************)
(* The searches that found nothing.                                        *)
(***************************************************************************)
\* The steps of a search that found nothing change no chain.
LEMMA MissStep ==
  ASSUME MapInv, NEW t \in Thread, Step(t), Missed(t)'
  PROVE  /\ Matching(t) = {} /\ node_list' = node_list
         /\ pc[t] \in InBucket /\ PathKept(t) /\ frame'[t].op = frame[t].op
         /\ pc'[t] = "link" => MaskKept(t) \/ NoCollision(t)
         /\ ~MoveNone(t) /\ ~MoveItems(t)
<1>1. /\ pc \in [Thread -> PC] /\ frame \in [Thread -> Frame] /\ frame[t] \in Frame
      /\ Search(t)
  BY DEF MapInv, Types, Searches
<1>2. \/ NotFound(t) \/ NotFoundToInsert(t) \/ Upgrade(t, "upgrade", "race")
      \/ NotFoundAfterUpgrade(t) \/ NotThere(t)
      \/ MaskChanged(t) \/ MaskKept(t) \/ NoCollision(t)
  BY <1>1, Zenon DEF Step, Begin, CallLookup, CallErase, ReleaseAccessor, ReturnMissed,
     LoadMask, Rehash, SeeFlag, TryBucket, FailToTryBucket, SeeRehashed, MarkRehashed,
     AcquireBucket, MoveNone, MoveItems, LeaveParent, NeedWriter, Upgrade, ReleaseToUpgrade,
     Reacquire, Lookup, Found, FoundAfterUpgrade, FindInBucket, Collision, LinkNode,
     ClaimSegment, TryItem, GiveUpItem, Restart, Growth, Exclude, Unlink, UpgradeItem, ReleaseItem,
     ReacquireItem, DeleteNode, Goto, Entered, Missed
<1>3. node_list' = node_list /\ ~MoveNone(t) /\ ~MoveItems(t)
  BY <1>2 DEF NotFound, NotFoundToInsert, Upgrade, NotFoundAfterUpgrade, NotThere,
     MaskChanged, MaskKept, NoCollision, Absent, items, MoveNone, MoveItems, Goto
<1>4. frame'[t].op = frame[t].op
  <2>1. CASE NotFoundToInsert(t)
    <3>1. frame'[t] = frame[t] \/ frame'[t] = [frame[t] EXCEPT !.tmp_n = NewNode]
      BY <1>1, <2>1 DEF NotFoundToInsert
    <3> QED
      BY <1>1, <3>1 DEF Frame
  <2>2. CASE MaskChanged(t)
    BY <1>1, <2>2 DEF MaskChanged, Frame
  <2>3. CASE MaskKept(t)
    BY <1>1, <2>3 DEF MaskKept, Frame
  <2> QED
    BY <1>2, <2>1, <2>2, <2>3 DEF NotFound, Upgrade, NotFoundAfterUpgrade, NotThere, NoCollision
<1>5. pc[t] \in {"search", "upgrade", "again", "race", "collision"}
  BY <1>2 DEF NotFound, NotFoundToInsert, Upgrade, NotFoundAfterUpgrade, NotThere,
     MaskChanged, MaskKept, NoCollision, Goto
<1>6. PathKept(t)
  <2>1. pc'[t] \in {"upgrade", "link", "race", "collision"}
    BY DEF Missed
  <2>2. ~MarkRehashed(t)
    BY <1>5 DEF MarkRehashed, Goto
  <2> QED
    BY <1>3, <2>1, <2>2, PathMoves DEF PathBegun, PathEnded
<1>7. Matching(t) = {}
  <2>1. NotThere(t) => FALSE
    BY <1>1, <1>4 DEF NotThere, Goto, Missed
  <2>2. MaskChanged(t) \/ MaskKept(t) \/ NoCollision(t) => Missed(t)
    BY <1>1, <1>4 DEF MaskChanged, MaskKept, NoCollision, Absent, Goto, Missed
  <2>3. Upgrade(t, "upgrade", "race") => Missed(t)
    BY DEF Upgrade, Goto, Missed
  <2> QED
    BY <1>1, <1>2, <2>1, <2>2, <2>3 DEF Search, NotFound, NotFoundToInsert,
       NotFoundAfterUpgrade
<1>8. pc'[t] = "link" => MaskKept(t) \/ NoCollision(t)
  BY <1>1, <1>2 DEF NotFound, NotFoundToInsert, Upgrade, NotFoundAfterUpgrade, NotThere,
     MaskChanged, Goto
<1> QED
  BY <1>3, <1>4, <1>5, <1>6, <1>7, <1>8 DEF InBucket, Searching

\* Where the last filled bucket is, when the mask was read under the lock of
\* the bucket, or the next bucket was not rehashed.
LEMMA MissedLast ==
  ASSUME MapInv, NEW t \in Thread, MaskKept(t) \/ NoCollision(t)
  PROVE  LastFilled(MyBucket(t), MyHash(t))
<1>1. pc[t] \in {"race", "collision"} /\ pc[t] \in InBucket /\ (MaskKept(t) => pc[t] = "race")
      /\ (NoCollision(t) => pc[t] = "collision")
  BY DEF MaskKept, NoCollision, InBucket, Searching
<1>2. PICK h \in Bucket, b \in Bucket :
          h = MyHash(t) /\ b = MyBucket(t) /\ b \in Line(h)
  BY <1>1, PathFacts
<1>3. /\ my_mask \in Nat /\ my_mask + 1 \in Pow \ {1} /\ rehashed \subseteq 0 .. my_mask
      /\ Masks(t)
  BY DEF MapInv, Types, AllMasks
<1>4. CASE MaskKept(t)
  <2>1. b = Masked(h, my_mask)
    BY <1>1, <1>2, <1>3, <1>4 DEF MaskKept, Masks, Searching
  <2>2. \A c \in Line(h) : c \in rehashed => c <= b
    BY <1>2, <1>3, <2>1, MaskedFacts
  <2> QED
    BY <1>2, <2>2 DEF LastFilled, Filled
<1>5. CASE NoCollision(t)
  <2>1. PICK d \in Bucket : d = frame[t].collision /\ d \in Line(h) /\ d > b
    BY <1>1, <1>2, <1>3, <1>5, LineMembers DEF Masks
  <2>2. \A c \in Line(h) : c > b => c >= d
    BY <1>1, <1>2, <1>3, <1>5, <2>1 DEF Masks
  <2>3. d \notin rehashed
    BY <1>5, <2>1 DEF NoCollision
  <2>4. ASSUME NEW c \in Line(h), Filled(c) PROVE c <= b
    <3>1. SUFFICES ASSUME c > b PROVE FALSE
      BY <1>2, LineMembers, BucketNumbers
    <3>2. c \in Bucket /\ d <= c
      BY <1>2, <2>2, <3>1, LineMembers
    <3>3. d \in Line(c)
      BY <2>1, <3>2, LineOrdered
    <3> QED
      BY <2>3, <2>4, <3>2, <3>3, FilledLine DEF Filled
  <2> QED
    BY <1>2, <2>4 DEF LastFilled
<1> QED
  BY <1>4, <1>5

LEMMA SearchesStep ==
  ASSUME MapInv, NEW t \in Thread, Step(t)
  PROVE  Searches'
<1>1. \A u \in Thread \ {t} : pc'[u] = pc[u] /\ frame'[u] = frame[u]
  BY OthersStep DEF Others
<1>2. \A c : Filled(c)' <=> Filled(c) \/ Fills(t, c)
  BY FilledStep
<1>3. \A n \in Linked : key'[n] = key[n]
  BY KeyStep
<1>4. \A b \in Bucket : node_list[b] \subseteq Linked
  BY LinkedFacts
<1>5. ASSUME NEW u \in Thread, u # t PROVE Search(u)'
  <2>1. Search(u) /\ (Missed(u)' <=> Missed(u))
    BY <1>1, <1>5 DEF MapInv, Searches, Missed
  <2>2. ASSUME Missed(u) PROVE Matching(u)' = {}
    <3>1. Inside(u) /\ pc[u] \in InBucket
      BY <2>2 DEF Missed, Inside, InBucket, Searching
    <3>2. PICK b \in Bucket : b = MyBucket(u) /\ b = Top(u)
      BY <3>1, PathFacts
    <3>3. node_list'[b] = node_list[b]
      BY <1>5, <3>1, <3>2, ChainKept
    <3>4. MyBucket(u)' = b /\ frame'[u].key = frame[u].key
      BY <1>1, <1>5, <3>2 DEF MyBucket
    <3> QED
      BY <1>3, <1>4, <2>1, <2>2, <3>2, <3>3, <3>4 DEF Search, Matching
  <2>3. ASSUME pc[u] = "link" PROVE LastFilled(MyBucket(u), MyHash(u))'
    <3>1. Inside(u) /\ pc[u] \in InBucket
      BY <2>3 DEF Inside, InBucket
    <3>2. PICK h \in Bucket, b \in Bucket : h = MyHash(u) /\ b = MyBucket(u) /\ b = Top(u)
      BY <3>1, PathFacts
    <3>3. LastFilled(b, h) /\ Filled(b)
      BY <2>1, <2>3, <3>1, <3>2, InsideFacts DEF Search
    <3>4. ASSUME NEW d \in Line(h), Fills(t, d) PROVE d <= b
      <4>1. SUFFICES ASSUME b < d PROVE FALSE
        BY LineMembers, BucketNumbers
      <4>2. pc[t] = "move" /\ d = Child(t)
        BY <3>4 DEF Fills, MoveNone, MoveItems
      <4>3. b = Top(t)
        BY <3>3, <3>4, <4>1, <4>2, BelowChild
      <4>4. bucket_mutex[b].writer = u
        BY <2>3, <3>2 DEF MapInv, BucketLocks, HoldsBuckets, NeedsBucket
      <4>5. Inside(t)
        BY <4>2 DEF Inside
      <4> QED
        BY <1>5, <4>3, <4>4, <4>5, WriterAlone
    <3>5. \A c \in Line(h) : Filled(c)' => c <= b
      BY <1>2, <3>3, <3>4 DEF LastFilled
    <3>6. MyBucket(u)' = b /\ MyHash(u)' = h
      BY <1>1, <1>5, <3>2 DEF MyBucket, MyHash
    <3> QED
      BY <3>3, <3>5, <3>6 DEF LastFilled
  <2> QED
    BY <1>1, <1>5, <2>1, <2>2, <2>3 DEF Search
<1>6. Search(t)'
  <2>1. ASSUME Missed(t)' PROVE Matching(t)' = {}
    <3>1. /\ Matching(t) = {} /\ node_list' = node_list /\ PathKept(t)
          /\ pc[t] \in InBucket
      BY <2>1, MissStep
    <3>2. PICK b \in Bucket : b = MyBucket(t)
      BY <3>1, PathFacts
    <3>3. MyBucket(t)' = b /\ frame'[t].key = frame[t].key
      BY <3>1, <3>2 DEF MyBucket, PathKept
    <3> QED
      BY <1>3, <1>4, <3>1, <3>2, <3>3 DEF Matching
  <2>2. ASSUME pc'[t] = "link" PROVE LastFilled(MyBucket(t), MyHash(t))'
    <3>1. /\ MaskKept(t) \/ NoCollision(t)
          /\ PathKept(t) /\ ~MoveNone(t) /\ ~MoveItems(t)
      BY <2>2, MissStep DEF Missed
    <3>2. PICK h, b : h = MyHash(t) /\ b = MyBucket(t)
      OBVIOUS
    <3>3. LastFilled(b, h)
      BY <3>1, <3>2, MissedLast
    <3>4. MyBucket(t)' = b /\ MyHash(t)' = h
      BY <3>1, <3>2 DEF MyBucket, MyHash, PathKept
    <3>5. \A c : Filled(c)' <=> Filled(c)
      BY <1>2, <3>1 DEF Fills
    <3> QED
      BY <3>3, <3>4, <3>5 DEF LastFilled
  <2> QED
    BY <2>1, <2>2 DEF Search
<1> QED
  BY <1>5, <1>6 DEF Searches

(***************************************************************************)
(* The theorems.                                                           *)
(***************************************************************************)
LEMMA MapInit ==
  ASSUME Init
  PROVE  MapInv
<1>1. 0 \in Bucket /\ 1 \in Bucket /\ Pow \subseteq Nat \ {0} /\ 2 \in Pow \ {1}
  BY Powers, BucketFacts
<1>2. \A t \in Thread : frame[t] = NoFrame /\ pc[t] = "idle" /\ accessor[t] = Nil
  BY DEF Init
<1>3. NoFrame \in Frame /\ NoFrame.path = << >> /\ Free \in Lock
  BY DEF NoFrame, Frame, Free, Lock
<1>4. Linked = {}
  BY DEF Init, Linked
<1>5. Types
  BY <1>1, <1>3, CallsAssumption DEF Init, Types, PC
<1>6. Stages
  <2>1. SUFFICES ASSUME NEW t \in Thread PROVE Stage(t)
    BY DEF Stages
  <2>2. /\ frame[t].op = "none" /\ frame[t].write = FALSE /\ frame[t].tmp_n = Nil
        /\ frame[t].new = FALSE /\ frame[t].grow = FALSE
    BY <1>2 DEF NoFrame
  <2>3. StageOp(t)
    BY <1>2, <2>2 DEF StageOp, Rehashing, Moving, InBucket, Searching, Removals
  <2>4. StageAccessor(t) /\ StageNode(t) /\ StageNew(t)
    BY <1>2, <2>2 DEF StageAccessor, StageNode, StageNew
  <2> QED
    BY <2>3, <2>4 DEF Stage
<1>7. \A t \in Thread : \A c : ~Pending(t, c)
  BY <1>2, <1>3, EmptyPath DEF Pending
<1>8. Paths
  <2>1. Descends(<< >>)
    BY EmptyPath DEF Descends
  <2> QED
    BY <1>2, <1>3, <2>1 DEF Paths, Path, Rehashing, Moving, InBucket, Searching, After, Removals
<1>9. BucketLocks
  <2>1. \A c \in Bucket : bucket_mutex[c] = Free
    BY DEF Init
  <2> QED
    BY <1>2, <1>7, <2>1, NilAssumption DEF BucketLocks, HoldsBuckets, Exclusive, Free, Inside,
       NeedsBucket
<1>10. AllMarked
  BY <1>2, <1>7 DEF AllMarked, Marked, Moving, InBucket, Searching
<1>11. AllMasks
  BY <1>2 DEF Init, AllMasks, Masks, NoFrame, Rehashing, Moving, Searching
<1>12. Buckets
  <2>1. \A c : Filled(c) <=> c \in {0, 1}
    BY <1>7 DEF Init, Filled
  <2>2. \A b \in Bucket : Filled(b) => \A c \in Line(b) : Filled(c)
    <3>1. SUFFICES ASSUME NEW b \in {0, 1}, NEW c \in Line(b) PROVE c \in {0, 1}
      BY <2>1
    <3>2. c \in Nat /\ c <= b
      BY <1>1, LineMembers, BucketNumbers
    <3> QED
      BY <3>2
  <2>3. \A b \in Bucket : node_list[b] = {}
    BY DEF Init
  <2> QED
    BY <2>1, <2>2, <2>3 DEF Buckets
<1>13. Nodes
  BY <1>2 DEF Nodes, OwnNodes, NoFrame, Removing, Removals
<1>14. Sizes
  BY <1>4, FS_EmptySet DEF Sizes, Init
<1>15. NodeLocks
  <2>1. \A n \in Node : node_mutex[n] = Free
    BY DEF Init
  <2> QED
    BY <1>2, <2>1, NilAssumption DEF NodeLocks, HoldsItems, Exclusive, Holds, Free
<1>16. Searches
  BY <1>2 DEF Searches, Search, Missed
<1> QED
  BY <1>5, <1>6, <1>8, <1>9, <1>10, <1>11, <1>12, <1>13, <1>14, <1>15, <1>16 DEF MapInv

LEMMA MapStep ==
  ASSUME MapInv, [Next]_vars
  PROVE  MapInv'
<1>1. CASE UNCHANGED vars
  <2> USE <1>1 DEF vars, table, items, locks
  <2>1. Types'
    BY DEF MapInv, Types
  <2>2. Stages'
    BY DEF MapInv, Stages, Stage, StageOp, StageAccessor, StageNode, StageNew
  <2>3. Paths'
    BY DEF MapInv, Paths, Path, MyBucket, MyHash
  <2>4. BucketLocks'
    BY DEF MapInv, BucketLocks, HoldsBuckets, Inside, NeedsBucket, Top, Pending
  <2>5. AllMarked'
    BY DEF MapInv, AllMarked, Marked, Top, Pending
  <2>6. AllMasks'
    BY DEF MapInv, AllMasks, Masks, MyBucket, MyHash
  <2>7. \A c : Filled(c)' <=> Filled(c)
    BY DEF Filled, Pending
  <2>8. Buckets'
    BY <2>7 DEF MapInv, Buckets, LastFilled, HashOf
  <2>9. Linked' = Linked
    BY DEF Linked
  <2>10. Nodes'
    BY <2>9 DEF MapInv, Nodes, OwnNodes, MyBucket, Removing
  <2>11. Sizes'
    BY <2>9 DEF MapInv, Sizes
  <2>12. NodeLocks'
    BY DEF MapInv, NodeLocks, HoldsItems, Removing
  <2>13. Searches'
    BY <2>7 DEF MapInv, Searches, Search, Missed, Matching, LastFilled, MyBucket, MyHash
  <2> QED
    BY <2>1, <2>2, <2>3, <2>4, <2>5, <2>6, <2>8, <2>10, <2>11, <2>12, <2>13 DEF MapInv
<1>2. ASSUME NEW t \in Thread, Step(t) PROVE MapInv'
  BY <1>2, TypesStep, StagesStep, PathsStep, HoldsStep, MarkedStep, MasksStep, BucketsStep,
     NodesStep, SizesStep, ItemLocksStep, SearchesStep DEF MapInv
<1> QED
  BY <1>1, <1>2 DEF Next, Done, Step

\* The invariant holds in every reachable state.
THEOREM MapInvariant == Spec => []MapInv
<1>1. Init => MapInv
  BY MapInit
<1>2. MapInv /\ [Next]_vars => MapInv'
  BY MapStep
<1> QED
  BY <1>1, <1>2, PTL DEF Spec

\* What the source asserts or says at its steps: a thread that looks into a
\* bucket holds its lock and finds it rehashed (bucket_accessor::acquire,
\* search_bucket); who fills a bucket is the only one that does, and owns it as
\* its writer, and no item in the parent is off its line (rehash_bucket); an
\* item is linked and unlinked by the only thread in its bucket (lookup,
\* exclude); a new item is free ("Can't acquire new item in locked bucket?");
\* an item is deleted by the last thread that knows of it ("Only one thread can
\* delete it"); and a segment is enabled by one thread, after the one before it
\* (insert_new_node, enable_segment).
THEOREM Assertions == Spec => []AssertionsHold
<1>1. MapInv => AssertionsHold
  <2> SUFFICES ASSUME MapInv PROVE AssertionsHold
    OBVIOUS
  <2>1. TypeOK
    <3>1. my_size \in 0 .. Cardinality(Key)
      BY SizeFacts, FS_CardinalityType, CapacityAssumption
    <3>2. my_table \subseteq {p - 1 : p \in Pow}
      <4>1. SUFFICES ASSUME NEW m \in my_table PROVE \E p \in Pow : m = p - 1
        OBVIOUS
      <4>2. m \in Nat /\ m + 1 \in Pow
        BY DEF MapInv, Types
      <4>3. m = (m + 1) - 1
        BY <4>2
      <4> QED
        BY <4>2, <4>3
    <3> QED
      BY <3>1, <3>2 DEF MapInv, Types, TypeOK
  <2>2. BucketReady
    BY InsideFacts DEF BucketReady, Filled, Holds
  <2>3. FilledByOne
    <3>1. ASSUME NEW t \in Thread, NEW c \in Bucket, Pending(t, c)
          PROVE  /\ c >= 2 /\ c \in rehashed /\ bucket_mutex[c] = Writer(t)
                 /\ \A u \in Thread : Pending(u, c) => u = t
      <4>1. c >= 2 /\ c \in rehashed
        BY <3>1, PathFacts DEF MapInv, AllMarked, Marked
      <4>2. \A u \in Thread : Pending(u, c) => bucket_mutex[c].writer = u
        BY DEF MapInv, BucketLocks, HoldsBuckets
      <4>3. bucket_mutex[c] = Writer(t)
        BY <3>1, <4>2, OwnerAlone DEF MapInv, Types, BucketLocks
      <4> QED
        BY <3>1, <4>1, <4>2, <4>3
    <3>2. ASSUME NEW t \in Thread, pc[t] = "move", NEW n \in node_list[Top(t)]
          PROVE  Top(t) \in Line(HashOf(n))
      <4>1. Top(t) \in Bucket
        BY <3>2, InsideFacts DEF Inside
      <4> QED
        BY <3>2, <4>1 DEF MapInv, Buckets, LastFilled
    <3> QED
      BY <3>1, <3>2 DEF FilledByOne
  <2>4. ChangedByOne
    <3>1. SUFFICES ASSUME NEW t \in Thread,
                          pc[t] = "link" \/ (pc[t] = "search" /\ frame[t].op = "exclude")
                   PROVE  /\ bucket_mutex[MyBucket(t)] = Writer(t)
                          /\ \A u \in Thread : Inside(u) /\ Top(u) = MyBucket(t) => u = t
      BY DEF ChangedByOne
    <3>2. Inside(t) /\ MyBucket(t) = Top(t) /\ Top(t) \in Bucket
      BY <3>1, PathFacts DEF Inside, InBucket, Searching
    <3>3. bucket_mutex[Top(t)].writer = t
      BY <3>1 DEF MapInv, BucketLocks, HoldsBuckets, NeedsBucket
    <3>4. bucket_mutex[Top(t)] = Writer(t)
      BY <3>2, <3>3, OwnerAlone DEF MapInv, Types, BucketLocks
    <3> QED
      BY <3>2, <3>3, <3>4, WriterAlone
  <2>5. NewItemFree
    BY NewItemAlone DEF NewItemFree
  <2>6. DeletedByOne
    <3>1. SUFFICES ASSUME NEW t \in Thread, pc[t] = "delete"
                   PROVE  /\ node_mutex[accessor[t]] = Writer(t)
                          /\ \A u \in Thread : accessor[u] = accessor[t] => u = t
      BY DEF DeletedByOne
    <3>2. /\ node_mutex[accessor[t]] \in Lock /\ Exclusive(node_mutex[accessor[t]])
          /\ node_mutex[accessor[t]].writer = t
      BY <3>1, NodeFacts DEF Removals, MapInv, NodeLocks, HoldsItems
    <3>3. node_mutex[accessor[t]] = Writer(t)
      BY <3>2, OwnerAlone
    <3> QED
      BY <3>1, <3>3, DeletedAlone
  <2>7. GrowsOnce
    <3>1. ASSUME NEW t \in Thread, pc[t] = "claim" PROVE frame[t].m <= my_mask
      <4>1. frame[t].m \in my_table \cup {my_mask} /\ my_mask \in Nat
        BY <3>1 DEF MapInv, AllMasks, Masks, Types
      <4> QED
        BY <4>1 DEF MapInv, AllMasks
    <3> QED
      BY <3>1 DEF MapInv, AllMasks, Masks, GrowsOnce
  <2> QED
    BY <2>1, <2>2, <2>3, <2>4, <2>5, <2>6, <2>7 DEF AssertionsHold
<1> QED
  BY <1>1, MapInvariant, PTL

\* However the table grows, an item is on the line of its hash, above no bucket
\* that was filled: the thread that reads the mask and rehashes down its line
\* meets the item or the thread that moves it.
THEOREM Placed == Spec => []ItemsPlaced
<1>1. MapInv => ItemsPlaced
  <2> SUFFICES ASSUME MapInv, NEW b \in Bucket, NEW n \in node_list[b]
               PROVE  /\ b \in Line(Home(HashOf(n)))
                      /\ \A c \in Line(Home(HashOf(n))) \ Line(b) : c \in rehashed =>
                            \E t \in Thread : bucket_mutex[c].writer = t /\ Pending(t, c)
    BY DEF ItemsPlaced
  <2>1. PICK h \in Bucket : h = HashOf(n)
    BY LinkedFacts
  <2>2. Filled(b) /\ b \in Line(h) /\ \A c \in Line(h) : Filled(c) => c <= b
    BY <2>1 DEF MapInv, Buckets, LastFilled
  <2>3. /\ my_mask \in Nat /\ my_mask + 1 \in Pow \ {1} /\ rehashed \subseteq 0 .. my_mask
    BY DEF MapInv, Types
  <2>4. PICK home \in Bucket : home = Home(h) /\ home \in Line(h)
    BY <2>3, MaskedFacts DEF Home
  <2>5. b \in Line(home)
    BY <2>2, <2>3, <2>4, MaskedFacts DEF Home, Filled
  <2>6. ASSUME NEW c \in Line(home), c \notin Line(b), c \in rehashed
        PROVE  \E t \in Thread : bucket_mutex[c].writer = t /\ Pending(t, c)
    <3>1. c \in Line(h) /\ c \in Bucket
      BY <2>4, <2>6, LineTransitive, LineMembers
    <3>2. ~Filled(c)
      BY <2>2, <2>6, <3>1, LineOrdered
    <3>3. PICK t \in Thread : Pending(t, c)
      BY <2>6, <3>2 DEF Filled
    <3> QED
      BY <3>1, <3>3 DEF MapInv, BucketLocks, HoldsBuckets
  <2> QED
    BY <2>1, <2>4, <2>5, <2>6
<1> QED
  BY <1>1, MapInvariant, PTL

\* No two insertions put the same key into the map, no item is in two chains,
\* and my_size is the number of items.
THEOREM Unique == Spec => []OneItemPerKey
<1>1. MapInv => OneItemPerKey
  BY LinkedFacts DEF OneItemPerKey, MapInv, Sizes
<1> QED
  BY <1>1, MapInvariant, PTL

\* No thread holds or is about to hold an item that was deleted.
THEOREM Alive == Spec => []ItemsAlive
<1>1. MapInv => ItemsAlive
  <2> SUFFICES ASSUME MapInv PROVE ItemsAlive
    OBVIOUS
  <2>1. \A n \in Linked : key[n] # Nil
    BY LinkedFacts, NilAssumption
  <2>2. \A t \in Thread : pc[t] = "item" => frame[t].n \in Linked
    BY NodeFacts
  <2> QED
    BY <2>1, <2>2 DEF ItemsAlive, MapInv, Nodes, OwnNodes
<1> QED
  BY <1>1, MapInvariant, PTL

(***************************************************************************)
(* The map implements ItemMap: an insertion is Insert when it links its    *)
(* item, a lookup is Find when it locks the item and Miss when nothing can *)
(* have been missed any more, a removal is Remove when it unlinks the item *)
(* and Release when it deletes it.  No other step is seen.                 *)
(***************************************************************************)
ItemIn(L, keys) == [k \in Key |-> IF \E n \in L : keys[n] = k
                                  THEN CHOOSE n \in L : keys[n] = k ELSE Nil]

MapOf      == ItemIn(Linked, key)
AccessorOf == [t \in Thread |-> Accessor(t)]
WritesOf   == [t \in Thread |-> Accessor(t) # Nil /\ frame[t].write]
MissedOf   == [t \in Thread |-> IF pc[t] = "missed" THEN frame[t].key ELSE Nil]

LEMMA ItemInFacts ==
  ASSUME NEW L, NEW keys, \A n, o \in L : keys[n] = keys[o] => n = o, NEW k \in Key
  PROVE  /\ \A n \in L : keys[n] = k => ItemIn(L, keys)[k] = n
         /\ (\A n \in L : keys[n] # k) => ItemIn(L, keys)[k] = Nil
<1>1. ASSUME NEW n \in L, keys[n] = k PROVE ItemIn(L, keys)[k] = n
  <2>1. PICK x : x = CHOOSE o \in L : keys[o] = k
    OBVIOUS
  <2>2. x \in L /\ keys[x] = k
    BY <1>1, <2>1
  <2>3. ItemIn(L, keys)[k] = x
    BY <1>1, <2>1 DEF ItemIn
  <2> QED
    BY <1>1, <2>2, <2>3
<1>2. (\A n \in L : keys[n] # k) => ItemIn(L, keys)[k] = Nil
  BY DEF ItemIn
<1> QED
  BY <1>1, <1>2

LEMMA MapOfFacts ==
  ASSUME MapInv, NEW k \in Key
  PROVE  /\ \A n \in Linked : key[n] = k => MapOf[k] = n
         /\ (\A n \in Linked : key[n] # k) => MapOf[k] = Nil
         /\ MapOf[k] = Nil \/ (MapOf[k] \in Linked /\ key[MapOf[k]] = k)
         /\ DOMAIN MapOf = Key
BY ItemInFacts DEF MapInv, Sizes, MapOf, ItemIn

\* The map changes where an item is linked or unlinked.
LEMMA MapOfStep ==
  ASSUME MapInv, NEW t \in Thread, Step(t)
  PROVE  /\ ~LinkNode(t) /\ ~Unlink(t) => MapOf' = MapOf
         /\ LinkNode(t) => MapOf' = [MapOf EXCEPT ![frame[t].key] = frame[t].tmp_n]
         /\ Unlink(t) => /\ MapOf[frame[t].key] = accessor[t]
                         /\ MapOf' = [MapOf EXCEPT ![frame[t].key] = Nil]
<1>1. PICK L, keys, M : L = Linked' /\ keys = key' /\ M = ItemIn(L, keys)
  OBVIOUS
<1>2. MapOf' = M /\ M \in [Key -> {M[k] : k \in Key}]
  BY <1>1 DEF MapOf, ItemIn
<1>3. MapOf \in [Key -> {MapOf[k] : k \in Key}]
  BY DEF MapOf, ItemIn
<1>4. \A n, o \in L : keys[n] = keys[o] => n = o
  BY <1>1, SizesStep DEF Sizes
<1>5. \A k \in Key : /\ \A n \in L : keys[n] = k => M[k] = n
                     /\ (\A n \in L : keys[n] # k) => M[k] = Nil
  BY <1>1, <1>4, ItemInFacts
<1>6. \A n \in Linked : keys[n] = key[n] /\ key[n] \in Key
  BY <1>1, KeyStep, LinkedFacts
<1>7. ASSUME NEW k \in Key, \A n \in Node : n \in L /\ keys[n] = k <=> n \in Linked /\ key[n] = k,
             L \subseteq Node
      PROVE  M[k] = MapOf[k]
  <2>1. Linked \subseteq Node
    BY LinkedFacts
  <2>2. CASE \E n \in Linked : key[n] = k
    BY <1>5, <1>7, <2>1, <2>2, MapOfFacts
  <2>3. CASE \A n \in Linked : key[n] # k
    BY <1>5, <1>7, <2>1, <2>3, MapOfFacts
  <2> QED
    BY <2>2, <2>3
<1>8. L \subseteq Node
  BY <1>1, LinkedFacts, LinkedStep, LinkNodeLists, UnlinkLists
<1>9. ASSUME ~LinkNode(t), ~Unlink(t) PROVE MapOf' = MapOf
  <2>1. L = Linked
    BY <1>1, <1>9, LinkedStep
  <2>2. \A k \in Key : M[k] = MapOf[k]
    BY <1>6, <1>7, <1>8, <2>1
  <2> QED
    BY <1>2, <1>3, <2>2
<1>10. ASSUME LinkNode(t) PROVE MapOf' = [MapOf EXCEPT ![frame[t].key] = frame[t].tmp_n]
  <2>1. PICK n \in Node, x \in Key : n = frame[t].tmp_n /\ x = frame[t].key
    BY <1>10, LinkNodeLists, PathFacts, Zenon DEF LinkNode, Goto
  <2>2. L = Linked \cup {n} /\ n \notin Linked /\ key[n] = x /\ keys = key
    BY <1>1, <1>10, <2>1, LinkNodeLists, Zenon DEF LinkNode
  <2>3. M[x] = n
    BY <1>5, <2>2
  <2>4. \A k \in Key \ {x} : M[k] = MapOf[k]
    BY <1>6, <1>7, <1>8, <2>2
  <2> QED
    BY <1>2, <1>3, <2>1, <2>3, <2>4
<1>11. ASSUME Unlink(t)
       PROVE  /\ MapOf[frame[t].key] = accessor[t]
              /\ MapOf' = [MapOf EXCEPT ![frame[t].key] = Nil]
  <2>1. PICK n \in Linked, x \in Key : n = accessor[t] /\ x = frame[t].key
    BY <1>11, UnlinkLists, PathFacts DEF Unlink, Goto
  <2>2. L = Linked \ {n} /\ keys = key
    BY <1>1, <1>11, <2>1, UnlinkLists DEF Unlink
  <2>3. key[n] = x
    BY <1>11, <2>1, NodeFacts, NilAssumption DEF Unlink, MapInv, Nodes, OwnNodes
  <2>4. MapOf[x] = n
    BY <2>3, MapOfFacts
  <2>5. \A o \in L : keys[o] # x
    BY <2>1, <2>2, <2>3 DEF MapInv, Sizes
  <2>6. M[x] = Nil
    BY <1>5, <2>5
  <2>7. \A k \in Key \ {x} : M[k] = MapOf[k]
    BY <1>6, <1>7, <1>8, <2>2, <2>3
  <2> QED
    BY <1>2, <1>3, <2>1, <2>4, <2>6, <2>7
<1> QED
  BY <1>9, <1>10, <1>11

\* The steps that show, or leave, an item that its thread has just linked, and
\* those of a call that reports a missing key.
LEMMA NewHereStep ==
  ASSUME MapInv, NEW t \in Thread, Step(t)
  PROVE  /\ NewHere(t) => ClaimSegment(t) \/ TryItem(t)
         /\ NewHere(t)' => LinkNode(t) \/ ClaimSegment(t)
         /\ pc'[t] = "missed" => /\ MaskKept(t) \/ NoCollision(t)
                                 /\ frame[t].op = "find" /\ frame'[t].key = frame[t].key
         /\ pc[t] = "missed" => ReturnMissed(t)
<1>1. /\ pc \in [Thread -> PC] /\ frame \in [Thread -> Frame] /\ frame[t] \in Frame
      /\ Stage(t)
  BY DEF MapInv, Types, Stages
<1>2. ASSUME NewHere(t) PROVE ClaimSegment(t) \/ TryItem(t)
  <2>1. pc[t] \in {"claim", "item"} /\ frame[t].new
    BY <1>2 DEF NewHere
  <2>2. ClaimSegment(t) \/ TryItem(t) \/ GiveUpItem(t)
    BY <2>1, Zenon DEF Step, Begin, CallLookup, CallErase, ReleaseAccessor, ReturnMissed,
       LoadMask, Rehash, SeeFlag, TryBucket, FailToTryBucket, SeeRehashed, MarkRehashed,
       AcquireBucket, MoveNone, MoveItems, NeedWriter, Upgrade, ReleaseToUpgrade,
       Reacquire, Lookup, Found, FoundAfterUpgrade, FindInBucket, NotFound,
       NotFoundToInsert, NotFoundAfterUpgrade, MaskKept, MaskChanged, NoCollision,
       Collision, LinkNode, Restart, Growth, Exclude, Unlink, NotThere, UpgradeItem, ReleaseItem,
       ReacquireItem, DeleteNode, Goto
  <2>3. frame[t].write
    BY <1>1, <2>1 DEF Stage, StageNew, StageOp
  <2>4. ~GiveUpItem(t)
    <3>1. SUFFICES ASSUME GiveUpItem(t) PROVE FALSE
      OBVIOUS
    <3> QED
      BY <2>1, <2>3, <3>1, NewItemAlone DEF GiveUpItem, CanLock
  <2> QED
    BY <2>2, <2>4
<1>3. ASSUME NewHere(t)' PROVE LinkNode(t) \/ ClaimSegment(t)
  <2>1. pc'[t] \in {"claim", "item"} /\ frame'[t].new
    BY <1>3 DEF NewHere
  <2>2. Found(t) \/ FoundAfterUpgrade(t) \/ LinkNode(t) \/ ClaimSegment(t)
    BY <2>1, OwnStep DEF OwnKept
  <2>3. ASSUME Found(t) \/ FoundAfterUpgrade(t) PROVE FALSE
    <3>1. PICK n : n = CHOOSE o \in Matching(t) : TRUE
      OBVIOUS
    <3>2. frame' = [frame EXCEPT ![t].n = n] /\ pc[t] \in {"search", "again"}
      BY <2>3, <3>1 DEF Found, FoundAfterUpgrade, FindInBucket, Goto
    <3>3. frame'[t].new = frame[t].new
      BY <1>1, <3>2 DEF Frame
    <3> QED
      BY <1>1, <2>1, <3>2, <3>3 DEF Stage, StageNew
  <2> QED
    BY <2>2, <2>3
<1>4. ASSUME pc'[t] = "missed"
      PROVE  /\ MaskKept(t) \/ NoCollision(t)
             /\ frame[t].op = "find" /\ frame'[t].key = frame[t].key
  <2>1. MaskKept(t) \/ NoCollision(t)
    BY <1>1, <1>4, Zenon DEF Step, Begin, CallLookup, CallErase, ReleaseAccessor, ReturnMissed,
       LoadMask, Rehash, SeeFlag, TryBucket, FailToTryBucket, SeeRehashed, MarkRehashed,
       AcquireBucket, MoveNone, MoveItems, LeaveParent, NeedWriter, Upgrade, ReleaseToUpgrade,
       Reacquire, Lookup, Found, FoundAfterUpgrade, FindInBucket, NotFound,
       NotFoundToInsert, NotFoundAfterUpgrade, MaskChanged, Collision, LinkNode,
       ClaimSegment, TryItem, GiveUpItem, Restart, Growth, Exclude, Unlink, NotThere, UpgradeItem,
       ReleaseItem, ReacquireItem, DeleteNode, Goto, Entered
  <2>2. frame[t].op = "find"
    BY <1>1, <1>4, <2>1 DEF MaskKept, NoCollision, Absent
  <2>3. MaskKept(t) => frame'[t].key = frame[t].key
    BY <1>1 DEF MaskKept, Frame
  <2> QED
    BY <2>1, <2>2, <2>3 DEF NoCollision
<1>5. ASSUME pc[t] = "missed" PROVE ReturnMissed(t)
  BY <1>5 DEF Step, Begin, CallLookup, CallErase, ReleaseAccessor,
     LoadMask, Rehash, SeeFlag, TryBucket, FailToTryBucket, SeeRehashed, MarkRehashed,
     AcquireBucket, MoveNone, MoveItems, NeedWriter, Upgrade, ReleaseToUpgrade,
     Reacquire, Lookup, Found, FoundAfterUpgrade, FindInBucket, NotFound,
     NotFoundToInsert, NotFoundAfterUpgrade, MaskKept, MaskChanged, NoCollision,
     Collision, LinkNode, ClaimSegment, TryItem, GiveUpItem, Restart, Growth, Exclude, Unlink,
     NotThere, UpgradeItem, ReleaseItem, ReacquireItem, DeleteNode, Goto
<1> QED
  BY <1>2, <1>3, <1>4, <1>5

\* What a step of t changes of what its thread has.
LEMMA ViewStep ==
  ASSUME MapInv, NEW t \in Thread, Step(t), NEW a, NEW w \in BOOLEAN, NEW k,
         Accessor(t)' = a, (Accessor(t)' # Nil /\ frame'[t].write) <=> w,
         k = IF pc'[t] = "missed" THEN frame'[t].key ELSE Nil
  PROVE  /\ AccessorOf' = [AccessorOf EXCEPT ![t] = a]
         /\ WritesOf' = [WritesOf EXCEPT ![t] = w]
         /\ MissedOf' = [MissedOf EXCEPT ![t] = k]
<1>1. \A u \in Thread \ {t} : pc'[u] = pc[u] /\ frame'[u] = frame[u] /\ accessor'[u] = accessor[u]
  BY OthersStep DEF Others
<1>2. \A u \in Thread \ {t} : Accessor(u)' = Accessor(u)
  BY <1>1 DEF Accessor, NewHere
<1>3. AccessorOf' = [AccessorOf EXCEPT ![t] = a]
  BY <1>2 DEF AccessorOf
<1>4. \A u \in Thread : /\ (Accessor(u) # Nil /\ frame[u].write) \in BOOLEAN
                        /\ (Accessor(u)' # Nil /\ frame'[u].write) \in BOOLEAN
  OBVIOUS
<1>5. WritesOf' = [WritesOf EXCEPT ![t] = w]
  BY <1>1, <1>2, <1>4, Zenon DEF WritesOf
<1>6. MissedOf' = [MissedOf EXCEPT ![t] = k]
  BY <1>1 DEF MissedOf
<1> QED
  BY <1>3, <1>5, <1>6

\* A search that missed nothing is right about the whole map.
LEMMA MissedKey ==
  ASSUME MapInv, NEW t \in Thread, MaskKept(t) \/ NoCollision(t), frame[t].op = "find"
  PROVE  MapOf[frame[t].key] = Nil
<1>1. pc[t] \in {"race", "collision"} /\ pc[t] \in InBucket /\ Inside(t)
  BY DEF MaskKept, NoCollision, InBucket, Searching, Inside
<1>2. /\ MyBucket(t) \in Bucket /\ Top(t) = MyBucket(t) /\ Filled(MyBucket(t))
      /\ frame[t].key \in Key
  BY <1>1, PathFacts, InsideFacts
<1>3. LastFilled(MyBucket(t), MyHash(t)) /\ Matching(t) = {}
  BY <1>1, MissedLast DEF MapInv, Searches, Search, Missed
<1>4. ASSUME NEW o \in Linked, key[o] = frame[t].key PROVE FALSE
  <2>1. PICK b \in Bucket : o \in node_list[b]
    BY LinkedFacts
  <2>2. Filled(b) /\ LastFilled(b, HashOf(o))
    BY <2>1 DEF MapInv, Buckets
  <2>3. HashOf(o) = MyHash(t) /\ MyHash(t) \in Bucket
    BY <1>2, <1>4, HashAssumption DEF HashOf, MyHash
  <2>4. b = MyBucket(t)
    BY <1>2, <1>3, <2>2, <2>3, LastFilledUnique
  <2> QED
    BY <1>3, <1>4, <2>1, <2>4 DEF Matching
<1> QED
  BY <1>2, <1>4, MapOfFacts

LEMMA LinkIsInsert ==
  ASSUME MapInv, NEW t \in Thread, Step(t), LinkNode(t)
  PROVE  Map!Next
<1>1. PICK n \in Node, k \in Key : n = frame[t].tmp_n /\ k = frame[t].key
  BY LinkNodeLists, PathFacts, Zenon DEF LinkNode, Goto
<1>2. n \notin Linked /\ n # Nil
  BY <1>1, LinkNodeLists, NilAssumption
<1>3. pc[t] = "link" /\ frame[t].op = "insert" /\ frame[t].write /\ accessor[t] = Nil
  BY DEF LinkNode, Goto, MapInv, Stages, Stage, StageOp, StageAccessor
<1>4. MapOf[k] = Nil
  BY <1>1, LinkNodeAlone, MapOfFacts
<1>5. \A j \in Key : MapOf[j] # n
  BY <1>2, MapOfFacts
<1>6. \A u \in Thread : Accessor(u) # n
  <2>1. \A u \in Thread : accessor[u] # n
    BY <1>1, <1>2 DEF MapInv, Nodes, OwnNodes
  <2>2. \A u \in Thread : NewHere(u) => frame[u].n \in Linked
    BY NodeFacts DEF NewHere
  <2> QED
    BY <1>2, <2>1, <2>2 DEF Accessor
<1>7. /\ pc'[t] \in {"claim", "item"} /\ frame'[t].n = n /\ frame'[t].new = TRUE
      /\ frame'[t].write = frame[t].write
  <2>1. frame \in [Thread -> Frame] /\ frame[t] \in Frame /\ pc \in [Thread -> PC]
    BY DEF MapInv, Types
  <2>2. pc'[t] \in {"claim", "item"}
    BY <2>1 DEF LinkNode, Goto
  <2>3. frame'[t] = [frame[t] EXCEPT !.n = n, !.tmp_n = Nil, !.new = TRUE]
    BY <1>1, <2>1 DEF LinkNode
  <2> QED
    BY <2>1, <2>2, <2>3 DEF Frame
<1>8. Accessor(t)' = n /\ Accessor(t) = Nil
  BY <1>3, <1>7 DEF Accessor, NewHere
<1>9. PICK w \in BOOLEAN : w = TRUE
  OBVIOUS
<1>10. /\ (Accessor(t)' # Nil /\ frame'[t].write) <=> w
       /\ Nil = IF pc'[t] = "missed" THEN frame'[t].key ELSE Nil
  BY <1>2, <1>3, <1>7, <1>8, <1>9
<1>11. /\ AccessorOf' = [AccessorOf EXCEPT ![t] = n]
       /\ WritesOf' = [WritesOf EXCEPT ![t] = TRUE]
       /\ MissedOf' = [MissedOf EXCEPT ![t] = Nil]
  <2>1. /\ AccessorOf' = [AccessorOf EXCEPT ![t] = n]
        /\ WritesOf' = [WritesOf EXCEPT ![t] = w]
        /\ MissedOf' = [MissedOf EXCEPT ![t] = Nil]
    BY <1>8, <1>10, ViewStep
  <2> QED
    BY <1>9, <2>1
<1>12. MissedOf' = MissedOf
  BY <1>3, <1>11 DEF MissedOf
<1>13. MapOf' = [MapOf EXCEPT ![k] = n]
  BY <1>1, MapOfStep
<1>14. AccessorOf[t] = Nil /\ MissedOf[t] = Nil /\ \A u \in Thread : AccessorOf[u] # n
  BY <1>3, <1>6, <1>8 DEF AccessorOf, MissedOf
<1>15. Map!Access(t, n, TRUE)
  BY <1>11, <1>12, <1>14 DEF Map!Access, AccessorOf, WritesOf, MissedOf
<1>16. Map!Insert(t, k, n)
  BY <1>4, <1>5, <1>13, <1>15 DEF Map!Insert, MapOf, ItemIn
<1> QED
  BY <1>16 DEF Map!Next

\* Who gets the lock of an item shares it with readers at most.
LEMMA LockIsFind ==
  ASSUME MapInv, NEW t \in Thread, Step(t), TryItem(t), ~frame[t].new
  PROVE  Map!Next
<1>1. PICK n \in Node, k \in Key, w \in BOOLEAN :
          n = frame[t].n /\ k = frame[t].key /\ w = frame[t].write
  BY NodeFacts, PathFacts DEF TryItem, Goto, MapInv, Types, Frame
<1>2. /\ pc[t] = "item" /\ accessor[t] = Nil /\ n \in Linked /\ key[n] = k
      /\ node_mutex[n] \in Lock
  BY <1>1, NodeFacts DEF TryItem, Goto, MapInv, Stages, Stage, StageOp, StageAccessor, Nodes,
     OwnNodes
<1>3. MapOf[k] = n /\ n # Nil
  BY <1>1, <1>2, MapOfFacts, NilAssumption
<1>4. pc'[t] = "growth" /\ accessor'[t] = n /\ frame' = frame /\ CanLock(node_mutex[n], w)
  BY <1>1 DEF TryItem, Goto, MapInv, Types
<1>5. Accessor(t)' = n /\ Accessor(t) = Nil
  BY <1>2, <1>4 DEF Accessor, NewHere
<1>6. ASSUME NEW u \in Thread, Accessor(u) = n
      PROVE  ~w /\ ~frame[u].write
  <2>1. u # t
    BY <1>3, <1>5, <1>6
  <2>2. ~NewHere(u)
    BY <1>1, <1>2, <1>6, <2>1, NewItemAlone DEF Accessor, NewHere
  <2>3. accessor[u] = n
    BY <1>6, <2>2 DEF Accessor
  <2>4. ~Removing(u)
    BY <1>2, <2>3 DEF MapInv, Nodes, OwnNodes
  <2>5. IF frame[u].write THEN node_mutex[n].writer = u ELSE u \in node_mutex[n].readers
    BY <1>3, <2>3, <2>4 DEF MapInv, NodeLocks, HoldsItems
  <2> QED
    BY <1>2, <1>4, <2>5, NilAssumption DEF CanLock, CanRead, CanWrite, Free, Lock
<1>7. (Accessor(t)' # Nil /\ frame'[t].write) <=> w
  BY <1>1, <1>3, <1>4, <1>5
<1>8. Nil = IF pc'[t] = "missed" THEN frame'[t].key ELSE Nil
  BY <1>4
<1>9. /\ AccessorOf' = [AccessorOf EXCEPT ![t] = n]
      /\ WritesOf' = [WritesOf EXCEPT ![t] = w]
      /\ MissedOf' = [MissedOf EXCEPT ![t] = Nil]
  BY <1>5, <1>7, <1>8, ViewStep
<1>10. MissedOf' = MissedOf
  BY <1>2, <1>9 DEF MissedOf
<1>11. /\ AccessorOf[t] = Nil /\ MissedOf[t] = Nil
       /\ \A u \in Thread : AccessorOf[u] = n => ~w /\ ~WritesOf[u]
  BY <1>2, <1>5, <1>6 DEF AccessorOf, MissedOf, WritesOf
<1>12. Map!Access(t, n, w)
  BY <1>9, <1>10, <1>11 DEF Map!Access, AccessorOf, WritesOf, MissedOf
<1>13. MapOf' = MapOf
  <2>1. ~LinkNode(t) /\ ~Unlink(t)
    BY <1>2 DEF LinkNode, Unlink, Goto
  <2> QED
    BY <2>1, MapOfStep
<1>14. Map!Find(t, k, w)
  BY <1>3, <1>12, <1>13 DEF Map!Find, MapOf, ItemIn
<1> QED
  BY <1>14 DEF Map!Next

LEMMA UnlinkIsRemove ==
  ASSUME MapInv, NEW t \in Thread, Step(t), Unlink(t)
  PROVE  Map!Next
<1>1. PICK n \in Node, k \in Key : n = accessor[t] /\ k = frame[t].key
  BY NodeFacts, PathFacts DEF Unlink, Goto
<1>2. MapOf[k] = n /\ n # Nil /\ MapOf' = [MapOf EXCEPT ![k] = Nil]
  BY <1>1, MapOfStep, NilAssumption
<1>3. /\ pc[t] = "search" /\ pc'[t] \in {"delete", "item_upgrade"}
      /\ accessor'[t] = n /\ frame' = frame
  BY <1>1 DEF Unlink, Goto, MapInv, Types
<1>4. Accessor(t)' = n /\ Accessor(t) = n
  BY <1>1, <1>3 DEF Accessor, NewHere
<1>5. PICK w \in BOOLEAN : w <=> Accessor(t)' # Nil /\ frame'[t].write
  OBVIOUS
<1>6. Nil = IF pc'[t] = "missed" THEN frame'[t].key ELSE Nil
  BY <1>3
<1>7. /\ AccessorOf' = [AccessorOf EXCEPT ![t] = n]
      /\ WritesOf' = [WritesOf EXCEPT ![t] = w]
      /\ MissedOf' = [MissedOf EXCEPT ![t] = Nil]
  BY <1>4, <1>5, <1>6, ViewStep
<1>8. AccessorOf[t] = n /\ (WritesOf[t] <=> w) /\ WritesOf[t] \in BOOLEAN /\ MissedOf[t] = Nil
  BY <1>2, <1>3, <1>4, <1>5 DEF AccessorOf, WritesOf, MissedOf
<1>9. WritesOf[t] = w
  BY <1>8
<1>10. AccessorOf' = AccessorOf /\ WritesOf' = WritesOf /\ MissedOf' = MissedOf
  BY <1>7, <1>8, <1>9, Zenon DEF AccessorOf, WritesOf, MissedOf
<1>11. Map!Remove(t, k)
  BY <1>2, <1>8, <1>10 DEF Map!Remove, MapOf, ItemIn, AccessorOf, WritesOf, MissedOf
<1> QED
  BY <1>11 DEF Map!Next

LEMMA ReturnIsRelease ==
  ASSUME MapInv, NEW t \in Thread, Step(t),
         \/ ReleaseAccessor(t, "using") \/ ReleaseAccessor(t, "gone") \/ ReturnMissed(t)
         \/ DeleteNode(t)
  PROVE  Map!Next
<1>1. pc'[t] = "idle" /\ accessor'[t] = Nil
  <2>1. ASSUME ReturnMissed(t) PROVE accessor'[t] = Nil
    BY <2>1 DEF ReturnMissed, Goto, MapInv, Stages, Stage, StageOp, StageAccessor
  <2> QED
    BY <2>1 DEF ReleaseAccessor, ReturnMissed, DeleteNode, Goto, MapInv, Types
<1>2. Accessor(t)' = Nil
  BY <1>1 DEF Accessor, NewHere
<1>3. PICK w \in BOOLEAN : w = FALSE
  OBVIOUS
<1>4. /\ (Accessor(t)' # Nil /\ frame'[t].write) <=> w
      /\ Nil = IF pc'[t] = "missed" THEN frame'[t].key ELSE Nil
  BY <1>1, <1>2, <1>3
<1>5. /\ AccessorOf' = [AccessorOf EXCEPT ![t] = Nil]
      /\ WritesOf' = [WritesOf EXCEPT ![t] = FALSE]
      /\ MissedOf' = [MissedOf EXCEPT ![t] = Nil]
  <2>1. /\ AccessorOf' = [AccessorOf EXCEPT ![t] = Nil]
        /\ WritesOf' = [WritesOf EXCEPT ![t] = w]
        /\ MissedOf' = [MissedOf EXCEPT ![t] = Nil]
    BY <1>2, <1>4, ViewStep
  <2> QED
    BY <1>3, <2>1
<1>6. MapOf' = MapOf
  <2>1. ~LinkNode(t) /\ ~Unlink(t)
    BY DEF LinkNode, Unlink, ReleaseAccessor, ReturnMissed, DeleteNode, Goto
  <2> QED
    BY <2>1, MapOfStep
<1>7. Map!Release(t)
  BY <1>5, <1>6 DEF Map!Release, MapOf, ItemIn, AccessorOf, WritesOf, MissedOf
<1> QED
  BY <1>7 DEF Map!Next

LEMMA MissIsMiss ==
  ASSUME MapInv, NEW t \in Thread, Step(t), pc'[t] = "missed"
  PROVE  Map!Next
<1>1. /\ MaskKept(t) \/ NoCollision(t)
      /\ frame[t].op = "find" /\ frame'[t].key = frame[t].key
  BY NewHereStep
<1>2. pc[t] \in {"race", "collision"} /\ accessor' = accessor
  BY <1>1 DEF MaskKept, NoCollision, Absent
<1>3. PICK k \in Key : k = frame[t].key
  BY <1>2, PathFacts
<1>4. MapOf[k] = Nil
  BY <1>1, <1>3, MissedKey
<1>5. accessor[t] = Nil
  BY <1>1, <1>2 DEF MapInv, Stages, Stage, StageAccessor
<1>6. Accessor(t)' = Nil /\ Accessor(t) = Nil
  BY <1>2, <1>5 DEF Accessor, NewHere
<1>7. PICK w \in BOOLEAN : w = FALSE
  OBVIOUS
<1>8. /\ (Accessor(t)' # Nil /\ frame'[t].write) <=> w
      /\ k = IF pc'[t] = "missed" THEN frame'[t].key ELSE Nil
  BY <1>1, <1>3, <1>6, <1>7
<1>9. /\ AccessorOf' = [AccessorOf EXCEPT ![t] = Nil]
      /\ WritesOf' = [WritesOf EXCEPT ![t] = w]
      /\ MissedOf' = [MissedOf EXCEPT ![t] = k]
  BY <1>6, <1>8, ViewStep
<1>10. AccessorOf[t] = Nil /\ WritesOf[t] = FALSE /\ MissedOf[t] = Nil
  BY <1>2, <1>6 DEF AccessorOf, WritesOf, MissedOf
<1>11. AccessorOf' = AccessorOf /\ WritesOf' = WritesOf
  BY <1>7, <1>9, <1>10 DEF AccessorOf, WritesOf
<1>12. MapOf' = MapOf
  <2>1. ~LinkNode(t) /\ ~Unlink(t)
    BY <1>2 DEF LinkNode, Unlink, Goto
  <2> QED
    BY <2>1, MapOfStep
<1>13. Map!Miss(t, k)
  BY <1>4, <1>9, <1>10, <1>11, <1>12 DEF Map!Miss, MapOf, ItemIn, AccessorOf, WritesOf, MissedOf
<1> QED
  BY <1>13 DEF Map!Next

\* The other steps are not seen.
LEMMA Unseen ==
  ASSUME MapInv, NEW t \in Thread, Step(t), ~LinkNode(t), ~Unlink(t), ~DeleteNode(t),
         ~ReleaseAccessor(t, "using"), ~ReleaseAccessor(t, "gone"), ~ReturnMissed(t),
         pc'[t] # "missed", TryItem(t) => frame[t].new
  PROVE  UNCHANGED <<MapOf, AccessorOf, WritesOf, MissedOf>>
<1>1. /\ pc \in [Thread -> PC] /\ frame \in [Thread -> Frame] /\ frame[t] \in Frame
      /\ accessor \in [Thread -> Node \cup {Nil}]
  BY DEF MapInv, Types
<1>2. pc[t] # "missed"
  BY NewHereStep
<1>3. Accessor(t)' = Accessor(t) /\ (Accessor(t) # Nil => frame'[t].write = frame[t].write)
  <2>1. CASE ClaimSegment(t)
    <3>1. /\ pc[t] = "claim" /\ pc'[t] = "item" /\ accessor' = accessor
          /\ frame'[t].n = frame[t].n /\ frame'[t].new = frame[t].new
          /\ frame'[t].write = frame[t].write
      BY <1>1, <2>1 DEF ClaimSegment, Goto, Frame
    <3> QED
      BY <3>1 DEF Accessor, NewHere
  <2>2. CASE TryItem(t)
    <3>1. /\ pc[t] = "item" /\ pc'[t] = "growth" /\ accessor'[t] = frame[t].n
          /\ frame' = frame /\ frame[t].new
      BY <1>1, <2>2 DEF TryItem, Goto
    <3> QED
      BY <3>1 DEF Accessor, NewHere
  <2>3. CASE UpgradeItem(t) \/ ReleaseItem(t) \/ ReacquireItem(t)
    <3>1. /\ accessor' = accessor /\ frame' = frame
          /\ pc[t] \notin {"claim", "item"} /\ pc'[t] \notin {"claim", "item"}
      BY <1>1, <2>3 DEF UpgradeItem, ReleaseItem, ReacquireItem, Goto
    <3> QED
      BY <3>1 DEF Accessor, NewHere
  <2>4. CASE ~ClaimSegment(t) /\ ~LocksItem(t)
    <3>1. ~NewHere(t) /\ ~NewHere(t)'
      BY <2>4, NewHereStep DEF LocksItem
    <3>2. accessor'[t] = accessor[t] /\ (accessor[t] # Nil => frame'[t].write = frame[t].write)
      BY <2>4, ItemKept
    <3> QED
      BY <3>1, <3>2 DEF Accessor
  <2> QED
    BY <2>1, <2>2, <2>3, <2>4 DEF LocksItem
<1>4. PICK a : Accessor(t)' = a
  OBVIOUS
<1>5. PICK w \in BOOLEAN : (Accessor(t)' # Nil /\ frame'[t].write) <=> w
  OBVIOUS
<1>6. Nil = IF pc'[t] = "missed" THEN frame'[t].key ELSE Nil
  OBVIOUS
<1>7. /\ AccessorOf' = [AccessorOf EXCEPT ![t] = a]
      /\ WritesOf' = [WritesOf EXCEPT ![t] = w]
      /\ MissedOf' = [MissedOf EXCEPT ![t] = Nil]
  BY <1>4, <1>5, <1>6, ViewStep
<1>8. AccessorOf[t] = a /\ (WritesOf[t] <=> w) /\ WritesOf[t] \in BOOLEAN /\ MissedOf[t] = Nil
  BY <1>2, <1>3, <1>4, <1>5 DEF AccessorOf, WritesOf, MissedOf
<1>9. WritesOf[t] = w
  BY <1>8
<1>10. AccessorOf' = AccessorOf /\ WritesOf' = WritesOf /\ MissedOf' = MissedOf
  BY <1>7, <1>8, <1>9, Zenon DEF AccessorOf, WritesOf, MissedOf
<1> QED
  BY <1>10, MapOfStep

\* tbb::concurrent_hash_map is a map with accessors: a lookup that reports a
\* missing key is right at some moment of its call, two insertions of a key find
\* each other, and an item is written through one accessor at a time, although
\* the table grows and its buckets are rehashed meanwhile.
THEOREM TableIsMap == Spec => ImplementsMap
<1>1. Init => Map!Init
  <2> SUFFICES ASSUME Init PROVE Map!Init
    OBVIOUS
  <2>1. \A t \in Thread : Accessor(t) = Nil /\ pc[t] = "idle"
    BY DEF Init, Accessor, NewHere
  <2>2. Linked = {}
    BY DEF Init, Linked
  <2> QED
    BY <2>1, <2>2 DEF Map!Init
<1>2. MapInv /\ [Next]_vars => [Map!Next]_<<MapOf, AccessorOf, WritesOf, MissedOf>>
  <2> SUFFICES ASSUME MapInv, [Next]_vars, ~UNCHANGED <<MapOf, AccessorOf, WritesOf, MissedOf>>
               PROVE  Map!Next
    OBVIOUS
  <2>1. ASSUME NEW t \in Thread, Step(t) PROVE Map!Next
    BY <2>1, LinkIsInsert, LockIsFind, UnlinkIsRemove, ReturnIsRelease, MissIsMiss, Unseen
  <2>2. CASE UNCHANGED vars
    BY <2>2 DEF vars, table, items, locks, MapOf, ItemIn, Linked, AccessorOf, Accessor,
       NewHere, WritesOf, MissedOf
  <2> QED
    BY <2>1, <2>2 DEF Next, Done, Step
<1> QED
  BY <1>1, <1>2, MapInvariant, PTL
  DEF Spec, ImplementsMap, Map!Spec, Map!vars, MapOf, ItemIn, AccessorOf, WritesOf, MissedOf
===============================================================================
