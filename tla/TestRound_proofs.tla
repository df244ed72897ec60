--------------------------- MODULE TestRound_proofs ---------------------------
(***************************************************************************)
(* Proofs about TestRound, for every number of threads, items and nodes.   *)
(*                                                                         *)
(* Every step of the round is a step of the cache or leaves it alone, so   *)
(* that the invariant of OnCacheMLRU holds in it.  That onStop finds the   *)
(* cache at rest needs one thing more of the cache: a lock that is held is *)
(* that of a thread at work (LocksOwned).                                  *)
(***************************************************************************)
EXTENDS TestRound, OnCacheMLRU_proofs

(***************************************************************************)
(* The round and the cache.                                                *)
(***************************************************************************)
LEMMA ItemIsData ==
  ASSUME NEW n \in Nat, n < Count
  PROVE  TestData[n + 1] \in Data /\ TestData[n + 1][1] \in Key
<1>1. n + 1 \in 1 .. Len(TestData)
  BY TestDataAssumption, CountAssumption
<1>2. TestData[n + 1] \in Data
  BY <1>1, TestDataAssumption
<1> QED
  BY <1>2 DEF Data

\* A step of the round is a step of the cache, or none.
LEMMA RoundStepsCache ==
  ASSUME TestNext \/ UNCHANGED <<vars, testVars>>, i \in [Thread -> 0 .. Count]
  PROVE  [Next]_vars
<1>a. Main \in Thread /\ Workers \subseteq Thread /\ Capacity \in Nat /\ Count \in Nat
      /\ Capacity <= Count
  BY ThreadAssumption, CountAssumption, CapacityAssumption
<1>1. CASE WarmUp
  <2>1. i[Main] \in Nat /\ i[Main] < Count
    BY <1>1, <1>a DEF WarmUp
  <2>2. TestData[i[Main] + 1] \in Data
    BY <2>1, ItemIsData
  <2> QED
    BY <1>1, <1>a, <2>2 DEF WarmUp, Next, Call
<1>2. ASSUME NEW t \in Workers, InsertInThread(t)
      PROVE  [Next]_vars
  <2>1. i[t] \in Nat /\ i[t] < Count
    BY <1>2, <1>a DEF InsertInThread
  <2>2. TestData[i[t] + 1] \in Data
    BY <2>1, ItemIsData
  <2> QED
    BY <1>2, <1>a, <2>2 DEF InsertInThread, Next, Call
<1>3. ASSUME NEW t \in Workers, FindInThread(t)
      PROVE  [Next]_vars
  <2>1. i[t] \in Nat /\ i[t] < Count
    BY <1>3, <1>a DEF FindInThread
  <2>2. TestData[i[t] + 1][1] \in Key
    BY <2>1, ItemIsData
  <2> QED
    BY <1>3, <1>a, <2>2 DEF FindInThread, Next, Call
<1>4. ASSUME NEW t \in Thread, InCache(t) \/ CountFound(t)
      PROVE  [Next]_vars
  BY <1>4 DEF InCache, CountFound, Next, Step, Lookup
<1>5. CASE StartThreads \/ Post \/ Signalled \/ JoinAndStop \/ UNCHANGED <<vars, testVars>>
  BY <1>5 DEF StartThreads, Post, Signalled, JoinAndStop
<1>6. ASSUME NEW t \in Workers, WaitSemaphore(t) \/ ExitThread(t)
      PROVE  [Next]_vars
  BY <1>6 DEF WaitSemaphore, ExitThread
<1> QED
  BY <1>a, <1>1, <1>2, <1>3, <1>4, <1>5, <1>6 DEF TestNext, MainStep, WorkerStep

(***************************************************************************)
(* Locks of the cache.                                                     *)
(***************************************************************************)
\* A basket that is locked is locked by a thread that works in it.
LocksOwned ==
    \A b \in Basket :
        /\ writer[b] # NoThread =>
              \/ pc[writer[b]] = "unlink" /\ b = NodeBasket(re[writer[b]])
              \/ pc[writer[b]] = "insert" /\ b = MyBasket(writer[b])
        /\ \A t \in readers[b] : pc[t] = "read" /\ b = MyBasket(t)

LEMMA LocksOwnedInit == Init => LocksOwned
  BY NullAssumption DEF Init, LocksOwned

\* A step of the cache that leaves the locks alone, and the hashes of the
\* nodes that the holders of locks unlink.
LEMMA LocksUntouched ==
  ASSUME TypeOK, LocksOwned, NEW t \in Thread, NEW p, UNCHANGED locks,
         pc[t] \notin {"unlink", "insert", "read"}, pc' = [pc EXCEPT ![t] = p],
         \A u \in Thread \ {t} : arg'[u] = arg[u] /\ re'[u] = re[u],
         \A u \in Thread \ {t} : pc[u] = "unlink" => hash'[re[u]] = hash[re[u]]
  PROVE  LocksOwned'
<1> SUFFICES ASSUME NEW b \in Basket
             PROVE  /\ writer'[b] # NoThread =>
                         \/ pc'[writer'[b]] = "unlink" /\ b = NodeBasket(re[writer[b]])'
                         \/ pc'[writer'[b]] = "insert" /\ b = MyBasket(writer[b])'
                    /\ \A u \in readers'[b] : pc'[u] = "read" /\ b = MyBasket(u)'
  BY DEF LocksOwned
<1>1. writer'[b] = writer[b] /\ readers'[b] = readers[b]
  BY DEF locks
<1>2. ASSUME writer[b] # NoThread
      PROVE  \/ pc'[writer'[b]] = "unlink" /\ b = NodeBasket(re[writer[b]])'
             \/ pc'[writer'[b]] = "insert" /\ b = MyBasket(writer[b])'
  <2>1. writer[b] \in Thread \ {t}
    BY <1>2 DEF LocksOwned, TypeOK
  <2> QED
    BY <1>1, <1>2, <2>1 DEF LocksOwned, TypeOK, NodeBasket, MyBasket
<1>3. ASSUME NEW u \in readers[b] PROVE pc'[u] = "read" /\ b = MyBasket(u)'
  <2>1. u \in Thread \ {t}
    BY DEF LocksOwned, TypeOK
  <2> QED
    BY <2>1 DEF LocksOwned, TypeOK, MyBasket
<1> QED
  BY <1>1, <1>2, <1>3

LEMMA LocksOwnedStep ==
  ASSUME IInv, LocksOwned, [Next]_vars
  PROVE  LocksOwned'
<1>t. TypeOK /\ OneHolder /\ LocksHeld
  BY DEF IInv
<1> USE DEF Goto, locks, frame, nodes, pool
<1>1. CASE UNCHANGED vars
  BY <1>1 DEF vars, LocksOwned, NodeBasket, MyBasket
<1>2. ASSUME NEW t \in Thread, Call(t) PROVE LocksOwned'
  BY <1>t, <1>2, LocksUntouched DEF Call, CallInsert, CallGet, TypeOK
<1>3. ASSUME NEW t \in Thread,
             FetchId(t) \/ WrapId(t) \/ TakeNode(t) \/ CheckKey(t) \/ ClearNode(t)
             \/ Release(t) \/ ReturnData(t)
      PROVE  LocksOwned'
  <2>1. CASE FetchId(t) \/ WrapId(t)
    BY <1>t, <2>1, LocksUntouched DEF FetchId, WrapId, TypeOK
  <2>2. CASE TakeNode(t) \/ CheckKey(t) \/ ClearNode(t)
    BY <1>t, <2>2, LocksUntouched DEF TakeNode, CheckKey, ClearNode, TypeOK
  <2>3. CASE Release(t) \/ ReturnData(t)
    BY <1>t, <2>3, LocksUntouched DEF Release, ReturnData, TypeOK
  <2> QED
    BY <1>3, <2>1, <2>2, <2>3
<1>4. ASSUME NEW t \in Thread, FillNode(t) PROVE LocksOwned'
  <2>1. \A u \in Thread \ {t} : pc[u] = "unlink" => re[u] # re[t]
    BY <1>t, <1>4 DEF FillNode, OneHolder, Holds, Holding, TypeOK
  <2>2. \A u \in Thread \ {t} : pc[u] = "unlink" => hash'[re[u]] = hash[re[u]]
    BY <1>t, <1>4, <2>1 DEF FillNode, TypeOK
  <2> QED
    BY <1>t, <1>4, <2>2, LocksUntouched DEF FillNode
<1>5. ASSUME NEW t \in Thread, NEW b \in Basket, LockExclusive(t, b),
             NEW p, pc' = [pc EXCEPT ![t] = p], pc[t] \notin {"unlink", "insert", "read"},
             \/ p = "unlink" /\ b = NodeBasket(re[t])
             \/ p = "insert" /\ b = MyBasket(t),
             UNCHANGED <<arg, re, hash>>
      PROVE  LocksOwned'
  <2>1. t # NoThread
    BY NullAssumption
  <2>2. \A c \in Basket : NodeBasket(re[writer[c]])' = NodeBasket(re'[writer'[c]])
    BY <1>5 DEF NodeBasket
  <2> SUFFICES ASSUME NEW c \in Basket
               PROVE  /\ writer'[c] # NoThread =>
                           \/ pc'[writer'[c]] = "unlink" /\ c = BasketId(hash[re[writer'[c]]])
                           \/ pc'[writer'[c]] = "insert" /\ c = BasketId(Hash[arg[writer'[c]]])
                      /\ \A u \in readers'[c] : pc'[u] = "read" /\ c = BasketId(Hash[arg[u]])
    BY <1>5 DEF LocksOwned, NodeBasket, MyBasket
  <2>3. CASE c = b
    BY <1>t, <1>5, <2>1, <2>3 DEF LockExclusive, TypeOK, NodeBasket, MyBasket
  <2>4. CASE c # b
    <3>1. writer'[c] = writer[c] /\ readers'[c] = readers[c]
      BY <1>t, <1>5, <2>4 DEF LockExclusive, TypeOK
    <3>2. ASSUME NEW u \in Thread, pc[u] \in {"unlink", "insert", "read"}
          PROVE  pc'[u] = pc[u]
      BY <1>t, <1>5, <3>2 DEF TypeOK
    <3> QED
      BY <1>t, <3>1, <3>2 DEF LocksOwned, TypeOK, NodeBasket, MyBasket
  <2> QED
    BY <2>3, <2>4
<1>6. ASSUME NEW t \in Thread, LockToEvict(t) PROVE LocksOwned'
  <2>1. NodeBasket(re[t]) \in Basket
    BY <1>t, BasketIdType DEF NodeBasket, TypeOK
  <2> QED
    BY <1>5, <1>6, <2>1 DEF LockToEvict
<1>7. ASSUME NEW t \in Thread, LockToInsert(t) PROVE LocksOwned'
  <2>1. MyBasket(t) \in Basket
    BY <1>7, MyBasketType DEF IInv, LockToInsert
  <2> QED
    BY <1>5, <1>7, <2>1 DEF LockToInsert
<1>8. ASSUME NEW t \in Thread, LockToGet(t) PROVE LocksOwned'
  <2>1. MyBasket(t) \in Basket
    BY <1>8, MyBasketType DEF IInv, LockToGet
  <2> SUFFICES ASSUME NEW c \in Basket
               PROVE  /\ writer'[c] # NoThread =>
                           \/ pc'[writer'[c]] = "unlink" /\ c = BasketId(hash[re[writer'[c]]])
                           \/ pc'[writer'[c]] = "insert" /\ c = BasketId(Hash[arg[writer'[c]]])
                      /\ \A u \in readers'[c] : pc'[u] = "read" /\ c = BasketId(Hash[arg[u]])
    BY <1>8 DEF LocksOwned, NodeBasket, MyBasket, LockToGet
  <2>2. pc[t] = "get" /\ pc' = [pc EXCEPT ![t] = "read"] /\ writer' = writer
        /\ readers' = [readers EXCEPT ![MyBasket(t)] = @ \cup {t}]
    BY <1>8 DEF LockToGet, LockShared
  <2>3. \A u \in Thread : pc[u] \in {"unlink", "insert", "read"} => pc'[u] = pc[u]
    BY <1>t, <2>2 DEF TypeOK
  <2>4. ASSUME writer'[c] # NoThread
        PROVE  \/ pc'[writer'[c]] = "unlink" /\ c = BasketId(hash[re[writer'[c]]])
               \/ pc'[writer'[c]] = "insert" /\ c = BasketId(Hash[arg[writer'[c]]])
    BY <1>t, <2>2, <2>3, <2>4 DEF LocksOwned, TypeOK, NodeBasket, MyBasket
  <2>5. ASSUME NEW u \in readers'[c] PROVE pc'[u] = "read" /\ c = BasketId(Hash[arg[u]])
    BY <1>t, <2>1, <2>2, <2>3 DEF LocksOwned, TypeOK, MyBasket
  <2> QED
    BY <2>4, <2>5
<1>9. ASSUME NEW t \in Thread, NEW b \in Basket, NEW p, pc' = [pc EXCEPT ![t] = p],
             \/ pc[t] = "unlink" /\ b = NodeBasket(re[t])
             \/ pc[t] = "insert" /\ b = MyBasket(t),
             UnlockExclusive(b), UNCHANGED <<arg, re, hash>>
      PROVE  LocksOwned'
  <2>1. writer[b] = t /\ readers[b] = {}
    BY <1>t, <1>9, NullAssumption DEF LocksHeld
  <2> SUFFICES ASSUME NEW c \in Basket
               PROVE  /\ writer'[c] # NoThread =>
                           \/ pc'[writer'[c]] = "unlink" /\ c = BasketId(hash[re[writer'[c]]])
                           \/ pc'[writer'[c]] = "insert" /\ c = BasketId(Hash[arg[writer'[c]]])
                      /\ \A u \in readers'[c] : pc'[u] = "read" /\ c = BasketId(Hash[arg[u]])
    BY <1>9 DEF LocksOwned, NodeBasket, MyBasket
  <2>2. CASE c = b
    BY <1>t, <1>9, <2>1, <2>2 DEF UnlockExclusive, TypeOK
  <2>3. CASE c # b
    <3>1. writer'[c] = writer[c] /\ readers'[c] = readers[c]
      BY <1>t, <1>9, <2>3 DEF UnlockExclusive, TypeOK
    <3>2. writer[c] # t /\ t \notin readers[c]
      BY <1>t, <1>9, <2>3, NullAssumption DEF LocksOwned, TypeOK, NodeBasket, MyBasket
    <3>3. \A u \in Thread \ {t} : pc'[u] = pc[u]
      BY <1>t, <1>9 DEF TypeOK
    <3> QED
      BY <1>t, <3>1, <3>2, <3>3 DEF LocksOwned, TypeOK, NodeBasket, MyBasket
  <2> QED
    BY <2>2, <2>3
<1>10. ASSUME NEW t \in Thread, Unlink(t) PROVE LocksOwned'
  <2>1. NodeBasket(re[t]) \in Basket
    BY <1>t, BasketIdType DEF NodeBasket, TypeOK
  <2> QED
    BY <1>9, <1>10, <2>1 DEF Unlink
<1>11. ASSUME NEW t \in Thread, InsertN(t) PROVE LocksOwned'
  <2>1. MyBasket(t) \in Basket
    BY <1>11, MyBasketType DEF IInv, InsertN
  <2> QED
    BY <1>9, <1>11, <2>1 DEF InsertN
<1>12. ASSUME NEW t \in Thread, ReadData(t) PROVE LocksOwned'
  <2>1. MyBasket(t) \in Basket
    BY <1>12, MyBasketType DEF IInv, ReadData
  <2>2. pc[t] = "read" /\ pc' = [pc EXCEPT ![t] = "got"] /\ writer' = writer
        /\ readers' = [readers EXCEPT ![MyBasket(t)] = @ \ {t}]
    BY <1>12 DEF ReadData, UnlockShared
  <2> SUFFICES ASSUME NEW c \in Basket
               PROVE  /\ writer'[c] # NoThread =>
                           \/ pc'[writer'[c]] = "unlink" /\ c = BasketId(hash[re[writer'[c]]])
                           \/ pc'[writer'[c]] = "insert" /\ c = BasketId(Hash[arg[writer'[c]]])
                      /\ \A u \in readers'[c] : pc'[u] = "read" /\ c = BasketId(Hash[arg[u]])
    BY <1>12 DEF LocksOwned, NodeBasket, MyBasket, ReadData
  <2>3. \A u \in Thread \ {t} : pc'[u] = pc[u]
    BY <1>t, <2>2 DEF TypeOK
  <2>4. ASSUME writer'[c] # NoThread
        PROVE  \/ pc'[writer'[c]] = "unlink" /\ c = BasketId(hash[re[writer'[c]]])
               \/ pc'[writer'[c]] = "insert" /\ c = BasketId(Hash[arg[writer'[c]]])
    BY <1>t, <2>2, <2>3, <2>4 DEF LocksOwned, TypeOK, NodeBasket, MyBasket
  <2>5. ASSUME NEW u \in readers'[c] PROVE pc'[u] = "read" /\ c = BasketId(Hash[arg[u]])
    <3>1. u \in readers[c] /\ u # t
      BY <1>t, <2>1, <2>2 DEF LocksOwned, TypeOK
    <3> QED
      BY <1>t, <2>3, <3>1 DEF LocksOwned, TypeOK, MyBasket
  <2> QED
    BY <2>4, <2>5
<1> QED
  BY <1>1, <1>2, <1>3, <1>4, <1>6, <1>7, <1>8, <1>10, <1>11, <1>12
  DEF Next, Step, Insertion, Lookup

(***************************************************************************)
(* The gate and the threads.                                               *)
(***************************************************************************)
RoundTypes ==
    /\ round \in {"warmup", "signal", "join", "stopped"}
    /\ posts \in Nat /\ sema \in Nat
    /\ life \in [Workers -> {"none", "waiting", "running", "done"}]
    /\ i \in [Thread -> 0 .. Count]
    /\ found \in [Workers -> Nat]

\* Who may be in the cache: main during its warmup, then the threads that run.
Quiet ==
    /\ round = "warmup" => posts = 0 /\ sema = 0 /\ \A t \in Workers : life[t] = "none"
    /\ round # "warmup" => pc[Main] = "idle" /\ \A t \in Workers : life[t] # "none"
    /\ round = "stopped" => \A t \in Workers : life[t] = "done"
    /\ \A t \in Workers : life[t] # "running" => pc[t] = "idle"

\* A thread finds no more than it has looked for.
FoundBounded == \A t \in Workers :
    /\ found[t] <= i[t]
    /\ pc[t] \in {"get", "read", "got"} => found[t] < i[t]

Waiting == {t \in Workers : life[t] = "waiting"}

RoundInv ==
    /\ IInv
    /\ LocksOwned
    /\ RoundTypes
    /\ Quiet
    /\ FoundBounded
    /\ GateExact

LEMMA RoundInit == TestInit => RoundInv
<1> SUFFICES ASSUME TestInit PROVE RoundInv
  OBVIOUS
<1>1. IInv /\ LocksOwned
  BY InitInv, LocksOwnedInit DEF TestInit
<1>2. Main \in Thread /\ Workers \subseteq Thread /\ Count \in Nat
  BY ThreadAssumption, CountAssumption
<1>3. \A t \in Thread : pc[t] = "idle"
  BY DEF TestInit, Init
<1>4. RoundTypes /\ Quiet /\ FoundBounded /\ GateExact
  BY <1>2, <1>3 DEF TestInit, RoundTypes, Quiet, FoundBounded, GateExact
<1> QED
  BY <1>1, <1>4 DEF RoundInv

\* A thread in the cache was there before, and moves no other.
LEMMA InCacheMoves ==
  ASSUME NEW t \in Thread, pc \in [Thread -> PC],
         Insertion(t) \/ LockToGet(t) \/ ReadData(t) \/ ReturnData(t)
  PROVE  /\ pc[t] # "idle"
         /\ \A u \in Thread \ {t} : pc'[u] = pc[u]
         /\ pc'[t] \in {"get", "read", "got"} => pc[t] \in {"get", "read", "got"}
<1>1. CASE FetchId(t) \/ WrapId(t) \/ TakeNode(t) \/ CheckKey(t)
  BY <1>1 DEF FetchId, WrapId, TakeNode, CheckKey, Goto
<1>2. CASE LockToEvict(t) \/ Unlink(t) \/ ClearNode(t) \/ FillNode(t)
  BY <1>2 DEF LockToEvict, Unlink, ClearNode, FillNode, Goto
<1>3. CASE LockToInsert(t) \/ InsertN(t) \/ Release(t)
  BY <1>3 DEF LockToInsert, InsertN, Release, Goto
<1>4. CASE LockToGet(t) \/ ReadData(t) \/ ReturnData(t)
  BY <1>4 DEF LockToGet, ReadData, ReturnData, Goto
<1> QED
  BY <1>1, <1>2, <1>3, <1>4 DEF Insertion

\* The set of the waiting threads as one of them goes through the gate.
LEMMA WaitingLeaves ==
  ASSUME RoundTypes, NEW t \in Workers, WaitSemaphore(t)
  PROVE  Cardinality(Waiting') = Cardinality(Waiting) - 1
<1>1. Waiting' = Waiting \ {t} /\ t \in Waiting
  BY DEF Waiting, WaitSemaphore, RoundTypes
<1>2. IsFiniteSet(Waiting)
  BY ThreadAssumption, FS_Subset DEF Waiting
<1> QED
  BY <1>1, <1>2, FS_RemoveElement, FS_CardinalityType, FS_EmptySet

LEMMA RoundStep ==
  ASSUME RoundInv, TestNext \/ UNCHANGED <<vars, testVars>>
  PROVE  RoundInv'
<1>a. Main \in Thread /\ Workers \subseteq Thread /\ Main \notin Workers
      /\ Capacity \in Nat /\ Count \in Nat /\ Capacity <= Count
      /\ IsFiniteSet(Workers) /\ Cardinality(Workers) \in Nat
  BY ThreadAssumption, CountAssumption, CapacityAssumption, FS_CardinalityType
<1>b. RoundTypes /\ Quiet /\ FoundBounded /\ GateExact /\ pc \in [Thread -> PC]
  BY DEF RoundInv, IInv, TypeOK
<1>1. [Next]_vars
  BY RoundStepsCache DEF RoundInv, RoundTypes
<1>2. IInv' /\ LocksOwned'
  BY <1>1, NextInv, LocksOwnedStep DEF RoundInv
<1>3. ASSUME NEW t \in Thread, UNCHANGED gate,
             UNCHANGED life,
             t = Main => round = "warmup",
             t # Main => life[t] = "running",
             \A u \in Thread \ {t} : pc'[u] = pc[u]
      PROVE  Quiet' /\ GateExact'
  BY <1>a, <1>b, <1>3 DEF Quiet, GateExact, gate, RoundTypes
<1>4. CASE WarmUp
  <2>1. /\ pc[Main] = "idle" /\ \A u \in Thread \ {Main} : pc'[u] = pc[u]
        /\ i' = [i EXCEPT ![Main] = @ + 1] /\ UNCHANGED <<gate, life, found>>
        /\ i[Main] < Capacity /\ round = "warmup"
    BY <1>4 DEF WarmUp, CallInsert, Goto, NextItem
  <2>2. Quiet' /\ GateExact'
    BY <1>a, <2>1, <1>3
  <2>3. RoundTypes' /\ FoundBounded'
    BY <1>a, <1>b, <2>1 DEF RoundTypes, FoundBounded, gate
  <2> QED
    BY <1>2, <2>2, <2>3 DEF RoundInv
<1>5. ASSUME NEW t \in Workers, InsertInThread(t) \/ FindInThread(t)
      PROVE  RoundInv'
  <2>1. /\ pc[t] = "idle" /\ \A u \in Thread \ {t} : pc'[u] = pc[u]
        /\ i' = [i EXCEPT ![t] = @ + 1] /\ UNCHANGED <<gate, life, found>>
        /\ i[t] < Count /\ life[t] = "running"
    BY <1>b, <1>5 DEF InsertInThread, FindInThread, CallInsert, CallGet, Goto, NextItem
  <2>2. Quiet' /\ GateExact'
    BY <1>a, <2>1, <1>3
  <2>3. RoundTypes'
    BY <1>a, <1>b, <2>1 DEF RoundTypes, gate
  <2>4. FoundBounded'
    <3> SUFFICES ASSUME NEW u \in Workers
                 PROVE  /\ found'[u] <= i'[u]
                        /\ pc'[u] \in {"get", "read", "got"} => found'[u] < i'[u]
      BY DEF FoundBounded
    <3>1. i[u] \in Nat /\ found[u] \in Nat /\ i[t] \in Nat
      BY <1>a, <1>b DEF RoundTypes
    <3>2. CASE u = t
      BY <1>a, <1>b, <2>1, <3>1, <3>2 DEF FoundBounded, RoundTypes
    <3>3. CASE u # t
      BY <1>a, <1>b, <2>1, <3>1, <3>3 DEF FoundBounded, RoundTypes
    <3> QED
      BY <3>2, <3>3
  <2> QED
    BY <1>2, <2>2, <2>3, <2>4 DEF RoundInv
<1>6. ASSUME NEW t \in Thread, InCache(t)
      PROVE  RoundInv'
  <2>1. UNCHANGED <<gate, life, i, found>>
        /\ (Insertion(t) \/ LockToGet(t) \/ ReadData(t))
    BY <1>6 DEF InCache, testVars
  <2>2. /\ pc[t] # "idle" /\ \A u \in Thread \ {t} : pc'[u] = pc[u]
        /\ pc'[t] \in {"get", "read", "got"} => pc[t] \in {"get", "read", "got"}
    BY <1>b, <2>1, InCacheMoves
  <2>3. (t = Main => round = "warmup") /\ (t # Main => life[t] = "running")
    BY <1>b, <2>2, ThreadAssumption DEF Quiet
  <2>4. Quiet' /\ GateExact'
    BY <2>1, <2>2, <2>3, <1>3
  <2>5. RoundTypes' /\ FoundBounded'
    BY <1>a, <1>b, <2>1, <2>2 DEF RoundTypes, FoundBounded, gate
  <2> QED
    BY <1>2, <2>4, <2>5 DEF RoundInv
<1>7. ASSUME NEW t \in Workers, CountFound(t)
      PROVE  RoundInv'
  <2>1. /\ UNCHANGED <<gate, life, i>>
        /\ ReturnData(t)
        /\ \E d \in {0, 1} : found' = [found EXCEPT ![t] = @ + d]
    BY <1>7 DEF CountFound
  <2>2. pc[t] = "got" /\ pc' = [pc EXCEPT ![t] = "idle"]
    BY <2>1 DEF ReturnData, Goto
  <2>3. Quiet' /\ GateExact'
    <3>1. life[t] = "running" /\ t # Main
      BY <1>a, <1>b, <2>2 DEF Quiet
    <3> QED
      BY <1>a, <1>b, <2>1, <2>2, <3>1, <1>3
  <2>4. RoundTypes'
    BY <1>a, <1>b, <2>1 DEF RoundTypes, gate
  <2>5. FoundBounded'
    <3> SUFFICES ASSUME NEW u \in Workers
                 PROVE  /\ found'[u] <= i'[u]
                        /\ pc'[u] \in {"get", "read", "got"} => found'[u] < i'[u]
      BY DEF FoundBounded
    <3>1. i[u] \in Nat /\ found[u] \in Nat
      BY <1>a, <1>b DEF RoundTypes
    <3>2. CASE u = t
      BY <1>a, <1>b, <2>1, <2>2, <3>1, <3>2 DEF FoundBounded, RoundTypes
    <3>3. CASE u # t
      BY <1>a, <1>b, <2>1, <2>2, <3>1, <3>3 DEF FoundBounded, RoundTypes
    <3> QED
      BY <3>2, <3>3
  <2> QED
    BY <1>2, <2>3, <2>4, <2>5 DEF RoundInv
<1>8. CASE StartThreads
  <2>1. /\ round = "warmup" /\ pc[Main] = "idle" /\ pc' = pc /\ UNCHANGED <<sema, i, found>>
        /\ round' = "signal" /\ posts' = Cardinality(Workers)
        /\ life' = [t \in Workers |-> "waiting"]
    BY <1>8 DEF StartThreads, vars
  <2>2. Waiting' = Workers
    BY <2>1 DEF Waiting
  <2>3. RoundTypes' /\ FoundBounded'
    BY <1>a, <1>b, <2>1 DEF RoundTypes, FoundBounded
  <2>4. Quiet'
    <3>1. \A t \in Workers : life[t] = "none" /\ life'[t] = "waiting"
      BY <1>b, <2>1 DEF Quiet
    <3>2. \A t \in Workers : pc[t] = "idle"
      BY <1>b, <3>1 DEF Quiet
    <3> QED
      BY <2>1, <3>1, <3>2 DEF Quiet
  <2>5. GateExact'
    <3>1. sema' = 0
      BY <1>b, <2>1 DEF Quiet
    <3>2. posts' + sema' = Cardinality(Waiting')
      BY <1>a, <2>1, <2>2, <3>1
    <3> QED
      BY <3>2 DEF GateExact, Waiting
  <2> QED
    BY <1>2, <2>3, <2>4, <2>5 DEF RoundInv
<1>9. CASE Post \/ Signalled \/ JoinAndStop
  <2>1. pc' = pc /\ UNCHANGED <<life, i, found>> /\ round # "warmup" /\ round' # "warmup"
    BY <1>9 DEF Post, Signalled, JoinAndStop, vars
  <2>2. RoundTypes' /\ Quiet' /\ FoundBounded'
    BY <1>a, <1>b, <1>9, <2>1 DEF RoundTypes, Quiet, FoundBounded, Post, Signalled, JoinAndStop
  <2>3. posts' + sema' = posts + sema
    BY <1>b, <1>9 DEF RoundTypes, Post, Signalled, JoinAndStop
  <2>4. GateExact'
    BY <1>b, <2>1, <2>3 DEF GateExact
  <2> QED
    BY <1>2, <2>2, <2>4 DEF RoundInv
<1>10. ASSUME NEW t \in Workers, WaitSemaphore(t)
       PROVE  RoundInv'
  <2>1. /\ pc' = pc /\ UNCHANGED <<round, posts, i, found>> /\ sema' = sema - 1 /\ sema > 0
        /\ life[t] = "waiting" /\ life' = [life EXCEPT ![t] = "running"]
    BY <1>10 DEF WaitSemaphore, vars
  <2>2. RoundTypes' /\ Quiet' /\ FoundBounded'
    BY <1>a, <1>b, <2>1 DEF RoundTypes, Quiet, FoundBounded
  <2>3. round # "warmup" /\ round' # "warmup"
    BY <1>b, <2>1 DEF Quiet
  <2>4. Cardinality(Waiting') = Cardinality(Waiting) - 1
    BY <1>b, <1>10, WaitingLeaves
  <2>5. posts + sema = Cardinality(Waiting)
    BY <1>b, <2>3 DEF GateExact, Waiting
  <2>6. posts' + sema' = Cardinality(Waiting')
    BY <1>b, <2>1, <2>4, <2>5 DEF RoundTypes
  <2>7. GateExact'
    BY <2>6 DEF GateExact, Waiting
  <2> QED
    BY <1>2, <2>2, <2>7 DEF RoundInv
<1>11. ASSUME NEW t \in Workers, ExitThread(t)
       PROVE  RoundInv'
  <2>1. /\ pc' = pc /\ UNCHANGED <<round, posts, sema, i, found>>
        /\ life[t] = "running" /\ pc[t] = "idle" /\ life' = [life EXCEPT ![t] = "done"]
    BY <1>11 DEF ExitThread, vars, gate
  <2>2. RoundTypes' /\ Quiet' /\ FoundBounded'
    BY <1>a, <1>b, <2>1 DEF RoundTypes, Quiet, FoundBounded
  <2>3. {u \in Workers : life'[u] = "waiting"} = {u \in Workers : life[u] = "waiting"}
    BY <1>b, <2>1 DEF RoundTypes
  <2>4. GateExact'
    BY <1>b, <2>1, <2>3 DEF GateExact
  <2> QED
    BY <1>2, <2>2, <2>4 DEF RoundInv
<1>12. CASE UNCHANGED <<vars, testVars>>
  BY <1>2, <1>b, <1>12
  DEF RoundInv, RoundTypes, Quiet, FoundBounded, GateExact, vars, testVars, gate
<1> QED
  BY <1>a, <1>4, <1>5, <1>6, <1>7, <1>8, <1>9, <1>10, <1>11, <1>12
  DEF TestNext, MainStep, WorkerStep

(***************************************************************************)
(* The theorems.                                                           *)
(***************************************************************************)
\* The invariant of the cache and of the round, in every state of a round.
THEOREM RoundInvariance == TestSpec => []RoundInv
<1>1. RoundInv /\ [TestNext]_<<vars, testVars>> => RoundInv'
  BY RoundStep
<1>2. TestSpec => TestInit /\ [][TestNext]_<<vars, testVars>>
  BY PTL DEF TestSpec
<1> QED
  BY <1>1, <1>2, RoundInit, PTL

\* The semaphore that signal_semaphore posts and the threads wait on is owed
\* exactly as many posts as threads wait, for any number of them.
THEOREM GateIsExact == TestSpec => []GateExact
<1>1. RoundInv => GateExact
  BY DEF RoundInv
<1> QED
  BY <1>1, RoundInvariance, PTL

\* When onStop destroys the cache no thread is in it, no mutex is locked and no
\* node is in use: the joins are enough, as no lock or flag outlives its call.
THEOREM DestructionSafe == TestSpec => []DestroyedAtRest
<1>1. ASSUME RoundInv PROVE DestroyedAtRest
  <2> SUFFICES ASSUME round = "stopped"
               PROVE  /\ \A t \in Thread : pc[t] = "idle"
                      /\ \A b \in Basket : writer[b] = NoThread /\ readers[b] = {}
                      /\ \A n \in Node : ~in_use[n]
    BY DEF DestroyedAtRest
  <2>1. \A t \in Thread : pc[t] = "idle"
    BY <1>1, ThreadAssumption DEF RoundInv, Quiet
  <2>2. \A b \in Basket : writer[b] = NoThread /\ readers[b] = {}
    BY <1>1, <2>1 DEF RoundInv, IInv, TypeOK, LocksOwned
  <2>3. \A n \in Node : ~in_use[n]
    BY <1>1, <2>1 DEF RoundInv, IInv, OneHolder, Holds, Holding
  <2> QED
    BY <2>1, <2>2, <2>3
<1> QED
  BY <1>1, RoundInvariance, PTL

\* The types of the round: no worker counts more items than it looked for, and
\* posts and semaphore never exceed the number of threads.
THEOREM RoundTyping == TestSpec => []TestTypeOK
<1>1. ASSUME RoundInv PROVE TestTypeOK
  <2>1. RoundTypes /\ FoundBounded /\ TypeOK /\ Workers \subseteq Thread /\ Count \in Nat
    BY <1>1, ThreadAssumption, CountAssumption DEF RoundInv, IInv
  <2>2. Cardinality(Workers) \in Nat
    BY ThreadAssumption, FS_CardinalityType
  <2>3. posts + sema <= Cardinality(Workers)
    <3>1. CASE round = "warmup"
      BY <1>1, <2>2, <3>1 DEF RoundInv, Quiet
    <3>2. CASE round # "warmup"
      <4>1. Cardinality({t \in Workers : life[t] = "waiting"}) <= Cardinality(Workers)
        BY ThreadAssumption, FS_Subset
      <4> QED
        BY <1>1, <3>2, <4>1 DEF RoundInv, GateExact
    <3> QED
      BY <3>1, <3>2
  <2>4. posts \in 0 .. Cardinality(Workers) /\ sema \in 0 .. Cardinality(Workers)
    BY <2>1, <2>2, <2>3 DEF RoundTypes
  <2>5. \A t \in Workers : found[t] \in 0 .. Count
    BY <2>1 DEF RoundTypes, FoundBounded
  <2>6. found \in [Workers -> 0 .. Count]
    BY <2>1, <2>5 DEF RoundTypes
  <2> QED
    BY <2>1, <2>4, <2>6 DEF TestTypeOK, RoundTypes
<1> QED
  BY <1>1, RoundInvariance, PTL

\* A round is a behaviour of the cache: whatever OnCacheMLRU guarantees of any
\* calls holds of the calls that the test makes.
THEOREM RoundRunsTheCache == TestSpec => Spec
<1>1. RoundInv /\ [TestNext]_<<vars, testVars>> => [Next]_vars
  BY RoundStepsCache DEF RoundInv, RoundTypes
<1>2. TestSpec => TestInit /\ [][TestNext]_<<vars, testVars>>
  BY PTL DEF TestSpec
<1>3. TestInit => Init
  BY DEF TestInit
<1> QED
  BY <1>1, <1>2, <1>3, RoundInvariance, PTL DEF Spec
===============================================================================
