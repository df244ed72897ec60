------------------------- MODULE IntelLRUCache_proofs -------------------------
(***************************************************************************)
(* The aggregator and the cache that uses it, proved for any number of     *)
(* threads, keys and calls, in four layers.                                *)
(*                                                                         *)
(*   HandlerInv   The compare-and-swap that finds the list empty makes its *)
(*                thread the opener, and the list stays non-empty until    *)
(*                the opener takes it: there is one opener at a time, and  *)
(*                it alone is between the test and the set of              *)
(*                handler_busy, so that operations are executed serially.  *)
(*   TrackInv     The links between the operations: no pushed operation is *)
(*                lost, executed twice or reached when its thread went on. *)
(*   ItemsInv     Executed serially and once, the operations keep the      *)
(*                counters, the history and the iterators exact.           *)
(*   ValueInv     One thread produces the value of an item in use.         *)
(*                                                                         *)
(* Together they also show that the cache implements UnusedHistory.        *)
(***************************************************************************)
EXTENDS IntelLRUCache, FiniteSetTheorems, SequenceTheorems, TLAPS

\* What the proof needs of the types.
HandlerTypes ==
    /\ pc \in [Thread -> AggPC \cup {"idle", "ready", "using"}]
    /\ res \in [Thread -> Thread \cup {NULL}]
    /\ pending_operations \in Thread \cup {NULL}
    /\ handler_busy \in BOOLEAN

\* The list has an opener as long as it is not empty.
OpenerWhilePending ==
    pending_operations # NULL <=> \E t \in Thread : Opener(t)

\* handler_busy is the flag of the thread that set it, and of nobody once
\* the opener has seen it clear.
BusyWhileHandling ==
    /\ handler_busy <=> \E t \in Thread : Handling(t)
    /\ \A t \in Thread : pc[t] = "take" => ~handler_busy

HandlerInv ==
    /\ HandlerTypes /\ OpenerWhilePending /\ BusyWhileHandling /\ OneHandler

\* The initial state: the list is empty and nobody handles.
LEMMA HandlerInit == Init => HandlerInv
  BY NullAssumption, Zenon DEF Init, AggInit, HandlerInv, HandlerTypes, AggPC, OpenerWhilePending,
     BusyWhileHandling, OneHandler, Opener, Handling

\* A step that leaves the list, handler_busy and the roles alone.
LEMMA RolesKept ==
  ASSUME HandlerInv, NEW t \in Thread,
         pending_operations' = pending_operations, handler_busy' = handler_busy,
         res' \in [Thread -> Thread \cup {NULL}],
         NEW p \in {"idle", "ready", "using", "link", "push", "wait", "executed"},
         pc[t] \in {"idle", "ready", "using", "link", "push", "wait", "executed"},
         pc' = [pc EXCEPT ![t] = p]
  PROVE  HandlerInv'
<1>1. HandlerTypes'
  BY DEF HandlerInv, HandlerTypes, AggPC
<1>2. \A u \in Thread : Opener(u)' <=> Opener(u)
  BY DEF HandlerInv, HandlerTypes, Opener
<1>3. \A u \in Thread : Handling(u)' <=> Handling(u)
  BY DEF HandlerInv, HandlerTypes, Handling
<1>4. \A u \in Thread : pc'[u] = "take" => pc[u] = "take"
  BY DEF HandlerInv, HandlerTypes
<1> QED
  BY <1>1, <1>2, <1>3, <1>4 DEF HandlerInv, OpenerWhilePending, BusyWhileHandling, OneHandler

\* The compare-and-swap: only who finds the list empty opens it.
LEMMA PushKeepsHandler ==
  ASSUME HandlerInv, NEW t \in Thread, PushOperation(t)
  PROVE  HandlerInv'
<1>1. CASE pending_operations = res[t] /\ res[t] = NULL
  <2>1. pending_operations' = t /\ pc' = [pc EXCEPT ![t] = "spin"] /\ pc[t] = "push"
        /\ UNCHANGED <<handler_busy, res>>
    BY <1>1 DEF PushOperation
  <2>2. \A u \in Thread : ~Opener(u)
    BY <1>1 DEF HandlerInv, OpenerWhilePending
  <2>3. \A u \in Thread : Opener(u)' <=> u = t
    BY <2>1, <2>2 DEF HandlerInv, HandlerTypes, Opener
  <2>4. \A u \in Thread : Handling(u)' <=> Handling(u)
    BY <2>1 DEF HandlerInv, HandlerTypes, Handling
  <2>5. HandlerTypes'
    BY <2>1 DEF HandlerInv, HandlerTypes, AggPC
  <2>6. \A u \in Thread : pc'[u] = "take" => pc[u] = "take"
    BY <2>1 DEF HandlerInv, HandlerTypes
  <2> QED
    BY <2>1, <2>3, <2>4, <2>5, <2>6, NullAssumption
    DEF HandlerInv, OpenerWhilePending, BusyWhileHandling, OneHandler
<1>2. CASE pending_operations = res[t] /\ res[t] # NULL
  <2>1. pending_operations' = t /\ pc' = [pc EXCEPT ![t] = "wait"] /\ pc[t] = "push"
        /\ UNCHANGED <<handler_busy, res>>
    BY <1>2 DEF PushOperation
  <2>2. \A u \in Thread : Opener(u)' <=> Opener(u)
    BY <2>1 DEF HandlerInv, HandlerTypes, Opener
  <2>3. \A u \in Thread : Handling(u)' <=> Handling(u)
    BY <2>1 DEF HandlerInv, HandlerTypes, Handling
  <2>4. HandlerTypes'
    BY <2>1 DEF HandlerInv, HandlerTypes, AggPC
  <2>5. \A u \in Thread : pc'[u] = "take" => pc[u] = "take"
    BY <2>1 DEF HandlerInv, HandlerTypes
  <2> QED
    BY <1>2, <2>1, <2>2, <2>3, <2>4, <2>5, NullAssumption
    DEF HandlerInv, OpenerWhilePending, BusyWhileHandling, OneHandler
<1>3. CASE pending_operations # res[t]
  BY <1>3, RolesKept DEF PushOperation, HandlerInv, HandlerTypes
<1> QED
  BY <1>1, <1>2, <1>3

\* The test of handler_busy: the opener, and nobody else, has seen it clear.
LEMMA SeeFreeKeepsHandler ==
  ASSUME HandlerInv, NEW t \in Thread, SeeFree(t)
  PROVE  HandlerInv'
<1>1. pc[t] = "spin" /\ pc' = [pc EXCEPT ![t] = "take"] /\ ~handler_busy
      /\ UNCHANGED <<lists, res>>
  BY DEF SeeFree, Goto
<1>2. \A u \in Thread : (Opener(u)' <=> Opener(u)) /\ (Handling(u)' <=> Handling(u))
  BY <1>1 DEF HandlerInv, HandlerTypes, Opener, Handling
<1>3. HandlerTypes'
  BY <1>1 DEF HandlerInv, HandlerTypes, AggPC, lists
<1> QED
  BY <1>1, <1>2, <1>3 DEF HandlerInv, OpenerWhilePending, BusyWhileHandling, OneHandler, lists

\* The set of handler_busy: no other opener can have seen it clear as well.
LEMMA TakeKeepsHandler ==
  ASSUME HandlerInv, NEW t \in Thread, TakeHandler(t)
  PROVE  HandlerInv'
<1>1. pc[t] = "take" /\ pc' = [pc EXCEPT ![t] = "grab"] /\ handler_busy' = TRUE
      /\ UNCHANGED <<pending_operations, res>>
  BY DEF TakeHandler, Goto
<1>2. \A u \in Thread : ~Handling(u)
  BY <1>1 DEF HandlerInv, BusyWhileHandling
<1>3. \A u \in Thread : Handling(u)' <=> u = t
  BY <1>1, <1>2 DEF HandlerInv, HandlerTypes, Handling
<1>4. \A u \in Thread : Opener(u)' <=> Opener(u)
  BY <1>1 DEF HandlerInv, HandlerTypes, Opener
<1>5. \A u \in Thread : pc'[u] # "take"
  BY <1>1 DEF HandlerInv, HandlerTypes, OneHandler, Opener
<1>6. HandlerTypes'
  BY <1>1 DEF HandlerInv, HandlerTypes, AggPC
<1> QED
  BY <1>1, <1>3, <1>4, <1>5, <1>6
  DEF HandlerInv, OpenerWhilePending, BusyWhileHandling, OneHandler

\* The list is taken: the opener has become the handler, the next who finds
\* the list empty may open it.
LEMMA GrabKeepsHandler ==
  ASSUME HandlerInv, NEW t \in Thread, GrabList(t)
  PROVE  HandlerInv'
<1>1. pc[t] = "grab" /\ pc' = [pc EXCEPT ![t] = "handle"] /\ pending_operations' = NULL
      /\ UNCHANGED <<handler_busy, res>>
  BY DEF GrabList, Goto
<1>2. \A u \in Thread : ~Opener(u)'
  BY <1>1 DEF HandlerInv, HandlerTypes, OneHandler, Opener
<1>3. \A u \in Thread : Handling(u)' <=> Handling(u)
  BY <1>1 DEF HandlerInv, HandlerTypes, Handling
<1>4. HandlerTypes' /\ \A u \in Thread : pc'[u] = "take" => pc[u] = "take"
  BY <1>1 DEF HandlerInv, HandlerTypes, AggPC
<1> QED
  BY <1>1, <1>2, <1>3, <1>4 DEF HandlerInv, OpenerWhilePending, BusyWhileHandling, OneHandler

\* The handler goes from one operation to the next.
LEMMA HandlingKept ==
  ASSUME HandlerInv, NEW t \in Thread, UNCHANGED <<lists, res>>,
         NEW p \in {"handle", "store"}, pc[t] \in {"handle", "store"},
         pc' = [pc EXCEPT ![t] = p]
  PROVE  HandlerInv'
<1>1. \A u \in Thread : (Opener(u)' <=> Opener(u)) /\ (Handling(u)' <=> Handling(u))
  BY DEF HandlerInv, HandlerTypes, Opener, Handling
<1>2. HandlerTypes' /\ \A u \in Thread : pc'[u] = "take" => pc[u] = "take"
  BY DEF HandlerInv, HandlerTypes, AggPC, lists
<1> QED
  BY <1>1, <1>2 DEF HandlerInv, OpenerWhilePending, BusyWhileHandling, OneHandler, lists

\* The handler is done, and nobody else was one.
LEMMA ReleaseKeepsHandler ==
  ASSUME HandlerInv, NEW t \in Thread, ReleaseHandler(t)
  PROVE  HandlerInv'
<1>1. pc[t] = "handle" /\ pc' = [pc EXCEPT ![t] = "executed"] /\ handler_busy' = FALSE
      /\ UNCHANGED <<pending_operations, res>>
  BY DEF ReleaseHandler, Goto
<1>2. \A u \in Thread : ~Handling(u)'
  BY <1>1 DEF HandlerInv, HandlerTypes, OneHandler, Handling
<1>3. \A u \in Thread : Opener(u)' <=> Opener(u)
  BY <1>1 DEF HandlerInv, HandlerTypes, Opener
<1>4. HandlerTypes'
  BY <1>1 DEF HandlerInv, HandlerTypes, AggPC
<1> QED
  BY <1>1, <1>2, <1>3, <1>4 DEF HandlerInv, OpenerWhilePending, BusyWhileHandling, OneHandler

\* Every step of a thread keeps the invariant.
LEMMA HandlerStep == HandlerInv /\ [Next]_vars => HandlerInv'
<1> SUFFICES ASSUME HandlerInv, [Next]_vars PROVE HandlerInv'
  OBVIOUS
<1> USE DEF Goto, handler
<1>1. ASSUME NEW t \in Thread, Aggregate(t) PROVE HandlerInv'
  <2>1. CASE LinkOperation(t)
    BY <2>1, RolesKept DEF LinkOperation, lists, HandlerInv, HandlerTypes
  <2>2. CASE PushOperation(t)
    BY <2>2, PushKeepsHandler
  <2>3. CASE SeeStatus(t)
    BY <2>3, RolesKept DEF SeeStatus, lists, HandlerInv, HandlerTypes
  <2>4. CASE SeeFree(t)
    BY <2>4, SeeFreeKeepsHandler
  <2>5. CASE TakeHandler(t)
    BY <2>5, TakeKeepsHandler
  <2>6. CASE GrabList(t)
    BY <2>6, GrabKeepsHandler
  <2>7. CASE StoreStatus(t)
    BY <2>7, HandlingKept DEF StoreStatus
  <2>8. CASE ReleaseHandler(t)
    BY <2>8, ReleaseKeepsHandler
  <2> QED
    BY <1>1, <2>1, <2>2, <2>3, <2>4, <2>5, <2>6, <2>7, <2>8 DEF Aggregate, AggStep
<1>2. ASSUME NEW t \in Thread, HandleRetrieve(t) \/ HandleEndOfUsage(t) PROVE HandlerInv'
  BY <1>2, HandlingKept DEF HandleRetrieve, HandleEndOfUsage, HandleOperation
<1>3. ASSUME NEW t \in Thread,
             ComputeValue(t) \/ StoreReady(t) \/ AwaitReady(t) \/ Return(t)
      PROVE  HandlerInv'
  BY <1>3, RolesKept
  DEF ComputeValue, StoreReady, AwaitReady, Return, lists, HandlerInv, HandlerTypes
<1>4. ASSUME NEW t \in Thread, EndUsage(t) \/ \E k \in Key : CallRetrieve(t, k)
      PROVE  HandlerInv'
  BY <1>4, RolesKept
  DEF EndUsage, CallRetrieve, NewOperation, lists, HandlerInv, HandlerTypes
<1>5. CASE UNCHANGED vars
  BY <1>5 DEF vars, aggVars, lists, HandlerInv, HandlerTypes, OpenerWhilePending,
     BusyWhileHandling, OneHandler, Opener, Handling
<1> QED
  BY <1>1, <1>2, <1>3, <1>4, <1>5 DEF Next, Step

\* "Only one thread can possibly spin here at a time": the aggregator gives
\* its operations to one handler, whatever the operations are.
THEOREM SerialExecution == Spec => []OneHandler
<1>1. HandlerInv => OneHandler
  BY DEF HandlerInv
<1> QED
  BY HandlerInit, HandlerStep, <1>1, PTL DEF Spec

(***************************************************************************)
(* Lists of operations.  A chain is a smallest closed set, so that what is *)
(* said of all its members is shown by giving a closed set of such.        *)
(***************************************************************************)
Links == [Thread -> Thread \cup {NULL}]

\* A chain is closed, and has the operation that it starts from.
LEMMA ChainClosed ==
  ASSUME NEW links \in Links, NEW o \in Thread \cup {NULL}
  PROVE  /\ Chain(links, o) \in SUBSET Thread
         /\ o \in Chain(links, o) \cup {NULL}
         /\ \A p \in Chain(links, o) : links[p] \in Chain(links, o) \cup {NULL}
<1>1. Chain(links, o) \in SUBSET Thread
  BY DEF Chain
<1>2. o \in Chain(links, o) \cup {NULL}
  BY DEF Chain
<1>3. ASSUME NEW p \in Chain(links, o), links[p] # NULL
      PROVE  links[p] \in Chain(links, o)
  <2>1. links[p] \in Thread
    BY <1>1, <1>3 DEF Links
  <2>2. ASSUME NEW S \in SUBSET Thread, o \in S \cup {NULL},
               \A q \in S : links[q] \in S \cup {NULL}
        PROVE  links[p] \in S
    BY <1>3, <2>2 DEF Chain
  <2> QED
    BY <2>1, <2>2 DEF Chain
<1> QED
  BY <1>1, <1>2, <1>3

\* It is the smallest such set.
LEMMA ChainSmallest ==
  ASSUME NEW links \in Links, NEW o \in Thread \cup {NULL}, NEW S \in SUBSET Thread,
         o \in S \cup {NULL}, \A q \in S : links[q] \in S \cup {NULL}
  PROVE  Chain(links, o) \subseteq S
  BY DEF Chain

\* Nothing is reached from NULL.
LEMMA ChainOfNull ==
  ASSUME NEW links \in Links
  PROVE  Chain(links, NULL) = {}
<1>1. PICK S \in SUBSET Thread : S = {}
  OBVIOUS
<1>2. NULL \in S \cup {NULL} /\ \A q \in S : links[q] \in S \cup {NULL}
  BY <1>1
<1>3. Chain(links, NULL) \subseteq S
  BY <1>2, ChainSmallest
<1> QED
  BY <1>1, <1>3

\* An operation that is reached reaches no more.
LEMMA ChainWithin ==
  ASSUME NEW links \in Links, NEW o \in Thread \cup {NULL}, NEW p \in Chain(links, o)
  PROVE  Chain(links, links[p]) \subseteq Chain(links, o)
<1>1. /\ Chain(links, o) \in SUBSET Thread
      /\ links[p] \in Chain(links, o) \cup {NULL}
      /\ \A q \in Chain(links, o) : links[q] \in Chain(links, o) \cup {NULL}
  BY ChainClosed
<1> QED
  BY <1>1, ChainSmallest

\* An operation, and what its successor reaches.
LEMMA ChainUnfold ==
  ASSUME NEW links \in Links, NEW o \in Thread
  PROVE  Chain(links, o) = {o} \cup Chain(links, links[o])
<1> DEFINE rest == Chain(links, links[o])
<1>1. links[o] \in Thread \cup {NULL}
  BY DEF Links
<1>2. /\ rest \in SUBSET Thread
      /\ links[o] \in rest \cup {NULL}
      /\ \A p \in rest : links[p] \in rest \cup {NULL}
  BY <1>1, ChainClosed
<1>3. o \in Chain(links, o)
  BY ChainClosed, NullAssumption
<1>4. rest \subseteq Chain(links, o)
  BY <1>3, ChainWithin
<1> HIDE DEF rest
<1> DEFINE all == {o} \cup rest
<1>5. /\ all \in SUBSET Thread
      /\ o \in all \cup {NULL}
      /\ \A q \in all : links[q] \in all \cup {NULL}
  BY <1>2
<1> HIDE DEF all
<1>6. Chain(links, o) \subseteq all
  BY <1>5, ChainSmallest
<1> QED
  BY <1>3, <1>4, <1>6 DEF rest, all

\* A chain depends on the links of its own members only.
LEMMA ChainKept ==
  ASSUME NEW links \in Links, NEW other \in Links, NEW o \in Thread \cup {NULL},
         \A p \in Chain(links, o) : other[p] = links[p]
  PROVE  Chain(other, o) = Chain(links, o)
<1> DEFINE C == Chain(links, o)
           D == Chain(other, o)
<1>1. C \in SUBSET Thread /\ o \in C \cup {NULL} /\ \A q \in C : links[q] \in C \cup {NULL}
  BY ChainClosed
<1>2. D \in SUBSET Thread /\ o \in D \cup {NULL} /\ \A q \in D : other[q] \in D \cup {NULL}
  BY ChainClosed
<1>3. \A p \in C : other[p] = links[p]
  OBVIOUS
<1> HIDE DEF C, D
<1>4. D \subseteq C
  <2>1. \A q \in C : other[q] \in C \cup {NULL}
    BY <1>1, <1>3
  <2> QED
    BY <1>1, <2>1, ChainSmallest DEF D
<1>5. C \subseteq D
  <2>1. \A q \in D : links[q] \in D \cup {NULL}
    BY <1>2, <1>3, <1>4
  <2> QED
    BY <1>2, <2>1, ChainSmallest DEF C
<1> QED
  BY <1>4, <1>5 DEF C, D

\* No operation follows itself.
Acyclic(links, o) == \A p \in Chain(links, o) : p \notin Chain(links, links[p])

LEMMA AcyclicKept ==
  ASSUME NEW links \in Links, NEW other \in Links, NEW o \in Thread \cup {NULL},
         \A p \in Chain(links, o) : other[p] = links[p], Acyclic(links, o)
  PROVE  Acyclic(other, o)
<1>1. Chain(other, o) = Chain(links, o)
  BY ChainKept
<1> SUFFICES ASSUME NEW p \in Chain(links, o)
             PROVE  p \notin Chain(other, other[p])
  BY <1>1 DEF Acyclic
<1>2. links[p] \in Thread \cup {NULL} /\ other[p] = links[p]
  BY ChainClosed
<1>3. \A q \in Chain(links, links[p]) : other[q] = links[q]
  BY ChainWithin
<1>4. Chain(other, links[p]) = Chain(links, links[p])
  BY <1>2, <1>3, ChainKept
<1> QED
  BY <1>2, <1>4 DEF Acyclic

\* One more operation in front of a list that it was not in.
LEMMA AcyclicPushed ==
  ASSUME NEW links \in Links, NEW o \in Thread,
         o \notin Chain(links, links[o]), Acyclic(links, links[o])
  PROVE  Acyclic(links, o)
  BY ChainUnfold DEF Acyclic

\* The rest of a list.
LEMMA AcyclicRest ==
  ASSUME NEW links \in Links, NEW o \in Thread, Acyclic(links, o)
  PROVE  Acyclic(links, links[o]) /\ o \notin Chain(links, links[o])
  BY ChainUnfold DEF Acyclic

(***************************************************************************)
(* No operation is lost: the invariant.                                    *)
(***************************************************************************)
\* OperationsTracked, operation by operation.
Tracked ==
    \A p \in Thread : p \in Pushed <=>
        p \in Pending \/ \E u \in Thread : Handling(u) /\ p \in Taken(u)

\* What a handler has is in no other place, and who is none has nothing.
HandsApart ==
    \A u \in Thread :
        /\ Handling(u) => Pending \cap Taken(u) = {}
        /\ pc[u] = "store" => tmp[u] \in Thread /\ tmp[u] \notin Chain(next, op_list[u])
        /\ pc[u] \notin {"handle", "store"} => op_list[u] = NULL

\* Neither list runs in a circle.
ListsAcyclic ==
    /\ Acyclic(next, pending_operations)
    /\ \A u \in Thread : Acyclic(next, op_list[u])

\* The operation of the opener is in the list until he takes the list, and
\* in his hands until it is executed.
OwnPlace ==
    \A t \in Thread :
        /\ Opener(t) => t \in Pending
        /\ pc[t] \in {"handle", "store"} /\ status[t] = 0 => t \in Taken(t)

\* An operation that was not pushed, or that nobody has taken, is not executed.
StatusClear == \A t \in Thread : pc[t] \in {"link", "push"} \/ Opener(t) => status[t] = 0

\* The head of the list that a thread read is what it links its operation to.
LinkRead == \A t \in Thread : pc[t] = "push" => next[t] = res[t]

TrackInv ==
    /\ AggTypeOK
    /\ Tracked /\ HandsApart /\ ListsAcyclic
    /\ OwnPlace /\ StatusClear /\ LinkRead /\ OwnStatusSet

\* The initial state: both lists are empty.
LEMMA TrackInit == Init => TrackInv
<1> SUFFICES ASSUME Init PROVE TrackInv
  OBVIOUS
<1>1. next \in Links /\ pending_operations = NULL /\ \A u \in Thread : op_list[u] = NULL
  BY DEF Init, AggInit, Links
<1>2. Chain(next, NULL) = {}
  BY <1>1, ChainOfNull
<1>3. AggTypeOK /\ \A t \in Thread : pc[t] = "idle"
  BY DEF Init, AggInit, AggTypeOK
<1> QED
  BY <1>1, <1>2, <1>3
  DEF TrackInv, Tracked, HandsApart, ListsAcyclic, Acyclic, OwnPlace, StatusClear, LinkRead,
      OwnStatusSet, Pushed, Pending, Taken, Opener, Handling

\* The places of the threads that neither have pushed nor handle operations.
Outside == {"idle", "ready", "using", "link", "push", "executed"}

\* A step of a thread whose operation is in no list, and stays in none.
LEMMA OutsideKeepsTrack ==
  ASSUME HandlerInv, TrackInv, NEW t \in Thread, t \notin Pushed,
         UNCHANGED <<pending_operations, handler>>,
         next' \in Links, res' \in Links, status' \in [Thread -> {0, 1}],
         handler_busy' \in BOOLEAN,
         \A u \in Thread \ {t} : /\ next'[u] = next[u] /\ res'[u] = res[u]
                                 /\ status'[u] = status[u],
         NEW p \in Outside, pc[t] \in Outside \cup {"wait"}, pc' = [pc EXCEPT ![t] = p],
         p \in {"link", "push"} => status'[t] = 0,
         p = "push" => next'[t] = res'[t],
         p = "executed" => status'[t] = 1
  PROVE  TrackInv'
<1>1. AggTypeOK'
  BY DEF TrackInv, AggTypeOK, Links, handler
<1>2. /\ pc'[t] = p /\ \A u \in Thread \ {t} : pc'[u] = pc[u]
      /\ \A u \in Thread : op_list[u] \in Thread \cup {NULL}
      /\ pending_operations \in Thread \cup {NULL}
      /\ next \in Links
      /\ op_list' = op_list /\ tmp' = tmp /\ pending_operations' = pending_operations
  BY DEF HandlerInv, HandlerTypes, TrackInv, AggTypeOK, Links, handler
<1>3. \A u \in Thread : (Opener(u)' <=> Opener(u)) /\ (Handling(u)' <=> Handling(u))
  BY <1>2 DEF Opener, Handling, Outside
<1>4. \A u \in Thread : u \in Pushed' <=> u \in Pushed
  BY <1>2, <1>3 DEF Pushed, Outside, Opener
<1>5. t \notin Pending /\ \A u \in Thread : t \notin Chain(next, op_list[u])
  <2>1. t \notin Pending /\ \A u \in Thread : Handling(u) => t \notin Taken(u)
    BY DEF TrackInv, Tracked
  <2>2. \A u \in Thread : ~Handling(u) => Chain(next, op_list[u]) = {}
    BY <1>2, ChainOfNull DEF TrackInv, HandsApart, Handling
  <2> QED
    BY <2>1, <2>2 DEF Taken
<1>6. Pending' = Pending /\ Acyclic(next, pending_operations)'
  <2>1. \A q \in Chain(next, pending_operations) : next'[q] = next[q]
    BY <1>2, <1>5, ChainClosed DEF Pending
  <2>2. Acyclic(next, pending_operations)
    BY DEF TrackInv, ListsAcyclic
  <2> QED
    BY <1>2, <2>1, <2>2, ChainKept, AcyclicKept DEF Pending
<1>7. ASSUME NEW u \in Thread
      PROVE  /\ Chain(next, op_list[u])' = Chain(next, op_list[u])
             /\ Acyclic(next, op_list[u])'
  <2>1. \A q \in Chain(next, op_list[u]) : next'[q] = next[q]
    BY <1>2, <1>5, ChainClosed
  <2>2. Acyclic(next, op_list[u])
    BY DEF TrackInv, ListsAcyclic
  <2> QED
    BY <1>2, <2>1, <2>2, ChainKept, AcyclicKept
<1>8. \A u \in Thread : Taken(u)' = Taken(u)
  BY <1>2, <1>7 DEF Taken, Outside
<1>9. Tracked'
  BY <1>3, <1>4, <1>6, <1>8 DEF TrackInv, Tracked
<1>10. HandsApart'
  BY <1>2, <1>3, <1>6, <1>7, <1>8 DEF TrackInv, HandsApart, Outside
<1>11. ListsAcyclic'
  BY <1>6, <1>7 DEF ListsAcyclic
<1>12. OwnPlace'
  BY <1>2, <1>3, <1>6, <1>8 DEF TrackInv, OwnPlace, Outside
<1>13. StatusClear' /\ LinkRead' /\ OwnStatusSet'
  BY <1>2, <1>3 DEF TrackInv, StatusClear, LinkRead, OwnStatusSet, Outside, Opener
<1> QED
  BY <1>1, <1>9, <1>10, <1>11, <1>12, <1>13 DEF TrackInv

\* The compare-and-swap puts an operation in front of the list.
LEMMA PushKeepsTrack ==
  ASSUME HandlerInv, TrackInv, NEW t \in Thread, PushOperation(t)
  PROVE  TrackInv'
<1>1. CASE pending_operations # res[t]
  BY <1>1, OutsideKeepsTrack
  DEF PushOperation, ops, handler, Outside, Pushed, Opener, TrackInv, AggTypeOK, Links,
      StatusClear
<1>2. CASE pending_operations = res[t]
  <2> DEFINE p == IF res[t] = NULL THEN "spin" ELSE "wait"
  <2>1. /\ pc[t] = "push" /\ pc' = [pc EXCEPT ![t] = p]
        /\ pending_operations' = t
        /\ UNCHANGED <<handler_busy, status, next, res, op_list, tmp>>
    BY <1>2 DEF PushOperation, ops, handler
  <2>2. /\ pc'[t] = p /\ \A u \in Thread \ {t} : pc'[u] = pc[u]
        /\ next \in Links /\ status[t] = 0
        /\ next[t] = pending_operations
        /\ \A u \in Thread : op_list[u] \in Thread \cup {NULL}
    BY <1>2, <2>1
    DEF HandlerInv, HandlerTypes, TrackInv, AggTypeOK, StatusClear, LinkRead, Links
  <2>3. AggTypeOK'
    BY <2>1 DEF TrackInv, AggTypeOK
  <2>4. t \notin Pushed
    BY <2>1 DEF Pushed, Opener
  <2>5. t \notin Pending /\ \A u \in Thread : Handling(u) => t \notin Taken(u)
    BY <2>4 DEF TrackInv, Tracked
  <2>6. Pending' = {t} \cup Pending
    BY <2>1, <2>2, ChainUnfold DEF Pending
  <2>7. Acyclic(next, t)
    BY <2>2, <2>5, AcyclicPushed DEF Pending, TrackInv, ListsAcyclic
  <2>8. \A u \in Thread : u \in Pushed' <=> u = t \/ u \in Pushed
    BY <2>1, <2>2 DEF Pushed, Opener
  <2>9. \A u \in Thread : /\ Handling(u)' <=> Handling(u)
                          /\ Taken(u)' = Taken(u)
    BY <2>1, <2>2 DEF Handling, Taken
  <2>10. Tracked'
    BY <2>6, <2>8, <2>9 DEF TrackInv, Tracked
  <2>11. HandsApart'
    BY <2>1, <2>2, <2>5, <2>6, <2>9 DEF TrackInv, HandsApart
  <2>12. ListsAcyclic'
    BY <2>1, <2>7 DEF TrackInv, ListsAcyclic
  <2>13. OwnPlace'
    <3>1. \A u \in Thread \ {t} : Opener(u)' <=> Opener(u)
      BY <2>2 DEF Opener
    <3> QED
      BY <2>1, <2>2, <2>6, <2>9, <3>1 DEF TrackInv, OwnPlace
  <2>14. StatusClear' /\ LinkRead' /\ OwnStatusSet'
    BY <2>1, <2>2 DEF TrackInv, StatusClear, LinkRead, OwnStatusSet, Opener
  <2> QED
    BY <2>3, <2>10, <2>11, <2>12, <2>13, <2>14 DEF TrackInv
<1> QED
  BY <1>1, <1>2

\* The opener waits for the handler, and becomes one with nothing in his hands.
LEMMA OpenerKeepsTrack ==
  ASSUME HandlerInv, TrackInv, NEW t \in Thread, SeeFree(t) \/ TakeHandler(t)
  PROVE  TrackInv'
<1>1. /\ pc[t] \in {"spin", "take"} /\ pc'[t] \in {"take", "grab"}
      /\ \A u \in Thread \ {t} : pc'[u] = pc[u]
      /\ UNCHANGED <<pending_operations, status, next, res, op_list, tmp>>
      /\ handler_busy' \in BOOLEAN
  BY DEF SeeFree, TakeHandler, Goto, lists, ops, handler, HandlerInv, HandlerTypes
<1>2. next \in Links /\ op_list[t] = NULL
  BY <1>1 DEF TrackInv, AggTypeOK, HandsApart, Links
<1>3. Chain(next, op_list[t]) = {}
  BY <1>2, ChainOfNull
<1>4. Taken(t) = {} /\ \A u \in Thread : Taken(u)' = Taken(u)
  BY <1>1, <1>3 DEF Taken
<1>5. Pending' = Pending
  BY <1>1 DEF Pending
<1>6. \A u \in Thread : (Opener(u)' <=> Opener(u)) /\ (u # t => (Handling(u)' <=> Handling(u)))
  BY <1>1 DEF Opener, Handling
<1>7. \A u \in Thread : u \in Pushed' <=> u \in Pushed
  BY <1>1, <1>6 DEF Pushed, Opener
<1>8. Tracked'
  BY <1>4, <1>5, <1>6, <1>7 DEF TrackInv, Tracked
<1>9. HandsApart'
  BY <1>1, <1>4, <1>5, <1>6 DEF TrackInv, HandsApart
<1>10. ListsAcyclic'
  BY <1>1 DEF TrackInv, ListsAcyclic
<1>11. OwnPlace'
  BY <1>1, <1>4, <1>5, <1>6 DEF TrackInv, OwnPlace
<1>12. StatusClear' /\ LinkRead' /\ OwnStatusSet'
  BY <1>1, <1>6 DEF TrackInv, StatusClear, LinkRead, OwnStatusSet
<1>13. AggTypeOK'
  BY <1>1 DEF TrackInv, AggTypeOK
<1> QED
  BY <1>8, <1>9, <1>10, <1>11, <1>12, <1>13 DEF TrackInv

\* The whole list goes from its place to the hands of the handler.
LEMMA GrabKeepsTrack ==
  ASSUME HandlerInv, TrackInv, NEW t \in Thread, GrabList(t)
  PROVE  TrackInv'
<1>1. /\ pc[t] = "grab" /\ pc'[t] = "handle" /\ \A u \in Thread \ {t} : pc'[u] = pc[u]
      /\ pending_operations' = NULL
      /\ op_list'[t] = pending_operations /\ \A u \in Thread \ {t} : op_list'[u] = op_list[u]
      /\ UNCHANGED <<handler_busy, status, next, res, tmp>>
  BY DEF GrabList, Goto, ops, HandlerInv, HandlerTypes, TrackInv, AggTypeOK
<1>2. AggTypeOK'
  BY DEF TrackInv, AggTypeOK, GrabList, ops
<1>3. next \in Links /\ op_list[t] = NULL /\ status[t] = 0
  BY <1>1 DEF TrackInv, AggTypeOK, HandsApart, StatusClear, Opener, Links
<1>4. Chain(next, NULL) = {}
  BY <1>3, ChainOfNull
<1>5. Taken(t) = {} /\ Taken(t)' = Pending /\ \A u \in Thread \ {t} : Taken(u)' = Taken(u)
  BY <1>1, <1>3, <1>4 DEF Taken, Pending
<1>6. Pending' = {}
  BY <1>1, <1>4 DEF Pending
<1>7. \A u \in Thread : (Handling(u)' <=> Handling(u)) /\ (Handling(u) => u = t)
  BY <1>1 DEF Handling, HandlerInv, OneHandler
<1>8. \A u \in Thread : ~Opener(u)'
  BY <1>1 DEF Opener, HandlerInv, OneHandler
<1>9. \A u \in Thread : u \in Pushed' <=> u \in Pushed
  <2>1. t \in Pushed /\ t \in Pushed'
    BY <1>1, <1>3 DEF Pushed, Opener
  <2> QED
    BY <1>1, <2>1 DEF Pushed, Opener
<1>10. Tracked'
  <2>1. Handling(t)
    BY <1>1 DEF Handling
  <2> QED
    BY <1>5, <1>6, <1>7, <1>9, <2>1 DEF TrackInv, Tracked
<1>11. HandsApart'
  BY <1>1, <1>5, <1>6, <1>7 DEF TrackInv, HandsApart
<1>12. ListsAcyclic'
  <2>1. Acyclic(next, NULL)
    BY <1>4 DEF Acyclic
  <2> QED
    BY <1>1, <2>1 DEF TrackInv, ListsAcyclic
<1>13. OwnPlace'
  <2>1. t \in Pending
    BY <1>1 DEF TrackInv, OwnPlace, Opener
  <2>2. \A u \in Thread \ {t} : pc'[u] \notin {"handle", "store"}
    BY <1>1, <1>7 DEF Handling
  <2> QED
    BY <1>5, <1>8, <2>1, <2>2 DEF OwnPlace
<1>14. StatusClear' /\ LinkRead' /\ OwnStatusSet'
  BY <1>1, <1>8 DEF TrackInv, StatusClear, LinkRead, OwnStatusSet
<1> QED
  BY <1>2, <1>10, <1>11, <1>12, <1>13, <1>14 DEF TrackInv

\* The operation that is executed stays in the hands of the handler.
LEMMA HandleKeepsTrack ==
  ASSUME HandlerInv, TrackInv, NEW t \in Thread, HandleOperation(t)
  PROVE  TrackInv'
<1> DEFINE o == op_list[t]
<1>1. /\ pc[t] = "handle" /\ pc'[t] = "store" /\ \A u \in Thread \ {t} : pc'[u] = pc[u]
      /\ o \in Thread
      /\ tmp'[t] = o /\ \A u \in Thread \ {t} : tmp'[u] = tmp[u]
      /\ op_list'[t] = next[o] /\ \A u \in Thread \ {t} : op_list'[u] = op_list[u]
      /\ UNCHANGED <<pending_operations, handler_busy, status, next, res>>
  BY DEF HandleOperation, Goto, lists, ops, HandlerInv, HandlerTypes, TrackInv, AggTypeOK
<1>2. AggTypeOK'
  BY <1>1 DEF TrackInv, AggTypeOK, HandleOperation, lists, ops
<1>3. next \in Links
  BY DEF TrackInv, AggTypeOK, Links
<1>4. Chain(next, o) = {o} \cup Chain(next, next[o])
  BY <1>1, <1>3, ChainUnfold
<1>5. Acyclic(next, next[o]) /\ o \notin Chain(next, next[o])
  BY <1>1, <1>3, AcyclicRest DEF TrackInv, ListsAcyclic
<1>6. \A u \in Thread : Taken(u)' = Taken(u)
  BY <1>1, <1>4 DEF Taken
<1>7. Pending' = Pending
  BY <1>1 DEF Pending
<1>8. \A u \in Thread : (Handling(u)' <=> Handling(u)) /\ (Opener(u)' <=> Opener(u))
  BY <1>1 DEF Handling, Opener
<1>9. \A u \in Thread : u \in Pushed' <=> u \in Pushed
  BY <1>1, <1>8 DEF Pushed
<1>10. Tracked'
  BY <1>6, <1>7, <1>8, <1>9 DEF TrackInv, Tracked
<1>11. HandsApart'
  BY <1>1, <1>5, <1>6, <1>7, <1>8 DEF TrackInv, HandsApart
<1>12. ListsAcyclic'
  BY <1>1, <1>5 DEF TrackInv, ListsAcyclic
<1>13. OwnPlace'
  BY <1>1, <1>6, <1>7, <1>8 DEF TrackInv, OwnPlace
<1>14. StatusClear' /\ LinkRead' /\ OwnStatusSet'
  BY <1>1, <1>8 DEF TrackInv, StatusClear, LinkRead, OwnStatusSet
<1> QED
  BY <1>2, <1>10, <1>11, <1>12, <1>13, <1>14 DEF TrackInv

\* The operation whose status is set was in the hands of the handler, and is
\* in no place any more: its thread may go on.
LEMMA StoreKeepsTrack ==
  ASSUME HandlerInv, TrackInv, NEW t \in Thread, StoreStatus(t)
  PROVE  TrackInv'
<1> DEFINE x == tmp[t]
<1>1. /\ pc[t] = "store" /\ pc'[t] = "handle" /\ \A u \in Thread \ {t} : pc'[u] = pc[u]
      /\ x \in Thread /\ x \notin Chain(next, op_list[t])
      /\ status'[x] = 1 /\ \A u \in Thread \ {x} : status'[u] = status[u]
      /\ UNCHANGED <<pending_operations, handler_busy, next, res, op_list>>
  BY DEF StoreStatus, Goto, lists, HandlerInv, HandlerTypes, TrackInv, AggTypeOK, HandsApart
<1>2. AggTypeOK'
  BY <1>1 DEF TrackInv, AggTypeOK, StoreStatus, lists
<1>3. \A u \in Thread : (Handling(u)' <=> Handling(u)) /\ (Opener(u)' <=> Opener(u))
  BY <1>1 DEF Handling, Opener
<1>4. Handling(t) /\ \A u \in Thread : Handling(u) => u = t
  BY <1>1 DEF Handling, HandlerInv, OneHandler
<1>5. Pending' = Pending
  BY <1>1 DEF Pending
<1>6. /\ Taken(t) = Chain(next, op_list[t]) \cup {x}
      /\ Taken(t)' = Chain(next, op_list[t])
  BY <1>1 DEF Taken
<1>7. x \notin Pending /\ x \in Pushed
  BY <1>4, <1>6, <1>1 DEF TrackInv, HandsApart, Tracked
<1>8. ~Opener(x)
  BY <1>1, <1>7 DEF TrackInv, OwnPlace
<1>9. \A u \in Thread : u \in Pushed' <=> u \in Pushed /\ u # x
  <2>1. x \notin Pushed'
    BY <1>1, <1>3, <1>8 DEF Pushed
  <2>2. \A u \in Thread \ {x} : u \in Pushed' <=> u \in Pushed
    BY <1>1, <1>3 DEF Pushed
  <2> QED
    BY <2>1, <2>2
<1>10. Tracked'
  <2>1. \A u \in Thread : u \in Taken(t)' <=> u \in Taken(t) /\ u # x
    BY <1>1, <1>6
  <2>2. \A u \in Thread : u \in Pushed <=> u \in Pending \/ u \in Taken(t)
    BY <1>4 DEF TrackInv, Tracked
  <2>3. \A u \in Thread : u \in Pushed' <=> u \in Pending' \/ u \in Taken(t)'
    BY <1>5, <1>7, <1>9, <2>1, <2>2
  <2> QED
    BY <1>3, <1>4, <2>3 DEF Tracked
<1>11. HandsApart'
  <2>1. Pending' \cap Taken(t)' = {}
    BY <1>4, <1>5, <1>6 DEF TrackInv, HandsApart
  <2>2. \A u \in Thread : pc'[u] # "store"
    BY <1>1, <1>4 DEF Handling
  <2>3. \A u \in Thread : pc'[u] \notin {"handle", "store"} => op_list'[u] = NULL
    BY <1>1 DEF TrackInv, HandsApart
  <2> QED
    BY <1>3, <1>4, <2>1, <2>2, <2>3 DEF HandsApart
<1>12. ListsAcyclic'
  BY <1>1 DEF TrackInv, ListsAcyclic
<1>13. OwnPlace'
  <2>1. \A u \in Thread \ {t} : pc'[u] \notin {"handle", "store"}
    BY <1>1, <1>4 DEF Handling
  <2>2. status'[t] = 0 => t \in Taken(t)'
    BY <1>1, <1>6 DEF TrackInv, OwnPlace
  <2> QED
    BY <1>3, <1>5, <2>1, <2>2 DEF TrackInv, OwnPlace
<1>14. StatusClear'
  <2>1. pc[x] \notin {"link", "push"} /\ ~Opener(x)
    BY <1>7, <1>8 DEF Pushed
  <2>2. \A u \in Thread : pc'[u] \in {"link", "push"} => pc[u] \in {"link", "push"}
    BY <1>1
  <2> QED
    BY <1>1, <1>3, <2>1, <2>2 DEF TrackInv, StatusClear
<1>15. LinkRead' /\ OwnStatusSet'
  BY <1>1 DEF TrackInv, LinkRead, OwnStatusSet
<1> QED
  BY <1>2, <1>10, <1>11, <1>12, <1>13, <1>14, <1>15 DEF TrackInv

\* The handler that leaves has executed all that it took, its own operation
\* too.
LEMMA ReleaseKeepsTrack ==
  ASSUME HandlerInv, TrackInv, NEW t \in Thread, ReleaseHandler(t)
  PROVE  TrackInv' /\ status[t] = 1
<1>1. /\ pc[t] = "handle" /\ pc'[t] = "executed" /\ \A u \in Thread \ {t} : pc'[u] = pc[u]
      /\ op_list[t] = NULL
      /\ UNCHANGED <<pending_operations, status, next, res, op_list, tmp>>
      /\ handler_busy' = FALSE
  BY DEF ReleaseHandler, Goto, lists, ops, handler, HandlerInv, HandlerTypes
<1>2. next \in Links
  BY DEF TrackInv, AggTypeOK, Links
<1>3. Taken(t) = {}
  BY <1>1, <1>2, ChainOfNull DEF Taken
<1>4. status[t] = 1
  BY <1>1, <1>3 DEF TrackInv, OwnPlace, AggTypeOK
<1>5. \A u \in Thread : Handling(u) => u = t
  BY <1>1 DEF Handling, HandlerInv, OneHandler
<1>6. \A u \in Thread : ~Handling(u)' /\ (Opener(u)' <=> Opener(u))
  BY <1>1, <1>5 DEF Handling, Opener
<1>7. \A u \in Thread : u \in Pushed' <=> u \in Pushed
  BY <1>1, <1>4, <1>6 DEF Pushed
<1>8. Pending' = Pending
  BY <1>1 DEF Pending
<1>9. Tracked'
  BY <1>3, <1>5, <1>6, <1>7, <1>8 DEF TrackInv, Tracked
<1>10. HandsApart'
  BY <1>1, <1>6 DEF TrackInv, HandsApart
<1>11. ListsAcyclic'
  BY <1>1 DEF TrackInv, ListsAcyclic
<1>12. OwnPlace'
  <2>1. \A u \in Thread : pc'[u] \notin {"handle", "store"}
    BY <1>6 DEF Handling
  <2> QED
    BY <1>6, <1>8, <2>1 DEF TrackInv, OwnPlace
<1>13. StatusClear' /\ LinkRead' /\ OwnStatusSet'
  BY <1>1, <1>4, <1>6 DEF TrackInv, StatusClear, LinkRead, OwnStatusSet
<1>14. AggTypeOK'
  BY <1>1 DEF TrackInv, AggTypeOK
<1> QED
  BY <1>4, <1>9, <1>10, <1>11, <1>12, <1>13, <1>14 DEF TrackInv

\* Every step of a thread keeps the invariant.
LEMMA TrackStep == HandlerInv /\ TrackInv /\ [Next]_vars => TrackInv'
<1> SUFFICES ASSUME HandlerInv, TrackInv, [Next]_vars PROVE TrackInv'
  OBVIOUS
<1>t. next \in Links /\ res \in Links /\ status \in [Thread -> {0, 1}] /\ handler_busy \in BOOLEAN
  BY DEF TrackInv, AggTypeOK, Links
<1>1. ASSUME NEW t \in Thread, Aggregate(t) PROVE TrackInv'
  <2>1. CASE LinkOperation(t)
    <3>1. /\ pc[t] = "link" /\ pc' = [pc EXCEPT ![t] = "push"]
          /\ res' = [res EXCEPT ![t] = pending_operations]
          /\ next' = [next EXCEPT ![t] = pending_operations]
          /\ UNCHANGED <<pending_operations, handler_busy, status, handler>>
      BY <2>1 DEF LinkOperation, Goto, lists
    <3>2. pending_operations \in Thread \cup {NULL} /\ status[t] = 0
      BY <3>1 DEF HandlerInv, HandlerTypes, TrackInv, StatusClear
    <3>3. next' \in Links /\ res' \in Links /\ next'[t] = res'[t]
      BY <1>t, <3>1, <3>2 DEF Links
    <3>4. t \notin Pushed
      BY <3>1 DEF Pushed, Opener
    <3>5. \A u \in Thread \ {t} : next'[u] = next[u] /\ res'[u] = res[u] /\ status'[u] = status[u]
      BY <1>t, <3>1 DEF Links
    <3> QED
      BY <1>t, <3>1, <3>2, <3>3, <3>4, <3>5, OutsideKeepsTrack DEF Outside
  <2>2. CASE PushOperation(t)
    BY <2>2, PushKeepsTrack
  <2>3. CASE SeeStatus(t)
    <3>1. /\ pc[t] = "wait" /\ pc' = [pc EXCEPT ![t] = "executed"] /\ status[t] = 1
          /\ UNCHANGED <<pending_operations, handler_busy, status, next, res, handler>>
      BY <1>t, <2>3 DEF SeeStatus, Goto, lists, ops
    <3>2. t \notin Pushed
      BY <3>1 DEF Pushed, Opener
    <3> QED
      BY <1>t, <3>1, <3>2, OutsideKeepsTrack DEF Outside
  <2>4. CASE SeeFree(t)
    BY <2>4, OpenerKeepsTrack
  <2>5. CASE TakeHandler(t)
    BY <2>5, OpenerKeepsTrack
  <2>6. CASE GrabList(t)
    BY <2>6, GrabKeepsTrack
  <2>7. CASE StoreStatus(t)
    BY <2>7, StoreKeepsTrack
  <2>8. CASE ReleaseHandler(t)
    BY <2>8, ReleaseKeepsTrack
  <2> QED
    BY <1>1, <2>1, <2>2, <2>3, <2>4, <2>5, <2>6, <2>7, <2>8 DEF Aggregate, AggStep
<1>2. ASSUME NEW t \in Thread, HandleRetrieve(t) \/ HandleEndOfUsage(t) PROVE TrackInv'
  BY <1>2, HandleKeepsTrack DEF HandleRetrieve, HandleEndOfUsage
<1>3. ASSUME NEW t \in Thread,
             ComputeValue(t) \/ StoreReady(t) \/ AwaitReady(t) \/ Return(t)
      PROVE  TrackInv'
  <2>1. PICK p \in {"ready", "using", "idle"} :
          /\ pc[t] \in {"executed", "ready"} /\ pc' = [pc EXCEPT ![t] = p]
          /\ UNCHANGED <<pending_operations, handler_busy, status, next, res, handler>>
    BY <1>3 DEF ComputeValue, StoreReady, AwaitReady, Return, Goto, lists, ops
  <2>2. t \notin Pushed
    BY <2>1 DEF Pushed, Opener
  <2> QED
    BY <1>t, <2>1, <2>2, OutsideKeepsTrack DEF Outside
<1>4. ASSUME NEW t \in Thread, EndUsage(t) \/ \E k \in Key : CallRetrieve(t, k)
      PROVE  TrackInv'
  <2>1. /\ pc[t] \in {"idle", "using"} /\ pc' = [pc EXCEPT ![t] = "link"]
        /\ status' = [status EXCEPT ![t] = 0] /\ next' = [next EXCEPT ![t] = NULL]
        /\ UNCHANGED <<pending_operations, handler_busy, res, handler>>
    BY <1>4 DEF EndUsage, CallRetrieve, NewOperation, Goto, lists
  <2>2. next' \in Links /\ status' \in [Thread -> {0, 1}] /\ status'[t] = 0
        /\ \A u \in Thread \ {t} : next'[u] = next[u] /\ status'[u] = status[u]
    BY <1>t, <2>1 DEF Links
  <2>3. t \notin Pushed
    BY <2>1 DEF Pushed, Opener
  <2> QED
    BY <1>t, <2>1, <2>2, <2>3, OutsideKeepsTrack DEF Outside
<1>5. CASE UNCHANGED vars
  BY <1>5 DEF vars, aggVars, lists, ops, handler, TrackInv, AggTypeOK, Tracked, HandsApart,
     ListsAcyclic, OwnPlace, StatusClear, LinkRead, OwnStatusSet, Pushed, Pending, Taken,
     Opener, Handling
<1> QED
  BY <1>1, <1>2, <1>3, <1>4, <1>5 DEF Next, Step

\* OperationsTracked, from its operation-by-operation form.
LEMMA TrackGivesTracked == HandlerInv /\ TrackInv => OperationsTracked
<1> SUFFICES ASSUME HandlerInv, TrackInv PROVE OperationsTracked
  OBVIOUS
<1> DEFINE handlers == {t \in Thread : Handling(t)}
<1>t. next \in Links /\ pending_operations \in Thread \cup {NULL}
      /\ \A t \in Thread : op_list[t] \in Thread \cup {NULL}
  BY DEF TrackInv, AggTypeOK, Links
<1>1. Pending \cup UNION {Taken(t) : t \in handlers} = Pushed
  <2>1. Pending \in SUBSET Thread
    BY <1>t, ChainClosed DEF Pending
  <2>2. \A t \in handlers : Taken(t) \in SUBSET Thread
    BY <1>t, ChainClosed DEF Taken, TrackInv, HandsApart
  <2>3. Pushed \in SUBSET Thread
    BY DEF Pushed
  <2> QED
    BY <2>1, <2>2, <2>3 DEF TrackInv, Tracked
<1>2. (Pending # {}) = (\E t \in Thread : Opener(t))
  <2>1. pending_operations = NULL <=> Pending = {}
    BY <1>t, ChainOfNull, ChainClosed DEF Pending
  <2> QED
    BY <2>1 DEF HandlerInv, OpenerWhilePending
<1> QED
  BY <1>1, <1>2 DEF OperationsTracked, TrackInv, HandsApart

\* No operation of the aggregator is lost, executed twice, or reached after
\* its thread went on.
THEOREM NoOperationLost == Spec => []OperationsTracked
<1>1. Init => HandlerInv /\ TrackInv
  BY HandlerInit, TrackInit
<1>2. HandlerInv /\ TrackInv /\ [Next]_vars => (HandlerInv /\ TrackInv)'
  BY HandlerStep, TrackStep
<1>3. HandlerInv /\ TrackInv => OperationsTracked
  BY TrackGivesTracked
<1> QED
  BY <1>1, <1>2, <1>3, PTL DEF Spec

(***************************************************************************)
(* The uses of the items: what the operations that a handler executes and  *)
(* the steps of the others change of them.                                 *)
(***************************************************************************)
\* A request has a key, and a value is computed, or used, by who retrieved it.
RequestInv ==
    /\ operation \in [Thread -> {"retrieve", "signal_end_of_usage"}]
    /\ my_key \in [Thread -> Key \cup {NoKey}]
    /\ my_is_new_value_needed \in [Thread -> BOOLEAN]
    /\ calls \in [Thread -> 0 .. MaxCalls]
    /\ \A t \in Thread : pc[t] # "idle" => my_key[t] \in Key
    /\ \A t \in Thread : pc[t] \in {"ready", "using"} => operation[t] = "retrieve"
    /\ \A t \in Thread : pc[t] = "ready" => my_is_new_value_needed[t]

BaseInv == HandlerInv /\ TrackInv /\ RequestInv

LEMMA RequestInit == Init => RequestInv
  BY CallsAssumption DEF Init, AggInit, RequestInv

\* The handler executes an operation that was not executed before.
LEMMA HandledOnce ==
  ASSUME BaseInv, NEW t \in Thread, HandleOperation(t), NEW o \in Thread, o = op_list[t]
  PROVE  /\ pc[o] \in {"wait", "handle"} /\ pc'[o] \in {"wait", "store"}
         /\ ~Executed(o) /\ Executed(o)'
         /\ \A u \in Thread \ {o} :
               /\ Executed(u)' <=> Executed(u)
               /\ u # t => pc'[u] = pc[u]
               /\ u = t => pc[u] = "handle" /\ pc'[u] = "store"
<1>1. /\ pc[t] = "handle" /\ pc'[t] = "store" /\ \A u \in Thread \ {t} : pc'[u] = pc[u]
      /\ tmp'[t] = o /\ \A u \in Thread \ {t} : tmp'[u] = tmp[u]
      /\ next \in Links /\ UNCHANGED status
  BY DEF HandleOperation, Goto, ops, BaseInv, HandlerInv, HandlerTypes, TrackInv, AggTypeOK,
         Links
<1>2. Handling(t) /\ \A u \in Thread : Handling(u) => u = t
  BY <1>1 DEF Handling, BaseInv, HandlerInv, OneHandler
<1>3. \A u \in Thread : pc[u] # "store"
  BY <1>1, <1>2 DEF Handling
<1>4. o \in Taken(t)
  BY <1>1, ChainClosed, NullAssumption DEF Taken
<1>5. o \in Pushed /\ o \notin Pending
  BY <1>1, <1>2, <1>4 DEF BaseInv, TrackInv, Tracked, HandsApart
<1>6. ~Opener(o)
  BY <1>1, <1>5 DEF BaseInv, TrackInv, OwnPlace
<1>7. pc[o] \in {"wait", "handle"} /\ status[o] = 0
  BY <1>3, <1>5, <1>6, <1>1 DEF Pushed
<1>8. ~Executed(o)
  BY <1>3, <1>7 DEF Executed
<1>9. Executed(o)'
  BY <1>1 DEF Executed
<1>10. ASSUME NEW u \in Thread \ {o} PROVE Executed(u)' <=> Executed(u)
  <2>1. ~\E v \in Thread : pc[v] = "store" /\ tmp[v] = u
    BY <1>3
  <2>2. ~\E v \in Thread : pc'[v] = "store" /\ tmp'[v] = u
    BY <1>1, <1>3
  <2>3. pc[u] = "executed" <=> pc'[u] = "executed"
    BY <1>1
  <2> QED
    BY <1>1, <2>1, <2>2, <2>3 DEF Executed
<1>11. pc'[o] \in {"wait", "store"}
  BY <1>1, <1>2, <1>7 DEF Handling
<1> QED
  BY <1>1, <1>7, <1>8, <1>9, <1>10, <1>11

\* Every step keeps the requests in order.
LEMMA RequestStep == BaseInv /\ [Next]_vars => RequestInv'
<1> SUFFICES ASSUME BaseInv, [Next]_vars PROVE RequestInv'
  OBVIOUS
<1> USE DEF Goto
<1>1. ASSUME NEW t \in Thread, Aggregate(t) PROVE RequestInv'
  <2>1. UNCHANGED <<request, calls>>
    BY <1>1 DEF Aggregate
  <2>2. \A u \in Thread : /\ pc'[u] # "idle" => pc[u] # "idle"
                          /\ pc'[u] \in {"ready", "using"} => pc'[u] = pc[u]
    BY <1>1
    DEF Aggregate, AggStep, LinkOperation, PushOperation, SeeStatus, SeeFree, TakeHandler,
        GrabList, StoreStatus, ReleaseHandler, BaseInv, HandlerInv, HandlerTypes
  <2> QED
    BY <2>1, <2>2 DEF BaseInv, RequestInv, request
<1>2. ASSUME NEW t \in Thread, HandleRetrieve(t) PROVE RequestInv'
  <2>1. PICK o \in Thread : o = op_list[t]
    BY <1>2 DEF HandleRetrieve, HandleOperation, BaseInv, TrackInv, AggTypeOK
  <2>2. /\ UNCHANGED <<operation, my_key, calls>>
        /\ my_is_new_value_needed' =
              [my_is_new_value_needed EXCEPT ![o] = my_key[o] \notin my_map_storage]
    BY <1>2, <2>1 DEF HandleRetrieve, retrieve_serial
  <2>3. pc[o] \in {"wait", "handle"} /\ pc'[o] \in {"wait", "store"}
        /\ \A u \in Thread \ {o} :
              pc'[u] = pc[u] \/ (pc[u] = "handle" /\ pc'[u] = "store")
    <3>1. HandleOperation(t)
      BY <1>2 DEF HandleRetrieve
    <3> QED
      BY <2>1, <3>1, HandledOnce
  <2> QED
    BY <2>1, <2>2, <2>3 DEF BaseInv, RequestInv
<1>3. ASSUME NEW t \in Thread, HandleEndOfUsage(t) PROVE RequestInv'
  <2>1. UNCHANGED <<operation, my_key, my_is_new_value_needed, calls>>
    BY <1>3 DEF HandleEndOfUsage, signal_end_of_usage_serial, request
  <2>2. pc[t] = "handle" /\ pc' = [pc EXCEPT ![t] = "store"]
    BY <1>3 DEF HandleEndOfUsage, HandleOperation
  <2> QED
    BY <2>1, <2>2 DEF BaseInv, HandlerInv, HandlerTypes, RequestInv
<1>4. ASSUME NEW t \in Thread, ComputeValue(t) PROVE RequestInv'
  BY <1>4 DEF ComputeValue, request, BaseInv, HandlerInv, HandlerTypes, RequestInv
<1>5. ASSUME NEW t \in Thread, StoreReady(t) PROVE RequestInv'
  BY <1>5 DEF StoreReady, request, BaseInv, HandlerInv, HandlerTypes, RequestInv
<1>6. ASSUME NEW t \in Thread, AwaitReady(t) PROVE RequestInv'
  BY <1>6 DEF AwaitReady, request, BaseInv, HandlerInv, HandlerTypes, RequestInv
<1>7. ASSUME NEW t \in Thread, EndUsage(t) PROVE RequestInv'
  BY <1>7 DEF EndUsage, NewOperation, BaseInv, HandlerInv, HandlerTypes, RequestInv
<1>8. ASSUME NEW t \in Thread, Return(t) PROVE RequestInv'
  BY <1>8 DEF Return, BaseInv, HandlerInv, HandlerTypes, RequestInv
<1>9. ASSUME NEW t \in Thread, NEW k \in Key, CallRetrieve(t, k) PROVE RequestInv'
  BY <1>9, CallsAssumption DEF CallRetrieve, NewOperation, BaseInv, HandlerInv, HandlerTypes, RequestInv
<1>10. CASE UNCHANGED vars
  BY <1>10 DEF vars, aggVars, request, BaseInv, RequestInv
<1> QED
  BY <1>1, <1>2, <1>3, <1>4, <1>5, <1>6, <1>7, <1>8, <1>9, <1>10 DEF Next, Step

\* A retrieval is executed: its thread uses the item from now on.
LEMMA RetrieveUses ==
  ASSUME BaseInv, NEW t \in Thread, HandleRetrieve(t), NEW o \in Thread, o = op_list[t]
  PROVE  /\ my_key[o] \in Key
         /\ Uses(o) = NoKey /\ Uses(o)' = my_key[o]
         /\ \A u \in Thread \ {o} : Uses(u)' = Uses(u)
<1>1. HandleOperation(t) /\ operation[o] = "retrieve" /\ UNCHANGED <<operation, my_key>>
  BY DEF HandleRetrieve, retrieve_serial
<1>2. /\ pc[o] \in {"wait", "handle"} /\ pc'[o] \in {"wait", "store"}
      /\ ~Executed(o) /\ Executed(o)'
      /\ \A u \in Thread \ {o} : /\ Executed(u)' <=> Executed(u)
                                 /\ u # t => pc'[u] = pc[u]
                                 /\ u = t => pc[u] = "handle" /\ pc'[u] = "store"
  BY <1>1, HandledOnce
<1>3. my_key[o] \in Key
  BY <1>2 DEF BaseInv, RequestInv
<1>4. Uses(o) = NoKey
  BY <1>1, <1>2 DEF Uses
<1>5. Uses(o)' = my_key[o]
  BY <1>1, <1>2 DEF Uses
<1>6. ASSUME NEW u \in Thread \ {o} PROVE Uses(u)' = Uses(u)
  BY <1>1, <1>2 DEF Uses
<1> QED
  BY <1>2, <1>3, <1>4, <1>5, <1>6

\* The end of a use is executed: its thread uses nothing from now on.
LEMMA EndOfUsageUses ==
  ASSUME BaseInv, NEW t \in Thread, HandleEndOfUsage(t), NEW o \in Thread, o = op_list[t]
  PROVE  /\ my_key[o] \in Key
         /\ Uses(o) = my_key[o] /\ Uses(o)' = NoKey
         /\ \A u \in Thread \ {o} : Uses(u)' = Uses(u)
<1>1. HandleOperation(t) /\ operation[o] = "signal_end_of_usage"
      /\ UNCHANGED <<operation, my_key>>
  BY DEF HandleEndOfUsage, signal_end_of_usage_serial, request
<1>2. /\ pc[o] \in {"wait", "handle"} /\ pc'[o] \in {"wait", "store"}
      /\ ~Executed(o) /\ Executed(o)'
      /\ \A u \in Thread \ {o} : /\ Executed(u)' <=> Executed(u)
                                 /\ u # t => pc'[u] = pc[u]
                                 /\ u = t => pc[u] = "handle" /\ pc'[u] = "store"
  BY <1>1, HandledOnce
<1>3. my_key[o] \in Key
  BY <1>2 DEF BaseInv, RequestInv
<1>4. Uses(o) = my_key[o]
  BY <1>1, <1>2 DEF Uses
<1>5. Uses(o)' = NoKey
  BY <1>1, <1>2 DEF Uses
<1>6. ASSUME NEW u \in Thread \ {o} PROVE Uses(u)' = Uses(u)
  BY <1>1, <1>2 DEF Uses
<1> QED
  BY <1>2, <1>3, <1>4, <1>5, <1>6

\* The aggregator only lets operations wait: what was executed stays so, and
\* nothing else is.
LEMMA AggregateUses ==
  ASSUME BaseInv, NEW t \in Thread, Aggregate(t), NEW u \in Thread
  PROVE  Uses(u)' = Uses(u)
<1> USE DEF Goto
<1>1. UNCHANGED <<operation, my_key>>
  BY DEF Aggregate, request
<1>2. SUFFICES /\ Executed(u)' <=> Executed(u)
               /\ pc'[u] \in {"ready", "using"} <=> pc[u] \in {"ready", "using"}
               /\ pc'[u] # "idle" <=> pc[u] # "idle"
  BY <1>1 DEF Uses
<1>3. pc \in [Thread -> AggPC \cup {"idle", "ready", "using"}]
  BY DEF BaseInv, HandlerInv, HandlerTypes
<1>4. /\ pc'[u] \in {"ready", "using"} <=> pc[u] \in {"ready", "using"}
      /\ pc'[u] # "idle" <=> pc[u] # "idle"
  BY <1>3 DEF Aggregate, AggStep, LinkOperation, PushOperation, SeeStatus, SeeFree, TakeHandler,
              GrabList, StoreStatus, ReleaseHandler
<1>5. CASE LinkOperation(t) \/ PushOperation(t) \/ SeeFree(t) \/ TakeHandler(t) \/ GrabList(t)
  <2>1. /\ UNCHANGED <<status, tmp>>
        /\ pc[t] \notin {"executed", "store"} /\ pc'[t] \notin {"executed", "store"}
        /\ \A v \in Thread \ {t} : pc'[v] = pc[v]
    BY <1>3, <1>5 DEF LinkOperation, PushOperation, SeeFree, TakeHandler, GrabList, ops, handler
  <2> QED
    BY <1>4, <2>1 DEF Executed
<1>6. CASE SeeStatus(t)
  <2>1. /\ UNCHANGED <<status, tmp>> /\ status[t] = 1
        /\ pc[t] = "wait" /\ pc'[t] = "executed"
        /\ \A v \in Thread \ {t} : pc'[v] = pc[v]
    BY <1>3, <1>6 DEF SeeStatus, ops, handler, BaseInv, TrackInv, AggTypeOK
  <2> QED
    BY <1>4, <2>1 DEF Executed
<1>7. CASE ReleaseHandler(t)
  <2>1. /\ UNCHANGED <<status, tmp>> /\ status[t] = 1
        /\ pc[t] = "handle" /\ pc'[t] = "executed"
        /\ \A v \in Thread \ {t} : pc'[v] = pc[v]
    BY <1>3, <1>7, ReleaseKeepsTrack DEF ReleaseHandler, ops, handler, BaseInv
  <2> QED
    BY <1>4, <2>1 DEF Executed
<1>8. CASE StoreStatus(t)
  <2>1. PICK x \in Thread : x = tmp[t]
    BY <1>8 DEF StoreStatus, BaseInv, TrackInv, HandsApart
  <2>2. /\ pc[t] = "store" /\ pc'[t] = "handle" /\ \A v \in Thread \ {t} : pc'[v] = pc[v]
        /\ status'[x] = 1 /\ \A v \in Thread \ {x} : status'[v] = status[v]
    BY <1>3, <1>8, <2>1 DEF StoreStatus, BaseInv, TrackInv, AggTypeOK
  <2>3. \A v \in Thread \ {t} : pc[v] # "store"
    BY <2>2 DEF BaseInv, HandlerInv, OneHandler, Handling
  <2>4. \A v \in Thread : pc'[v] # "store"
    BY <2>2, <2>3
  <2>5. (\E v \in Thread : pc[v] = "store" /\ tmp[v] = u) <=> u = x
    BY <2>1, <2>2, <2>3
  <2>6. pc'[u] = "executed" <=> pc[u] = "executed"
    BY <2>2
  <2> QED
    BY <1>4, <2>2, <2>4, <2>5, <2>6 DEF Executed
<1> QED
  BY <1>5, <1>6, <1>7, <1>8 DEF Aggregate, AggStep

\* A new operation was not executed.
LEMMA NewNotExecuted ==
  ASSUME BaseInv, NEW t \in Thread, pc[t] \in {"idle", "using"}, NewOperation(t, pc[t])
  PROVE  /\ pc'[t] = "link" /\ ~Executed(t)'
         /\ \A u \in Thread \ {t} : pc'[u] = pc[u] /\ (Executed(u)' <=> Executed(u))
<1>1. /\ pc'[t] = "link" /\ \A u \in Thread \ {t} : pc'[u] = pc[u]
      /\ status'[t] = 0 /\ \A u \in Thread \ {t} : status'[u] = status[u]
      /\ UNCHANGED tmp
  BY DEF NewOperation, Goto, handler, BaseInv, HandlerInv, HandlerTypes, TrackInv, AggTypeOK
<1>2. \A v \in Thread : pc[v] = "store" => tmp[v] # t
  <2>1. t \notin Pushed
    BY DEF Pushed, Opener
  <2>2. \A v \in Thread : Handling(v) => t \notin Taken(v)
    BY <2>1 DEF BaseInv, TrackInv, Tracked
  <2> QED
    BY <2>2 DEF Handling, Taken
<1> QED
  BY <1>1, <1>2 DEF Executed

\* The steps of a call outside of the aggregator keep the uses.
LEMMA CallUses ==
  ASSUME BaseInv, NEW t \in Thread,
         \/ ComputeValue(t) \/ StoreReady(t) \/ AwaitReady(t) \/ EndUsage(t) \/ Return(t)
         \/ \E k \in Key : CallRetrieve(t, k),
         NEW u \in Thread
  PROVE  Uses(u)' = Uses(u)
<1>1. pc \in [Thread -> AggPC \cup {"idle", "ready", "using"}]
  BY DEF BaseInv, HandlerInv, HandlerTypes
<1>2. CASE ComputeValue(t) \/ StoreReady(t) \/ AwaitReady(t)
  <2>1. /\ UNCHANGED <<status, tmp, operation, my_key>>
        /\ pc[t] \in {"executed", "ready"} /\ pc'[t] \in {"ready", "using"}
        /\ \A v \in Thread \ {t} : pc'[v] = pc[v]
        /\ operation[t] = "retrieve"
    BY <1>1, <1>2
    DEF ComputeValue, StoreReady, AwaitReady, Goto, ops, handler, request, BaseInv, RequestInv
  <2>2. \A v \in Thread \ {t} : Executed(v)' <=> Executed(v)
    BY <2>1 DEF Executed
  <2>3. CASE u = t
    BY <2>1, <2>3 DEF Uses, Executed
  <2>4. CASE u # t
    BY <2>1, <2>2, <2>4 DEF Uses
  <2> QED
    BY <2>3, <2>4
<1>3. CASE EndUsage(t)
  <2>1. /\ pc[t] = "using" /\ NewOperation(t, pc[t])
        /\ operation'[t] = "signal_end_of_usage"
        /\ \A v \in Thread \ {t} : operation'[v] = operation[v]
        /\ UNCHANGED my_key
    BY <1>3 DEF EndUsage, NewOperation, Goto, BaseInv, RequestInv
  <2>2. /\ pc'[t] = "link" /\ ~Executed(t)'
        /\ \A v \in Thread \ {t} : pc'[v] = pc[v] /\ (Executed(v)' <=> Executed(v))
    BY <2>1, NewNotExecuted
  <2>3. CASE u = t
    BY <2>1, <2>2, <2>3 DEF Uses
  <2>4. CASE u # t
    BY <2>1, <2>2, <2>4 DEF Uses
  <2> QED
    BY <2>3, <2>4
<1>4. CASE Return(t)
  <2>1. /\ UNCHANGED <<status, tmp, operation>>
        /\ pc[t] = "executed" /\ pc'[t] = "idle"
        /\ operation[t] = "signal_end_of_usage"
        /\ \A v \in Thread \ {t} : pc'[v] = pc[v] /\ my_key'[v] = my_key[v]
    BY <1>1, <1>4 DEF Return, Goto, ops, handler, BaseInv, RequestInv
  <2>2. \A v \in Thread \ {t} : Executed(v)' <=> Executed(v)
    BY <2>1 DEF Executed
  <2>3. CASE u = t
    BY <2>1, <2>3 DEF Uses, Executed
  <2>4. CASE u # t
    BY <2>1, <2>2, <2>4 DEF Uses
  <2> QED
    BY <2>3, <2>4
<1>5. ASSUME NEW k \in Key, CallRetrieve(t, k) PROVE Uses(u)' = Uses(u)
  <2>1. /\ pc[t] = "idle" /\ NewOperation(t, pc[t])
        /\ operation'[t] = "retrieve"
        /\ \A v \in Thread \ {t} : operation'[v] = operation[v] /\ my_key'[v] = my_key[v]
    BY <1>5 DEF CallRetrieve, NewOperation, Goto, BaseInv, RequestInv
  <2>2. /\ pc'[t] = "link" /\ ~Executed(t)'
        /\ \A v \in Thread \ {t} : pc'[v] = pc[v] /\ (Executed(v)' <=> Executed(v))
    BY <2>1, NewNotExecuted
  <2>3. CASE u = t
    BY <2>1, <2>2, <2>3 DEF Uses
  <2>4. CASE u # t
    BY <2>1, <2>2, <2>4 DEF Uses
  <2> QED
    BY <2>3, <2>4
<1> QED
  BY <1>2, <1>3, <1>4, <1>5

(***************************************************************************)
(* The items, their counters and the history.                              *)
(***************************************************************************)
\* "item to be evicted should not have a live references"
UnusedUnreferenced ==
    \A k \in Key : my_lru_list_iterator[k] => my_ref_counter[k] = 0

ItemTypes ==
    /\ my_map_storage \subseteq Key
    /\ my_ref_counter \in [Key -> Nat]
    /\ my_lru_list_iterator \in [Key -> BOOLEAN]
    /\ my_lru_list \in Seq(Key)

ItemsInv == ItemTypes /\ UsesCounted /\ IteratorsExact /\ UnusedUnreferenced

\* Sets of threads are finite.
LEMMA ThreadsFinite ==
  ASSUME NEW S, S \subseteq Thread
  PROVE  IsFiniteSet(S) /\ Cardinality(S) \in 0 .. Cardinality(Thread)
<1>1. IsFiniteSet(S) /\ Cardinality(S) <= Cardinality(Thread)
  BY ThreadAssumption, FS_Subset
<1>2. Cardinality(S) \in Nat /\ Cardinality(Thread) \in Nat
  BY <1>1, ThreadAssumption, FS_CardinalityType
<1> QED
  BY <1>1, <1>2

\* What is left of a sequence without one of its elements.
LEMMA RemoveAtProperties ==
  ASSUME NEW S, NEW seq \in Seq(S), NEW i \in 1 .. Len(seq)
  PROVE  /\ RemoveAt(seq, i) \in Seq(S)
         /\ Len(RemoveAt(seq, i)) = Len(seq) - 1
         /\ \A j \in 1 .. Len(seq) - 1 :
               RemoveAt(seq, i)[j] = IF j < i THEN seq[j] ELSE seq[j + 1]
<1>1. Len(seq) \in Nat /\ \A j \in 1 .. Len(seq) : seq[j] \in S
  BY LenProperties, ElementOfSeq
<1>2. /\ SubSeq(seq, 1, i - 1) \in Seq(S) /\ Len(SubSeq(seq, 1, i - 1)) = i - 1
      /\ \A j \in 1 .. i - 1 : SubSeq(seq, 1, i - 1)[j] = seq[j]
  BY <1>1, SubSeqProperties
<1>3. /\ SubSeq(seq, i + 1, Len(seq)) \in Seq(S)
      /\ Len(SubSeq(seq, i + 1, Len(seq))) = Len(seq) - i
      /\ \A j \in 1 .. Len(seq) - i : SubSeq(seq, i + 1, Len(seq))[j] = seq[i + j]
  BY <1>1, SubSeqProperties
<1> DEFINE front == SubSeq(seq, 1, i - 1)
           back == SubSeq(seq, i + 1, Len(seq))
<1>4. RemoveAt(seq, i) = front \o back
  BY DEF RemoveAt
<1> HIDE DEF front, back
<1>5. /\ front \in Seq(S) /\ Len(front) = i - 1 /\ \A j \in 1 .. i - 1 : front[j] = seq[j]
      /\ back \in Seq(S) /\ Len(back) = Len(seq) - i
      /\ \A j \in 1 .. Len(seq) - i : back[j] = seq[i + j]
  BY <1>2, <1>3 DEF front, back
<1>6. /\ front \o back \in Seq(S)
      /\ Len(front \o back) = Len(front) + Len(back)
      /\ \A j \in 1 .. Len(front) + Len(back) :
            (front \o back)[j] = IF j <= Len(front) THEN front[j] ELSE back[j - Len(front)]
  BY <1>5, ConcatProperties
<1>7. ASSUME NEW j \in 1 .. Len(seq) - 1
      PROVE  (front \o back)[j] = IF j < i THEN seq[j] ELSE seq[j + 1]
  <2>1. CASE j < i
    BY <1>1, <1>5, <1>6, <2>1
  <2>2. CASE j >= i
    <3>1. (front \o back)[j] = back[j - Len(front)]
      BY <1>1, <1>5, <1>6, <2>2, SMTT(30)
    <3>2. PICK m \in 1 .. Len(seq) - i : m = j - Len(front) /\ i + m = j + 1
      BY <1>1, <1>5, <2>2
    <3>3. back[m] = seq[j + 1]
      BY <1>5, <3>2
    <3> QED
      BY <1>1, <2>2, <3>1, <3>2, <3>3
  <2>3. i \in Nat /\ j \in Nat
    BY <1>1
  <2>4. j < i \/ j >= i
    BY <2>3
  <2> QED
    BY <2>1, <2>2, <2>4
<1> QED
  BY <1>1, <1>4, <1>5, <1>6, <1>7

\* The elements of a sequence without duplicates, without one of them.
LEMMA RemoveAtDistinct ==
  ASSUME NEW S, NEW seq \in Seq(S), NEW i \in 1 .. Len(seq),
         \A m, n \in 1 .. Len(seq) : seq[m] = seq[n] => m = n,
         NEW rest, rest = RemoveAt(seq, i)
  PROVE  /\ DOMAIN rest = 1 .. Len(seq) - 1
         /\ \A m, n \in DOMAIN rest : rest[m] = rest[n] => m = n
         /\ \A x : (\E n \in DOMAIN rest : rest[n] = x)
                 <=> x # seq[i] /\ \E n \in 1 .. Len(seq) : seq[n] = x
<1>1. /\ rest \in Seq(S) /\ Len(rest) = Len(seq) - 1
      /\ \A j \in 1 .. Len(seq) - 1 : rest[j] = IF j < i THEN seq[j] ELSE seq[j + 1]
  BY RemoveAtProperties
<1>2. DOMAIN rest = 1 .. Len(seq) - 1 /\ Len(seq) \in Nat
  BY <1>1, LenProperties
<1> DEFINE at(j) == IF j < i THEN j ELSE j + 1
<1>3. ASSUME NEW j \in 1 .. Len(seq) - 1
      PROVE  at(j) \in 1 .. Len(seq) /\ at(j) # i /\ rest[j] = seq[at(j)]
  <2>1. i \in Nat /\ j \in Nat
    BY <1>2
  <2>2. CASE j < i
    BY <1>1, <1>2, <2>1, <2>2
  <2>3. CASE ~(j < i)
    BY <1>1, <1>2, <2>1, <2>3
  <2> QED
    BY <2>2, <2>3
<1>4. ASSUME NEW m \in 1 .. Len(seq) - 1, NEW n \in 1 .. Len(seq) - 1, at(m) = at(n)
      PROVE  m = n
  BY <1>2, <1>4
<1>5. ASSUME NEW n \in 1 .. Len(seq), n # i
      PROVE  \E j \in 1 .. Len(seq) - 1 : at(j) = n
  <2>1. CASE n < i
    <3>1. n \in 1 .. Len(seq) - 1 /\ at(n) = n
      BY <1>2, <2>1
    <3> QED
      BY <3>1
  <2>2. CASE n > i
    <3>1. n - 1 \in 1 .. Len(seq) - 1 /\ at(n - 1) = n
      BY <1>2, <2>2
    <3> QED
      BY <3>1
  <2>3. n < i \/ n > i
    BY <1>2, <1>5
  <2> QED
    BY <2>1, <2>2, <2>3
<1> HIDE DEF at
<1>6. \A m, n \in 1 .. Len(seq) - 1 : rest[m] = rest[n] => m = n
  BY <1>3, <1>4
<1>7. ASSUME NEW x
      PROVE  (\E n \in 1 .. Len(seq) - 1 : rest[n] = x)
             <=> x # seq[i] /\ \E n \in 1 .. Len(seq) : seq[n] = x
  <2>1. ASSUME NEW n \in 1 .. Len(seq) - 1, rest[n] = x
        PROVE  x # seq[i] /\ \E m \in 1 .. Len(seq) : seq[m] = x
    BY <1>3, <2>1
  <2>2. ASSUME NEW n \in 1 .. Len(seq), seq[n] = x, x # seq[i]
        PROVE  \E j \in 1 .. Len(seq) - 1 : rest[j] = x
    <3>1. PICK j \in 1 .. Len(seq) - 1 : at(j) = n
      BY <1>5, <2>2
    <3> QED
      BY <1>3, <2>2, <3>1
  <2> QED
    BY <2>1, <2>2
<1> QED
  BY <1>2, <1>6, <1>7, Zenon

\* An item in front of the first n others.
InFront(k, seq, n) == <<k>> \o SubSeq(seq, 1, n)

LEMMA FrontProperties ==
  ASSUME NEW S, NEW seq \in Seq(S), NEW k \in S, NEW n \in 0 .. Len(seq)
  PROVE  /\ InFront(k, seq, n) \in Seq(S)
         /\ Len(InFront(k, seq, n)) = n + 1
         /\ \A j \in 1 .. n + 1 : InFront(k, seq, n)[j] = IF j = 1 THEN k ELSE seq[j - 1]
<1> DEFINE front == SubSeq(seq, 1, n)
<1>1. Len(seq) \in Nat /\ \A j \in 1 .. Len(seq) : seq[j] \in S
  BY LenProperties, ElementOfSeq
<1>2. front \in Seq(S) /\ Len(front) = n /\ \A j \in 1 .. n : front[j] = seq[j]
  BY <1>1, SubSeqProperties
<1>3. <<k>> \in Seq(S) /\ Len(<<k>>) = 1 /\ <<k>>[1] = k
  OBVIOUS
<1> HIDE DEF front
<1>4. /\ <<k>> \o front \in Seq(S)
      /\ Len(<<k>> \o front) = Len(<<k>>) + Len(front)
      /\ \A j \in 1 .. Len(<<k>>) + Len(front) :
            (<<k>> \o front)[j] = IF j <= Len(<<k>>) THEN <<k>>[j] ELSE front[j - Len(<<k>>)]
  BY <1>2, <1>3, ConcatProperties
<1>5. ASSUME NEW j \in 1 .. n + 1
      PROVE  (<<k>> \o front)[j] = IF j = 1 THEN k ELSE seq[j - 1]
  BY <1>1, <1>2, <1>3, <1>4
<1> QED
  BY <1>1, <1>2, <1>3, <1>4, <1>5 DEF front, InFront

\* No duplicates, when the item was not among them.
NoDuplicates(seq) == \A i, j \in 1 .. Len(seq) : seq[i] = seq[j] => i = j

Among(x, seq, n) == \E i \in 1 .. n : seq[i] = x

LEMMA FrontDistinct ==
  ASSUME NEW S, NEW seq \in Seq(S), NEW k \in S, NEW n \in 0 .. Len(seq),
         NoDuplicates(seq), ~Among(k, seq, Len(seq)),
         NEW front, front = InFront(k, seq, n)
  PROVE  /\ NoDuplicates(front)
         /\ \A x : Among(x, front, Len(front)) <=> x = k \/ Among(x, seq, n)
<1>1. /\ front \in Seq(S) /\ Len(front) = n + 1
      /\ \A j \in 1 .. n + 1 : front[j] = IF j = 1 THEN k ELSE seq[j - 1]
  BY FrontProperties
<1> USE DEF NoDuplicates, Among
<1>2. DOMAIN front = 1 .. n + 1 /\ Len(seq) \in Nat
  BY <1>1, LenProperties
<1>3. ASSUME NEW i \in 1 .. n + 1, NEW j \in 1 .. n + 1, front[i] = front[j] PROVE i = j
  <2>1. CASE i = 1 /\ j = 1
    BY <2>1
  <2>2. CASE i = 1 /\ j # 1
    <3>1. j - 1 \in 1 .. Len(seq)
      BY <1>2, <2>2
    <3> QED
      BY <1>1, <1>3, <2>2, <3>1
  <2>3. CASE i # 1 /\ j = 1
    <3>1. i - 1 \in 1 .. Len(seq)
      BY <1>2, <2>3
    <3> QED
      BY <1>1, <1>3, <2>3, <3>1
  <2>4. CASE i # 1 /\ j # 1
    <3>1. i - 1 \in 1 .. Len(seq) /\ j - 1 \in 1 .. Len(seq)
      BY <1>2, <2>4
    <3>2. seq[i - 1] = seq[j - 1]
      BY <1>1, <1>3, <2>4
    <3>3. i - 1 = j - 1
      BY <3>1, <3>2
    <3> QED
      BY <3>3
  <2> QED
    BY <2>1, <2>2, <2>3, <2>4
<1>4. ASSUME NEW x, NEW i \in 1 .. n + 1, front[i] = x
      PROVE  x = k \/ \E j \in 1 .. n : seq[j] = x
  <2>1. CASE i = 1
    BY <1>1, <1>4, <2>1
  <2>2. CASE i # 1
    <3>1. i - 1 \in 1 .. n
      BY <2>2
    <3> QED
      BY <1>1, <1>4, <2>2, <3>1
  <2> QED
    BY <2>1, <2>2
<1>5. ASSUME NEW x, x = k \/ \E j \in 1 .. n : seq[j] = x
      PROVE  \E i \in 1 .. n + 1 : front[i] = x
  <2>1. CASE x = k
    <3>1. 1 \in 1 .. n + 1 /\ front[1] = k
      BY <1>1
    <3> QED
      BY <2>1, <3>1
  <2>2. ASSUME NEW j \in 1 .. n, seq[j] = x PROVE \E i \in 1 .. n + 1 : front[i] = x
    <3>1. j + 1 \in 1 .. n + 1 /\ j + 1 # 1 /\ (j + 1) - 1 = j
      OBVIOUS
    <3> QED
      BY <1>1, <2>2, <3>1
  <2> QED
    BY <1>5, <2>1, <2>2
<1> QED
  BY <1>1, <1>3, <1>4, <1>5, Zenon

\* The initial state: nothing is cached.
LEMMA ItemsInit == Init => ItemsInv
<1> SUFFICES ASSUME Init PROVE ItemsInv
  OBVIOUS
<1>1. /\ my_map_storage = {} /\ my_ref_counter = [k \in Key |-> 0]
      /\ my_lru_list_iterator = [k \in Key |-> FALSE] /\ my_lru_list = << >>
      /\ \A t \in Thread : pc[t] = "idle"
  BY DEF Init, AggInit
<1>2. ASSUME NEW k \in Key PROVE Cardinality({t \in Thread : Uses(t) = k}) = 0
  <2>1. {t \in Thread : Uses(t) = k} = {}
    BY <1>1, CallsAssumption DEF Uses
  <2> QED
    BY <2>1, FS_EmptySet
<1>3. UsesCounted
  BY <1>1, <1>2, HistoryAssumption DEF UsesCounted
<1>4. ItemTypes /\ IteratorsExact /\ UnusedUnreferenced
  BY <1>1 DEF ItemTypes, IteratorsExact, UnusedUnreferenced
<1> QED
  BY <1>3, <1>4 DEF ItemsInv

\* A step that keeps the uses and leaves the items alone.
LEMMA ItemsKept ==
  ASSUME ItemsInv, UNCHANGED items, \A u \in Thread : Uses(u)' = Uses(u)
  PROVE  ItemsInv'
<1>1. \A k \in Key : {t \in Thread : Uses(t) = k}' = {t \in Thread : Uses(t) = k}
  OBVIOUS
<1>2. UNCHANGED <<my_map_storage, my_ref_counter, my_lru_list_iterator, my_lru_list>>
  BY DEF items
<1>3. UsesCounted'
  BY <1>1, <1>2 DEF ItemsInv, UsesCounted
<1> QED
  BY <1>2, <1>3 DEF ItemsInv, ItemTypes, IteratorsExact, UnusedUnreferenced

\* One more use of an item is one more in its counter, and an item that is not
\* in the map has none.
LEMMA RetrieveCounts ==
  ASSUME BaseInv, ItemsInv, NEW t \in Thread, HandleRetrieve(t),
         NEW o \in Thread, o = op_list[t], NEW k \in Key, k = my_key[o]
  PROVE  /\ my_ref_counter' = [my_ref_counter EXCEPT ![k] = @ + 1]
         /\ \A j \in Key : my_ref_counter'[j] = Cardinality({u \in Thread : Uses(u)' = j})
<1>1. my_ref_counter' = [my_ref_counter EXCEPT ![k] = IF k \notin my_map_storage THEN 1 ELSE @ + 1]
  BY DEF HandleRetrieve, retrieve_serial
<1>2. my_ref_counter \in [Key -> Nat]
  BY DEF ItemsInv, ItemTypes
<1>3. k \notin my_map_storage => my_ref_counter[k] = 0
  BY <1>2 DEF ItemsInv, UsesCounted
<1>4. my_ref_counter' = [my_ref_counter EXCEPT ![k] = @ + 1]
  <2>1. CASE k \in my_map_storage
    BY <1>1, <2>1
  <2>2. CASE k \notin my_map_storage
    <3>1. my_ref_counter[k] + 1 = 1
      BY <1>3, <2>2
    <3> QED
      BY <1>1, <2>2, <3>1
  <2> QED
    BY <2>1, <2>2
<1>5. /\ Uses(o) = NoKey /\ Uses(o)' = k
      /\ \A u \in Thread \ {o} : Uses(u)' = Uses(u)
  BY RetrieveUses
<1>6. ASSUME NEW j \in Key
      PROVE  my_ref_counter'[j] = Cardinality({u \in Thread : Uses(u)' = j})
  <2> DEFINE U == {u \in Thread : Uses(u) = j}
             V == {u \in Thread : Uses(u)' = j}
  <2>1. my_ref_counter[j] = Cardinality(U)
    BY DEF ItemsInv, UsesCounted
  <2>2. IsFiniteSet(U)
    BY ThreadsFinite
  <2>3. CASE j = k
    <3>1. V = U \cup {o} /\ o \notin U
      BY <1>5, <2>3, CallsAssumption
    <3> HIDE DEF U, V
    <3>2. Cardinality(V) = Cardinality(U) + 1
      BY <2>2, <3>1, FS_AddElement
    <3> QED
      BY <1>2, <1>4, <2>1, <2>3, <3>2 DEF U, V
  <2>4. CASE j # k
    <3>1. V = U
      BY <1>5, <2>4, CallsAssumption
    <3> QED
      BY <1>2, <1>4, <2>1, <2>4, <3>1
  <2> QED
    BY <2>3, <2>4
<1> QED
  BY <1>4, <1>6

\* A retrieval keeps the items exact.
LEMMA RetrieveKeepsItems ==
  ASSUME BaseInv, ItemsInv, NEW t \in Thread, HandleRetrieve(t)
  PROVE  ItemsInv'
<1>1. PICK o \in Thread : o = op_list[t]
  BY DEF HandleRetrieve, HandleOperation, BaseInv, TrackInv, AggTypeOK
<1>2. PICK k \in Key : k = my_key[o]
  BY <1>1, RetrieveUses
<1>3. /\ my_ref_counter' = [my_ref_counter EXCEPT ![k] = @ + 1]
      /\ \A j \in Key : my_ref_counter'[j] = Cardinality({u \in Thread : Uses(u)' = j})
  BY <1>1, <1>2, RetrieveCounts
<1>4. /\ my_map_storage' = my_map_storage \cup {k}
      /\ my_lru_list_iterator' = [my_lru_list_iterator EXCEPT ![k] = FALSE]
      /\ my_lru_list' = IF k \in my_map_storage /\ my_lru_list_iterator[k]
                        THEN Without(k) ELSE my_lru_list
  BY <1>1, <1>2 DEF HandleRetrieve, retrieve_serial
<1>5. /\ my_map_storage = {j \in Key : my_ref_counter[j] > 0 \/ my_lru_list_iterator[j]}
      /\ Len(my_lru_list) <= HistoryItems /\ HistoryItems \in Nat
      /\ my_ref_counter \in [Key -> Nat] /\ my_lru_list_iterator \in [Key -> BOOLEAN]
      /\ my_lru_list \in Seq(Key) /\ Len(my_lru_list) \in Nat
      /\ DOMAIN my_lru_list = 1 .. Len(my_lru_list)
  BY HistoryAssumption, LenProperties DEF ItemsInv, ItemTypes, UsesCounted
<1>6. /\ \A j \in Key : my_lru_list_iterator[j] <=>
                           \E i \in 1 .. Len(my_lru_list) : my_lru_list[i] = j
      /\ \A i, j \in 1 .. Len(my_lru_list) : my_lru_list[i] = my_lru_list[j] => i = j
  BY <1>5 DEF ItemsInv, IteratorsExact
<1>7. my_map_storage' = {j \in Key : my_ref_counter'[j] > 0 \/ my_lru_list_iterator'[j]}
  BY <1>3, <1>4, <1>5
<1>8. UnusedUnreferenced'
  BY <1>3, <1>4, <1>5 DEF ItemsInv, UnusedUnreferenced
<1>9. CASE my_lru_list_iterator[k]
  <2>1. my_lru_list' = Without(k)
    BY <1>4, <1>5, <1>9
  <2> DEFINE i == CHOOSE i \in DOMAIN my_lru_list : my_lru_list[i] = k
  <2>2. i \in 1 .. Len(my_lru_list) /\ my_lru_list[i] = k
    BY <1>5, <1>6, <1>9
  <2> HIDE DEF i
  <2>3. PICK list \in Seq(Key) : list = my_lru_list
    BY <1>5
  <2>4. PICK rest : rest = my_lru_list' /\ rest = RemoveAt(list, i)
    BY <2>1, <2>3 DEF Without, i
  <2>5. rest \in Seq(Key) /\ Len(rest) = Len(list) - 1
    BY <2>2, <2>3, <2>4, RemoveAtProperties
  <2>50. /\ \A m, n \in DOMAIN rest : rest[m] = rest[n] => m = n
         /\ \A x : (\E n \in DOMAIN rest : rest[n] = x)
                 <=> x # list[i] /\ \E n \in 1 .. Len(list) : list[n] = x
    BY <1>6, <2>2, <2>3, <2>4, RemoveAtDistinct, SMTT(30)
  <2>6. UsesCounted'
    BY <1>3, <1>5, <1>7, <2>3, <2>4, <2>5 DEF UsesCounted
  <2>7. \A j \in Key : my_lru_list_iterator'[j] <=>
                          \E n \in DOMAIN my_lru_list' : my_lru_list'[n] = j
    <3> SUFFICES ASSUME NEW j \in Key
                 PROVE  my_lru_list_iterator'[j] <=> \E n \in DOMAIN rest : rest[n] = j
      BY <2>4
    <3>1. my_lru_list_iterator'[j] <=> j # k /\ my_lru_list_iterator[j]
      BY <1>4, <1>5
    <3>2. list[i] = k /\ (my_lru_list_iterator[j]
                             <=> \E n \in 1 .. Len(list) : list[n] = j)
      BY <1>6, <2>2, <2>3
    <3> QED
      BY <2>50, <3>1, <3>2
  <2>8. my_lru_list_iterator' \in [Key -> BOOLEAN]
    BY <1>4, <1>5
  <2>9. IteratorsExact'
    BY <2>4, <2>50, <2>7, <2>8, Zenon DEF IteratorsExact
  <2>10. ItemTypes'
    <3>1. my_ref_counter' \in [Key -> Nat]
      BY <1>3, <1>5
    <3>2. my_map_storage' \subseteq Key
      BY <1>7
    <3> QED
      BY <2>4, <2>5, <2>8, <3>1, <3>2 DEF ItemTypes
  <2> QED
    BY <1>8, <2>6, <2>9, <2>10 DEF ItemsInv
<1>10. CASE ~my_lru_list_iterator[k]
  <2>1. my_lru_list' = my_lru_list /\ my_lru_list_iterator' = my_lru_list_iterator
    BY <1>4, <1>5, <1>10
  <2>2. UsesCounted'
    BY <1>3, <1>5, <1>7, <2>1 DEF UsesCounted
  <2>3. ItemTypes'
    BY <1>2, <1>3, <1>4, <1>5, <2>1 DEF ItemsInv, ItemTypes
  <2> QED
    BY <1>8, <2>1, <2>2, <2>3 DEF ItemsInv, IteratorsExact
<1> QED
  BY <1>9, <1>10

\* One use of an item less is one less in its counter.
LEMMA EndCounts ==
  ASSUME BaseInv, ItemsInv, NEW t \in Thread, HandleEndOfUsage(t),
         NEW o \in Thread, o = op_list[t], NEW k \in Key, k = my_key[o]
  PROVE  /\ my_ref_counter[k] \in Nat \ {0}
         /\ my_ref_counter' = [my_ref_counter EXCEPT ![k] = @ - 1]
         /\ \A j \in Key : my_ref_counter'[j] = Cardinality({u \in Thread : Uses(u)' = j})
<1>1. my_ref_counter' = [my_ref_counter EXCEPT ![k] = @ - 1]
  BY DEF HandleEndOfUsage, signal_end_of_usage_serial
<1>2. my_ref_counter \in [Key -> Nat]
  BY DEF ItemsInv, ItemTypes
<1>3. /\ Uses(o) = k /\ Uses(o)' = NoKey
      /\ \A u \in Thread \ {o} : Uses(u)' = Uses(u)
  BY EndOfUsageUses
<1>4. ASSUME NEW j \in Key
      PROVE  /\ j = k => my_ref_counter[j] \in Nat \ {0}
             /\ my_ref_counter'[j] = Cardinality({u \in Thread : Uses(u)' = j})
  <2> DEFINE U == {u \in Thread : Uses(u) = j}
             V == {u \in Thread : Uses(u)' = j}
  <2>1. my_ref_counter[j] = Cardinality(U)
    BY DEF ItemsInv, UsesCounted
  <2>2. IsFiniteSet(U) /\ IsFiniteSet(V)
    BY ThreadsFinite
  <2>3. CASE j = k
    <3>1. U = V \cup {o} /\ o \notin V
      BY <1>3, <2>3, CallsAssumption
    <3> HIDE DEF U, V
    <3>2. Cardinality(U) = Cardinality(V) + 1 /\ Cardinality(V) \in Nat
      BY <2>2, <3>1, FS_AddElement, FS_CardinalityType
    <3> QED
      BY <1>1, <1>2, <2>1, <2>3, <3>2 DEF U, V
  <2>4. CASE j # k
    <3>1. V = U
      BY <1>3, <2>4, CallsAssumption
    <3> QED
      BY <1>1, <1>2, <2>1, <2>4, <3>1
  <2> QED
    BY <2>3, <2>4
<1> QED
  BY <1>1, <1>4

\* What the history keeps when another item comes in front: fewer than it may
\* hold, and the others are the evicted ones.
LEMMA SurplusProperties ==
  ASSUME ItemsInv
  PROVE  \E n \in 0 .. Len(my_lru_list) :
            /\ n = Len(my_lru_list) - surplus /\ n + 1 <= HistoryItems
            /\ evicted = {my_lru_list[i] : i \in n + 1 .. Len(my_lru_list)}
<1>1. /\ Len(my_lru_list) \in Nat /\ Len(my_lru_list) <= HistoryItems
      /\ HistoryItems \in Nat \ {0}
  BY HistoryAssumption, LenProperties DEF ItemsInv, ItemTypes, UsesCounted
<1> DEFINE n == Len(my_lru_list) - surplus
<1>2. n \in 0 .. Len(my_lru_list) /\ n + 1 <= HistoryItems
  BY <1>1 DEF surplus
<1>3. evicted = {my_lru_list[i] : i \in n + 1 .. Len(my_lru_list)}
  BY DEF evicted
<1> HIDE DEF n
<1> QED
  BY <1>2, <1>3 DEF n

\* The end of a use keeps the items exact.
LEMMA EndKeepsItems ==
  ASSUME BaseInv, ItemsInv, NEW t \in Thread, HandleEndOfUsage(t)
  PROVE  ItemsInv'
<1>1. PICK o \in Thread : o = op_list[t]
  BY DEF HandleEndOfUsage, HandleOperation, BaseInv, TrackInv, AggTypeOK
<1>2. PICK k \in Key : k = my_key[o]
  BY <1>1, EndOfUsageUses
<1>3. /\ my_ref_counter[k] \in Nat \ {0}
      /\ my_ref_counter' = [my_ref_counter EXCEPT ![k] = @ - 1]
      /\ \A j \in Key : my_ref_counter'[j] = Cardinality({u \in Thread : Uses(u)' = j})
  BY <1>1, <1>2, EndCounts
<1>4. PICK list \in Seq(Key) : list = my_lru_list
  BY DEF ItemsInv, ItemTypes
<1>5. /\ my_map_storage = {j \in Key : my_ref_counter[j] > 0 \/ my_lru_list_iterator[j]}
      /\ Len(list) <= HistoryItems /\ HistoryItems \in Nat /\ Len(list) \in Nat
      /\ my_ref_counter \in [Key -> Nat] /\ my_lru_list_iterator \in [Key -> BOOLEAN]
      /\ DOMAIN list = 1 .. Len(list) /\ \A i \in 1 .. Len(list) : list[i] \in Key
  BY <1>4, HistoryAssumption, LenProperties, ElementOfSeq DEF ItemsInv, ItemTypes, UsesCounted
<1>6. /\ \A j \in Key : my_lru_list_iterator[j] <=> \E i \in 1 .. Len(list) : list[i] = j
      /\ \A i, j \in 1 .. Len(list) : list[i] = list[j] => i = j
  BY <1>4, <1>5 DEF ItemsInv, IteratorsExact
<1>7. \A j \in Key : my_lru_list_iterator[j] => my_ref_counter[j] = 0
  BY DEF ItemsInv, UnusedUnreferenced
<1>8. ~my_lru_list_iterator[k]
  BY <1>3, <1>7
<1>9. CASE my_ref_counter[k] = 1
  <2>1. PICK n \in 0 .. Len(list) :
            /\ n = Len(list) - surplus /\ n + 1 <= HistoryItems
            /\ evicted = {list[i] : i \in n + 1 .. Len(list)}
    BY <1>4, SurplusProperties
  <2>2. PICK front : front = my_lru_list' /\ front = InFront(k, list, n)
    BY <1>1, <1>2, <1>4, <1>9, <2>1 DEF HandleEndOfUsage, signal_end_of_usage_serial, InFront
  <2>3. /\ my_map_storage' = my_map_storage \ evicted
        /\ my_lru_list_iterator' = [j \in Key |->
              IF j = k THEN TRUE ELSE my_lru_list_iterator[j] /\ j \notin evicted]
    BY <1>1, <1>2, <1>9 DEF HandleEndOfUsage, signal_end_of_usage_serial
  <2>4. front \in Seq(Key) /\ Len(front) = n + 1
    BY <2>2, FrontProperties
  <2>5. \A i \in 1 .. Len(list) : list[i] # k
    BY <1>6, <1>8
  <2>6. /\ NoDuplicates(front)
        /\ \A x : Among(x, front, Len(front)) <=> x = k \/ Among(x, list, n)
    <3>1. NoDuplicates(list) /\ ~Among(k, list, Len(list))
      BY <1>6, <2>5 DEF NoDuplicates, Among
    <3> QED
      BY <2>2, <3>1, FrontDistinct
  <2>7. \A j \in evicted : j # k /\ j \in Key /\ my_lru_list_iterator[j]
    <3> SUFFICES ASSUME NEW i \in n + 1 .. Len(list)
                 PROVE  list[i] # k /\ list[i] \in Key /\ my_lru_list_iterator[list[i]]
      BY <2>1
    <3>1. i \in 1 .. Len(list)
      BY <1>5
    <3> QED
      BY <1>5, <1>6, <2>5, <3>1
  <2>8. my_map_storage' = {j \in Key : my_ref_counter'[j] > 0 \/ my_lru_list_iterator'[j]}
    <3> SUFFICES ASSUME NEW j \in Key
                 PROVE  j \in my_map_storage' <=>
                           my_ref_counter'[j] > 0 \/ my_lru_list_iterator'[j]
      BY <1>5, <2>3
    <3>1. CASE j = k
      BY <1>3, <1>5, <2>3, <2>7, <3>1
    <3>2. CASE j # k
      <4>1. /\ my_ref_counter'[j] = my_ref_counter[j]
            /\ my_lru_list_iterator'[j] <=> my_lru_list_iterator[j] /\ j \notin evicted
        BY <1>3, <1>5, <2>3, <3>2
      <4>2. j \in evicted => ~(my_ref_counter[j] > 0)
        BY <1>7, <2>7
      <4> QED
        BY <1>5, <2>3, <4>1, <4>2
    <3> QED
      BY <3>1, <3>2
  <2>9. UsesCounted'
    BY <1>3, <2>1, <2>2, <2>4, <2>8 DEF UsesCounted
  <2>10. \A j \in Key : my_lru_list_iterator'[j] <=> Among(j, front, Len(front))
    <3> SUFFICES ASSUME NEW j \in Key, j # k
                 PROVE  my_lru_list_iterator'[j] <=> Among(j, list, n)
      BY <2>3, <2>6
    <3>1. my_lru_list_iterator'[j] <=> my_lru_list_iterator[j] /\ j \notin evicted
      BY <2>3
    <3>2. ASSUME NEW i \in 1 .. n, list[i] = j
          PROVE  my_lru_list_iterator[j] /\ j \notin evicted
      <4>1. i \in 1 .. Len(list)
        BY <1>5
      <4>2. \A m \in n + 1 .. Len(list) : m \in 1 .. Len(list) /\ m # i
        BY <1>5
      <4>3. \A m \in n + 1 .. Len(list) : list[m] # j
        BY <1>6, <3>2, <4>1, <4>2
      <4> QED
        BY <1>6, <2>1, <3>2, <4>1, <4>3
    <3>3. ASSUME my_lru_list_iterator[j], j \notin evicted
          PROVE  Among(j, list, n)
      <4>1. PICK i \in 1 .. Len(list) : list[i] = j
        BY <1>6, <3>3
      <4>2. i \notin n + 1 .. Len(list)
        BY <2>1, <3>3, <4>1
      <4>3. i \in 1 .. n
        BY <1>5, <4>2
      <4> QED
        BY <4>1, <4>3 DEF Among
    <3> QED
      BY <3>1, <3>2, <3>3 DEF Among
  <2>11. my_lru_list_iterator' \in [Key -> BOOLEAN]
    BY <1>5, <2>3
  <2>12. IteratorsExact'
    <3>0. DOMAIN my_lru_list' = 1 .. Len(front)
      BY <2>2, <2>4, LenProperties
    <3>1. ASSUME NEW j \in Key
          PROVE  my_lru_list_iterator'[j] =
                    (\E i \in DOMAIN my_lru_list' : my_lru_list'[i] = j)
      <4>1. my_lru_list_iterator'[j] <=> \E i \in DOMAIN my_lru_list' : my_lru_list'[i] = j
        BY <2>2, <2>10, <3>0 DEF Among
      <4> QED
        BY <2>11, <4>1
    <3>2. \A i, j \in DOMAIN my_lru_list' : my_lru_list'[i] = my_lru_list'[j] => i = j
      BY <2>2, <2>6, <3>0 DEF NoDuplicates
    <3> QED
      BY <3>1, <3>2 DEF IteratorsExact
  <2>13. UnusedUnreferenced'
    BY <1>3, <1>5, <1>7, <1>9, <2>3 DEF UnusedUnreferenced
  <2>14. ItemTypes'
    <3>1. my_ref_counter' \in [Key -> Nat]
      BY <1>3, <1>5
    <3> QED
      BY <2>2, <2>4, <2>8, <2>11, <3>1 DEF ItemTypes
  <2> QED
    BY <2>9, <2>12, <2>13, <2>14 DEF ItemsInv
<1>10. CASE my_ref_counter[k] # 1
  <2>1. my_lru_list' = my_lru_list /\ my_map_storage' = my_map_storage
    BY <1>1, <1>2, <1>10 DEF HandleEndOfUsage, signal_end_of_usage_serial
  <2>2. my_lru_list_iterator' = my_lru_list_iterator
    <3>1. my_lru_list_iterator' = [j \in Key |->
              IF j = k THEN FALSE ELSE my_lru_list_iterator[j]]
      BY <1>1, <1>2, <1>5, <1>10 DEF HandleEndOfUsage, signal_end_of_usage_serial
    <3> QED
      BY <1>5, <1>8, <3>1
  <2>3. my_ref_counter' \in [Key -> Nat]
    BY <1>3, <1>5
  <2>4. \A j \in Key : my_ref_counter'[j] > 0 <=> my_ref_counter[j] > 0
    BY <1>3, <1>5, <1>10
  <2>5. UsesCounted'
    BY <1>3, <1>4, <1>5, <2>1, <2>2, <2>4 DEF UsesCounted
  <2>6. UnusedUnreferenced'
    BY <1>3, <1>5, <1>7, <1>8, <2>2 DEF UnusedUnreferenced
  <2>7. ItemTypes'
    BY <2>1, <2>2, <2>3 DEF ItemsInv, ItemTypes
  <2> QED
    BY <2>1, <2>2, <2>5, <2>6, <2>7 DEF ItemsInv, IteratorsExact
<1> QED
  BY <1>9, <1>10

\* Every step keeps the items exact.
LEMMA ItemsStep == BaseInv /\ ItemsInv /\ [Next]_vars => ItemsInv'
<1> SUFFICES ASSUME BaseInv, ItemsInv, [Next]_vars PROVE ItemsInv'
  OBVIOUS
<1>1. ASSUME NEW t \in Thread, Aggregate(t) PROVE ItemsInv'
  <2>1. UNCHANGED items
    BY <1>1 DEF Aggregate
  <2> QED
    BY <1>1, <2>1, AggregateUses, ItemsKept
<1>2. ASSUME NEW t \in Thread, HandleRetrieve(t) PROVE ItemsInv'
  BY <1>2, RetrieveKeepsItems
<1>3. ASSUME NEW t \in Thread, HandleEndOfUsage(t) PROVE ItemsInv'
  BY <1>3, EndKeepsItems
<1>4. ASSUME NEW t \in Thread,
             \/ ComputeValue(t) \/ StoreReady(t) \/ AwaitReady(t) \/ EndUsage(t) \/ Return(t)
             \/ \E k \in Key : CallRetrieve(t, k)
      PROVE  ItemsInv'
  <2>1. UNCHANGED items
    BY <1>4 DEF ComputeValue, StoreReady, AwaitReady, EndUsage, Return, CallRetrieve
  <2>2. \A u \in Thread : Uses(u)' = Uses(u)
    BY <1>4, CallUses
  <2> QED
    BY <2>1, <2>2, ItemsKept
<1>5. CASE UNCHANGED vars
  <2>1. \A u \in Thread : Uses(u)' = Uses(u)
    BY <1>5 DEF vars, aggVars, lists, ops, handler, request, Uses, Executed
  <2> QED
    BY <1>5, <2>1, ItemsKept DEF vars
<1> QED
  BY <1>1, <1>2, <1>3, <1>4, <1>5 DEF Next, Step

(***************************************************************************)
(* The values.                                                             *)
(***************************************************************************)
\* The thread whose retrieval inserted the item, until it has stored the value.
Producing(t) ==
    /\ operation[t] = "retrieve" /\ my_is_new_value_needed[t]
    /\ pc[t] \notin {"idle", "using"}

\* A value is there before the flag that announces it, and before a handle.
ValueFirst ==
    /\ \A k \in Key : my_is_ready[k] => my_value[k]
    /\ \A t \in Thread : pc[t] \in {"ready", "using"} => my_value[my_key[t]]

\* Who produces the value of an item uses the item, and is alone.
OneProducer ==
    /\ \A t \in Thread : Producing(t) => Uses(t) = my_key[t]
    /\ \A t, u \in Thread :
          Producing(t) /\ Producing(u) /\ my_key[t] = my_key[u] => t = u

ValueInv ==
    /\ my_is_ready \in [Key -> BOOLEAN] /\ my_value \in [Key -> BOOLEAN]
    /\ ValueFirst /\ OneProducer

AllInv == BaseInv /\ ItemsInv /\ ValueInv

LEMMA ValueInit == Init => ValueInv
  BY DEF Init, AggInit, ValueInv, ValueFirst, OneProducer, Producing

\* What a thread uses is in the map.
LEMMA UsedInMap ==
  ASSUME ItemsInv, NEW u \in Thread, NEW k \in Key, Uses(u) = k
  PROVE  k \in my_map_storage
<1> DEFINE U == {t \in Thread : Uses(t) = k}
<1>1. my_ref_counter[k] = Cardinality(U) /\ IsFiniteSet(U)
  BY ThreadsFinite DEF ItemsInv, UsesCounted
<1>2. U # {}
  OBVIOUS
<1> HIDE DEF U
<1>3. my_ref_counter[k] \in Nat /\ my_ref_counter[k] # 0
  BY <1>1, <1>2, FS_EmptySet, FS_CardinalityType
<1> QED
  BY <1>3 DEF ItemsInv, UsesCounted

\* A retrieval makes its thread the producer of an item that nobody uses yet,
\* or of none.
LEMMA RetrieveKeepsValues ==
  ASSUME AllInv, NEW t \in Thread, HandleRetrieve(t)
  PROVE  ValueInv'
<1>1. PICK o \in Thread : o = op_list[t]
  BY DEF HandleRetrieve, HandleOperation, AllInv, BaseInv, TrackInv, AggTypeOK
<1>2. PICK k \in Key : k = my_key[o]
  BY <1>1, RetrieveUses DEF AllInv
<1>3. /\ Uses(o) = NoKey /\ Uses(o)' = k /\ \A u \in Thread \ {o} : Uses(u)' = Uses(u)
  BY <1>1, <1>2, RetrieveUses DEF AllInv
<1>4. /\ pc[o] \in {"wait", "handle"} /\ pc'[o] \in {"wait", "store"}
      /\ \A u \in Thread \ {o} : \/ pc'[u] = pc[u]
                                 \/ pc[u] = "handle" /\ pc'[u] = "store"
  <2>1. HandleOperation(t)
    BY DEF HandleRetrieve
  <2> QED
    BY <1>1, <2>1, HandledOnce DEF AllInv
<1>5. /\ UNCHANGED <<operation, my_key>>
      /\ my_is_new_value_needed' =
            [my_is_new_value_needed EXCEPT ![o] = k \notin my_map_storage]
      /\ my_is_ready' = [my_is_ready EXCEPT ![k] = k \in my_map_storage /\ @]
      /\ my_value' = [my_value EXCEPT ![k] = k \in my_map_storage /\ @]
  BY <1>1, <1>2 DEF HandleRetrieve, retrieve_serial
<1>6. /\ my_is_ready \in [Key -> BOOLEAN] /\ my_value \in [Key -> BOOLEAN]
      /\ my_is_new_value_needed \in [Thread -> BOOLEAN]
      /\ \A u \in Thread : pc[u] # "idle" => my_key[u] \in Key
  BY DEF AllInv, BaseInv, RequestInv, ValueInv
<1>7. my_is_ready' \in [Key -> BOOLEAN] /\ my_value' \in [Key -> BOOLEAN]
  BY <1>5, <1>6
<1>8. \A u \in Thread \ {o} : Producing(u)' <=> Producing(u)
  BY <1>4, <1>5, <1>6 DEF Producing
<1>9. Producing(o)' => k \notin my_map_storage
  BY <1>5, <1>6 DEF Producing
<1>10. ASSUME NEW u \in Thread \ {o}, my_key[u] = k, k \notin my_map_storage
       PROVE  pc[u] \notin {"ready", "using"} /\ ~Producing(u)
  <2>1. Uses(u) # k
    BY <1>10, UsedInMap DEF AllInv
  <2> QED
    BY <1>10, <2>1 DEF AllInv, ValueInv, OneProducer, Uses
<1>11. \A j \in Key : my_is_ready'[j] => my_value'[j]
  BY <1>5, <1>6 DEF AllInv, ValueInv, ValueFirst
<1>12. ASSUME NEW u \in Thread, pc'[u] \in {"ready", "using"} PROVE my_value'[my_key'[u]]
  <2>1. u # o /\ pc[u] \in {"ready", "using"} /\ my_key'[u] = my_key[u] /\ my_key[u] \in Key
    BY <1>4, <1>5, <1>6, <1>12
  <2>2. my_value[my_key[u]]
    BY <2>1 DEF AllInv, ValueInv, ValueFirst
  <2>3. my_key[u] = k => k \in my_map_storage
    BY <1>10, <2>1
  <2> QED
    BY <1>5, <1>6, <2>1, <2>2, <2>3
<1>13. ASSUME NEW u \in Thread, Producing(u)' PROVE Uses(u)' = my_key'[u]
  BY <1>2, <1>3, <1>5, <1>8, <1>13 DEF AllInv, ValueInv, OneProducer
<1>14. ASSUME NEW u \in Thread, NEW v \in Thread, Producing(u)', Producing(v)',
              my_key'[u] = my_key'[v]
       PROVE  u = v
  <2>1. my_key[u] = my_key[v]
    BY <1>5, <1>14
  <2>2. CASE u # o /\ v # o
    BY <1>8, <1>14, <2>1, <2>2 DEF AllInv, ValueInv, OneProducer
  <2>3. CASE u = o /\ v # o
    BY <1>2, <1>8, <1>9, <1>10, <1>14, <2>1, <2>3
  <2>4. CASE u # o /\ v = o
    BY <1>2, <1>8, <1>9, <1>10, <1>14, <2>1, <2>4
  <2> QED
    BY <2>2, <2>3, <2>4
<1> QED
  BY <1>7, <1>11, <1>12, <1>13, <1>14 DEF ValueInv, ValueFirst, OneProducer

\* Every step keeps the values in order.
LEMMA ValueStep == AllInv /\ [Next]_vars => ValueInv'
<1> SUFFICES ASSUME AllInv, [Next]_vars PROVE ValueInv'
  OBVIOUS
<1>0. /\ pc \in [Thread -> AggPC \cup {"idle", "ready", "using"}]
      /\ my_is_ready \in [Key -> BOOLEAN] /\ my_value \in [Key -> BOOLEAN]
      /\ my_is_new_value_needed \in [Thread -> BOOLEAN]
      /\ my_key \in [Thread -> Key \cup {NoKey}]
      /\ operation \in [Thread -> {"retrieve", "signal_end_of_usage"}]
      /\ \A u \in Thread : pc[u] # "idle" => my_key[u] \in Key
      /\ \A u \in Thread : pc[u] = "ready" => Producing(u)
      /\ \A u \in Thread : pc[u] = "using" => operation[u] = "retrieve"
  BY DEF AllInv, BaseInv, HandlerInv, HandlerTypes, RequestInv, ValueInv, Producing
<1>1. ValueFirst /\ OneProducer
  BY DEF AllInv, ValueInv
<1> USE DEF Goto
<1>2. ASSUME NEW t \in Thread, Aggregate(t) PROVE ValueInv'
  <2>1. UNCHANGED <<values, request>>
    BY <1>2 DEF Aggregate
  <2>2. \A u \in Thread : /\ pc'[u] \in {"ready", "using"} <=> pc[u] \in {"ready", "using"}
                          /\ pc'[u] \in {"idle", "using"} <=> pc[u] \in {"idle", "using"}
    BY <1>0, <1>2
    DEF Aggregate, AggStep, LinkOperation, PushOperation, SeeStatus, SeeFree, TakeHandler,
        GrabList, StoreStatus, ReleaseHandler
  <2>3. \A u \in Thread : Uses(u)' = Uses(u)
    BY <1>2, AggregateUses DEF AllInv
  <2>4. \A u \in Thread : Producing(u)' <=> Producing(u)
    BY <2>1, <2>2 DEF Producing, request
  <2> QED
    BY <1>0, <1>1, <2>1, <2>2, <2>3, <2>4 DEF values, request, ValueInv, ValueFirst, OneProducer
<1>3. ASSUME NEW t \in Thread, HandleRetrieve(t) PROVE ValueInv'
  BY <1>3, RetrieveKeepsValues
<1>4. ASSUME NEW t \in Thread, HandleEndOfUsage(t) PROVE ValueInv'
  <2>1. PICK o \in Thread : o = op_list[t]
    BY <1>4 DEF HandleEndOfUsage, HandleOperation, AllInv, BaseInv, TrackInv, AggTypeOK
  <2>2. /\ UNCHANGED <<values, request>> /\ operation[o] = "signal_end_of_usage"
        /\ pc[t] = "handle" /\ pc' = [pc EXCEPT ![t] = "store"]
    BY <1>4, <2>1 DEF HandleEndOfUsage, HandleOperation, signal_end_of_usage_serial
  <2>3. \A u \in Thread \ {o} : Uses(u)' = Uses(u)
    BY <1>4, <2>1, EndOfUsageUses DEF AllInv
  <2>4. \A u \in Thread : Producing(u)' <=> Producing(u)
    BY <1>0, <2>2 DEF Producing, request
  <2>5. ~Producing(o)
    BY <2>2 DEF Producing
  <2>6. \A u \in Thread : pc'[u] \in {"ready", "using"} => pc'[u] = pc[u]
    BY <1>0, <2>2
  <2> QED
    BY <1>0, <1>1, <2>2, <2>3, <2>4, <2>5, <2>6 DEF values, request, ValueInv, ValueFirst, OneProducer
<1>5. ASSUME NEW t \in Thread,
             \/ ComputeValue(t) \/ StoreReady(t) \/ AwaitReady(t) \/ EndUsage(t) \/ Return(t)
             \/ \E k \in Key : CallRetrieve(t, k)
      PROVE  ValueInv'
  <2>1. \A u \in Thread : Uses(u)' = Uses(u)
    BY <1>5, CallUses DEF AllInv
  <2>2. \A u \in Thread \ {t} : /\ pc'[u] = pc[u] /\ my_key'[u] = my_key[u]
                                /\ Producing(u)' <=> Producing(u)
    BY <1>0, <1>5
    DEF ComputeValue, StoreReady, AwaitReady, EndUsage, Return, CallRetrieve, NewOperation,
        request, Producing
  <2>3. Producing(t)' => Producing(t) /\ my_key'[t] = my_key[t]
    BY <1>0, <1>5
    DEF ComputeValue, StoreReady, AwaitReady, EndUsage, Return, CallRetrieve, NewOperation,
        request, Producing
  <2>4. OneProducer'
    <3>1. \A u \in Thread : Producing(u)' => Producing(u) /\ my_key'[u] = my_key[u]
      BY <2>2, <2>3
    <3>2. \A u \in Thread : Producing(u)' => Uses(u)' = my_key'[u]
      BY <1>1, <2>1, <3>1 DEF OneProducer
    <3>3. ASSUME NEW u \in Thread, NEW v \in Thread,
                 Producing(u)', Producing(v)', my_key'[u] = my_key'[v]
          PROVE  u = v
      BY <1>1, <3>1, <3>3 DEF OneProducer
    <3> QED
      BY <3>2, <3>3 DEF OneProducer
  <2>5. /\ my_is_ready' \in [Key -> BOOLEAN] /\ my_value' \in [Key -> BOOLEAN]
        /\ ValueFirst'
    <3>1. CASE ComputeValue(t)
      BY <1>0, <1>1, <3>1 DEF ComputeValue, request, ValueFirst
    <3>2. CASE StoreReady(t)
      BY <1>0, <1>1, <3>2 DEF StoreReady, request, ValueFirst
    <3>3. CASE AwaitReady(t)
      BY <1>0, <1>1, <3>3 DEF AwaitReady, values, request, ValueFirst
    <3>4. CASE EndUsage(t)
      BY <1>0, <1>1, <3>4 DEF EndUsage, NewOperation, values, ValueFirst
    <3>5. CASE Return(t)
      BY <1>0, <1>1, <3>5 DEF Return, values, ValueFirst
    <3>6. CASE \E k \in Key : CallRetrieve(t, k)
      BY <1>0, <1>1, <3>6 DEF CallRetrieve, NewOperation, values, ValueFirst
    <3> QED
      BY <1>5, <3>1, <3>2, <3>3, <3>4, <3>5, <3>6
  <2> QED
    BY <2>4, <2>5 DEF ValueInv
<1>6. CASE UNCHANGED vars
  BY <1>0, <1>1, <1>6
  DEF vars, aggVars, lists, ops, handler, values, request, Uses, Executed, Producing, ValueInv,
      ValueFirst, OneProducer
<1> QED
  BY <1>2, <1>3, <1>4, <1>5, <1>6 DEF Next, Step

(***************************************************************************)
(* The theorems.                                                           *)
(***************************************************************************)
\* AllInv holds initially and every step keeps it.
THEOREM AllInvariant == Spec => []AllInv
<1>1. Init => AllInv
  BY HandlerInit, TrackInit, RequestInit, ItemsInit, ValueInit DEF AllInv, BaseInv
<1>2. AllInv /\ [Next]_vars => AllInv'
  BY HandlerStep, TrackStep, RequestStep, ItemsStep, ValueStep DEF AllInv, BaseInv
<1> QED
  BY <1>1, <1>2, PTL DEF Spec

\* The types: a counter is at most the number of threads.
LEMMA AllInvTypes == AllInv => TypeOK
<1> SUFFICES ASSUME AllInv PROVE TypeOK
  OBVIOUS
<1>1. my_ref_counter \in [Key -> 0 .. Cardinality(Thread)]
  <2>1. my_ref_counter \in [Key -> Nat]
    BY DEF AllInv, ItemsInv, ItemTypes
  <2>2. ASSUME NEW k \in Key PROVE my_ref_counter[k] \in 0 .. Cardinality(Thread)
    BY ThreadsFinite DEF AllInv, ItemsInv, UsesCounted
  <2> QED
    BY <2>1, <2>2
<1> QED
  BY <1>1
  DEF TypeOK, AllInv, BaseInv, HandlerInv, HandlerTypes, TrackInv, RequestInv, ItemsInv,
      ItemTypes, ValueInv

\* retrieve_serial, signal_end_of_usage_serial: the reference counter of an
\* item is the number of its uses, the history has the items without one, at
\* most HistoryItems of them, and the iterators in the items are not stale,
\* for any number of threads, keys and calls.
THEOREM ItemsStayExact == Spec => []ItemsExact
<1>1. AllInv => ItemsExact
  BY AllInvTypes DEF AllInv, ItemsInv, ItemsExact
<1> QED
  BY <1>1, AllInvariant, PTL

\* operator[]: a handle is only returned when its value was computed, and the
\* thread that inserted the item is the only one to compute it.
THEOREM ValuesReady == Spec => []ValueReady
<1>1. AllInv => ValueReady
  <2> SUFFICES ASSUME AllInv PROVE ValueReady
    OBVIOUS
  <2>1. \A t \in Thread : Computes(t) => Producing(t)
    BY DEF Computes, Producing, AllInv, BaseInv, RequestInv
  <2> QED
    BY <2>1 DEF ValueReady, AllInv, ValueInv, ValueFirst, OneProducer
<1> QED
  BY <1>1, AllInvariant, PTL

(***************************************************************************)
(* The cache implements UnusedHistory: a retrieval is Retrieve and an end  *)
(* of usage EndUsage of the thread whose operation is executed, when the   *)
(* handler, whoever it is, executes it; no other step is seen.             *)
(***************************************************************************)
Held == [t \in Thread |-> Uses(t)]

LEMMA RetrieveImplements ==
  ASSUME AllInv, NEW t \in Thread, HandleRetrieve(t)
  PROVE  History!Next
<1>1. PICK o \in Thread : o = op_list[t]
  BY DEF HandleRetrieve, HandleOperation, AllInv, BaseInv, TrackInv, AggTypeOK
<1>2. PICK k \in Key : k = my_key[o]
  BY <1>1, RetrieveUses DEF AllInv
<1>3. /\ Uses(o) = NoKey /\ Uses(o)' = k /\ \A u \in Thread \ {o} : Uses(u)' = Uses(u)
  BY <1>1, <1>2, RetrieveUses DEF AllInv
<1>4. Held[o] = NoKey /\ Held' = [Held EXCEPT ![o] = k]
  BY <1>3 DEF Held
<1>5. my_lru_list' = IF k \in my_map_storage /\ my_lru_list_iterator[k]
                     THEN Without(k) ELSE my_lru_list
  BY <1>1, <1>2 DEF HandleRetrieve, retrieve_serial
<1>6. /\ my_lru_list_iterator[k] => k \in my_map_storage
      /\ my_lru_list_iterator[k] <=> \E i \in DOMAIN my_lru_list : my_lru_list[i] = k
  BY DEF AllInv, ItemsInv, ItemTypes, UsesCounted, IteratorsExact
<1>7. IF \E i \in DOMAIN my_lru_list : my_lru_list[i] = k
      THEN \E i \in DOMAIN my_lru_list :
              my_lru_list[i] = k /\ my_lru_list' = History!RemoveAt(my_lru_list, i)
      ELSE my_lru_list' = my_lru_list
  <2>1. CASE \E i \in DOMAIN my_lru_list : my_lru_list[i] = k
    <3> DEFINE i == CHOOSE i \in DOMAIN my_lru_list : my_lru_list[i] = k
    <3>1. i \in DOMAIN my_lru_list /\ my_lru_list[i] = k
      BY <2>1
    <3>2. my_lru_list' = RemoveAt(my_lru_list, i)
      BY <1>5, <1>6, <2>1 DEF Without
    <3> HIDE DEF i
    <3> QED
      BY <2>1, <3>1, <3>2 DEF RemoveAt, History!RemoveAt
  <2>2. CASE ~\E i \in DOMAIN my_lru_list : my_lru_list[i] = k
    BY <1>5, <1>6, <2>2
  <2> QED
    BY <2>1, <2>2
<1>8. History!Retrieve(o, k)
  BY <1>4, <1>7 DEF History!Retrieve, Held
<1> QED
  BY <1>8 DEF History!Next

\* The counter is 1 when no other thread uses the item.
LEMMA LastUse ==
  ASSUME ItemsInv, NEW o \in Thread, NEW k \in Key, Uses(o) = k
  PROVE  my_ref_counter[k] = 1 <=> ~\E u \in Thread \ {o} : Uses(u) = k
<1> DEFINE U == {u \in Thread : Uses(u) = k}
           V == {u \in Thread \ {o} : Uses(u) = k}
<1>1. my_ref_counter[k] = Cardinality(U)
  BY DEF ItemsInv, UsesCounted
<1>2. IsFiniteSet(V) /\ U = V \cup {o} /\ o \notin V
  BY ThreadsFinite
<1>3. V = {} <=> ~\E u \in Thread \ {o} : Uses(u) = k
  OBVIOUS
<1> HIDE DEF U, V
<1>4. Cardinality(U) = Cardinality(V) + 1 /\ Cardinality(V) \in Nat
  BY <1>2, FS_AddElement, FS_CardinalityType
<1>5. Cardinality(V) = 0 <=> V = {}
  BY <1>2, FS_EmptySet
<1> QED
  BY <1>1, <1>3, <1>4, <1>5

LEMMA EndImplements ==
  ASSUME AllInv, NEW t \in Thread, HandleEndOfUsage(t)
  PROVE  History!Next
<1>1. PICK o \in Thread : o = op_list[t]
  BY DEF HandleEndOfUsage, HandleOperation, AllInv, BaseInv, TrackInv, AggTypeOK
<1>2. PICK k \in Key : k = my_key[o]
  BY <1>1, EndOfUsageUses DEF AllInv
<1>3. /\ Uses(o) = k /\ Uses(o)' = NoKey /\ \A u \in Thread \ {o} : Uses(u)' = Uses(u)
  BY <1>1, <1>2, EndOfUsageUses DEF AllInv
<1>4. Held[o] = k /\ k # NoKey /\ Held' = [Held EXCEPT ![o] = NoKey]
  BY <1>3, CallsAssumption DEF Held
<1>5. my_ref_counter[k] = 1 <=> ~\E u \in Thread \ {o} : Held[u] = Held[o]
  BY <1>3, LastUse DEF Held, AllInv
<1>6. my_lru_list' = IF my_ref_counter[k] = 1
                     THEN <<k>> \o SubSeq(my_lru_list, 1, Len(my_lru_list) - surplus)
                     ELSE my_lru_list
  BY <1>1, <1>2 DEF HandleEndOfUsage, signal_end_of_usage_serial
<1>7. SubSeq(my_lru_list, 1, Len(my_lru_list) - surplus) =
        IF Len(my_lru_list) < HistoryItems THEN my_lru_list
        ELSE SubSeq(my_lru_list, 1, HistoryItems - 1)
  <2>1. /\ my_lru_list \in Seq(Key) /\ Len(my_lru_list) \in Nat
        /\ Len(my_lru_list) <= HistoryItems /\ HistoryItems \in Nat
    BY HistoryAssumption, LenProperties DEF AllInv, ItemsInv, ItemTypes, UsesCounted
  <2>2. CASE Len(my_lru_list) < HistoryItems
    <3>1. Len(my_lru_list) - surplus = Len(my_lru_list)
      BY <2>1, <2>2 DEF surplus
    <3>2. SubSeq(my_lru_list, 1, Len(my_lru_list)) = my_lru_list
      BY <2>1
    <3> QED
      BY <2>2, <3>1, <3>2
  <2>3. CASE ~(Len(my_lru_list) < HistoryItems)
    <3>1. Len(my_lru_list) - surplus = HistoryItems - 1
      BY <2>1, <2>3 DEF surplus
    <3> QED
      BY <2>3, <3>1
  <2> QED
    BY <2>2, <2>3
<1>8. History!EndUsage(o)
  BY <1>4, <1>5, <1>6, <1>7 DEF History!EndUsage, Held
<1> QED
  BY <1>8 DEF History!Next

\* concurrent_lru_cache: whatever the handler and the order in which it finds
\* the operations, the cache is one from which items are retrieved, and to
\* which they are returned, in one step each.
THEOREM CacheImplementsHistory == Spec => ImplementsHistory
<1>1. Init => History!Init
  <2> SUFFICES ASSUME Init PROVE History!Init
    OBVIOUS
  <2>1. \A t \in Thread : Uses(t) = NoKey
    BY DEF Init, AggInit, Uses
  <2> QED
    BY <2>1 DEF Init, History!Init
<1>2. AllInv /\ [Next]_vars => [History!Next]_<<Held, my_lru_list>>
  <2> SUFFICES ASSUME AllInv, [Next]_vars, ~UNCHANGED <<Held, my_lru_list>>
               PROVE  History!Next
    OBVIOUS
  <2>1. ASSUME NEW t \in Thread, Aggregate(t) PROVE FALSE
    BY <2>1, AggregateUses DEF Aggregate, items, AllInv, Held
  <2>2. ASSUME NEW t \in Thread,
               \/ ComputeValue(t) \/ StoreReady(t) \/ AwaitReady(t) \/ EndUsage(t) \/ Return(t)
               \/ \E k \in Key : CallRetrieve(t, k)
        PROVE  FALSE
    <3>1. \A u \in Thread : Uses(u)' = Uses(u)
      BY <2>2, CallUses DEF AllInv
    <3>2. UNCHANGED items
      BY <2>2 DEF ComputeValue, StoreReady, AwaitReady, EndUsage, Return, CallRetrieve
    <3> QED
      BY <3>1, <3>2 DEF Held, items
  <2>3. CASE UNCHANGED vars
    BY <2>3 DEF vars, aggVars, lists, ops, handler, items, request, Held, Uses, Executed
  <2> QED
    BY <2>1, <2>2, <2>3, RetrieveImplements, EndImplements DEF Next, Step
<1> QED
  BY <1>1, <1>2, AllInvariant, PTL DEF Spec, ImplementsHistory, History!Spec, Held
===============================================================================
