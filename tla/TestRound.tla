----------------------------- MODULE TestRound -----------------------------
(***************************************************************************)
(* One round of TestCase2::start_Nthread_tests (src/src/cases) on a cache  *)
(* OnCacheMLRU: main warms the cache up with its first items, starts the   *)
(* threads, opens the gate (a semaphore on which all of them wait), joins  *)
(* them and destroys the cache.  Every insert thread inserts, every find   *)
(* thread looks up, the first Count items of the test data in order.       *)
(***************************************************************************)
EXTENDS OnCacheMLRU, Sequences

CONSTANTS
    Main, Inserters, Finders,  \* the threads: Thread is all of them
    TestData,                  \* test_data, a sequence of items
    Count                      \* curSize

Workers == Inserters \cup Finders

ASSUME ThreadAssumption ==
    /\ Thread = {Main} \cup Workers
    /\ Main \notin Workers
    /\ Inserters \cap Finders = {}
    /\ IsFiniteSet(Workers)
ASSUME TestDataAssumption == TestData \in Seq(Data) /\ Len(TestData) >= Count
ASSUME CountAssumption == Count \in Nat \ {0} /\ Count >= Capacity

VARIABLES
    round,                     \* main: "warmup", "signal", "join" or "stopped"
    posts,                     \* posts that signal_semaphore still has to make
    sema,                      \* the value of the semaphore
    life,                      \* per worker: "none", "waiting", "running", "done"
    i,                         \* per thread: the items it has been through
    found                      \* per worker: its count of items found

gate == <<round, posts, sema>>
testVars == <<gate, life, i, found>>

TestInit ==
    /\ Init
    /\ round = "warmup"
    /\ posts = 0
    /\ sema = 0
    /\ life = [t \in Workers |-> "none"]
    /\ i = [t \in Thread |-> 0]
    /\ found = [t \in Workers |-> 0]

(***************************************************************************)
(* main.                                                                   *)
(***************************************************************************)
NextItem(t) == /\ i' = [i EXCEPT ![t] = @ + 1]
               /\ UNCHANGED <<gate, life, found>>

\* p_tester->insert until i >= capacity
WarmUp ==
    /\ round = "warmup" /\ i[Main] < Capacity
    /\ CallInsert(Main, TestData[i[Main] + 1])
    /\ NextItem(Main)

\* The threads are created and run to wait_semaphore, the signal starts.
StartThreads ==
    /\ round = "warmup" /\ i[Main] = Capacity /\ pc[Main] = "idle"
    /\ round' = "signal"
    /\ posts' = Cardinality(Workers)
    /\ life' = [t \in Workers |-> "waiting"]
    /\ UNCHANGED <<vars, sema, i, found>>

\* Mutant: a find thread is not joined.
JoinInserters ==
    /\ round = "join"
    /\ \A t \in Inserters : life[t] = "done"
    /\ round' = "stopped"
    /\ UNCHANGED <<vars, posts, sema, life, i, found>>

\* Mutant: a thread goes through the gate without taking a post.
WaitSemaphoreFree(t) ==
    /\ life[t] = "waiting" /\ sema > 0
    /\ life' = [life EXCEPT ![t] = "running"]
    /\ UNCHANGED <<vars, gate, i, found>>

\* sem_post, once for each thread
Post ==
    /\ round = "signal" /\ posts > 0
    /\ posts' = posts - 1
    /\ sema' = sema + 1
    /\ UNCHANGED <<vars, round, life, i, found>>

Signalled ==
    /\ round = "signal" /\ posts = 0
    /\ round' = "join"
    /\ UNCHANGED <<vars, posts, sema, life, i, found>>

\* All threads joined; onStop deletes the cache.
JoinAndStop ==
    /\ round = "join"
    /\ \A t \in Workers : life[t] = "done"
    /\ round' = "stopped"
    /\ UNCHANGED <<vars, posts, sema, life, i, found>>

(***************************************************************************)
(* The threads.                                                            *)
(***************************************************************************)
WaitSemaphore(t) ==
    /\ life[t] = "waiting" /\ sema > 0
    /\ sema' = sema - 1
    /\ life' = [life EXCEPT ![t] = "running"]
    /\ UNCHANGED <<vars, round, posts, i, found>>

InsertInThread(t) ==
    /\ life[t] = "running" /\ i[t] < Count
    /\ CallInsert(t, TestData[i[t] + 1])
    /\ NextItem(t)

FindInThread(t) ==
    /\ life[t] = "running" /\ i[t] < Count
    /\ CallGet(t, TestData[i[t] + 1][1])
    /\ NextItem(t)

\* exist() compares what getData returned with the item looked for.
CountFound(t) ==
    /\ ReturnData(t)
    /\ found' = [found EXCEPT ![t] = @ + IF ret[t] = TestData[i[t]] THEN 1 ELSE 0]
    /\ UNCHANGED <<gate, life, i>>

ExitThread(t) ==
    /\ life[t] = "running" /\ i[t] = Count /\ pc[t] = "idle"
    /\ life' = [life EXCEPT ![t] = "done"]
    /\ UNCHANGED <<vars, gate, i, found>>

InCache(t) ==
    /\ Insertion(t) \/ LockToGet(t) \/ ReadData(t)
    /\ UNCHANGED testVars

(***************************************************************************)
(* The specification: main and every thread keep running.                  *)
(***************************************************************************)
MainStep == WarmUp \/ StartThreads \/ Post \/ Signalled \/ JoinAndStop \/ InCache(Main)

WorkerStep(t) ==
    \/ WaitSemaphore(t)
    \/ t \in Inserters /\ InsertInThread(t)
    \/ t \in Finders /\ (FindInThread(t) \/ CountFound(t))
    \/ ExitThread(t)
    \/ InCache(t)

TestNext == MainStep \/ \E t \in Workers : WorkerStep(t)

TestSpec ==
    /\ TestInit /\ [][TestNext]_<<vars, testVars>>
    /\ WF_<<vars, testVars>>(MainStep)
    /\ \A t \in Workers : WF_<<vars, testVars>>(WorkerStep(t))

(***************************************************************************)
(* Properties.                                                             *)
(***************************************************************************)
TestTypeOK ==
    /\ TypeOK
    /\ round \in {"warmup", "signal", "join", "stopped"}
    /\ posts \in 0 .. Cardinality(Workers)
    /\ sema \in 0 .. Cardinality(Workers)
    /\ life \in [Workers -> {"none", "waiting", "running", "done"}]
    /\ i \in [Thread -> 0 .. Count]
    /\ found \in [Workers -> 0 .. Count]

\* The gate lets each thread through once: every post is owed to a thread that
\* waits, and none is left over that would open the gate of the next round,
\* which waits on the same semaphore.
GateExact == round # "warmup" =>
    posts + sema = Cardinality({t \in Workers : life[t] = "waiting"})

\* When onStop destroys the mutexes and the nodes, no thread is in the cache,
\* no lock is held and no node is in use.
DestroyedAtRest == round = "stopped" =>
    /\ \A t \in Thread : pc[t] = "idle"
    /\ \A b \in Basket : writer[b] = NoThread /\ readers[b] = {}
    /\ \A n \in Node : ~in_use[n]

\* The round ends: allocNode, which retries for as long as it meets nodes in
\* use, and the waits for locks let every thread finish, even when there are
\* more threads than nodes, and main joins them all.
RoundEnds == <>(round = "stopped")
=============================================================================
