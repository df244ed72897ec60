# Verification of cache_multi_thread

TLA+ models, TLC runs and TLAPS proofs for the caches of this repository and
for the test program around them. Paths are relative to `src/src/`.

1. [The system](#1-the-system)
2. [Modules](#2-modules)
3. [Runs](#3-runs)
4. [Bounds](#4-bounds-and-why-they-are-enough)
5. [Fairness](#5-fairness)
6. [Proofs](#6-proofs)
7. [Findings](#7-findings)
8. [Not modelled](#8-what-is-not-modelled-and-why)
9. [Plan](#9-plan)

## 1. The system

The program compares cache implementations. `main` loads a configuration,
creates testers and test cases, and every test case runs every tester: one
thread, or several, insert the items of a test data set into a cache and look
them up again. The caches are the logic of the program; all the rest feeds them.

| component | source | state | operations | interacts with |
|---|---|---|---|---|
| OnCacheMLRU | `caches/oncachemlru.h` | node pool, atomic counter `node3_pool_id`, per node an atomic flag `in_use`, key, hash, data and list pointers; per basket a list head and a `shared_mutex` | `insertNode`, `getData`, from any thread | called by its testers, from all threads of a round |
| OnCacheMMRU | `caches/oncachemmru.h` | as OnCacheMLRU, and per node an atomic count `used` | as OnCacheMLRU; `getData` counts, `allocNode` is meant to spare | as OnCacheMLRU |
| OnCacheSMRU | `caches/oncachesmru.h` | as OnCacheMMRU, without flags and locks; the path of the pending insertion | `insertNode`, `getData`, from one thread | one-thread testers |
| ConcurrentLRUCache | `caches/facebook/` | TBB hash map, list in order of use under one mutex, atomic size | `find`, `insert`, `clear`, `snapshotKeys` | the TBB map; the caller keeps an accessor |
| TBB concurrent_lru_cache | `intel/include/tbb/concurrent_lru_cache.h`, `internal/_aggregator_impl.h` | map of items with use counts, history list of those not in use; the aggregator's list of pending operations and `handler_busy` | `operator[]`, end of a handle | Intel testers |
| TBB concurrent_hash_map | `intel/include/tbb/concurrent_hash_map.h` | buckets with chains of items, `my_mask`, `my_size`, segments; a mutex in every bucket and item | `find`, `insert`, `erase` with accessors | ConcurrentLRUCache, TBB mutex |
| TBB spin_rw_mutex | `intel/src/tbb/spin_rw_mutex.cpp` | one word: writer, waiting writer, number of readers | acquire, release, try, upgrade, downgrade | concurrent_hash_map |
| test cases | `cases/` | test data, capacity and size of the round, semaphore, promises | one-thread and N-thread benchmarks | testers, configuration, semaphore |
| testers | `testers/` | the cache of the round | `onStart`, `insert`, `exist`, `onStop` | one cache each |
| configuration | `configs/` | three layers: command line, settings.json, hard-coded | `getStringValue`, `getLongValue`, `setValue` | `main`, test cases, testers |
| JSON parser, conversions | `configs/json`, `spec/` | leafs of parsed nodes | `parse`, `stoll`, `printULong` | configuration, test data |
| keys | `i/ikey.h`, `i/ikey2.h` | arrays of words, or strings | `cmp`, `hash` | caches, through `compare` and `get_hash` |
| system | `system/` | semaphore, files | `wait`, `signal`, file functions | test cases, configuration |

What is hard, and what would make each component correct:

- **OnCacheMLRU** has no lock around its pool. The counter and the flags must
  hand each node to one insertion (`OneHolder`); a node is read without a lock
  (`if (re->key)`) before its basket is locked; its fields are written without
  a lock while other threads walk the lists (`UnlockedWritesUnseen`); evictions
  rely on the node being linked (`EvictedIsLinked`); insertions of one key meet
  (`KeysUnique`); a look-up must not return what was just recycled
  (`GetsOwnKey`); and all of it together must look like a map
  (`ImplementsMap`). Its skip lists hand levels over between heads in several
  special cases (`SkipListsExact`, `FindsFilled`).
- **OnCacheSMRU** deletes a node between the search for the place of a new item
  and its linking. The deletion may remove the very nodes that the search left
  in `updatePathOutL`, or the pointer that `updatePathOutH` points to
  (`PathCurrent`, `ListsExactAtRest`, `OnlyNextIsLost`).
- **OnCacheMMRU** adds a count that is loaded, compared and stored without a
  lock. It must neither fall below zero (`UsedTypeOK`) nor change who gets a
  node (`ImplementsMLRU`). That uses are lost, or that a recycled node inherits
  a count, is what the code does, and no property denies it.
- **ConcurrentLRUCache** releases the list mutex between delinking a node and
  erasing its element (`EvictionFinds`, `ElementsTracked`), decides on evictions
  by a size it read earlier (`OverfillBounded`, `NotUnderfilled`, `StaysFull`),
  and holds one element locked while it waits for another
  (`NeverWaitsForItself`). A use whose `try_to_lock` fails is not recorded, by
  design: the order of the list is that of the uses that were.
- **concurrent_lru_cache** has its operations executed by whichever thread
  found the list of pending ones empty; handlers hand over without a lock
  (`OneHandler`, `OperationsTracked`, `TestersEnd`). The value
  of an item is computed outside the aggregator while others wait for it
  (`ValueReady`), and items keep iterators into the history (`ItemsExact`).
- **concurrent_hash_map** grows while others look into it: a bucket is marked
  rehashed before it is filled (`BucketReady`, `ItemsPlaced`), the mask that led
  to a bucket may be old when the bucket is locked, an upgrade may let the lock
  go (`OneItemPerKey`, `ItemsAlive`), and a thread that waits for an item with
  its bucket locked gives up after a while, or would block the one that erases
  the item. All together it must still be a map (`ImplementsMap`).
- **spin_rw_mutex** lets readers count themselves before they know of the writer
  and undo it later (`StateExact`), and lets one reader at a time upgrade
  (`UpgradeBlocks`, `UpgradeEnds`); the flag of a waiting writer must neither be
  lost nor stay behind (`PendingIsOwned`, `AnnouncedGetsIn`).
- **Test cases** reuse one semaphore for all rounds and destroy the cache after
  the join (`GateExact`, `DestroyedAtRest`, `RoundEnds`).

The full list of hazards, with their lines and the properties that cover them,
is in `PROJECT.json`.

## 2. Modules

| module | models | role |
|---|---|---|
| `CacheMap` | what a bounded, lossy, thread-safe map promises | abstract specification |
| `OnCacheMLRU` | `insertNode`, `getData`, `allocNode`, `insertN` of any number of threads | implements `CacheMap` |
| `OnCacheMLRU_proofs` | | inductive invariant, safety, refinement of `CacheMap`; the same for `OnCacheMMRU` |
| `BasketSets` | sets of items per basket | abstract specification |
| `HashBasket` | the lists along `fwdPtrH` and `fwdPtrsL[0..2]`, pointer by pointer | implements `BasketSets` |
| `HashBasket_proofs` | | exact lists, search, refinement of `BasketSets` |
| `TestRound` | a round of `TestCase2::start_Nthread_tests` with its threads, semaphore and cache | composes the round with `OnCacheMLRU` |
| `TestRound_proofs` | | gate, destruction, and that the round runs the cache as it is |
| `OnCacheSMRU` | `insertNode` in its three parts (search, deletion, linking), with the path they share | extends `HashBasket` |
| `OnCacheSMRU_proofs` | | path and lists through the deletion, and the step that loses the path |
| `OnCacheMMRU` | the use counts | extends and implements `OnCacheMLRU` |
| `RecencyList` | keys in order of use, as many as fit and a slack for threads in the middle of a call | abstract specification |
| `ConcurrentLRUCache` | `find`, `insert`, `evict`, `snapshotKeys`, `clear` of any number of threads | implements `RecencyList` |
| `ConcurrentLRUCache_proofs` | | list, elements, accessors and sizes; refinement of `RecencyList` |
| `ItemMap` | a map from keys to items, with accessors | abstract specification |
| `ConcurrentHashMap` | `lookup`, `exclude`, growth and rehashing of the table | implements `ItemMap` |
| `ConcurrentHashMap_proofs` | | inductive invariant, safety, refinement of `ItemMap` |
| `SharedLock` | a readers-writer lock with upgrades | abstract specification |
| `SpinRWMutex` | the mutex, one access to its word at a time | implements `SharedLock` |
| `SpinRWMutex_proofs` | | safety and refinement |
| `UnusedHistory` | items in use, and a bounded history of the others | abstract specification |
| `Aggregator` | `execute`, `start_handle_operations` | used by `IntelLRUCache` |
| `IntelLRUCache` | `operator[]`, handles, the serial operations, the tester's calls | extends `Aggregator`, implements `UnusedHistory` |
| `IntelLRUCache_proofs` | | inductive invariant, safety, refinement of `UnusedHistory` |
| `MC*` | | constants and symmetry for TLC |

**State.** Variables carry the names of the fields: `node3_pool_id`, `in_use`,
`key`, `hash`, `data`, `m_size`, `m_map`, `m_prev`, `m_next`. Locals of a
running call are functions of the thread (`re`, `cur`, `size`, `moribund`), and
`pc` is its next step. A mutex is its holder, or its writer and readers.

**Steps.** One action is what happens between two accesses to shared state that
others can see. In `OnCacheMLRU` the accesses without a lock (`fetch_add`,
`store(0)`, `test_and_set`, `if (re->key)`, `re->clear()`, the assignments of
`insertNode`, `in_use.clear`) are steps of their own. A critical section is two
steps, its search when the lock is taken and its effect when it is released, so
that "what I found is still so" is a property to check and not an assumption.
In `ConcurrentLRUCache` the transactions under `m_listMutex` wait for nothing
and are one step; that `find` only tries the mutex is the choice between
`UseNode` and, while another thread is at such a transaction, `SkipUse`.

**Two levels of OnCacheMLRU.** `OnCacheMLRU` sees a basket as the set of the
nodes linked in it, and is about threads. `HashBasket` sees the pointers, and an
operation under the exclusive lock is one step. They meet in the set of linked
nodes: `HashBasket` implements the set operations that `OnCacheMLRU` uses, with
one node per key (`ImplementsSets`), and `OnCacheMLRU` shows that the operations
exclude each other and are called with nodes that are linked, or not, as
`HashBasket` takes them.

**Three levels under the facebook cache.** `SpinRWMutex` implements
`SharedLock`; the buckets and items of `ConcurrentHashMap` are locked by such
locks, where a try may also fail because of a thread that waits.
`ConcurrentHashMap` implements `ItemMap`; `ConcurrentLRUCache` uses such a map,
whose accessors are a writer or readers per element. Each level takes from the
one below exactly what its abstract specification says, and one step of the
upper model stands for one linearisation point of the lower.

**Refinement mappings.** For `CacheMap` a key is stored with the data of the
linked node that has it; an insertion takes effect in `InsertN`, an eviction in
`Unlink`, a look-up in `ReadData`. For `BasketSets` a basket is everything a
walk along heads and level 0 meets. For `RecencyList` the keys are read from
`m_head` along `m_next`. For `SharedLock` a thread holds what its program
counter says: in an upgrade it still reads. For `ItemMap` a key maps to the
linked node that has it, wherever a rehash has left it, and a new node is its
inserter's from the moment it is linked; a call that reports a missing key takes
effect when it finds the mask unchanged. For `UnusedHistory` a thread uses its
item from the execution of its operation to that of the one that ends the use,
whether or not it has seen the result. `OnCacheMMRU` implements `OnCacheMLRU`
by hiding `used`.

## 3. Runs

| run | instance | what it shows |
|---|---|---|
| `mlru_safety` | 2 threads, 3 keys (2 in one basket), 2 values, 2 nodes | exclusive nodes, no shared unlocked writes, evictions find their node, keys unique, look-ups right, the counter bounded; the inductive invariant of the proofs; the cache implements `CacheMap` |
| `basket_lists` | 5 nodes, 6 keys with 3 hashes in one basket, every height | hash lists and skip lists stay exact, every item is found, no deletion leaves a pointer behind; `BasketSets` is implemented |
| `nthread_round` | 2 insert threads, 1 find thread and main, 3 items, 1 node | the gate is exact, the cache is at rest when it is destroyed, the round ends |
| `smru_lists` | 4 nodes, 7 keys with 3 hashes in one basket, every height | every deletion keeps the path of the pending insertion right, lists are exact between calls, an insertion costs at most one item |
| `smru_path` | 4 nodes, 5 keys, the smaller of 2 hashes shared | finding 1 |
| `mmru_safety` | 2 threads, 2 keys, 2 nodes, limit 1, counts below 4 | counts that race never underflow and never change the protocol |
| `mmru_spares` | 1 thread | finding 2 |
| `lru_threads` | 3 threads, 3 keys, 6 nodes, room for 1 | list and elements agree, no node is lost or leaked, evictions compete for one node and each finds its element, overfill is bounded, reductions take only the surplus, full stays full; the inductive invariant of the proofs; the list stays in the order of the recorded uses |
| `lru_self_wait` | 2 threads, 3 keys, 5 nodes, room for 1 | finding 3 |
| `hash_map` | 2 threads, 2 calls each, 3 keys (all in bucket 0, then 2 in bucket 2, then 1 in bucket 6), 5 nodes | buckets are seen filled and are filled and changed by one thread, an item is deleted by the last thread that has it, items are placed where a search ends up, no key twice, no dead item is reached, one thread grows the table; `ItemMap` is implemented; no deadlock |
| `spin_rw_mutex` | 3 threads that lock for ever | the word is exact, holders exclude each other, both flags stay in an upgrade; `SharedLock` is implemented; upgrades end, who waits is not kept out for ever by others that wait, nor an announced writer by readers |
| `intel_cache` | 3 threads, 2 keys, a history of 1, one use each | one handler at a time, no operation lost between handlers, uses counted, iterators exact, values ready; `UnusedHistory` is implemented; all calls end |

Some invariants are conjunctions, and a run that checks one checks its parts:
`IInv` of `OnCacheMLRU` (with `UnlockedWritesUnseen` and `KeysUnique`), of
`ConcurrentLRUCache` (with `ListIntact` and `NoNodeLeaked`) and of `SpinRWMutex`
(with `Exclusion`, `StateExact`, `UpgradeBlocks` and `PendingIsOwned`), each
with the types of its module; `ListsExact` (types, `HashListsExact`,
`SkipListsExact`); `ItemsExact` (types, `UsesCounted`, `IteratorsExact`); and
`AssertionsHold` (types, `BucketReady`, `FilledByOne`, `ChangedByOne`,
`NewItemFree`, `DeletedByOne`, `GrowsOnce`).
`ItemsAreLinked`, `AccessorsPin`, `SizeInv` and the types of a round are not in
any run: their theorems cover every instance. Every other invariant and action
property of a passing run has a theorem, too.

Every property of a passing run has a mutant in its module (marked `Mutant:`),
a definition changed as a plausible bug would change it, which violates it.
Deadlock is checked except in `nthread_round` and `intel_cache`, which end, and
in the runs of `ConcurrentLRUCache`, which can really stop (finding 3).

## 4. Bounds, and why they are enough

- **Nodes.** Two nodes make every third insertion recycle one, and make the
  counter wrap all the time; one node (`nthread_round`) makes all insertions
  compete for it. Nothing in `OnCacheMLRU` relates more than two nodes: the one
  an insertion holds, and the one that has its key.
- **Baskets.** `basket_lists` has one basket, as baskets share nothing. In
  `smru_lists` all keys are in basket 0 of as many baskets as nodes, as the code
  has them.
- **Keys.** Keys that share a basket with different hashes, and keys in
  different baskets; equal hashes are a matter of the lists, where four keys of
  `basket_lists` share one and have neighbours on both sides.
- **Threads.** Two for the pairwise races, three where a third observes or
  where threads outnumber nodes: in the aggregator the third comes while the
  handler hands over to the second; in the mutex a reader undoes its count
  while the others upgrade and wait; in `lru_threads` two threads overfill the
  cache that the third has filled. `hash_map` has two: its buckets and items
  are locked by pairs that meet at one lock. Threads, values and, where the
  hash function allows it, keys and addresses are symmetric. `new` returns the
  lowest free address in the runs of `ConcurrentLRUCache` (`LowestFree`):
  addresses are only compared for equality.
- **Heights.** The landscape position is shared by all caches of a thread, and
  so any of the three heights is possible at any insertion. That of OnCacheSMRU
  is its own, but in a large cache the insertions in other baskets move it.
- **Counters.** `node3_pool_id` and `m_size` are bounded by the protocol, which
  is checked and proved (`PoolIdBounded`, `OverfillBounded`). The use counts are
  kept below `MaxUsed` by the guard of `CallGetUsed`; the wrap-around at 2^32
  uses of one node is not reached.
- **Growth.** `FirstBlock` is 2 where the code has 8: the table grows when it
  has as many items as buckets less one, from 2 buckets to 4 and then to 8, so
  that three keys make it grow twice and a rehash climb over two ancestors; in
  the code the first step leads from 2 buckets to 256. `Bits` is 3, for 8
  buckets at most, where the code has the bits of a word.
- **Calls.** `MaxCalls` bounds the look-ups of a thread in `hash_map` (three
  insertions make the table grow twice, the fourth call meets it there, and each
  may end with the erasure of its item) and in `intel_cache`, where the third
  thread retrieves what the others have put into the history.
- **History.** One item in `intel_cache`: two keys make every end of a use
  evict or replace it.
- **Hashes of OnCacheSMRU.** Only the greatest hash of `smru_lists` has several
  keys, because finding 1 breaks the lists otherwise; `smru_path` is the
  case left out. The theorems cover both: they name the step of finding 1.

The theorems do not depend on any of these bounds.

## 5. Fairness

Fairness is stated where liveness is claimed, and nowhere else.

- `RoundEnds` assumes weak fairness of main and of each thread: a scheduler
  that keeps running every thread that can run, and mutexes and semaphores that
  are granted when they stay free. That is enough although `allocNode` spins,
  because a round is a finite number of calls: a thread that spins is overtaken
  only by threads that make progress, and the last one is alone. No claim is
  made for threads that call for ever; a reader-writer mutex that prefers
  readers, or `in_use` flags that are always found set, could then starve an
  insertion.
- `TestersEnd` assumes weak fairness of each thread of `intel_cache`, which
  only spins on flags that stay set until it sees them.
- `UpgradeEnds`, `SomeoneGetsIn` and `AnnouncedGetsIn` assume weak fairness of
  each thread that is in the mutex or holds it, and nothing of threads outside:
  holders release, as every `scoped_lock` does. A writer that has not announced
  itself yet can be starved by readers, as its compare-and-swap may always come
  too late, and the properties do not say otherwise.
- `hash_map` states no fairness: the locks are unfair and waits for an item are
  given up after a bounded pause, so that two threads may take turns for ever.
  That they cannot block each other is its deadlock check: without the step
  that gives up (`GiveUpItem`, after which `Restart` loads the mask anew) TLC
  reports an eraser and a thread that waits for its item as a deadlock.

## 6. Proofs

Every theorem holds for every value of the constants that the named
assumptions allow: a positive capacity or size, hashes that are natural
numbers, null values that are none of the things they stand in for, and finite
sets of threads where threads are counted, and of nodes where walks along
pointers have to end. `ConcurrentHashMap` assumes in
addition that the keys are too few to make the table grow beyond the 2^`Bits`
buckets that a hash can tell apart (`CapacityAssumption`), and three facts about
powers of two that the provers do not know (`PowerAssumption`). There is one lemma per action, and
in it one step for each conjunct of the invariant that the action can disturb.

**OnCacheMLRU.** `IInv` is stronger than the sum of the properties, none of
which is inductive: `GetsOwnKey` needs to know that the node found does not
change while it is read, hence who may write nodes (`OneHolder`,
`UnlockedWritesUnseen`) and which locks are held (`LocksHeld`); this needs to
know where the node of an insertion is at each step (`HeldFields`,
`FilledAreLinked`, `LinkedFields`) and that what a search found still holds when
it is used (`SearchCurrent`). The step that
carries the argument is `Replace` against `CheckKey`: a thread that has won the
flag of a linked node reads its key without a lock while another thread, under
the lock, moves an item into it; it works because the new item has the same key
and the node stays linked.

`CacheIsMap` rests on it: only `Unlink` and `InsertN` change what is stored,
because all other writes go to nodes that no list reaches
(`UnlockedWritesUnseen`); the node that a key is stored in is unique
(`KeysUnique`), so that there are no more keys than nodes; and what a look-up
copies while it holds the lock is what was stored when it took it.
`TestRound_proofs` shows that every step of a round is one of the cache or
leaves it alone, and so inherits `IInv`; `GateIsExact` and `DestructionSafe`
follow from an invariant that relates the state of main to those of the
threads and to the posts that the semaphore still holds.

**HashBasket.** The loops of the code are recursive functions in the model, and
induction over data is out of the prover's reach. The walks are proved about
without it: along a walk a measure grows, the hash from head to head and the key
along a level, and a finite set has a greatest member, so that there is no last
node at which a walk goes wrong (`WalkRule`). What a walk collects is treated in
the same way (`GatherRule`). `ListInv` says of every pointer by itself to which
node it leads, the first head from some hash on or the first node behind a key
that reaches the level; that the lists are exact, and that the walk down from a
head finds a key (`PathFacts`, `BelowFacts`), follows. It is inductive: a step
brings a hash in, takes one out or gives it another head, and only one link leads
to a head (`OneLink`), the one that the code changes. The step that carries the
argument is a change of head: the old head sinks to any height, or the second
node rises to the top, and the levels above are handed over so that no pointer
on them is lost (`HeadLowered`, `SecondPromoted`).

**OnCacheSMRU.** The lemmas about `HashBasket` are about any set of nodes with
a key, and while an item is on its way the lists hold all such nodes but the one
that was taken for it (`Held`; after `SwapWithSecond` that node still has its old
key). `SInv` says that `ListInv` holds of them, and what `setll` left: the key is
not there, the result says how it compares to the queue of its hash (`PlaceOf`),
`updatePathOutH` is the place of the first head whose hash is not smaller
(`IsSlot`), and `updatePathOutL` is on each level the last smaller key of the
queue that reaches it (`IsLastBelow`). None of this mentions a pointer, and so a
deletion elsewhere leaves it true; what has to be shown is that the deletion of a
node *on* the path (`SameHashDeleted`), the exchange of the head with its second
node (`SecondTakenForItem`) and the end of the queue before the place
(`SlotMoved`) move the path as needed, and that a walk begun on the path instead
of at the head ends where one from the head would (`PathToFacts`). Such a place
is unique (`SlotUnique`, `LastBelowUnique`) and `setll` finds it (`SlotFound`,
`PathExact`), hence `PathCurrent`.

One step does not keep it, the one of finding 1: `PlaceLost` says that the head
`updatePathOutH` is in is about to be deleted, for a result that uses the place,
and has a second node. The theorems are about the executions in which no step is
taken from such a state. The condition is no weaker than it has to be:
`PathLostExactlyThere` proves that an execution keeps `PathCurrent` if *and only
if* it meets it. `CacheIsExactIfSharedLast` has no such condition: if keys share
only the greatest hash of a basket, or none, the step cannot occur, as a second
node would need a second key with a hash below that of the new one. This is the
case of `smru_lists`; `smru_path` is outside it.

**ConcurrentLRUCache.** `IInv` follows a node from its allocation to its
deletion: it belongs to the element that has it, or to the one thread that
pushes or frees it (`PushedApart`, `MoribundApart`); a thread with an accessor
keeps its element (`AccessorsPin`), so that the node it read from it long ago is
still that element's when it takes the mutex. That the list is intact is said
locally, as neighbours that point to each other. The sizes are the harder part. `SizeInv` balances `m_size` and the length of the list with
the threads in the middle of an insertion or of an eviction: a thread that
counts has read a size below the maximum (`CountBounded`), a node in the list
has taken the place of a delinked one or was pushed while the cache filled
(`ListBounded`), and what is counted is in the list, owed or about to be
(`CountCovered`). That `evict` finds an empty list only if there are no nodes is
the one fact about reachability, stated as an induction that the steps of the
list preserve: no set of nodes is closed under `m_prev` (`Rooted`).
The refinement of `RecencyList` is about the whole sequence of keys. Its
invariant `Ordered` says that the nodes of the list can be numbered from
`m_head` to `m_tail`, and each transaction on the list shows the numbering it
leaves (`PushInOrder`, `DelinkInOrder`, `MoveInOrder`); what the recursive
`keysFrom` computes is read off the numbering, where the last node it would be
wrong for is none (`KeysRead`). How full the abstract list is when it takes or
loses a key follows from `ListBounded` and `CountCovered`: the thread that
pushes is afloat, and the one that evicts has not paid yet.

**SpinRWMutex.** The count of readers is the number of threads that read or
have still to undo their addition, so that no addition of one thread is lost in
the compare-and-swap of another; the refinement maps every access to the word
to a step of `SharedLock` or to none.

**Aggregator and concurrent_lru_cache.** The thread whose compare-and-swap
found the list empty is its opener; the list stays non-empty until the opener
takes it, so there is one opener at a time, and it alone may be between the test
and the set of `handler_busy`. What is reached along a list of operations is the
smallest set closed under `next` (`Chain`), so that the proofs need no induction
along it: that a push adds one operation and a removal takes the first follows
from that definition. The operations of the waiting threads are then divided
between the pending list and the part the handler took (`NoOperationLost`),
hence each is executed once, by one thread; and so every execution of a serial
operation is a step of its own thread in `UnusedHistory`. The invariant of the
cache, `AllInv`, adds that the use count of an item is the number of threads
that use it, where a thread uses it from the execution of its `operator[]` to
that of its end of usage, seen or not; that the iterators of the unused items,
and only they, are valid; and that an item whose value is not ready has one
thread that computes it.

**ConcurrentHashMap.** All ancestors of a bucket, itself included, form its line.
A bucket is *filled* when it is marked as rehashed and no thread has still to
move items into it; the filled buckets of a line are its beginning, and an item
is always in the last of them (`Buckets`). Buckets that are marked but not
filled lie on the path of the one thread that rehashes them, which holds their
write locks (`Paths`, `AllMarked`, `BucketLocks`); moving the items of the last
bucket of a path moves exactly those whose line goes through the one before it.
A search with an old mask therefore ends in a bucket on the line of its key, and
what it misses there is in no bucket if the mask shows no filled bucket above it:
this is what `check_mask_race` and `check_rehashing_collision` establish
(`AllMasks`, `Searches`), and why of two insertions of a key one finds the item
of the other. Nodes have one owner (`Nodes`), and the locks of items are those
of the accessors (`NodeLocks`), which gives `Alive`. `MapInv` is the conjunction
of these parts, none of which is inductive alone; one lemma per part shows that
every step preserves it. The refinement is then a matter of each action: the
linking of a node is the insertion, the lock of an item the find, the unlinking
the removal, the second look at the mask the miss, and growing and rehashing
leave the abstract map as it is.

| module | theorem | says |
|---|---|---|
| `OnCacheMLRU_proofs` | `Invariance`, `TypeCorrectness` | `IInv`, `TypeOK` always hold |
| | `AllocationExclusive` | a node is never handed to two insertions, and flags are given back |
| | `NoUnlockedSharing` | nodes written without a lock are in no list |
| | `EvictionFindsItsNode` | evicted nodes are in the list that is locked |
| | `KeysStayUnique`, `LookupReturnsOwnKey`, `NoItemLost` | keys are unique, look-ups right, items stay findable |
| | `CounterBounded` | `node3_pool_id` passes the capacity by at most the number of threads about to reset it |
| | `CacheIsMap` | OnCacheMLRU implements `CacheMap` |
| | `MMRUImplementsMLRU`, `MMRUSafety`, `MMRUIsMap` | OnCacheMMRU implements OnCacheMLRU; its safety and its refinement carry over |
| | `CountsNeverUnderflow` | no use count falls below zero |
| `HashBasket_proofs` | `ListInvariant` | `ListInv` always holds |
| | `ListsStayExact`, `FindsWhatIsFilled` | the lists are exact, and `getData` finds what they hold, for every landscape |
| | `ListsImplementSets` | the lists implement `BasketSets` |
| `OnCacheSMRU_proofs` | `PathCurrentUnlessPlaceLost` | without the step of finding 1 an item is linked where a search would find its place now |
| | `ListsExactUnlessPlaceLost`, `OnlyNextIsLostUnlessPlaceLost` | then the lists are exact between calls, and an insertion costs at most the item of the next node |
| | `PathLostExactlyThere` | that step is exactly where the path goes wrong |
| | `CacheIsExactIfSharedLast` | all three in every execution, if only the greatest hash of a basket is shared |
| `TestRound_proofs` | `RoundInvariance`, `RoundTyping` | the invariant of the round |
| | `GateIsExact`, `DestructionSafe` | threads start when they are let, and the cache is destroyed at rest |
| | `RoundRunsTheCache` | a round is a behaviour of OnCacheMLRU |
| `ConcurrentLRUCache_proofs` | `Invariance`, `Typing` | `IInv`, `TypeOK` always hold |
| | `LinksStayIntact`, `NoElementLost`, `NoLeak`, `AccessorPins`, `EvictionAlwaysFinds` | list, elements, nodes and accessors agree |
| | `FullStaysFull` | a full cache is never reduced below its maximum |
| | `Balance` | `SizeInv` always holds |
| | `OverfillIsBounded`, `SurplusOnlyReduced` | the overfill is less than the number of threads; reductions take no more than the surplus |
| | `ListIsInOrder`, `Refinement` | the list is one sequence of its nodes from end to end; its keys implement `RecencyList` |
| `SpinRWMutex_proofs` | `Invariance`, `Typing`, `StateIsExact`, `PendingOwned` | the word is exact |
| | `MutualExclusion`, `UpgradeAssertion` | a writer is alone, and so is an upgrade |
| | `Refinement` | the mutex implements `SharedLock` |
| `IntelLRUCache_proofs` | `SerialExecution` | one thread at a time executes operations |
| | `NoOperationLost` | every operation is executed, and once |
| | `AllInvariant`, `ItemsStayExact` | use counts, history and iterators agree |
| | `ValuesReady` | a handle gives access to a value that was computed, by one thread |
| | `CacheImplementsHistory` | the cache with its aggregator implements `UnusedHistory` |
| `ConcurrentHashMap_proofs` | `MapInvariant` | `MapInv` always holds |
| | `Assertions` | what the source asserts or says at its steps holds: looking into, filling and changing a bucket, new items, deletion, segments |
| | `Placed`, `Unique`, `Alive` | items are where searches end, one per key, and no deleted one is reached |
| | `TableIsMap` | the table implements `ItemMap` |

Only model-checked: liveness, which is out of the prover's reach (`RoundEnds`,
`TestersEnd`, and `SomeoneGetsIn`, `UpgradeEnds` and `AnnouncedGetsIn` of
SpinRWMutex).

## 7. Findings

1. `delWithOtherHash` of OnCacheSMRU moves `updatePathOutH` out of the node it
   deletes only if the queue of that node ends. If a second node becomes head,
   the new item is linked from its own node and lost, or, if it was to be a new
   head, a null pointer is dereferenced (`PathCurrent`). It takes two hashes in
   one basket, and two keys with the smaller one; that this step is the only one
   of its kind is proved (`PathLostExactlyThere`).
2. In `allocNode` of OnCacheMMRU `continue` jumps to the condition of the
   do-while loop, and the node that was to be spared is taken (`SparesUsed`).
   The use counts have no effect on what is evicted.
3. `insert` of ConcurrentLRUCache evicts a second time with the accessor of its
   own element held, and can wait for itself for ever (`NeverWaitsForItself`).

## 8. What is not modelled, and why

- **Most of the source lines.** The repository vendors the whole of Intel TBB,
  more than nine tenths of its lines: task scheduler, flow graph, `tbbmalloc`,
  `rml`, `ittnotify`, the other containers. The program calls none of it except
  the three parts above, so there is nothing in it to model beside this
  program; the parts that are called are modelled from their own sources.
- **Memory order.** Steps are sequentially consistent. The flag is set with
  acquire and cleared with release, and baskets are read and written under
  their mutexes, which orders what the properties relate. Accesses that remain
  unordered in C++, as the test `if (re->key)` against a `Replace` that writes
  an equal key, see one of two non-null pointers.
- **Data.** Keys are an ordered set with a hash function; data are pairs of a
  key and a value; reference counting of the data is left to `shared_ptr`.
- **Parts of concurrent_hash_map that no cache calls while others run**: erase
  by key, `count`, iteration, `clear`, `rehash`, `swap`, copies. `clear` and the
  destructor of ConcurrentLRUCache run alone. Allocation failures.
- **Order of a chain** in a bucket: a chain is a set, changed under its lock.
- **The one-thread benchmarks** of TestCase1 and TestCase2 and their
  progression of sizes: loops of one thread over the calls modelled here.
- **Files, paths, time, printing, `main`**: straight-line I/O.
- **Use counts of OnCacheSMRU**: as in OnCacheMMRU, the `continue` of
  `allocNode` ignores them (finding 2), and nothing else reads them.
- **Order of eviction of OnCacheMLRU.** After the counter wraps, node 0 is
  handed out twice in a row, so that the newest item may be the next victim,
  and a look-up leaves no trace. The header's "Last used cache" is too vague to
  state as a property; `CacheMap` allows any victim.
- **Configuration, JSON, conversions.** One thread fills the three layers before
  any other is started and sets values only between rounds; no order of steps
  matters, and what is left are functions of strings. Reading them showed that
  `traverse` of `configs/json/configjson.cpp:71` calls itself with the same node,
  that `getLongValue` of `configs/commandline/cmdconfig.cpp:42` never reaches
  the numeric defaults, that an odd number of arguments makes a string of a
  null pointer (line 20), and that `stoll` clamps numbers of 19 digits
  (`spec/specstatic.h:53`).

## 9. Plan

All of it is done:

1. `CacheMap`, `OnCacheMLRU`: threads on one cache, refinement, invariant.
2. `OnCacheMLRU_proofs`: type correctness, inductive invariant, safety.
3. `BasketSets`, `HashBasket`: the lists behind the baskets.
4. `TestRound`: a round of the N-thread test, liveness.
5. `OnCacheMMRU` and its refinement proof.
6. `ConcurrentLRUCache` with `RecencyList`.
7. `OnCacheSMRU`: pointer level, with the deletion between search and linking.
8. `Aggregator`, `IntelLRUCache`, `UnusedHistory`: the Intel cache.
9. `SpinRWMutex`, `SharedLock`, `ConcurrentHashMap`, `ItemMap`: what the
   facebook cache stands on.
10. Proofs of the refinement of `CacheMap`, of `TestRound`, of
    `ConcurrentLRUCache` with its sizes, and of the mutex.
11. Proofs of the Intel cache, from the list of operations to the refinement of
    `UnusedHistory`, and of `ConcurrentHashMap` with the refinement of `ItemMap`.
12. Proofs of the lists of `HashBasket` and of the refinement of `BasketSets`.
13. Proofs of `OnCacheSMRU` on top of those of `HashBasket`.
14. Proof of the refinement of `RecencyList`.
