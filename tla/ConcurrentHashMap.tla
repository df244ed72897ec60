-------------------------- MODULE ConcurrentHashMap --------------------------
(***************************************************************************)
(* tbb::concurrent_hash_map, the map under the facebook cache              *)
(* (src/src/intel/include/tbb/concurrent_hash_map.h): lookup, exclude and  *)
(* the growth of the table while they run.                                 *)
(*                                                                         *)
(* The item of hash h belongs to bucket h & my_mask.  When the table grows *)
(* the new buckets are only marked: the first thread that looks into one   *)
(* moves to it the items that its parent, the bucket without the topmost   *)
(* bit, has for it; the parent may have to be rehashed first.              *)
(*                                                                         *)
(* Buckets and items are locked by mutexes that implement SharedLock (see  *)
(* SpinRWMutex).  A try fails if the lock is held, and may fail when       *)
(* another thread waits for it.  A chain is a set of items: it is only     *)
(* read and changed under the lock of its bucket.                          *)
(***************************************************************************)
EXTENDS Naturals, FiniteSets, Sequences, SequencesExt

CONSTANTS
    Thread, Key,
    Node,                      \* addresses of items
    Nil,
    Hash,                      \* the hash of each key
    FirstBlock,                \* first_block: log2 of the buckets after one growth
    Bits,                      \* log2 of the most buckets: the bits of a hash
    MaxCalls                   \* calls that a thread makes

Pow == {2^i : i \in 0 .. Bits}

Bucket == 0 .. 2^Bits - 1

ASSUME NilAssumption == Nil \notin Thread \cup Key \cup Node
ASSUME CallsAssumption == MaxCalls \in Nat
ASSUME HashAssumption == Hash \in [Key -> Bucket]
ASSUME BlockAssumption == FirstBlock \in Nat /\ FirstBlock >= 2 /\ Bits \in Nat /\ FirstBlock <= Bits
\* Too few keys to make the table grow beyond 2^Bits buckets.
ASSUME CapacityAssumption == IsFiniteSet(Key) /\ Cardinality(Key) < 2^Bits - 1

\* What the proofs need to know of powers of two.
ASSUME PowerAssumption ==
    /\ 2^0 = 1 /\ 2^1 = 2
    /\ \A i, j \in 0 .. Bits : 2^i \in Nat \ {0} /\ 2^(i + j) = 2^i * 2^j

VARIABLES
    my_mask, my_size,
    my_table,                  \* the masks whose next segment is taken care of
    rehashed,                  \* the buckets whose node_list is not rehash_req
    node_list,                 \* per bucket: its items
    key,                       \* per node: the key of the item, Nil if free
    bucket_mutex, node_mutex,  \* per bucket and per node: a lock
    accessor,                  \* per thread: my_node of its accessor
    frame,                     \* per thread: the arguments and locals of its call
    pc,                        \* per thread: its next step
    calls                      \* per thread: the calls it has made

table == <<my_mask, my_size, my_table>>
items == <<rehashed, node_list, key>>
locks == <<bucket_mutex, node_mutex>>
vars  == <<table, items, locks, accessor, frame, pc, calls>>

Free == [writer |-> Nil, readers |-> {}]

\* The locals of lookup and exclude: path is the bucket that they look into,
\* followed by the ancestors that are being rehashed for it.
NoFrame == [op |-> "none", key |-> Nil, write |-> FALSE, m |-> 0, path |-> << >>,
            collision |-> 0, n |-> Nil, tmp_n |-> Nil, new |-> FALSE, grow |-> FALSE]

Init ==
    /\ my_mask = 1 /\ my_size = 0 /\ my_table = {}
    /\ rehashed = {0, 1}
    /\ node_list = [b \in Bucket |-> {}]
    /\ key = [n \in Node |-> Nil]
    /\ bucket_mutex = [b \in Bucket |-> Free]
    /\ node_mutex = [n \in Node |-> Free]
    /\ accessor = [t \in Thread |-> Nil]
    /\ frame = [t \in Thread |-> NoFrame]
    /\ pc = [t \in Thread |-> "idle"]
    /\ calls = [t \in Thread |-> 0]

(***************************************************************************)
(* Hashes and masks.                                                       *)
(***************************************************************************)
\* h & m, for a mask m
Masked(h, m) == h % (m + 1)

TopBit(h) == CHOOSE p \in Pow : p <= h /\ h < 2 * p

Parent(b) == b % TopBit(b)

\* The first bucket after h & m_old to which an item of hash h can have moved.
NextApplicable(h, m_old) ==
    LET bit == CHOOSE p \in Pow : /\ p > m_old /\ (h \div p) % 2 = 1
                                  /\ \A q \in Pow : q > m_old /\ q < p => (h \div q) % 2 = 0
    IN  h % (2 * bit)

\* The mask that enable_segment stores.
NextMask(m) == IF m + 1 < 2^FirstBlock THEN 2^FirstBlock - 1 ELSE 2 * m + 1

HashOf(n) == Hash[key[n]]

(***************************************************************************)
(* Locks.                                                                  *)
(***************************************************************************)
CanRead(lock)  == lock.writer = Nil
CanWrite(lock) == lock = Free
CanLock(lock, w) == IF w THEN CanWrite(lock) ELSE CanRead(lock)

Locked(lock, t, w) == IF w THEN [lock EXCEPT !.writer = t]
                      ELSE [lock EXCEPT !.readers = @ \cup {t}]

Unlocked(lock, t) == [writer |-> IF lock.writer = t THEN Nil ELSE lock.writer,
                      readers |-> lock.readers \ {t}]

Writer(t) == [Free EXCEPT !.writer = t]

LockBucket(t, b, w) ==
    /\ CanLock(bucket_mutex[b], w)
    /\ bucket_mutex' = [bucket_mutex EXCEPT ![b] = Locked(@, t, w)]

ReleaseBucket(t, b) ==
    bucket_mutex' = [bucket_mutex EXCEPT ![b] = Unlocked(@, t)]

(***************************************************************************)
(* Control.                                                                *)
(***************************************************************************)
Goto(t, from, to) == pc[t] = from /\ pc' = [pc EXCEPT ![t] = to]

\* The bucket that the call is about, and the one that is being locked.
MyBucket(t) == frame[t].path[1]
Top(t)      == Last(frame[t].path)
IsWriter(t) == bucket_mutex[Top(t)].writer = t

MyHash(t) == Hash[frame[t].key]

WaitsForBucket(t) == pc[t] \in {"acquire", "upgrade", "reacquire", "move_upgrade",
                                "move_reacquire"}

\* What follows when the bucket on top of the path is locked and rehashed.
Entered(t, path) == IF Len(path) > 1 THEN "move" ELSE "search"

(***************************************************************************)
(* Calls: find and insert take an accessor, erase gives it back.           *)
(***************************************************************************)
\* m = my_mask, the first thing a call does, and again after a long wait.
LoadMask(t, from, f) ==
    /\ Goto(t, from, "flag")
    /\ frame' = [frame EXCEPT ![t] =
          [f EXCEPT !.m = my_mask, !.path = <<Masked(Hash[f.key], my_mask)>>]]
    /\ UNCHANGED <<table, items, accessor>>

CallLookup(t, op, k, w) ==
    /\ calls[t] < MaxCalls
    /\ LoadMask(t, "idle", [NoFrame EXCEPT !.op = op, !.key = k, !.write = w])
    /\ calls' = [calls EXCEPT ![t] = @ + 1]
    /\ UNCHANGED locks

CallErase(t) ==
    /\ LoadMask(t, "using", [frame[t] EXCEPT !.op = "exclude"])
    /\ UNCHANGED <<locks, calls>>

ReleaseAccessor(t, from) ==
    /\ Goto(t, from, "idle")
    /\ node_mutex' = [node_mutex EXCEPT ![accessor[t]] = Unlocked(@, t)]
    /\ accessor' = [accessor EXCEPT ![t] = Nil]
    /\ frame' = [frame EXCEPT ![t] = NoFrame]
    /\ UNCHANGED <<table, items, bucket_mutex, calls>>

\* The call is told that there is no such item.
ReturnMissed(t) ==
    /\ Goto(t, "missed", "idle")
    /\ frame' = [frame EXCEPT ![t] = NoFrame]
    /\ UNCHANGED <<table, items, locks, accessor, calls>>

(***************************************************************************)
(* bucket_accessor::acquire and rehash_bucket                              *)
(***************************************************************************)
SeeFlag(t) ==
    /\ Goto(t, "flag", IF Top(t) \in rehashed THEN "acquire" ELSE "try")
    /\ UNCHANGED <<table, items, locks, accessor, frame, calls>>

TryBucket(t) ==
    /\ Goto(t, "try", "recheck")
    /\ LockBucket(t, Top(t), TRUE)
    /\ UNCHANGED <<table, items, node_mutex, accessor, frame, calls>>

\* Mutant: a try that may fail for no reason.
FailToTryBucketAny(t) ==
    /\ Goto(t, "try", "acquire")
    /\ UNCHANGED <<table, items, locks, accessor, frame, calls>>

FailToTryBucket(t) ==
    /\ Goto(t, "try", "acquire")
    /\ \/ ~CanWrite(bucket_mutex[Top(t)])
       \/ \E u \in Thread \ {t} : WaitsForBucket(u) /\ Top(u) = Top(t)
    /\ UNCHANGED <<table, items, locks, accessor, frame, calls>>

\* The second look at the flag: another thread may have been faster.
SeeRehashed(t) ==
    /\ Goto(t, "recheck", Entered(t, frame[t].path))
    /\ Top(t) \in rehashed
    /\ UNCHANGED <<table, items, locks, accessor, frame, calls>>

\* Marked first, then filled: who reads the flag from now on waits for the lock.
MarkRehashed(t) ==
    /\ Goto(t, "recheck", "flag")
    /\ Top(t) \notin rehashed
    /\ rehashed' = rehashed \cup {Top(t)}
    /\ frame' = [frame EXCEPT ![t].path = Append(@, Parent(Top(t)))]
    /\ UNCHANGED <<table, node_list, key, locks, accessor, calls>>

AcquireBucket(t) ==
    /\ Goto(t, "acquire", Entered(t, frame[t].path))
    /\ LockBucket(t, Top(t), frame[t].op = "exclude" /\ Len(frame[t].path) = 1)
    /\ UNCHANGED <<table, items, node_mutex, accessor, frame, calls>>

\* Mutant: the mask of the parent, not that of the child.
MoversParentMask(t) ==
    LET child == frame[t].path[Len(frame[t].path) - 1]
    IN  {n \in node_list[Top(t)] : HashOf(n) % TopBit(child) = child}

\* The items of the bucket on top that belong to the one below it.
Movers(t) ==
    LET child == frame[t].path[Len(frame[t].path) - 1]
    IN  {n \in node_list[Top(t)] : HashOf(n) % (2 * TopBit(child)) = child}

LeaveParent(t) ==
    /\ pc' = [pc EXCEPT ![t] = Entered(t, Front(frame[t].path))]
    /\ frame' = [frame EXCEPT ![t].path = Front(@)]
    /\ ReleaseBucket(t, Top(t))
    /\ UNCHANGED <<table, rehashed, key, node_mutex, accessor, calls>>

MoveNone(t) ==
    /\ pc[t] = "move" /\ Movers(t) = {}
    /\ LeaveParent(t)
    /\ UNCHANGED node_list

MoveItems(t) ==
    /\ pc[t] = "move" /\ Movers(t) # {} /\ IsWriter(t)
    /\ node_list' = [node_list EXCEPT
          ![Top(t)] = @ \ Movers(t),
          ![frame[t].path[Len(frame[t].path) - 1]] = @ \cup Movers(t)]
    /\ LeaveParent(t)

NeedWriter(t) ==
    /\ Goto(t, "move", "move_upgrade")
    /\ Movers(t) # {} /\ ~IsWriter(t)
    /\ UNCHANGED <<table, items, locks, accessor, frame, calls>>

\* upgrade_to_writer: without release for the only reader, ...
Upgrade(t, from, to) ==
    /\ Goto(t, from, to)
    /\ bucket_mutex[Top(t)].readers = {t}
    /\ bucket_mutex' = [bucket_mutex EXCEPT ![Top(t)] = Writer(t)]
    /\ UNCHANGED <<table, items, node_mutex, accessor, frame, calls>>

\* ... and by releasing and acquiring when another upgrade is under way.
ReleaseToUpgrade(t, from, to) ==
    /\ Goto(t, from, to)
    /\ bucket_mutex[Top(t)].readers # {t}
    /\ ReleaseBucket(t, Top(t))
    /\ UNCHANGED <<table, items, node_mutex, accessor, frame, calls>>

Reacquire(t, from, to) ==
    /\ Goto(t, from, to)
    /\ LockBucket(t, Top(t), TRUE)
    /\ UNCHANGED <<table, items, node_mutex, accessor, frame, calls>>

Rehash(t) ==
    \/ SeeFlag(t) \/ TryBucket(t) \/ FailToTryBucket(t)
    \/ SeeRehashed(t) \/ MarkRehashed(t) \/ AcquireBucket(t)
    \/ MoveNone(t) \/ MoveItems(t) \/ NeedWriter(t)
    \/ Upgrade(t, "move_upgrade", "move")
    \/ ReleaseToUpgrade(t, "move_upgrade", "move_reacquire")
    \/ Reacquire(t, "move_reacquire", "move")

(***************************************************************************)
(* lookup                                                                  *)
(***************************************************************************)
\* search_bucket
Matching(t) == {n \in node_list[MyBucket(t)] : key[n] = frame[t].key}

\* The lowest free address: what is freed is reused at once.
NewNode == CHOOSE n \in Node : key[n] = Nil

FindInBucket(t, from) ==
    /\ Goto(t, from, "item")
    /\ Matching(t) # {}
    /\ frame' = [frame EXCEPT ![t].n = CHOOSE n \in Matching(t) : TRUE]
    /\ UNCHANGED <<table, items, node_mutex, accessor, calls>>

Found(t) ==
    /\ frame[t].op # "exclude"
    /\ FindInBucket(t, "search")
    /\ UNCHANGED bucket_mutex

NotFound(t) ==
    /\ frame[t].op = "find"
    /\ Goto(t, "search", "race")
    /\ Matching(t) = {}
    /\ UNCHANGED <<table, items, locks, accessor, frame, calls>>

\* allocate_node, unless a call that was restarted has done it; Node is large
\* enough for one more.
NotFoundToInsert(t) ==
    /\ frame[t].op = "insert"
    /\ Goto(t, "search", IF IsWriter(t) THEN "race" ELSE "upgrade")
    /\ Matching(t) = {}
    /\ IF frame[t].tmp_n # Nil THEN UNCHANGED <<key, frame>>
       ELSE /\ \E n \in Node : key[n] = Nil
            /\ key' = [key EXCEPT ![NewNode] = frame[t].key]
            /\ frame' = [frame EXCEPT ![t].tmp_n = NewNode]
    /\ UNCHANGED <<table, rehashed, node_list, locks, accessor, calls>>

\* The lock was released in the upgrade: "unfortunately, it did".
FoundAfterUpgrade(t) ==
    /\ FindInBucket(t, "again")
    /\ bucket_mutex' = [bucket_mutex EXCEPT ![MyBucket(t)] = Locked(Free, t, FALSE)]

\* Mutant: the second search is left out.
NotFoundAfterUpgradeUnsearched(t) ==
    /\ Goto(t, "again", "race")
    /\ UNCHANGED <<table, items, locks, accessor, frame, calls>>

NotFoundAfterUpgrade(t) ==
    /\ Goto(t, "again", "race")
    /\ Matching(t) = {}
    /\ UNCHANGED <<table, items, locks, accessor, frame, calls>>

\* What follows a search that found nothing and missed nothing.
Absent(t) ==
    /\ IF frame[t].op = "insert"
       THEN pc' = [pc EXCEPT ![t] = "link"] /\ UNCHANGED bucket_mutex
       ELSE /\ pc' = [pc EXCEPT ![t] = IF frame[t].op = "find" THEN "missed" ELSE "gone"]
            /\ ReleaseBucket(t, MyBucket(t))
    /\ UNCHANGED <<table, items, node_mutex, accessor, calls>>

\* check_mask_race
MaskKept(t) ==
    /\ pc[t] = "race"
    /\ \/ my_mask = frame[t].m
       \/ Masked(MyHash(t), my_mask) = Masked(MyHash(t), frame[t].m)
    /\ frame' = [frame EXCEPT ![t].m = my_mask]
    /\ Absent(t)

MaskChanged(t) ==
    /\ Goto(t, "race", "collision")
    /\ Masked(MyHash(t), my_mask) # Masked(MyHash(t), frame[t].m)
    /\ frame' = [frame EXCEPT ![t].m = my_mask,
                              ![t].collision = NextApplicable(MyHash(t), frame[t].m)]
    /\ UNCHANGED <<table, items, locks, accessor, calls>>

\* Mutant: a bucket that is being rehashed counts as not rehashed.
NoCollisionUnseen(t) ==
    /\ pc[t] = "collision"
    /\ UNCHANGED frame
    /\ Absent(t)

\* check_rehashing_collision: the items for that bucket are still here ...
NoCollision(t) ==
    /\ pc[t] = "collision"
    /\ frame[t].collision \notin rehashed
    /\ UNCHANGED frame
    /\ Absent(t)

\* ... or they are there, or on their way.
Collision(t) ==
    /\ Goto(t, "collision", "flag")
    /\ frame[t].collision \in rehashed
    /\ ReleaseBucket(t, MyBucket(t))
    /\ frame' = [frame EXCEPT ![t].path = <<Masked(MyHash(t), frame[t].m)>>]
    /\ UNCHANGED <<table, items, node_mutex, accessor, calls>>

\* insert_new_node
LinkNode(t) ==
    /\ Goto(t, "link", IF my_size + 1 >= frame[t].m THEN "claim" ELSE "item")
    /\ my_size' = my_size + 1
    /\ node_list' = [node_list EXCEPT ![MyBucket(t)] = @ \cup {frame[t].tmp_n}]
    /\ frame' = [frame EXCEPT ![t].n = frame[t].tmp_n, ![t].tmp_n = Nil, ![t].new = TRUE]
    /\ UNCHANGED <<my_mask, my_table, rehashed, key, locks, accessor, calls>>

ClaimSegment(t) ==
    /\ Goto(t, "claim", "item")
    /\ frame' = [frame EXCEPT ![t].grow = frame[t].m \notin my_table]
    /\ my_table' = my_table \cup {frame[t].m}
    /\ UNCHANGED <<my_mask, my_size, items, locks, accessor, calls>>

\* The item is locked under the lock of its bucket.
TryItem(t) ==
    /\ Goto(t, "item", "growth")
    /\ CanLock(node_mutex[frame[t].n], frame[t].write)
    /\ node_mutex' = [node_mutex EXCEPT ![frame[t].n] = Locked(@, t, frame[t].write)]
    /\ accessor' = [accessor EXCEPT ![t] = frame[t].n]
    /\ ReleaseBucket(t, MyBucket(t))
    /\ UNCHANGED <<table, items, frame, calls>>

\* "the wait takes really long, restart the operation"
GiveUpItem(t) ==
    /\ pc[t] = "item"
    /\ \/ ~CanLock(node_mutex[frame[t].n], frame[t].write)
       \/ \E u \in Thread \ {t} : pc[u] = "item" /\ frame[u].n = frame[t].n
    /\ pc' = [pc EXCEPT ![t] = "restart"]
    /\ ReleaseBucket(t, MyBucket(t))
    /\ frame' = [frame EXCEPT ![t].n = Nil]
    /\ UNCHANGED <<table, items, node_mutex, accessor, calls>>

\* After the yield.
Restart(t) ==
    /\ LoadMask(t, "restart", frame[t])
    /\ UNCHANGED <<locks, calls>>

\* enable_segment, and the end of the call.
Growth(t) ==
    /\ Goto(t, "growth", "using")
    /\ my_mask' = IF frame[t].grow THEN NextMask(frame[t].m) ELSE my_mask
    /\ key' = [n \in Node |-> IF n = frame[t].tmp_n THEN Nil ELSE key[n]]
    /\ frame' = [frame EXCEPT ![t] = [NoFrame EXCEPT !.op = "use", !.key = frame[t].key,
                                                    !.write = frame[t].write]]
    /\ UNCHANGED <<my_size, my_table, rehashed, node_list, locks, accessor, calls>>

Lookup(t) ==
    \/ Found(t) \/ NotFound(t) \/ NotFoundToInsert(t)
    \/ Upgrade(t, "upgrade", "race")
    \/ ReleaseToUpgrade(t, "upgrade", "reacquire")
    \/ Reacquire(t, "reacquire", "again")
    \/ FoundAfterUpgrade(t) \/ NotFoundAfterUpgrade(t)
    \/ MaskKept(t) \/ MaskChanged(t) \/ NoCollision(t) \/ Collision(t)
    \/ LinkNode(t) \/ ClaimSegment(t) \/ TryItem(t) \/ GiveUpItem(t) \/ Restart(t)
    \/ Growth(t)

(***************************************************************************)
(* exclude                                                                 *)
(***************************************************************************)
Unlink(t) ==
    /\ frame[t].op = "exclude"
    /\ Goto(t, "search", IF node_mutex[accessor[t]].writer = t THEN "delete"
                         ELSE "item_upgrade")
    /\ accessor[t] \in node_list[MyBucket(t)]
    /\ node_list' = [node_list EXCEPT ![MyBucket(t)] = @ \ {accessor[t]}]
    /\ my_size' = my_size - 1
    /\ ReleaseBucket(t, MyBucket(t))
    /\ UNCHANGED <<my_mask, my_table, rehashed, key, node_mutex, accessor, frame, calls>>

\* "someone else was first", unless the mask has changed.
NotThere(t) ==
    /\ frame[t].op = "exclude"
    /\ Goto(t, "search", "race")
    /\ accessor[t] \notin node_list[MyBucket(t)]
    /\ UNCHANGED <<table, items, locks, accessor, frame, calls>>

\* Mutant: the item is deleted while others read it.
UpgradeItemAtOnce(t) ==
    /\ Goto(t, "item_upgrade", "delete")
    /\ node_mutex' = [node_mutex EXCEPT ![accessor[t]] = Writer(t)]
    /\ UNCHANGED <<table, items, bucket_mutex, accessor, frame, calls>>

UpgradeItem(t) ==
    /\ Goto(t, "item_upgrade", "delete")
    /\ node_mutex[accessor[t]].readers = {t}
    /\ node_mutex' = [node_mutex EXCEPT ![accessor[t]] = Writer(t)]
    /\ UNCHANGED <<table, items, bucket_mutex, accessor, frame, calls>>

ReleaseItem(t) ==
    /\ Goto(t, "item_upgrade", "item_reacquire")
    /\ node_mutex[accessor[t]].readers # {t}
    /\ node_mutex' = [node_mutex EXCEPT ![accessor[t]] = Unlocked(@, t)]
    /\ UNCHANGED <<table, items, bucket_mutex, accessor, frame, calls>>

ReacquireItem(t) ==
    /\ Goto(t, "item_reacquire", "delete")
    /\ CanWrite(node_mutex[accessor[t]])
    /\ node_mutex' = [node_mutex EXCEPT ![accessor[t]] = Writer(t)]
    /\ UNCHANGED <<table, items, bucket_mutex, accessor, frame, calls>>

DeleteNode(t) ==
    /\ Goto(t, "delete", "idle")
    /\ key' = [key EXCEPT ![accessor[t]] = Nil]
    /\ node_mutex' = [node_mutex EXCEPT ![accessor[t]] = Free]
    /\ accessor' = [accessor EXCEPT ![t] = Nil]
    /\ frame' = [frame EXCEPT ![t] = NoFrame]
    /\ UNCHANGED <<table, rehashed, node_list, bucket_mutex, calls>>

Exclude(t) ==
    \/ Unlink(t) \/ NotThere(t) \/ UpgradeItem(t) \/ ReleaseItem(t)
    \/ ReacquireItem(t) \/ DeleteNode(t) \/ ReleaseAccessor(t, "gone")

(***************************************************************************)
(* The specification.                                                      *)
(***************************************************************************)
Begin(t) ==
    \/ \E k \in Key : \/ CallLookup(t, "insert", k, TRUE)
                      \/ \E w \in BOOLEAN : CallLookup(t, "find", k, w)
    \/ CallErase(t) \/ ReleaseAccessor(t, "using") \/ ReturnMissed(t)

\* All calls were made.
Done == (\A t \in Thread : pc[t] = "idle" /\ calls[t] = MaxCalls) /\ UNCHANGED vars

Next == (\E t \in Thread : Begin(t) \/ Rehash(t) \/ Lookup(t) \/ Exclude(t)) \/ Done

Spec == Init /\ [][Next]_vars

(***************************************************************************)
(* Properties.                                                             *)
(***************************************************************************)
Lock == [writer : Thread \cup {Nil}, readers : SUBSET Thread]

PC == {"idle", "flag", "try", "recheck", "acquire", "move", "move_upgrade",
       "move_reacquire", "search", "upgrade", "reacquire", "again", "race", "collision",
       "link", "claim", "item", "restart", "growth", "using", "missed", "gone",
       "item_upgrade", "item_reacquire", "delete"}

TypeOK ==
    /\ my_mask + 1 \in Pow /\ my_size \in 0 .. Cardinality(Key)
    /\ my_table \subseteq {p - 1 : p \in Pow}
    /\ rehashed \subseteq 0 .. my_mask
    /\ node_list \in [Bucket -> SUBSET Node]
    /\ key \in [Node -> Key \cup {Nil}]
    /\ bucket_mutex \in [Bucket -> Lock]
    /\ node_mutex \in [Node -> Lock]
    /\ accessor \in [Thread -> Node \cup {Nil}]
    /\ pc \in [Thread -> PC]
    /\ calls \in [Thread -> 0 .. MaxCalls]

\* A thread that looks into a bucket holds its lock, and finds it rehashed:
\* the assertions of bucket_accessor::acquire and of search_bucket.  A try
\* that fails for any reason but a thread that rehashes would break it.
Inside(t) == pc[t] \in {"search", "again", "race", "collision", "link", "claim", "item",
                        "move", "upgrade", "move_upgrade"}

BucketReady ==
    \A t \in Thread : Inside(t) =>
        /\ Top(t) \in rehashed
        /\ t = bucket_mutex[Top(t)].writer \/ t \in bucket_mutex[Top(t)].readers

\* The buckets below the top of a path are marked, locked and wait for their
\* items, which are still in the bucket above.
PendingIn(path, c) == \E i \in 1 .. Len(path) - 1 : path[i] = c

Pending(t, c) == PendingIn(frame[t].path, c)

\* The bucket, and the buckets that it descends from.
Line(b) == {b % p : p \in Pow \ {1}}

\* Where a thread that has read my_mask ends up for hash h: its bucket.
Home(h) == Masked(h, my_mask)

\* An item is in its bucket, or on its way: in the nearest ancestor that was
\* rehashed, or above buckets which are marked but locked by the thread that
\* has not filled them yet.
ItemsPlaced ==
    \A b \in Bucket : \A n \in node_list[b] :
        /\ b \in Line(Home(HashOf(n)))
        /\ \A c \in Line(Home(HashOf(n))) \ Line(b) : c \in rehashed =>
              \E t \in Thread : bucket_mutex[c].writer = t /\ Pending(t, c)

\* Of two insertions of a key one finds the item of the other, also when the
\* table grows between them; and my_size counts the items.
Linked == UNION {node_list[b] : b \in Bucket}

OneItemPerKey ==
    /\ \A n, o \in Linked : key[n] = key[o] => n = o
    /\ \A b, c \in Bucket : b # c => node_list[b] \cap node_list[c] = {}
    /\ my_size = Cardinality(Linked)

\* No thread reaches an item that was deleted: not in a chain, not by its
\* accessor, not on the way from a chain to an accessor.
ItemsAlive ==
    /\ \A n \in Linked : key[n] # Nil
    /\ \A t \in Thread :
          /\ accessor[t] # Nil => key[accessor[t]] = frame[t].key
          /\ pc[t] = "item" => frame[t].n \in Linked
          /\ frame[t].tmp_n # Nil => frame[t].tmp_n \notin Linked

\* "Can't acquire new item in locked bucket?": nobody finds an item before
\* the thread that inserted it has locked it.
NewItemFree ==
    \A t \in Thread : pc[t] = "item" /\ frame[t].new => CanWrite(node_mutex[frame[t].n])

\* "Wrong concurrent assignment": a segment is enabled by one thread, once,
\* and the mask that it stores never takes buckets away; "new allocations must
\* not publish new mask until segment has allocated": the segment before the
\* one that is claimed is there.
GrowsOnce ==
    /\ \A t, u \in Thread : frame[t].grow /\ frame[u].grow => t = u
    /\ \A t \in Thread : frame[t].grow => frame[t].m = my_mask
    /\ \A t \in Thread : pc[t] = "claim" => frame[t].m <= my_mask

\* "b_new must be locked (for write)", "The lowermost buckets can't be
\* rehashed", "hash() function changed for key in table": one thread fills a
\* bucket, it holds it as its only owner, and the items it looks through are of
\* the line of their bucket.
FilledByOne ==
    \A t \in Thread :
        /\ \A c \in Bucket : Pending(t, c) =>
              /\ c >= 2 /\ c \in rehashed
              /\ bucket_mutex[c] = Writer(t)
              /\ \A u \in Thread : Pending(u, c) => u = t
        /\ pc[t] = "move" => \A n \in node_list[Top(t)] : Top(t) \in Line(HashOf(n))

\* Who links an item, or unlinks one, has the bucket for itself.
ChangedByOne ==
    \A t \in Thread :
        pc[t] = "link" \/ (pc[t] = "search" /\ frame[t].op = "exclude") =>
            /\ bucket_mutex[MyBucket(t)] = Writer(t)
            /\ \A u \in Thread : Inside(u) /\ Top(u) = MyBucket(t) => u = t

\* "Only one thread can delete it": no other thread has an accessor to an item
\* that is being deleted, and none waits to delete it too.
DeletedByOne ==
    \A t \in Thread : pc[t] = "delete" =>
        /\ node_mutex[accessor[t]] = Writer(t)
        /\ \A u \in Thread : accessor[u] = accessor[t] => u = t

\* What the source asserts, or says, of its buckets, its items and its segments.
AssertionsHold ==
    /\ TypeOK /\ BucketReady /\ FilledByOne /\ ChangedByOne
    /\ NewItemFree /\ DeletedByOne /\ GrowsOnce

\* The map implements ItemMap: a call that reports a missing key is right at
\* some moment of the call, however the table grows meanwhile.
NewHere(t) == pc[t] \in {"claim", "item"} /\ frame[t].new

Accessor(t) == IF NewHere(t) THEN frame[t].n ELSE accessor[t]

Map == INSTANCE ItemMap WITH
    Item <- Node,
    map <- [k \in Key |-> IF \E n \in Linked : key[n] = k
                          THEN CHOOSE n \in Linked : key[n] = k ELSE Nil],
    accessor <- [t \in Thread |-> Accessor(t)],
    writes <- [t \in Thread |-> Accessor(t) # Nil /\ frame[t].write],
    missed <- [t \in Thread |-> IF pc[t] = "missed" THEN frame[t].key ELSE Nil]

ImplementsMap == Map!Spec
==============================================================================
