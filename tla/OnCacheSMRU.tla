---------------------------- MODULE OnCacheSMRU ----------------------------
(***************************************************************************)
(* The single-threaded cache (src/src/caches/oncachesmru.h).               *)
(*                                                                         *)
(* Its lists are those of HashBasket, but an insertion searches its place  *)
(* first, in setll, then empties a node in allocNode, and links the item   *)
(* along the pointers that setll left in updatePathOutH and                *)
(* updatePathOutL: the deletion in between has to keep them right.  These  *)
(* three parts of a call are steps here.                                   *)
(*                                                                         *)
(* The use counts are left out: allocNode compares them, but its continue  *)
(* leaves the loop, so that they decide nothing (see OnCacheMMRU).  Any    *)
(* height is possible at an insertion that takes one from the landscape.   *)
(***************************************************************************)
EXTENDS HashBasket

ASSUME PoolAssumption == Node = 0 .. Capacity - 1

VARIABLES node_pool_id,
          pc,                  \* the next part of the call: search, alloc, link
          arg,                 \* the key to insert
          cmp,                 \* the result of setll, or 5
          re,                  \* the node that allocNode took
          updatePathOutH,      \* a pointer to a pointer to a head
          updatePathOutL       \* per level: the node to link behind

lists == <<baskets, fwdPtrH, fwdPtrsL, curHeight, hash, key>>
places == <<updatePathOutH, updatePathOutL>>
svars == <<lists, node_pool_id, pc, arg, cmp, re, places>>

\* The places that hold a pointer to a head.
Slot == [of : {"baskets"}, at : Basket] \cup [of : {"fwdPtrH"}, at : Node]

BasketSlot(b) == [of |-> "baskets", at |-> b]
NextSlot(n)   == [of |-> "fwdPtrH", at |-> n]

\* *slot, and *slot = n in the baskets or in pointers f.
At(slot) == IF slot.of = "baskets" THEN baskets[slot.at] ELSE fwdPtrH[slot.at]

SetInBaskets(slot, n) ==
    IF slot.of = "baskets" THEN [baskets EXCEPT ![slot.at] = n] ELSE baskets

SetInHeads(f, slot, n) ==
    IF slot.of = "fwdPtrH" THEN [f EXCEPT ![slot.at] = n] ELSE f

NoPath == [h \in Level |-> Null]

SMRUInit ==
    /\ Init
    /\ node_pool_id = 0
    /\ pc = "idle"
    /\ arg = NoKey
    /\ cmp = 0
    /\ re = Null
    /\ updatePathOutH = BasketSlot(0)
    /\ updatePathOutL = NoPath

\* Between calls what a call left in these is not read again.
Return ==
    /\ pc' = "idle"
    /\ arg' = NoKey
    /\ cmp' = 0
    /\ re' = Null
    /\ updatePathOutH' = BasketSlot(0)
    /\ updatePathOutL' = NoPath

(***************************************************************************)
(* insertNode and setll.                                                   *)
(***************************************************************************)
\* Where the head with the hash of k is, or would be:
\* while (*updatePathOutH && hash > (*updatePathOutH)->hash)
SlotOf(k) ==
    LET walk[s \in Slot] ==
            IF At(s) = Null \/ hash[At(s)] >= Hash[k] THEN s ELSE walk[NextSlot(At(s))]
    IN  walk[BasketSlot(BasketId(Hash[k]))]

HasQueue(k) == LET head == At(SlotOf(k)) IN head # Null /\ hash[head] = Hash[k]

\* 5: empty basket, 4: no queue for the hash, 3: the key comes before the
\* head, 0: the key is there, 1 (and -1, which allocNode treats alike): the
\* key comes behind the nodes of the path.
setll(k) ==
    LET head == At(SlotOf(k))
    IN  IF baskets[BasketId(Hash[k])] = Null THEN 5
        ELSE IF ~HasQueue(k) THEN 4
        ELSE IF k < key[head] THEN 3
        ELSE IF k = key[head] \/ Below(head, k) # Null THEN 0
        ELSE 1

\* For a key that is there only its data and use count change.
insertNode(k) ==
    /\ pc = "idle"
    /\ setll(k) # 0
    /\ pc' = "alloc"
    /\ arg' = k
    /\ cmp' = setll(k)
    /\ updatePathOutH' = SlotOf(k)
    /\ updatePathOutL' = IF setll(k) = 1 THEN Path(At(SlotOf(k)), k) ELSE NoPath
    /\ UNCHANGED <<lists, node_pool_id, re>>

(***************************************************************************)
(* allocNode: the next node of the ring is emptied.                        *)
(***************************************************************************)
NextId == IF node_pool_id + 1 >= Capacity THEN 0 ELSE node_pool_id + 1

Head    == At(updatePathOutH)
SameHash == key[NextId] # NoKey /\ hash[NextId] = Hash[arg]

Alloc == /\ pc = "alloc"
         /\ node_pool_id' = NextId

\* The node goes on to be linked.
Taken(n) == pc' = "link" /\ re' = n /\ UNCHANGED <<arg, cmp>>

TakeEmpty ==
    /\ Alloc /\ key[NextId] = NoKey
    /\ Taken(NextId)
    /\ UNCHANGED <<lists, places>>

\* The item of the node is next to the new one: it is replaced in place.
ReplaceHead ==
    /\ Alloc /\ SameHash
    /\ NextId = Head
    /\ cmp = 3 \/ updatePathOutL[0] = NextId
    /\ key' = [key EXCEPT ![NextId] = arg]
    /\ Return
    /\ UNCHANGED <<baskets, fwdPtrH, fwdPtrsL, curHeight, hash>>

\* The node heads the queue: it takes over the item and the levels of the
\* second node, which is taken in its stead.
SwapWithSecond ==
    LET second == fwdPtrsL[NextId][0]
        levels == 0 .. curHeight[second]
    IN  /\ Alloc /\ SameHash
        /\ NextId = Head
        /\ cmp # 3 /\ updatePathOutL[0] # NextId
        /\ key' = [key EXCEPT ![NextId] = key[second]]
        /\ fwdPtrsL' = [fwdPtrsL EXCEPT
               ![NextId] = [h \in Level |-> IF h \in levels THEN fwdPtrsL[second][h] ELSE @[h]],
               ![second] = [h \in Level |-> IF h \in levels THEN Null ELSE @[h]]]
        /\ updatePathOutL' = [h \in Level |-> IF updatePathOutL[h] = second THEN NextId
                                              ELSE updatePathOutL[h]]
        /\ Taken(second)
        /\ UNCHANGED <<baskets, fwdPtrH, curHeight, hash, updatePathOutH>>

\* updatePath: where the walk to node n leaves the levels from top down to 0,
\* when it starts at a node on level top.
PathTo(n, start, top) ==
    LET leaves[h \in 0 .. top] ==
            LastBelowKey(IF h = top THEN start ELSE leaves[h + 1], h, key[n])
    IN  leaves

\* The levels of a path by-pass node n, and re->clear().
ByPass(n, updatePath, levels) ==
    /\ fwdPtrsL' = [m \in Node |-> [h \in Level |->
           CASE m = n -> Null
             [] h \in levels /\ m = updatePath[h] -> fwdPtrsL[n][h]
             [] OTHER -> fwdPtrsL[m][h]]]
    /\ fwdPtrH' = [fwdPtrH EXCEPT ![n] = Null]
    /\ key' = [key EXCEPT ![n] = NoKey]
    /\ UNCHANGED <<baskets, curHeight, hash>>

delInSameHashCmp3(n, head) ==
    ByPass(n, PathTo(n, head, 2), 0 .. curHeight[n])

\* Mutant: the path stays on the node.
delInSameHashPathOutStays(n, h) ==
    LET top == Max({h, curHeight[n]})
        updatePath == PathTo(n, IF top = 2 THEN Head ELSE updatePathOutL[top + 1], top)
    IN  ByPass(n, updatePath, 0 .. top) /\ UNCHANGED updatePathOutL

\* Node n is on the path: the path has to leave it, too.
delInSameHashPathOut(n, h) ==
    LET top == Max({h, curHeight[n]})
        updatePath == PathTo(n, IF top = 2 THEN Head ELSE updatePathOutL[top + 1], top)
    IN  /\ ByPass(n, updatePath, 0 .. top)
        /\ updatePathOutL' = [l \in Level |-> IF l <= top /\ updatePathOutL[l] = n
                                              THEN updatePath[l] ELSE updatePathOutL[l]]

\* Node n is right behind the path, which leads to it.
delInSameHashSuperFast(n, h) ==
    LET top == Max({h, curHeight[n]})
    IN  ByPass(n, PathTo(n, updatePathOutL[top], top), 0 .. top)

delInSameHash(n) ==
    LET on     == {h \in Level : updatePathOutL[h] = n}
        behind == {h \in Level : fwdPtrsL[updatePathOutL[h]][h] = n}
    IN  \/ /\ on # {}
           /\ delInSameHashPathOut(n, Max(on))
        \/ /\ on = {} /\ behind # {}
           /\ delInSameHashSuperFast(n, Max(behind))
           /\ UNCHANGED updatePathOutL
        \/ /\ on = {} /\ behind = {}
           /\ delInSameHashCmp3(n, Head)
           /\ UNCHANGED updatePathOutL

EvictInQueue ==
    /\ Alloc /\ SameHash
    /\ NextId # Head
    /\ IF cmp = 3 THEN delInSameHashCmp3(NextId, Head) /\ UNCHANGED updatePathOutL
                  ELSE delInSameHash(NextId)
    /\ Taken(NextId)
    /\ UNCHANGED updatePathOutH

OtherHash == key[NextId] # NoKey /\ hash[NextId] # Hash[arg]

\* Where delWithOtherHash finds the queue of the node:
\* while (*startSearch && (*startSearch)->hash != hash)
VictimSlot ==
    LET h == hash[NextId]
        walk[s \in Slot] ==
            IF At(s) = Null \/ hash[At(s)] = h THEN s ELSE walk[NextSlot(At(s))]
    IN  walk[IF h > Hash[arg] /\ BasketId(h) = BasketId(Hash[arg])
             THEN updatePathOutH ELSE BasketSlot(BasketId(h))]

\* The queue of head n goes on with its second node.
PromoteNext(n, slot) ==
    LET second == fwdPtrsL[n][0]
    IN  /\ PromoteSecond(n, second)
        /\ baskets' = SetInBaskets(slot, second)
        /\ fwdPtrH' = SetInHeads([fwdPtrH EXCEPT ![second] = fwdPtrH[n], ![n] = Null],
                                 slot, second)
        /\ UNCHANGED updatePathOutH

\* Mutant: the place for the next head stays in the node.
EndQueueKeepsPlace(n, slot) ==
    /\ baskets' = SetInBaskets(slot, fwdPtrH[n])
    /\ fwdPtrH' = SetInHeads([fwdPtrH EXCEPT ![n] = Null], slot, fwdPtrH[n])
    /\ fwdPtrsL' = [fwdPtrsL EXCEPT ![n] = NoLevels]
    /\ UNCHANGED <<updatePathOutH, curHeight>>

\* Mutant: the heads behind it are not passed on.
EndQueueDropsHeads(n, slot) ==
    /\ baskets' = SetInBaskets(slot, Null)
    /\ fwdPtrH' = SetInHeads([fwdPtrH EXCEPT ![n] = Null], slot, Null)
    /\ fwdPtrsL' = [fwdPtrsL EXCEPT ![n] = NoLevels]
    /\ updatePathOutH' = IF updatePathOutH = NextSlot(n) THEN slot ELSE updatePathOutH
    /\ UNCHANGED curHeight

\* The queue of head n ends, and with n its place for the next head.
EndQueue(n, slot) ==
    /\ baskets' = SetInBaskets(slot, fwdPtrH[n])
    /\ fwdPtrH' = SetInHeads([fwdPtrH EXCEPT ![n] = Null], slot, fwdPtrH[n])
    /\ fwdPtrsL' = [fwdPtrsL EXCEPT ![n] = NoLevels]
    /\ updatePathOutH' = IF updatePathOutH = NextSlot(n) THEN slot ELSE updatePathOutH
    /\ UNCHANGED curHeight

delWithOtherHash ==
    LET n == NextId
        slot == VictimSlot
    IN  /\ Alloc /\ OtherHash
        /\ Taken(n)
        /\ UNCHANGED updatePathOutL
        /\ \/ /\ At(slot) = n
              /\ IF fwdPtrsL[n][0] # Null THEN PromoteNext(n, slot) ELSE EndQueue(n, slot)
              /\ key' = [key EXCEPT ![n] = NoKey]
              /\ UNCHANGED hash
           \/ At(slot) # n /\ delInSameHashCmp3(n, At(slot)) /\ UNCHANGED updatePathOutH

allocNode == TakeEmpty \/ ReplaceHead \/ SwapWithSecond \/ EvictInQueue \/ delWithOtherHash

(***************************************************************************)
(* allocNode, the end: the item is linked where setll said.                *)
(***************************************************************************)
Link == /\ pc = "link"
        /\ hash' = [hash EXCEPT ![re] = Hash[arg]]
        /\ key' = [key EXCEPT ![re] = arg]
        /\ Return
        /\ UNCHANGED node_pool_id

LinkInQueue ==
    /\ cmp = 1 /\ Link
    /\ \E ht \in Level : LinkBelow(re, updatePathOutL, ht)

LinkAsHead ==
    LET prevHead == Head
    IN  /\ cmp = 3 /\ Link
        /\ \E ht \in Level : LowerHead(re, prevHead, ht)
        /\ baskets' = SetInBaskets(updatePathOutH, re)
        /\ fwdPtrH' = [SetInHeads(fwdPtrH, updatePathOutH, re)
                          EXCEPT ![re] = fwdPtrH[prevHead], ![prevHead] = Null]

LinkNewQueue ==
    /\ cmp = 4 /\ Link
    /\ StartQueue(re)
    /\ baskets' = SetInBaskets(updatePathOutH, re)
    /\ fwdPtrH' = SetInHeads([fwdPtrH EXCEPT ![re] = Head], updatePathOutH, re)

LinkFirst ==
    /\ cmp = 5 /\ Link
    /\ StartQueue(re)
    /\ baskets' = [baskets EXCEPT ![BasketId(Hash[arg])] = re]
    /\ UNCHANGED fwdPtrH

SMRUNext == \/ \E k \in Key : insertNode(k)
            \/ allocNode
            \/ LinkInQueue \/ LinkAsHead \/ LinkNewQueue \/ LinkFirst

SMRUSpec == SMRUInit /\ [][SMRUNext]_svars

(***************************************************************************)
(* Correctness.                                                            *)
(***************************************************************************)
\* Type invariant of the call and of its places.
SMRUTypeOK ==
    /\ TypeOK
    /\ node_pool_id \in Node
    /\ pc \in {"idle", "alloc", "link"}
    /\ arg \in Key \cup {NoKey}
    /\ cmp \in {0, 1, 3, 4, 5}
    /\ re \in Node \cup {Null}
    /\ updatePathOutH \in Slot
    /\ updatePathOutL \in [Level -> Node \cup {Null}]

\* Between calls the hash lists and skip lists are exact, although deletions
\* and insertions share one path, and getData finds what nodes hold.
ListsExactAtRest == SMRUTypeOK /\ (pc = "idle" => ListsExact /\ FindsFilled)

\* The deletion keeps the path: "3 == replace head of hash queue, use
\* updatePathOutH; 4 == here no a same hash, create new hash queue, use
\* updatePathOutH; 1 == not found who bigger with the same hash, use
\* updatePathOut".  When the item is linked, these are the places that a
\* search would find now.
PathCurrent ==
    pc = "link" => /\ cmp \in {3, 4} => updatePathOutH = SlotOf(arg)
                   /\ cmp = 1 => updatePathOutL = Path(At(SlotOf(arg)), arg)

Findable == {k \in Key : GetData(k) # Null}

\* An insertion costs at most the item of the next node of the ring, also
\* where the items of two nodes are swapped; all others stay findable.
OnlyNextIsLost == [][ pc # "idle" => Findable \ Findable' \subseteq
                         IF pc = "alloc" THEN {key[NextId]} ELSE {} ]_svars
=============================================================================
