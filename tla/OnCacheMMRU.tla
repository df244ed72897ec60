---------------------------- MODULE OnCacheMMRU ----------------------------
(***************************************************************************)
(* The multithreaded cache OnCacheMMRU (src/src/caches/oncachemmru.h).     *)
(* Its code is that of OnCacheMLRU, line by line, and one thing more: an   *)
(* atomic count `used' in every node.  getData adds one to the count of    *)
(* the node it found; allocNode reads the count of a node before it tries  *)
(* to take the node, and if it exceeds l_uselessness stores a smaller one  *)
(* and goes on with `continue'.  In a do-while loop `continue' jumps to    *)
(* the condition, and so the node is taken all the same.                   *)
(***************************************************************************)
EXTENDS OnCacheMLRU

CONSTANTS
    Uselessness,               \* l_uselessness
    NotLoaded,                 \* no count has been read for this node yet
    MaxUsed                    \* bound on the counts, in the place of 2^32

ASSUME UselessnessAssumption == Uselessness \in Nat /\ NotLoaded \notin Nat

VARIABLES
    used,                      \* per node: the atomic count
    surplus                    \* per thread: what allocNode stores back, if not 0

uses == <<used, surplus>>
mmruVars == <<vars, uses>>

MMRUInit ==
    /\ Init
    /\ used = [n \in Node |-> 0]
    /\ surplus = [t \in Thread |-> NotLoaded]

\* The counts stay below MaxUsed if every lookup that runs finds the node.
RoomForUse == \A n \in Node :
    used[n] + Cardinality({t \in Thread : pc[t] \in {"get", "read"}}) < MaxUsed

(***************************************************************************)
(* allocNode and clear.                                                    *)
(***************************************************************************)
\* used = re->used.load(); the count to store back if it is too big
LoadUsed(t) ==
    /\ pc[t] = "take" /\ surplus[t] = NotLoaded
    /\ surplus' = [surplus EXCEPT ![t] = IF used[re[t]] > Uselessness
                                         THEN used[re[t]] - Uselessness ELSE 0]
    /\ UNCHANGED <<vars, used>>

\* Mutant: the limit is subtracted from the count as it is by then.
StoreUsedSubtracts(t) ==
    /\ pc[t] = "take" /\ surplus[t] \in Nat \ {0}
    /\ used' = [used EXCEPT ![re[t]] = @ - Uselessness]
    /\ surplus' = [surplus EXCEPT ![t] = 0]
    /\ UNCHANGED vars

\* re->used.store(used - l_uselessness), after others may have changed it
StoreUsed(t) ==
    /\ pc[t] = "take" /\ surplus[t] \in Nat \ {0}
    /\ used' = [used EXCEPT ![re[t]] = surplus[t]]
    /\ surplus' = [surplus EXCEPT ![t] = 0]
    /\ UNCHANGED vars

\* Mutant: a node whose count was too big is handed out without its flag.
TakeUsedUntested(t) ==
    /\ surplus[t] = 0
    /\ IF used[re[t]] > 0 THEN TakeNodeUntested(t) ELSE TakeNode(t)
    /\ surplus' = [surplus EXCEPT ![t] = NotLoaded]
    /\ UNCHANGED used

\* while (re->in_use.test_and_set()), where `continue' leads as well
TakeUsed(t) ==
    /\ surplus[t] = 0
    /\ TakeNode(t)
    /\ surplus' = [surplus EXCEPT ![t] = NotLoaded]
    /\ UNCHANGED used

\* re->clear() resets the count of an evicted node ...
ClearUsed(t) ==
    /\ ClearNode(t)
    /\ used' = [used EXCEPT ![re[t]] = 0]
    /\ UNCHANGED surplus

\* ... and new_node->clear() that of a node that was not needed.
InsertUsed(t) ==
    /\ InsertN(t)
    /\ used' = IF cur[t] = NoNode THEN used ELSE [used EXCEPT ![re[t]] = 0]
    /\ UNCHANGED surplus

(***************************************************************************)
(* getData.                                                                *)
(***************************************************************************)
CallGetUsed(t, k) == RoomForUse /\ CallGet(t, k) /\ UNCHANGED uses

\* ++cur->used under the shared lock, before the data are returned
CountUse(t) ==
    /\ ReadData(t)
    /\ used' = IF cur[t] = NoNode THEN used ELSE [used EXCEPT ![cur[t]] = @ + 1]
    /\ UNCHANGED surplus

(***************************************************************************)
(* The specification: the other steps do not touch the counts.             *)
(***************************************************************************)
AllocNode(t) ==
    /\ FetchId(t) \/ WrapId(t) \/ CheckKey(t) \/ LockToEvict(t) \/ Unlink(t)
    /\ UNCHANGED uses

InsertNode(t) ==
    /\ \/ \E d \in Data : CallInsert(t, d)
       \/ FillNode(t) \/ LockToInsert(t) \/ Release(t)
    /\ UNCHANGED uses

GetData(t) == (LockToGet(t) \/ ReturnData(t)) /\ UNCHANGED uses

MMRUNext == \E t \in Thread :
    \/ LoadUsed(t) \/ StoreUsed(t) \/ TakeUsed(t) \/ AllocNode(t)
    \/ ClearUsed(t) \/ InsertUsed(t) \/ InsertNode(t)
    \/ CountUse(t) \/ GetData(t) \/ \E k \in Key : CallGetUsed(t, k)

MMRUSpec == MMRUInit /\ [][MMRUNext]_mmruVars

(***************************************************************************)
(* Properties.                                                             *)
(***************************************************************************)
\* Type invariant: no count falls below zero, where it would become the
\* largest uint32_t, although it is read, compared and stored in three steps.
UsedTypeOK ==
    /\ used \in [Node -> Nat]
    /\ surplus \in [Thread -> Nat \cup {NotLoaded}]
    /\ \A t \in Thread : pc[t] # "take" => surplus[t] = NotLoaded

\* A count that is wrong, stale or lost never makes allocation unsafe: with
\* the counts hidden OnCacheMMRU implements OnCacheMLRU, and inherits
\* everything that holds of it.
ImplementsMLRU == Spec

\* "uselessness - limit of uselessness = do not evict if used count bigger":
\* allocNode takes no node whose count is bigger at that moment.
SparesUsed == [][\A t \in Thread :
    pc[t] = "take" /\ pc'[t] = "check" => used[re[t]] <= Uselessness]_mmruVars
=============================================================================
