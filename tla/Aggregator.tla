------------------------------ MODULE Aggregator ------------------------------
(***************************************************************************)
(* tbb::internal::aggregator_generic                                       *)
(* (src/src/intel/include/tbb/internal/_aggregator_impl.h): threads hand   *)
(* their operations to whichever of them opened the list of pending ones.  *)
(*                                                                         *)
(* The thread that puts its operation into an empty list becomes the next  *)
(* handler: it waits until the handler before it is done, takes the whole  *)
(* list and executes the operations one by one; the others spin on the     *)
(* status of theirs.  An operation lives on the stack of its thread, which *)
(* has at most one at a time: operations are named by their threads, so    *)
(* that the address of a new operation may be that of the one before it.   *)
(***************************************************************************)
EXTENDS Naturals, FiniteSets

CONSTANTS Thread, NULL

ASSUME NullAssumption == NULL \notin Thread
ASSUME ThreadAssumption == IsFiniteSet(Thread)

VARIABLES
    pending_operations,        \* the head of the list, or NULL
    handler_busy,
    status,                    \* per operation: 1 when it was executed
    next,                      \* per operation: the one put before it
    res,                       \* per thread: the head of the list it read
    op_list,                   \* per handler: the operations still to execute
    tmp,                       \* per handler: the operation just executed
    pc                         \* per thread: its next step

lists   == <<pending_operations, handler_busy>>
ops     == <<status, next>>
handler == <<op_list, tmp>>
aggVars == <<lists, ops, res, handler, pc>>

AggInit ==
    /\ pending_operations = NULL
    /\ handler_busy = FALSE
    /\ status = [t \in Thread |-> 0]
    /\ next = [t \in Thread |-> NULL]
    /\ res = [t \in Thread |-> NULL]
    /\ op_list = [t \in Thread |-> NULL]
    /\ tmp = [t \in Thread |-> NULL]
    /\ pc = [t \in Thread |-> "idle"]

Goto(t, from, to) == pc[t] = from /\ pc' = [pc EXCEPT ![t] = to]

(***************************************************************************)
(* execute                                                                 *)
(***************************************************************************)
\* A new operation: status(0), next(NULL).
NewOperation(t, from) ==
    /\ Goto(t, from, "link")
    /\ status' = [status EXCEPT ![t] = 0]
    /\ next' = [next EXCEPT ![t] = NULL]
    /\ UNCHANGED <<lists, res, handler>>

\* op->next = res = pending_operations
LinkOperation(t) ==
    /\ Goto(t, "link", "push")
    /\ res' = [res EXCEPT ![t] = pending_operations]
    /\ next' = [next EXCEPT ![t] = pending_operations]
    /\ UNCHANGED <<lists, status, handler>>

\* Mutant: the compare-and-swap compares with nothing.
PushUncompared(t) ==
    /\ pc[t] = "push"
    /\ pending_operations' = t
    /\ pc' = [pc EXCEPT ![t] = IF res[t] = NULL THEN "spin" ELSE "wait"]
    /\ UNCHANGED <<handler_busy, ops, res, handler>>

\* pending_operations.compare_and_swap(op, res): first in the list handles
\* the operations, not first waits.
PushOperation(t) ==
    /\ pc[t] = "push"
    /\ IF pending_operations = res[t]
       THEN /\ pending_operations' = t
            /\ pc' = [pc EXCEPT ![t] = IF res[t] = NULL THEN "spin" ELSE "wait"]
       ELSE /\ pc' = [pc EXCEPT ![t] = "link"]
            /\ UNCHANGED pending_operations
    /\ UNCHANGED <<handler_busy, ops, res, handler>>

\* spin_wait_while_eq(op->status, 0)
SeeStatus(t) ==
    /\ Goto(t, "wait", "executed")
    /\ status[t] # 0
    /\ UNCHANGED <<lists, ops, res, handler>>

(***************************************************************************)
(* start_handle_operations                                                 *)
(***************************************************************************)
\* Mutant: the handler does not wait for the one before it.
SeeFreeAtOnce(t) ==
    /\ Goto(t, "spin", "take")
    /\ UNCHANGED <<lists, ops, res, handler>>

\* spin_wait_until_eq(handler_busy, 0), a test and, as the next step, a set.
SeeFree(t) ==
    /\ Goto(t, "spin", "take")
    /\ ~handler_busy
    /\ UNCHANGED <<lists, ops, res, handler>>

TakeHandler(t) ==
    /\ Goto(t, "take", "grab")
    /\ handler_busy' = TRUE
    /\ UNCHANGED <<pending_operations, ops, res, handler>>

\* op_list = pending_operations.fetch_and_store(NULL)
GrabList(t) ==
    /\ Goto(t, "grab", "handle")
    /\ op_list' = [op_list EXCEPT ![t] = pending_operations]
    /\ pending_operations' = NULL
    /\ UNCHANGED <<handler_busy, ops, res, tmp>>

\* handle_operations: an operation is executed, and its successor read ...
HandleOperation(t) ==
    /\ Goto(t, "handle", "store")
    /\ op_list[t] # NULL
    /\ tmp' = [tmp EXCEPT ![t] = op_list[t]]
    /\ op_list' = [op_list EXCEPT ![t] = next[op_list[t]]]
    /\ UNCHANGED <<lists, ops, res>>

\* ... before its status is stored, which lets its thread go on.
StoreStatus(t) ==
    /\ Goto(t, "store", "handle")
    /\ status' = [status EXCEPT ![tmp[t]] = 1]
    /\ tmp' = [tmp EXCEPT ![t] = NULL]
    /\ UNCHANGED <<lists, next, res, op_list>>

\* Mutant: handler_busy stays set.
ReleaseHandlerBusy(t) ==
    /\ Goto(t, "handle", "executed")
    /\ op_list[t] = NULL
    /\ UNCHANGED <<lists, ops, res, handler>>

\* The list is done: handler_busy = 0
ReleaseHandler(t) ==
    /\ Goto(t, "handle", "executed")
    /\ op_list[t] = NULL
    /\ handler_busy' = FALSE
    /\ UNCHANGED <<pending_operations, ops, res, handler>>

AggStep(t) ==
    \/ LinkOperation(t) \/ PushOperation(t) \/ SeeStatus(t)
    \/ SeeFree(t) \/ TakeHandler(t) \/ GrabList(t)
    \/ StoreStatus(t) \/ ReleaseHandler(t)

(***************************************************************************)
(* Properties.                                                             *)
(***************************************************************************)
AggPC == {"link", "push", "wait", "spin", "take", "grab", "handle", "store",
          "executed"}

AggTypeOK ==
    /\ pending_operations \in Thread \cup {NULL}
    /\ handler_busy \in BOOLEAN
    /\ status \in [Thread -> {0, 1}]
    /\ next \in [Thread -> Thread \cup {NULL}]
    /\ res \in [Thread -> Thread \cup {NULL}]
    /\ op_list \in [Thread -> Thread \cup {NULL}]
    /\ tmp \in [Thread -> Thread \cup {NULL}]

\* The thread that opened the list and has not taken it.
Opener(t) == pc[t] \in {"spin", "take", "grab"}

\* The thread that executes operations.
Handling(t) == pc[t] \in {"grab", "handle", "store"}

\* "Only one thread can possibly spin here at a time": the test and the set
\* of handler_busy need not be one step, operations are executed serially.
OneHandler ==
    /\ \A t, u \in Thread : Opener(t) /\ Opener(u) => t = u
    /\ \A t, u \in Thread : Handling(t) /\ Handling(u) => t = u

\* The operations reached from o along links: the smallest set that has o and
\* the successor of each of its members.
Chain(links, o) ==
    {p \in Thread : \A S \in SUBSET Thread :
        o \in S \cup {NULL} /\ (\A q \in S : links[q] \in S \cup {NULL}) => p \in S}

\* The handler's own operation was in the list that it took:
\* __TBB_ASSERT(op->status) of execute.
OwnStatusSet == \A t \in Thread : pc[t] = "executed" => status[t] = 1

\* The operations that were put into the list and not yet executed, those that
\* nobody has taken and those in the hands of t.
Pushed == {t \in Thread : \/ pc[t] = "wait" /\ status[t] = 0
                          \/ Opener(t)
                          \/ pc[t] \in {"handle", "store"} /\ status[t] = 0}

Pending == Chain(next, pending_operations)

Taken(t) == Chain(next, op_list[t]) \cup (IF pc[t] = "store" THEN {tmp[t]} ELSE {})

\* Every operation of a thread that waits for another one is in exactly one
\* place: the list of pending ones, which has an opener, or the hands of the
\* handler.  No operation is lost, none is executed twice, and none whose
\* thread went on, so that its stack frame is gone, is reached any more.
OperationsTracked ==
    LET handlers == {t \in Thread : Handling(t)}
    IN  /\ Pending \cup UNION {Taken(t) : t \in handlers} = Pushed
        /\ \A t \in handlers : Pending \cap Taken(t) = {}
        /\ \A t \in handlers : pc[t] = "store" => tmp[t] \notin Chain(next, op_list[t])
        /\ (Pending # {}) = (\E t \in Thread : Opener(t))
        /\ OwnStatusSet
===============================================================================
