----------------------------- MODULE SpinRWMutex -----------------------------
(***************************************************************************)
(* tbb::spin_rw_mutex, the lock of the buckets and of the items of         *)
(* concurrent_hash_map (src/src/intel/src/tbb/spin_rw_mutex.cpp): a word   *)
(* with a writer flag, the flag of a writer that waits, and the number of  *)
(* readers.  Each load, compare-and-swap, or and fetch-and-add of the word *)
(* is a step.                                                              *)
(* A thread that waits spins: a load that shows nothing new is a step too. *)
(*                                                                         *)
(* A thread is `unlocked', a `reader', a `writer', or at a step of one of  *)
(* the calls between them.  A reader counts itself before it knows whether *)
(* a writer was there first, and may have to undo it: the count may be     *)
(* greater than the number of readers at any time.                         *)
(***************************************************************************)
EXTENDS Naturals, FiniteSets

CONSTANT Thread

ASSUME ThreadAssumption == IsFiniteSet(Thread)

VARIABLES
    state,                     \* WRITER, WRITER_PENDING and READERS
    s,                         \* per thread: the state it read
    pc                         \* per thread: its next step

vars == <<state, s, pc>>

Free == [writer |-> FALSE, pending |-> FALSE, readers |-> 0]

\* CAS(state, WRITER, s)
Written == [Free EXCEPT !.writer = TRUE]

\* s & BUSY
Busy(w) == w.writer \/ w.readers > 0

Init ==
    /\ state = Free
    /\ s = [t \in Thread |-> Free]
    /\ pc = [t \in Thread |-> "unlocked"]

Goto(t, from, to) == pc[t] = from /\ pc' = [pc EXCEPT ![t] = to]

Forget(t) == s' = [s EXCEPT ![t] = Free]

\* A call that only moves the control.
Call(t, from, to) == Goto(t, from, to) /\ UNCHANGED <<state, s>>

(***************************************************************************)
(* internal_acquire_writer, internal_release_writer                        *)
(***************************************************************************)
AcquireWriter(t) == Call(t, "unlocked", "load_w")

LoadWriter(t) ==
    /\ Goto(t, "load_w", IF ~Busy(state) THEN "cas_w"
                         ELSE IF state.pending THEN "load_w" ELSE "or_w")
    /\ s' = [s EXCEPT ![t] = IF Busy(state) THEN Free ELSE state]
    /\ UNCHANGED state

CasWriter(t) ==
    /\ Goto(t, "cas_w", IF state = s[t] THEN "writer" ELSE "load_w")
    /\ state' = IF state = s[t] THEN Written ELSE state
    /\ Forget(t)

OrPending(t) ==
    /\ Goto(t, "or_w", "load_w")
    /\ state' = [state EXCEPT !.pending = TRUE]
    /\ UNCHANGED s

\* state &= READERS: writers that wait have to announce themselves again.
ReleaseWriter(t) ==
    /\ Goto(t, "writer", "unlocked")
    /\ state' = [Free EXCEPT !.readers = state.readers]
    /\ UNCHANGED s

(***************************************************************************)
(* internal_acquire_reader, internal_release_reader                        *)
(***************************************************************************)
AcquireReader(t) == Call(t, "unlocked", "load_r")

\* s & (WRITER | WRITER_PENDING)
Closed(w) == w.writer \/ w.pending

LoadReader(t) == Call(t, "load_r", IF Closed(state) THEN "load_r" ELSE "add_r")

\* Mutant: the reader does not look at the state it added itself to.
AddReaderBlind(t) ==
    /\ Goto(t, "add_r", "reader")
    /\ state' = [state EXCEPT !.readers = @ + 1]
    /\ UNCHANGED s

AddReader(t) ==
    /\ Goto(t, "add_r", IF state.writer THEN "undo_r" ELSE "reader")
    /\ state' = [state EXCEPT !.readers = @ + 1]
    /\ UNCHANGED s

UndoReader(t) ==
    /\ Goto(t, "undo_r", "load_r")
    /\ state' = [state EXCEPT !.readers = @ - 1]
    /\ UNCHANGED s

ReleaseReader(t) ==
    /\ Goto(t, "reader", "unlocked")
    /\ state' = [state EXCEPT !.readers = @ - 1]
    /\ UNCHANGED s

(***************************************************************************)
(* internal_upgrade, internal_downgrade                                    *)
(***************************************************************************)
\* Mutant: nobody looks for other upgrades.
MayUpgradeAlways(w) == TRUE

\* "either no pending writers, or we are the only reader"
MayUpgrade(w) == w.readers = 1 \/ ~w.pending

LoadUpgrade(t) ==
    /\ Goto(t, "reader", IF MayUpgrade(state) THEN "cas_u" ELSE "release_u")
    /\ s' = [s EXCEPT ![t] = IF MayUpgrade(state) THEN state ELSE Free]
    /\ UNCHANGED state

\* CAS(state, s | WRITER | WRITER_PENDING, s)
SetUpgrade(t) ==
    /\ Goto(t, "cas_u", "sole_u")
    /\ state = s[t]
    /\ state' = [state EXCEPT !.writer = TRUE, !.pending = TRUE]
    /\ Forget(t)

\* ... which failed, and read the state again.
RetryUpgrade(t) ==
    /\ Goto(t, "cas_u", IF MayUpgrade(state) THEN "cas_u" ELSE "release_u")
    /\ state # s[t]
    /\ s' = [s EXCEPT ![t] = IF MayUpgrade(state) THEN state ELSE Free]
    /\ UNCHANGED state

\* Mutant: the upgrade does not wait for the other readers.
SoleReaderAtOnce(t) == Call(t, "sole_u", "sub_u")

\* while( (state & READERS) != ONE_READER ) backoff.pause()
SoleReader(t) ==
    Call(t, "sole_u", IF state.readers = 1 THEN "sub_u" ELSE "sole_u")

\* state -= ONE_READER + WRITER_PENDING
FinishUpgrade(t) ==
    /\ Goto(t, "sub_u", "writer")
    /\ state' = [state EXCEPT !.pending = FALSE, !.readers = @ - 1]
    /\ UNCHANGED s

\* "slow reacquire": the lock is released, and acquired as any writer does.
ReleaseToUpgrade(t) ==
    /\ Goto(t, "release_u", "load_w")
    /\ state' = [state EXCEPT !.readers = @ - 1]
    /\ UNCHANGED s

\* Mutant: the writer flag stays.
DowngradeKeeps(t) ==
    /\ Goto(t, "writer", "reader")
    /\ state' = [state EXCEPT !.readers = @ + 1]
    /\ UNCHANGED s

\* state += ONE_READER - WRITER
Downgrade(t) ==
    /\ Goto(t, "writer", "reader")
    /\ state' = [state EXCEPT !.writer = FALSE, !.readers = @ + 1]
    /\ UNCHANGED s

(***************************************************************************)
(* internal_try_acquire_writer, internal_try_acquire_reader                *)
(***************************************************************************)
\* Mutant: a try announces a writer that does not wait.
TryWriterPending(t) ==
    /\ Goto(t, "unlocked", IF Busy(state) THEN "unlocked" ELSE "try_cas_w")
    /\ s' = [s EXCEPT ![t] = IF Busy(state) THEN Free ELSE state]
    /\ state' = [state EXCEPT !.pending = @ \/ Busy(state)]

TryWriter(t) ==
    /\ Goto(t, "unlocked", IF Busy(state) THEN "unlocked" ELSE "try_cas_w")
    /\ s' = [s EXCEPT ![t] = IF Busy(state) THEN Free ELSE state]
    /\ UNCHANGED state

TryCasWriter(t) ==
    /\ Goto(t, "try_cas_w", IF state = s[t] THEN "writer" ELSE "unlocked")
    /\ state' = IF state = s[t] THEN Written ELSE state
    /\ Forget(t)

TryReader(t) ==
    Call(t, "unlocked", IF Closed(state) THEN "unlocked" ELSE "try_add_r")

TryAddReader(t) ==
    /\ Goto(t, "try_add_r", IF state.writer THEN "try_undo_r" ELSE "reader")
    /\ state' = [state EXCEPT !.readers = @ + 1]
    /\ UNCHANGED s

TryUndoReader(t) ==
    /\ Goto(t, "try_undo_r", "unlocked")
    /\ state' = [state EXCEPT !.readers = @ - 1]
    /\ UNCHANGED s

(***************************************************************************)
(* The specification: a thread that holds the lock releases it some time,  *)
(* and a thread in a call keeps running.                                   *)
(***************************************************************************)
Begin(t) ==
    \/ AcquireWriter(t) \/ AcquireReader(t) \/ TryWriter(t) \/ TryReader(t)

Step(t) ==
    \/ LoadWriter(t) \/ CasWriter(t) \/ OrPending(t)
    \/ LoadReader(t) \/ AddReader(t) \/ UndoReader(t)
    \/ SetUpgrade(t) \/ RetryUpgrade(t) \/ SoleReader(t) \/ FinishUpgrade(t)
    \/ ReleaseToUpgrade(t) \/ TryCasWriter(t) \/ TryAddReader(t) \/ TryUndoReader(t)

\* What a thread that holds the lock does with it.
Use(t) ==
    \/ ReleaseWriter(t) \/ Downgrade(t) \/ ReleaseReader(t) \/ LoadUpgrade(t)

Next == \E t \in Thread : Begin(t) \/ Step(t) \/ Use(t)

Spec == Init /\ [][Next]_vars /\ \A t \in Thread : WF_vars(Step(t) \/ Use(t))

(***************************************************************************)
(* Properties.                                                             *)
(***************************************************************************)
TypeOK ==
    /\ state \in [writer : BOOLEAN, pending : BOOLEAN, readers : Nat]
    /\ s \in [Thread -> [writer : BOOLEAN, pending : BOOLEAN, readers : Nat]]
    /\ pc \in [Thread -> {"unlocked", "load_w", "cas_w", "or_w", "writer", "load_r",
                          "add_r", "undo_r", "reader", "cas_u", "sole_u", "sub_u",
                          "release_u", "try_cas_w", "try_add_r", "try_undo_r"}]

\* The threads that hold the lock, as their callers see it: one that waits
\* in an upgrade still reads.
Writes(t) == pc[t] = "writer"
Reads(t)  == pc[t] \in {"reader", "cas_u", "sole_u", "sub_u", "release_u"}

\* A writer is alone.
Exclusion == \A t, u \in Thread : Writes(t) /\ (Writes(u) \/ Reads(u)) => t = u

\* The count is that of the readers and of those that will undo it, and the
\* flag is that of one thread: nothing is lost by an and, an or or an add of
\* another thread, in whatever order.
Counted(t) == Reads(t) \/ pc[t] \in {"undo_r", "try_undo_r"}
Flagged(t) == pc[t] \in {"writer", "sole_u", "sub_u"}

StateExact ==
    /\ state.readers = Cardinality({t \in Thread : Counted(t)})
    /\ state.writer = (\E t \in Thread : Flagged(t))
    /\ \A t, u \in Thread : Flagged(t) /\ Flagged(u) => t = u

\* While a thread upgrades, both flags are set, "both new readers and
\* writers are blocked", as the assertion of internal_upgrade says: the
\* subtraction does not borrow.
UpgradeBlocks ==
    \A t \in Thread : pc[t] \in {"sole_u", "sub_u"} => state.writer /\ state.pending

\* The announcement of a writer never outlives it: it would keep readers
\* out for ever.  None comes from a try.
Announces(t) == pc[t] \in {"load_w", "cas_w", "or_w", "sole_u", "sub_u"}

PendingIsOwned == state.pending => \E t \in Thread : Announces(t)

\* What a thread knows from the state it read, and what it has to do with it.
ReadFits ==
    \A t \in Thread :
        /\ pc[t] \in {"cas_w", "try_cas_w"} => ~Busy(s[t])
        /\ pc[t] = "cas_u" => MayUpgrade(s[t])

\* A thread that saw that it is the only reader stays alone.
SoleStaysAlone ==
    \A t, u \in Thread : pc[t] = "sub_u" /\ (Writes(u) \/ Reads(u)) => t = u

\* The inductive invariant.
IInv ==
    /\ TypeOK /\ StateExact /\ UpgradeBlocks /\ ReadFits
    /\ Exclusion /\ SoleStaysAlone /\ PendingIsOwned

\* The mutex implements the lock that its callers think of.
Mode(p) == CASE p = "writer" -> "write"
             [] p \in {"reader", "cas_u", "sole_u", "sub_u", "release_u"} -> "read"
             [] OTHER -> "none"

Lock == INSTANCE SharedLock WITH held <- [t \in Thread |-> Mode(pc[t])]

ImplementsLock == Lock!Spec

\* An upgrade that announced itself ends, whatever the others do: of two
\* readers that upgrade, only one waits for the other.
UpgradeEnds == \A t \in Thread : pc[t] = "sole_u" ~> pc[t] = "writer"

\* Threads that wait for the lock never keep each other out for ever.
Waits(t) == pc[t] \in {"load_w", "cas_w", "or_w", "load_r", "add_r", "undo_r"}

SomeoneGetsIn ==
    (\E t \in Thread : Waits(t)) ~> (\E t \in Thread : Writes(t) \/ Reads(t))

\* Once a writer announced itself, readers that come and go cannot keep all
\* writers out.  (Before it did, they can: each time it finds the lock free,
\* its compare-and-swap may come too late.)
AnnouncedGetsIn == state.pending ~> (\E t \in Thread : Writes(t))
==============================================================================
