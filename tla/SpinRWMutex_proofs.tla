-------------------------- MODULE SpinRWMutex_proofs --------------------------
(***************************************************************************)
(* Proofs about SpinRWMutex, for every finite number of threads.           *)
(***************************************************************************)
EXTENDS SpinRWMutex, TLAPS, FiniteSetTheorems

CountedSet == {t \in Thread : Counted(t)}

\* A thread that moves to a step where it is counted as before, ...
LEMMA CountKept ==
    ASSUME TypeOK, NEW t \in Thread, NEW to, pc' = [pc EXCEPT ![t] = to],
           Counted(t)' <=> Counted(t)
    PROVE  CountedSet' = CountedSet
  BY DEF CountedSet, Counted, Reads, TypeOK

\* ... one that counts itself, ...
LEMMA CountAdded ==
    ASSUME TypeOK, NEW t \in Thread, NEW to, pc' = [pc EXCEPT ![t] = to],
           ~Counted(t), Counted(t)'
    PROVE  Cardinality(CountedSet') = Cardinality(CountedSet) + 1
  <1>1. CountedSet' = CountedSet \cup {t} /\ t \notin CountedSet
    BY DEF CountedSet, Counted, Reads, TypeOK
  <1>2. IsFiniteSet(CountedSet)
    BY ThreadAssumption, FS_Subset DEF CountedSet
  <1> QED
    BY <1>1, <1>2, FS_AddElement

\* ... and one that takes itself back.
LEMMA CountRemoved ==
    ASSUME TypeOK, NEW t \in Thread, NEW to, pc' = [pc EXCEPT ![t] = to],
           Counted(t), ~(Counted(t)')
    PROVE  /\ Cardinality(CountedSet') = Cardinality(CountedSet) - 1
           /\ Cardinality(CountedSet) \in Nat \ {0}
  <1>1. CountedSet' = CountedSet \ {t} /\ t \in CountedSet
    BY DEF CountedSet, Counted, Reads, TypeOK
  <1>2. IsFiniteSet(CountedSet)
    BY ThreadAssumption, FS_Subset DEF CountedSet
  <1> QED
    BY <1>1, <1>2, FS_RemoveElement, FS_CardinalityType, FS_EmptySet

\* A count of nothing, of one and of two.
LEMMA CountFacts ==
    /\ IsFiniteSet(CountedSet) /\ Cardinality(CountedSet) \in Nat
    /\ Cardinality(CountedSet) = 0 => CountedSet = {}
    /\ \A t, u \in CountedSet : Cardinality(CountedSet) = 1 => t = u
  <1>1. IsFiniteSet(CountedSet) /\ Cardinality(CountedSet) \in Nat
    BY ThreadAssumption, FS_Subset, FS_CardinalityType DEF CountedSet
  <1>2. Cardinality(CountedSet) = 0 => CountedSet = {}
    BY <1>1, FS_EmptySet
  <1>3. ASSUME NEW t \in CountedSet, NEW u \in CountedSet, Cardinality(CountedSet) = 1
        PROVE  t = u
    BY <1>1, <1>3, FS_Singleton
  <1> QED
    BY <1>1, <1>2, <1>3

LEMMA TypeOKInit == Init => TypeOK
  BY DEF Init, TypeOK, Free

\* A compare-and-swap of a writer that succeeds finds the lock free ...
LEMMA CasFindsFree ==
    ASSUME IInv, NEW t \in Thread, pc[t] \in {"cas_w", "try_cas_w"}, state = s[t]
    PROVE  /\ state.readers = 0 /\ ~state.writer /\ CountedSet = {}
           /\ \A u \in Thread : ~Reads(u) /\ ~Flagged(u) /\ ~Writes(u)
  <1>1. state.readers = 0 /\ ~state.writer
    BY DEF IInv, TypeOK, ReadFits, Busy
  <1>2. CountedSet = {}
    BY <1>1, CountFacts DEF IInv, StateExact, CountedSet
  <1> QED
    BY <1>1, <1>2 DEF IInv, StateExact, CountedSet, Counted, Flagged, Writes

\* ... and that of an upgrade finds no writer, and no upgrade: that would be
\* pending, and the two threads would not be one reader.
LEMMA UpgradeFindsNone ==
    ASSUME IInv, NEW t \in Thread, pc[t] = "cas_u", state = s[t]
    PROVE  ~state.writer /\ \A u \in Thread : ~Flagged(u)
  <1>1. Reads(t)
    BY DEF Reads
  <1>2. ASSUME NEW u \in Thread, Flagged(u) PROVE FALSE
    <2>1. pc[u] = "sole_u"
      BY <1>1, <1>2 DEF IInv, Exclusion, SoleStaysAlone, Flagged, Writes
    <2>2. state.pending
      BY <2>1 DEF IInv, UpgradeBlocks
    <2>3. state.readers = 1
      BY <2>2 DEF IInv, ReadFits, MayUpgrade
    <2>4. t \in CountedSet /\ u \in CountedSet
      BY <1>1, <2>1 DEF CountedSet, Counted, Reads
    <2> QED
      BY <2>1, <2>3, <2>4, CountFacts DEF IInv, StateExact, CountedSet
  <1> QED
    BY <1>2 DEF IInv, StateExact

\* Every step keeps the types.
LEMMA StepType ==
    ASSUME IInv, NEW t \in Thread, Begin(t) \/ Step(t) \/ Use(t)
    PROVE  TypeOK'
  <1>a. state \in [writer : BOOLEAN, pending : BOOLEAN, readers : Nat]
    BY DEF IInv, TypeOK
  <1>b. Counted(t) => state.readers - 1 \in Nat
    BY <1>a, CountFacts, FS_EmptySet DEF IInv, StateExact, CountedSet
  <1>c. TypeOK
    BY DEF IInv
  <1> USE <1>a, <1>b, <1>c DEF TypeOK, Goto, Call, Forget, Free, Written, Counted, Reads
  <1>1. CASE AcquireWriter(t) \/ AcquireReader(t) \/ TryReader(t)
             \/ LoadReader(t) \/ SoleReader(t)
    BY <1>1 DEF AcquireWriter, AcquireReader, TryReader, LoadReader, SoleReader
  <1>2. CASE TryWriter(t) \/ LoadWriter(t)
    <2>1. CASE TryWriter(t)
      BY <2>1 DEF TryWriter
    <2>2. CASE LoadWriter(t)
      BY <2>2 DEF LoadWriter
    <2> QED
      BY <1>2, <2>1, <2>2
  <1>3. CASE CasWriter(t) \/ TryCasWriter(t)
    <2>1. CASE CasWriter(t)
      BY <2>1 DEF CasWriter
    <2>2. CASE TryCasWriter(t)
      BY <2>2 DEF TryCasWriter
    <2> QED
      BY <1>3, <2>1, <2>2
  <1>4. CASE OrPending(t)
    BY <1>4 DEF OrPending
  <1>5. CASE ReleaseWriter(t)
    BY <1>5 DEF ReleaseWriter
  <1>6. CASE AddReader(t) \/ TryAddReader(t)
    BY <1>6 DEF AddReader, TryAddReader
  <1>7. CASE UndoReader(t) \/ TryUndoReader(t) \/ ReleaseReader(t)
             \/ ReleaseToUpgrade(t)
    BY <1>7 DEF UndoReader, TryUndoReader, ReleaseReader, ReleaseToUpgrade
  <1>8. CASE LoadUpgrade(t) \/ RetryUpgrade(t)
    <2>1. CASE LoadUpgrade(t)
      BY <2>1 DEF LoadUpgrade
    <2>2. CASE RetryUpgrade(t)
      BY <2>2 DEF RetryUpgrade
    <2> QED
      BY <1>8, <2>1, <2>2
  <1>9. CASE SetUpgrade(t)
    BY <1>9 DEF SetUpgrade
  <1>10. CASE FinishUpgrade(t)
    BY <1>10 DEF FinishUpgrade
  <1>11. CASE Downgrade(t)
    <2>1. state.readers + 1 \in Nat /\ state.pending \in BOOLEAN
      OBVIOUS
    <2>2. state' = [writer |-> FALSE, pending |-> state.pending,
                    readers |-> state.readers + 1]
      BY <1>11 DEF Downgrade
    <2>3. state' \in [writer : BOOLEAN, pending : BOOLEAN, readers : Nat]
      BY <2>1, <2>2
    <2> QED
      BY <1>11, <2>3 DEF Downgrade
  <1> QED
    BY <1>1, <1>2, <1>3, <1>4, <1>5, <1>6, <1>7, <1>8, <1>9, <1>10, <1>11 DEF Begin, Step, Use

\* Every step keeps the count: it moves its thread in or out of CountedSet
\* when it adds or subtracts ONE_READER, and at no other time.
LEMMA StepCount ==
    ASSUME IInv, NEW t \in Thread, Begin(t) \/ Step(t) \/ Use(t)
    PROVE  state'.readers = Cardinality(CountedSet')
  <1>a. /\ state \in [writer : BOOLEAN, pending : BOOLEAN, readers : Nat]
        /\ state.readers = Cardinality(CountedSet)
        /\ TypeOK
    BY DEF IInv, TypeOK, StateExact, CountedSet
  <1> USE <1>a DEF Goto, Call, Counted, Reads
  <1>1. CASE AcquireWriter(t) \/ AcquireReader(t) \/ TryReader(t)
             \/ LoadReader(t) \/ SoleReader(t)
    <2>1. CountedSet' = CountedSet
      BY <1>1, CountKept DEF TypeOK, AcquireWriter, AcquireReader, TryReader, LoadReader, SoleReader
    <2> QED
      BY <1>1, <2>1 DEF AcquireWriter, AcquireReader, TryReader, LoadReader, SoleReader
  <1>2. CASE TryWriter(t) \/ LoadWriter(t)
    <2>1. CountedSet' = CountedSet
      BY <1>2, CountKept DEF TypeOK, TryWriter, LoadWriter
    <2> QED
      BY <1>2, <2>1 DEF TryWriter, LoadWriter
  <1>3. CASE CasWriter(t) \/ TryCasWriter(t)
    <2>1. CountedSet' = CountedSet
      BY <1>3, CountKept DEF TypeOK, CasWriter, TryCasWriter
    <2>2. state'.readers = state.readers
      BY <1>3, CasFindsFree DEF CasWriter, TryCasWriter, Written, Free
    <2> QED
      BY <2>1, <2>2
  <1>4. CASE OrPending(t)
    <2>1. CountedSet' = CountedSet
      BY <1>4, CountKept DEF TypeOK, OrPending
    <2> QED
      BY <1>4, <2>1 DEF OrPending
  <1>5. CASE ReleaseWriter(t)
    <2>1. CountedSet' = CountedSet
      BY <1>5, CountKept DEF TypeOK, ReleaseWriter
    <2> QED
      BY <1>5, <2>1 DEF ReleaseWriter, Free
  <1>6. CASE AddReader(t) \/ TryAddReader(t)
    <2>1. Cardinality(CountedSet') = Cardinality(CountedSet) + 1
      BY <1>6, CountAdded DEF TypeOK, AddReader, TryAddReader
    <2> QED
      BY <1>6, <2>1, CountFacts DEF AddReader, TryAddReader
  <1>7. CASE UndoReader(t) \/ TryUndoReader(t) \/ ReleaseReader(t)
             \/ ReleaseToUpgrade(t)
    <2>1. Cardinality(CountedSet') = Cardinality(CountedSet) - 1
      BY <1>7, CountRemoved DEF TypeOK, UndoReader, TryUndoReader, ReleaseReader, ReleaseToUpgrade
    <2> QED
      BY <1>7, <2>1, CountFacts DEF UndoReader, TryUndoReader, ReleaseReader, ReleaseToUpgrade
  <1>8. CASE LoadUpgrade(t) \/ RetryUpgrade(t)
    <2>1. CountedSet' = CountedSet
      BY <1>8, CountKept DEF TypeOK, LoadUpgrade, RetryUpgrade
    <2> QED
      BY <1>8, <2>1 DEF LoadUpgrade, RetryUpgrade
  <1>9. CASE SetUpgrade(t)
    <2>1. CountedSet' = CountedSet
      BY <1>9, CountKept DEF TypeOK, SetUpgrade
    <2> QED
      BY <1>9, <2>1 DEF SetUpgrade
  <1>10. CASE FinishUpgrade(t)
    <2>1. Cardinality(CountedSet') = Cardinality(CountedSet) - 1
      BY <1>10, CountRemoved DEF TypeOK, FinishUpgrade
    <2> QED
      BY <1>10, <2>1, CountFacts DEF FinishUpgrade
  <1>11. CASE Downgrade(t)
    <2>1. Cardinality(CountedSet') = Cardinality(CountedSet) + 1
      BY <1>11, CountAdded DEF TypeOK, Downgrade
    <2> QED
      BY <1>11, <2>1, CountFacts DEF Downgrade
  <1> QED
    BY <1>1, <1>2, <1>3, <1>4, <1>5, <1>6, <1>7, <1>8, <1>9, <1>10, <1>11 DEF Begin, Step, Use

\* Every step keeps the writer flag the flag of one thread.
LEMMA StepExact ==
    ASSUME IInv, NEW t \in Thread, Begin(t) \/ Step(t) \/ Use(t)
    PROVE  StateExact'
  <1>a. /\ state \in [writer : BOOLEAN, pending : BOOLEAN, readers : Nat]
        /\ TypeOK /\ StateExact
        /\ state'.readers = Cardinality({u \in Thread : Counted(u)'})
    BY StepCount DEF IInv, TypeOK, CountedSet
  <1> USE <1>a DEF TypeOK, StateExact, Flagged, Goto, Call, Free, Written
  <1>1. CASE AcquireWriter(t) \/ AcquireReader(t) \/ TryReader(t)
             \/ LoadReader(t) \/ SoleReader(t)
    BY <1>1 DEF AcquireWriter, AcquireReader, TryReader, LoadReader, SoleReader
  <1>2. CASE TryWriter(t) \/ LoadWriter(t)
    BY <1>2 DEF TryWriter, LoadWriter
  <1>3. CASE CasWriter(t) \/ TryCasWriter(t)
    BY <1>3, CasFindsFree DEF CasWriter, TryCasWriter
  <1>4. CASE OrPending(t)
    BY <1>4 DEF OrPending
  <1>5. CASE ReleaseWriter(t)
    BY <1>5 DEF ReleaseWriter
  <1>6. CASE AddReader(t) \/ TryAddReader(t)
    BY <1>6 DEF AddReader, TryAddReader
  <1>7. CASE UndoReader(t) \/ TryUndoReader(t) \/ ReleaseReader(t)
             \/ ReleaseToUpgrade(t)
    BY <1>7 DEF UndoReader, TryUndoReader, ReleaseReader, ReleaseToUpgrade
  <1>8. CASE LoadUpgrade(t) \/ RetryUpgrade(t)
    BY <1>8 DEF LoadUpgrade, RetryUpgrade
  <1>9. CASE SetUpgrade(t)
    BY <1>9, UpgradeFindsNone DEF SetUpgrade
  <1>10. CASE FinishUpgrade(t)
    BY <1>10 DEF FinishUpgrade
  <1>11. CASE Downgrade(t)
    BY <1>11 DEF Downgrade
  <1> QED
    BY <1>1, <1>2, <1>3, <1>4, <1>5, <1>6, <1>7, <1>8, <1>9, <1>10, <1>11 DEF Begin, Step, Use

\* Every step keeps the flags of upgrades and of waiting writers: only an
\* acquisition or a release by a writer, or the end of an upgrade, clears
\* WRITER_PENDING, and no upgrade is under way then.
LEMMA StepFlags ==
    ASSUME IInv, NEW t \in Thread, Begin(t) \/ Step(t) \/ Use(t)
    PROVE  (UpgradeBlocks /\ ReadFits /\ PendingIsOwned)'
  <1>a. /\ state \in [writer : BOOLEAN, pending : BOOLEAN, readers : Nat]
        /\ TypeOK /\ StateExact /\ UpgradeBlocks /\ ReadFits /\ PendingIsOwned
    BY DEF IInv, TypeOK
  <1> USE <1>a DEF TypeOK, StateExact, UpgradeBlocks, ReadFits, PendingIsOwned,
                   Announces, Flagged, Goto, Call, Forget, Busy, MayUpgrade, Free, Written
  <1>1. CASE AcquireWriter(t) \/ AcquireReader(t) \/ TryReader(t)
             \/ LoadReader(t) \/ SoleReader(t)
    <2>1. CASE SoleReader(t)
      BY <2>1 DEF SoleReader
    <2>2. CASE AcquireWriter(t) \/ AcquireReader(t)
      BY <2>2 DEF AcquireWriter, AcquireReader
    <2>3. CASE TryReader(t)
      BY <2>3 DEF TryReader
    <2>4. CASE LoadReader(t)
      BY <2>4 DEF LoadReader
    <2> QED
      BY <1>1, <2>1, <2>2, <2>3, <2>4
  <1>2. CASE TryWriter(t) \/ LoadWriter(t)
    <2>1. CASE TryWriter(t)
      BY <2>1 DEF TryWriter
    <2>2. CASE LoadWriter(t)
      BY <2>2 DEF LoadWriter
    <2> QED
      BY <1>2, <2>1, <2>2
  <1>3. CASE CasWriter(t) \/ TryCasWriter(t)
    <2>1. CASE CasWriter(t)
      BY <2>1 DEF CasWriter
    <2>2. CASE TryCasWriter(t)
      BY <2>2 DEF TryCasWriter
    <2> QED
      BY <1>3, <2>1, <2>2
  <1>4. CASE OrPending(t)
    BY <1>4 DEF OrPending
  <1>5. CASE ReleaseWriter(t)
    BY <1>5 DEF ReleaseWriter
  <1>6. CASE AddReader(t) \/ TryAddReader(t)
    <2>1. CASE AddReader(t)
      BY <2>1 DEF AddReader
    <2>2. CASE TryAddReader(t)
      BY <2>2 DEF TryAddReader
    <2> QED
      BY <1>6, <2>1, <2>2
  <1>7. CASE UndoReader(t) \/ TryUndoReader(t) \/ ReleaseReader(t)
             \/ ReleaseToUpgrade(t)
    <2>1. CASE UndoReader(t)
      BY <2>1 DEF UndoReader
    <2>2. CASE TryUndoReader(t)
      BY <2>2 DEF TryUndoReader
    <2>3. CASE ReleaseReader(t)
      BY <2>3 DEF ReleaseReader
    <2>4. CASE ReleaseToUpgrade(t)
      BY <2>4 DEF ReleaseToUpgrade
    <2> QED
      BY <1>7, <2>1, <2>2, <2>3, <2>4
  <1>8. CASE LoadUpgrade(t) \/ RetryUpgrade(t)
    <2>1. CASE LoadUpgrade(t)
      BY <2>1 DEF LoadUpgrade
    <2>2. CASE RetryUpgrade(t)
      BY <2>2 DEF RetryUpgrade
    <2> QED
      BY <1>8, <2>1, <2>2
  <1>9. CASE SetUpgrade(t)
    BY <1>9 DEF SetUpgrade
  <1>10. CASE FinishUpgrade(t)
    BY <1>10 DEF FinishUpgrade
  <1>11. CASE Downgrade(t)
    BY <1>11 DEF Downgrade
  <1> QED
    BY <1>1, <1>2, <1>3, <1>4, <1>5, <1>6, <1>7, <1>8, <1>9, <1>10, <1>11 DEF Begin, Step, Use

\* Every step keeps writers alone.
LEMMA StepExclusion ==
    ASSUME IInv, NEW t \in Thread, Begin(t) \/ Step(t) \/ Use(t)
    PROVE  (Exclusion /\ SoleStaysAlone)'
  <1>a. /\ state \in [writer : BOOLEAN, pending : BOOLEAN, readers : Nat]
        /\ TypeOK /\ StateExact /\ Exclusion /\ SoleStaysAlone
    BY DEF IInv, TypeOK
  <1>b. SoleReader(t) /\ pc[t]' = "sub_u" => \A u \in Thread : Reads(u) \/ Writes(u) => u = t
    <2> SUFFICES ASSUME SoleReader(t), pc[t]' = "sub_u", NEW u \in Thread,
                        Reads(u) \/ Writes(u)
                 PROVE  u = t
      OBVIOUS
    <2>1. pc[t] = "sole_u" /\ state.readers = 1
      BY <1>a DEF SoleReader, Call, Goto, TypeOK
    <2>2. CASE Writes(u)
      BY <1>a, <2>1, <2>2 DEF StateExact, Flagged, Writes
    <2>3. CASE Reads(u)
      BY <1>a, <2>1, <2>3, CountFacts DEF StateExact, CountedSet, Counted, Reads
    <2> QED
      BY <2>2, <2>3
  <1> USE <1>a, <1>b DEF TypeOK, StateExact, Exclusion, SoleStaysAlone, Flagged, Writes,
                         Reads, Goto, Call
  <1>1. CASE AcquireWriter(t) \/ AcquireReader(t) \/ TryReader(t)
             \/ LoadReader(t) \/ SoleReader(t)
    <2>1. CASE AcquireWriter(t)
      BY <2>1 DEF AcquireWriter
    <2>2. CASE AcquireReader(t)
      BY <2>2 DEF AcquireReader
    <2>3. CASE TryReader(t)
      BY <2>3 DEF TryReader
    <2>4. CASE LoadReader(t)
      BY <2>4 DEF LoadReader
    <2>5. CASE SoleReader(t)
      BY <2>5 DEF SoleReader
    <2> QED
      BY <1>1, <2>1, <2>2, <2>3, <2>4, <2>5
  <1>2. CASE TryWriter(t) \/ LoadWriter(t)
    <2>1. CASE TryWriter(t)
      BY <2>1 DEF TryWriter
    <2>2. CASE LoadWriter(t)
      BY <2>2 DEF LoadWriter
    <2> QED
      BY <1>2, <2>1, <2>2
  <1>3. CASE CasWriter(t) \/ TryCasWriter(t)
    <2>1. CASE CasWriter(t)
      BY <2>1, CasFindsFree DEF CasWriter
    <2>2. CASE TryCasWriter(t)
      BY <2>2, CasFindsFree DEF TryCasWriter
    <2> QED
      BY <1>3, <2>1, <2>2
  <1>4. CASE OrPending(t)
    BY <1>4 DEF OrPending
  <1>5. CASE ReleaseWriter(t)
    BY <1>5 DEF ReleaseWriter
  <1>6. CASE AddReader(t) \/ TryAddReader(t)
    <2>1. CASE AddReader(t)
      BY <2>1 DEF AddReader
    <2>2. CASE TryAddReader(t)
      BY <2>2 DEF TryAddReader
    <2> QED
      BY <1>6, <2>1, <2>2
  <1>7. CASE UndoReader(t) \/ TryUndoReader(t) \/ ReleaseReader(t)
             \/ ReleaseToUpgrade(t)
    <2>1. CASE UndoReader(t)
      BY <2>1 DEF UndoReader
    <2>2. CASE TryUndoReader(t)
      BY <2>2 DEF TryUndoReader
    <2>3. CASE ReleaseReader(t)
      BY <2>3 DEF ReleaseReader
    <2>4. CASE ReleaseToUpgrade(t)
      BY <2>4 DEF ReleaseToUpgrade
    <2> QED
      BY <1>7, <2>1, <2>2, <2>3, <2>4
  <1>8. CASE LoadUpgrade(t) \/ RetryUpgrade(t)
    <2>1. CASE LoadUpgrade(t)
      BY <2>1 DEF LoadUpgrade
    <2>2. CASE RetryUpgrade(t)
      BY <2>2 DEF RetryUpgrade
    <2> QED
      BY <1>8, <2>1, <2>2
  <1>9. CASE SetUpgrade(t)
    BY <1>9 DEF SetUpgrade
  <1>10. CASE FinishUpgrade(t)
    BY <1>10 DEF FinishUpgrade
  <1>11. CASE Downgrade(t)
    BY <1>11 DEF Downgrade
  <1> QED
    BY <1>1, <1>2, <1>3, <1>4, <1>5, <1>6, <1>7, <1>8, <1>9, <1>10, <1>11 DEF Begin, Step, Use

LEMMA StepInv ==
    ASSUME IInv, NEW t \in Thread, Begin(t) \/ Step(t) \/ Use(t)
    PROVE  IInv'
  BY StepType, StepExact, StepFlags, StepExclusion DEF IInv

LEMMA InitInv == Init => IInv
  <1> SUFFICES ASSUME Init PROVE IInv
    OBVIOUS
  <1>1. TypeOK
    BY DEF Init, TypeOK, Free
  <1>2. CountedSet = {}
    BY DEF Init, CountedSet, Counted, Reads
  <1>3. state.readers = Cardinality(CountedSet)
    BY <1>2, FS_EmptySet DEF Init, Free
  <1>4. StateExact
    BY <1>3 DEF Init, Free, StateExact, CountedSet, Flagged
  <1> QED
    BY <1>1, <1>4 DEF Init, Free, IInv, UpgradeBlocks, ReadFits, Exclusion, SoleStaysAlone,
       PendingIsOwned, Writes

LEMMA NextInv == IInv /\ [Next]_vars => IInv'
  <1>1. ASSUME IInv, UNCHANGED vars PROVE IInv'
    BY <1>1 DEF vars, IInv, TypeOK, StateExact, UpgradeBlocks, ReadFits, Exclusion,
       SoleStaysAlone, PendingIsOwned, Counted, Reads, Writes, Flagged, Announces
  <1> QED
    BY <1>1, StepInv DEF Next

\* The inductive invariant holds in every reachable state.
THEOREM Invariance == Spec => []IInv
  BY InitInv, NextInv, PTL DEF Spec

\* Every variable keeps its type.
THEOREM Typing == Spec => []TypeOK
  <1>1. IInv => TypeOK
    BY DEF IInv
  <1> QED
    BY <1>1, Invariance, PTL

\* A writer is alone, however many threads read, write and upgrade.
THEOREM MutualExclusion == Spec => []Exclusion
  <1>1. IInv => Exclusion
    BY DEF IInv
  <1> QED
    BY <1>1, Invariance, PTL

\* The word counts exactly the threads that added themselves to it, and its
\* flag is set for exactly one.
THEOREM StateIsExact == Spec => []StateExact
  <1>1. IInv => StateExact
    BY DEF IInv
  <1> QED
    BY <1>1, Invariance, PTL

\* The assertion of internal_upgrade never fails.
THEOREM UpgradeAssertion == Spec => []UpgradeBlocks
  <1>1. IInv => UpgradeBlocks
    BY DEF IInv
  <1> QED
    BY <1>1, Invariance, PTL

\* Readers are kept out only for as long as some thread wants to write.
THEOREM PendingOwned == Spec => []PendingIsOwned
  <1>1. IInv => PendingIsOwned
    BY DEF IInv
  <1> QED
    BY <1>1, Invariance, PTL

(***************************************************************************)
(* Refinement: the word and the program counters implement SharedLock.     *)
(***************************************************************************)
held == [t \in Thread |-> Mode(pc[t])]

LEMMA ModeFacts ==
    \A t \in Thread :
        /\ Mode(pc[t]) = "write" <=> Writes(t)
        /\ Mode(pc[t]) = "read" <=> Reads(t)
        /\ ~Writes(t) /\ ~Reads(t) => Mode(pc[t]) = "none"
  BY DEF Mode, Writes, Reads

\* A step of t, as SharedLock sees it.
LEMMA SetMode ==
    ASSUME TypeOK, NEW t \in Thread, NEW to, pc' = [pc EXCEPT ![t] = to]
    PROVE  Lock!Set(t, Mode(pc[t]), Mode(to))
  BY DEF TypeOK, Lock!Set

LEMMA OthersFacts ==
    ASSUME NEW t \in Thread
    PROVE  /\ Lock!OthersHold(t, {"write"}) <=> \E u \in Thread \ {t} : Writes(u)
           /\ Lock!OthersHold(t, {"read", "write"})
                 <=> \E u \in Thread \ {t} : Reads(u) \/ Writes(u)
  BY ModeFacts DEF Lock!OthersHold

\* A step that leaves the mode of its thread alone leaves held alone.
LEMMA HeldKept ==
    ASSUME TypeOK, NEW t \in Thread, NEW to, pc' = [pc EXCEPT ![t] = to],
           Mode(to) = Mode(pc[t])
    PROVE  held' = held
  BY DEF held, TypeOK

LEMMA StepRefines ==
    ASSUME IInv, NEW t \in Thread, Begin(t) \/ Step(t) \/ Use(t)
    PROVE  Lock!Next \/ held' = held
  <1> USE DEF Goto, Call
  <1>1. TypeOK
    BY DEF IInv
  <1>2. ASSUME pc[t] \in {"cas_w", "try_cas_w"}, state = s[t],
               pc' = [pc EXCEPT ![t] = "writer"]
        PROVE  Lock!Next
    <2>1. ~Lock!OthersHold(t, {"read", "write"})
      BY <1>2, CasFindsFree, OthersFacts
    <2>2. Lock!Set(t, "none", "write")
      BY <1>1, <1>2, SetMode DEF Mode
    <2> QED
      BY <2>1, <2>2 DEF Lock!AcquireWrite, Lock!Next
  <1>3. ASSUME pc[t] \in {"add_r", "try_add_r"}, ~state.writer,
               pc' = [pc EXCEPT ![t] = "reader"]
        PROVE  Lock!Next
    <2>1. ~Lock!OthersHold(t, {"write"})
      BY <1>3, OthersFacts DEF IInv, StateExact, Flagged, Writes
    <2>2. Lock!Set(t, "none", "read")
      BY <1>1, <1>3, SetMode DEF Mode
    <2> QED
      BY <2>1, <2>2 DEF Lock!AcquireRead, Lock!Next
  <1>4. CASE FinishUpgrade(t)
    <2>1. ~Lock!OthersHold(t, {"read", "write"})
      BY <1>4, OthersFacts DEF IInv, SoleStaysAlone, FinishUpgrade
    <2>2. Lock!Set(t, "read", "write")
      BY <1>1, <1>4, SetMode DEF Mode, FinishUpgrade
    <2> QED
      BY <2>1, <2>2 DEF Lock!Upgrade, Lock!Next
  <1>5. CASE ReleaseReader(t) \/ ReleaseToUpgrade(t)
    <2>1. Lock!Set(t, "read", "none")
      BY <1>1, <1>5, SetMode DEF Mode, ReleaseReader, ReleaseToUpgrade
    <2> QED
      BY <2>1 DEF Lock!ReleaseRead, Lock!Next
  <1>6. CASE ReleaseWriter(t)
    <2>1. Lock!Set(t, "write", "none")
      BY <1>1, <1>6, SetMode DEF Mode, ReleaseWriter
    <2> QED
      BY <2>1 DEF Lock!ReleaseWrite, Lock!Next
  <1>7. CASE Downgrade(t)
    <2>1. Lock!Set(t, "write", "read")
      BY <1>1, <1>7, SetMode DEF Mode, Downgrade
    <2> QED
      BY <2>1 DEF Lock!Downgrade, Lock!Next
  <1>8. CASE CasWriter(t) \/ TryCasWriter(t)
    BY <1>1, <1>2, <1>8, HeldKept DEF CasWriter, TryCasWriter, Mode
  <1>9. CASE AddReader(t) \/ TryAddReader(t)
    BY <1>1, <1>3, <1>9, HeldKept DEF AddReader, TryAddReader, Mode
  <1>10. CASE Begin(t)
    BY <1>1, <1>10, HeldKept
       DEF Begin, AcquireWriter, AcquireReader, TryWriter, TryReader, Mode
  <1>11. CASE LoadWriter(t) \/ OrPending(t) \/ LoadReader(t) \/ UndoReader(t) \/ TryUndoReader(t)
    BY <1>1, <1>11, HeldKept
       DEF LoadWriter, OrPending, LoadReader, UndoReader, TryUndoReader, Mode
  <1>12. CASE LoadUpgrade(t) \/ SetUpgrade(t) \/ RetryUpgrade(t) \/ SoleReader(t)
    BY <1>1, <1>12, HeldKept DEF LoadUpgrade, SetUpgrade, RetryUpgrade, SoleReader, Mode
  <1> QED
    BY <1>4, <1>5, <1>6, <1>7, <1>8, <1>9, <1>10, <1>11, <1>12 DEF Step, Use

\* The mutex implements SharedLock: its callers can think of acquisitions,
\* upgrades, downgrades and releases as single steps.
THEOREM Refinement == Spec => ImplementsLock
  <1>1. Init => Lock!Init
    BY DEF Init, Lock!Init, Mode
  <1>2. IInv /\ [Next]_vars => [Lock!Next]_held
    <2>1. ASSUME UNCHANGED vars PROVE held' = held
      BY <2>1 DEF vars, held
    <2> QED
      BY <2>1, StepRefines DEF Next
  <1> QED
    BY <1>1, <1>2, Invariance, PTL DEF Spec, ImplementsLock, Lock!Spec, held
===============================================================================
