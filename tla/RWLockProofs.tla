---------------------------- MODULE RWLockProofs ----------------------------
(***************************************************************************)
(* Proofs about RWLock, for every finite set of threads and every nesting  *)
(* bound: the inductive invariant IInv, the safety invariants that follow  *)
(* from it, writer preference and the refinement of ReadWriteMutex.        *)
(***************************************************************************)
EXTENDS RWLock, FiniteSetTheorems, TLAPS

\* The counters carry the information of the two sets; exclusion follows from
\* `activeReaders = 0` only because of CountersAgree, and the counters are
\* kept only because no thread in a loop holds a lock.
IInv == /\ TypeOK
        /\ CountersAgree
        /\ MutualExclusion
        /\ NoSelfWait
        /\ NoLostWakeup

-----------------------------------------------------------------------------
(* The counted sets.                                                       *)

\* Subsets of Threads are finite, with a natural number as cardinality that is
\* zero only for the empty set: what the lock reads off its two counters.
LEMMA Counted ==
    ASSUME NEW S, S \subseteq Threads
    PROVE  /\ IsFiniteSet(S)
           /\ Cardinality(S) \in Nat
           /\ Cardinality(S) = 0 <=> S = {}
<1>1. IsFiniteSet(S)
  BY FS_Subset, RWLockAssumption
<1>2. Cardinality(S) \in Nat
  BY <1>1, FS_CardinalityType
<1>3. Cardinality(S) = 0 <=> S = {}
  BY <1>1, FS_EmptySet
<1>4. QED
  BY <1>1, <1>2, <1>3

\* A step that changes none of the four fields, leaves the loops' membership
\* alone and wakes threads only, keeps the invariant's parts about them.
LEMMA SameSets ==
    ASSUME UNCHANGED <<readerThreads, pc>>
    PROVE  Readers' = Readers /\ QueuedWriters' = QueuedWriters
BY DEF Readers, QueuedWriters

\* A pass through the read loop, from the call or from a wake-up, keeps the
\* invariant: entering adds the thread to the readers and counts it once.
LEMMA ReadLoopKeepsIInv ==
    ASSUME IInv,
           NEW t \in Threads, NEW d \in Deadlines,
           readerThreads[t] = 0, activeWriter # t,
           pc[t] \in {"outside", "readLoop"},
           ReadLoop(t, d)
    PROVE  IInv'
<1> USE DEF IInv, TypeOK, Deadlines
<1> t \notin Readers
  BY DEF Readers
<1> t \notin QueuedWriters
  BY DEF QueuedWriters
<1>1. CASE ReaderEnters(t)
  <2> USE <1>1 DEF ReaderEnters, Leaves
  <2>1. TypeOK'
    BY RWLockAssumption
  <2>2. Readers' = Readers \cup {t} /\ QueuedWriters' = QueuedWriters
    BY DEF Readers, QueuedWriters
  <2>3. Cardinality(Readers \cup {t}) = Cardinality(Readers) + 1
    BY Counted, FS_AddElement DEF Readers
  <2>4. CountersAgree'
    BY <2>2, <2>3 DEF CountersAgree
  <2>5. activeWriter = NoThread
    BY DEF ReadBlocked
  <2>6. MutualExclusion'
    BY <2>5 DEF MutualExclusion
  <2>7. NoSelfWait'
    BY <2>2 DEF NoSelfWait
  <2>8. NoLostWakeup'
    BY DEF NoLostWakeup, WriteBlocked
  <2>9. QED
    BY <2>1, <2>4, <2>6, <2>7, <2>8
<1>2. CASE ReaderTimesOut(t, d)
  <2> USE <1>2 DEF ReaderTimesOut, Leaves, fields
  <2>1. TypeOK'
    OBVIOUS
  <2>2. Readers' = Readers /\ QueuedWriters' = QueuedWriters
    BY DEF Readers, QueuedWriters
  <2>3. CountersAgree' /\ MutualExclusion' /\ NoSelfWait'
    BY <2>2 DEF CountersAgree, MutualExclusion, NoSelfWait
  <2>4. NoLostWakeup'
    BY DEF NoLostWakeup, ReadBlocked, WriteBlocked
  <2>5. QED
    BY <2>1, <2>3, <2>4
<1>3. CASE ReaderWaits(t, d)
  <2> USE <1>3 DEF ReaderWaits, Waits, fields
  <2>1. TypeOK'
    OBVIOUS
  <2>2. Readers' = Readers /\ QueuedWriters' = QueuedWriters
    BY DEF Readers, QueuedWriters
  <2>3. CountersAgree' /\ MutualExclusion' /\ NoSelfWait'
    BY <2>2 DEF CountersAgree, MutualExclusion, NoSelfWait
  <2>4. NoLostWakeup'
    BY DEF NoLostWakeup, ReadBlocked, WriteBlocked
  <2>5. QED
    BY <2>1, <2>3, <2>4
<1>4. QED
  BY <1>1, <1>2, <1>3 DEF ReadLoop

\* A pass through the write loop keeps the invariant.  `queued` counts the
\* caller whether it has just arrived or has been waiting, so leaving the loop
\* by either exit subtracts exactly the caller.
LEMMA WriteLoopKeepsIInv ==
    ASSUME IInv,
           NEW t \in Threads, NEW d \in Deadlines, NEW queued,
           readerThreads[t] = 0, activeWriter # t,
           pc[t] \in {"outside", "writeLoop"},
           queued = Cardinality(QueuedWriters \cup {t}),
           WriteLoop(t, d, queued)
    PROVE  IInv'
<1> USE DEF IInv, TypeOK, Deadlines
<1> DEFINE Others == QueuedWriters \ {t}
<1> t \notin Readers
  BY DEF Readers
<1>0. queued \in Nat /\ queued - 1 \in Nat /\ queued - 1 = Cardinality(Others)
  <2>1. QueuedWriters \cup {t} = Others \cup {t}
    OBVIOUS
  <2>2. Others \subseteq Threads
    BY DEF QueuedWriters
  <2>3. IsFiniteSet(Others) /\ Cardinality(Others) \in Nat
    BY <2>2, Counted
  <2>4. Cardinality(Others \cup {t}) = Cardinality(Others) + 1
    BY <2>3, FS_AddElement
  <2>5. queued = Cardinality(Others) + 1
    BY <2>1, <2>4
  <2>6. QED
    BY <2>3, <2>5
<1>1. CASE WriterEnters(t, queued)
  <2> USE <1>1 DEF WriterEnters, Leaves, NotifyAll
  <2>1. TypeOK'
    BY <1>0
  <2>2. Readers' = Readers /\ QueuedWriters' = Others
    BY DEF Readers, QueuedWriters
  <2>3. CountersAgree'
    BY <1>0, <2>2 DEF CountersAgree
  <2>4. activeReaders = 0 /\ activeWriter = NoThread
    BY DEF WriteBlocked
  <2>5. Readers = {}
    BY <2>4, Counted DEF CountersAgree, Readers
  <2>6. MutualExclusion'
    BY <2>2, <2>5 DEF MutualExclusion
  <2>7. NoSelfWait'
    BY <2>2, <2>4, <2>5 DEF NoSelfWait
  <2>8. NoLostWakeup'
    BY DEF NoLostWakeup
  <2>9. QED
    BY <2>1, <2>3, <2>6, <2>7, <2>8
<1>2. CASE WriterTimesOut(t, d, queued)
  <2> USE <1>2 DEF WriterTimesOut, Leaves, NotifyAll
  <2>1. TypeOK'
    BY <1>0
  <2>2. Readers' = Readers /\ QueuedWriters' = Others
    BY DEF Readers, QueuedWriters
  <2>3. CountersAgree'
    BY <1>0, <2>2 DEF CountersAgree
  <2>4. MutualExclusion' /\ NoSelfWait' /\ NoLostWakeup'
    BY <2>2 DEF MutualExclusion, NoSelfWait, NoLostWakeup
  <2>5. QED
    BY <2>1, <2>3, <2>4
<1>3. CASE WriterWaits(t, d, queued)
  <2> USE <1>3 DEF WriterWaits, Waits
  <2>1. TypeOK'
    BY <1>0
  <2>2. Readers' = Readers /\ QueuedWriters' = QueuedWriters \cup {t}
    BY DEF Readers, QueuedWriters
  <2>3. CountersAgree'
    BY <2>2 DEF CountersAgree
  <2>4. MutualExclusion' /\ NoSelfWait'
    BY <2>2 DEF MutualExclusion, NoSelfWait
  <2>5. queued > 0
    BY <1>0
  <2>6. NoLostWakeup'
    BY <2>5 DEF NoLostWakeup, ReadBlocked, WriteBlocked
  <2>7. QED
    BY <2>1, <2>3, <2>4, <2>6
<1>4. QED
  BY <1>1, <1>2, <1>3 DEF WriteLoop

\* The last read block of a thread ends: one reader less, and if it was the
\* last one every sleeper is woken, because writers may now proceed.
LEMMA ReleaseLastReadKeepsIInv ==
    ASSUME IInv, NEW t \in Threads, ReleaseLastRead(t)
    PROVE  IInv'
<1> USE DEF IInv, TypeOK, ReleaseLastRead, NotifyAll
<1>1. t \in Readers /\ Readers \subseteq Threads
  BY DEF Readers
<1>2. Readers' = Readers \ {t} /\ QueuedWriters' = QueuedWriters
  BY DEF Readers, QueuedWriters
<1>3. IsFiniteSet(Readers) /\ Cardinality(Readers) \in Nat /\ Cardinality(Readers) # 0
  BY <1>1, Counted
<1>4. Cardinality(Readers \ {t}) = Cardinality(Readers) - 1
  BY <1>1, <1>3, FS_RemoveElement
<1>5. activeReaders' \in Nat /\ activeReaders' = Cardinality(Readers')
  BY <1>2, <1>3, <1>4 DEF CountersAgree
<1>6. TypeOK'
  BY <1>5, RWLockAssumption
<1>7. CountersAgree'
  BY <1>2, <1>5 DEF CountersAgree
<1>8. MutualExclusion' /\ NoSelfWait'
  BY <1>2 DEF MutualExclusion, NoSelfWait
<1>9. NoLostWakeup'
  BY <1>5 DEF NoLostWakeup, ReadBlocked, WriteBlocked
<1>10. QED
  BY <1>6, <1>7, <1>8, <1>9

-----------------------------------------------------------------------------
(* The inductive invariant.                                                *)

LEMMA InitIInv == Init => IInv
<1> SUFFICES ASSUME Init PROVE IInv
  OBVIOUS
<1> USE DEF Init
<1>1. TypeOK
  BY RWLockAssumption DEF TypeOK, Deadlines
<1>2. Readers = {} /\ QueuedWriters = {}
  BY DEF Readers, QueuedWriters
<1>3. CountersAgree
  BY <1>2, FS_EmptySet DEF CountersAgree
<1>4. MutualExclusion /\ NoSelfWait /\ NoLostWakeup
  BY <1>2 DEF MutualExclusion, NoSelfWait, NoLostWakeup
<1>5. QED
  BY <1>1, <1>3, <1>4 DEF IInv

LEMMA StepIInv == IInv /\ [Next]_vars => IInv'
<1> SUFFICES ASSUME IInv, [Next]_vars PROVE IInv'
  OBVIOUS
<1>1. ASSUME NEW t \in Threads, Step(t) PROVE IInv'
  <2>1. CASE AcquireRead(t)
    BY <2>1, ReadLoopKeepsIInv DEF AcquireRead
  <2>2. CASE ReacquireRead(t)
    <3> USE <2>2 DEF ReacquireRead, IInv, TypeOK
    <3>1. TypeOK'
      BY RWLockAssumption
    <3>2. Readers' = Readers /\ QueuedWriters' = QueuedWriters
      BY RWLockAssumption DEF Readers, QueuedWriters
    <3>3. QED
      BY <3>1, <3>2 DEF CountersAgree, MutualExclusion, NoSelfWait, NoLostWakeup,
                        ReadBlocked, WriteBlocked
  <2>3. CASE ReaderWakes(t)
    <3>1. t \notin Readers /\ activeWriter # t
      BY <2>3 DEF ReaderWakes, IInv, NoSelfWait
    <3>2. readerThreads[t] = 0
      BY <3>1 DEF Readers, IInv, TypeOK
    <3>3. deadline[t] \in Deadlines
      BY DEF IInv, TypeOK
    <3>4. QED
      BY <2>3, <3>1, <3>2, <3>3, ReadLoopKeepsIInv DEF ReaderWakes
  <2>4. CASE ReleaseInnerRead(t)
    <3> USE <2>4 DEF ReleaseInnerRead, IInv, TypeOK
    <3>1. TypeOK'
      BY RWLockAssumption
    <3>2. Readers' = Readers /\ QueuedWriters' = QueuedWriters
      BY RWLockAssumption DEF Readers, QueuedWriters
    <3>3. QED
      BY <3>1, <3>2 DEF CountersAgree, MutualExclusion, NoSelfWait, NoLostWakeup,
                        ReadBlocked, WriteBlocked
  <2>5. CASE ReleaseLastRead(t)
    BY <2>5, ReleaseLastReadKeepsIInv
  <2>6. CASE AcquireWrite(t)
    <3>1. t \notin QueuedWriters /\ QueuedWriters \subseteq Threads
      BY <2>6 DEF AcquireWrite, QueuedWriters
    <3>2. waitingWriters + 1 = Cardinality(QueuedWriters \cup {t})
      BY <3>1, Counted, FS_AddElement DEF IInv, CountersAgree
    <3>3. QED
      BY <2>6, <3>2, WriteLoopKeepsIInv DEF AcquireWrite
  <2>7. CASE WriterWakes(t)
    <3>1. t \notin Readers /\ activeWriter # t
      BY <2>7 DEF WriterWakes, IInv, NoSelfWait
    <3>2. readerThreads[t] = 0 /\ deadline[t] \in Deadlines
      BY <3>1 DEF Readers, IInv, TypeOK
    <3>3. QueuedWriters \cup {t} = QueuedWriters
      BY <2>7 DEF WriterWakes, QueuedWriters
    <3>4. waitingWriters = Cardinality(QueuedWriters \cup {t})
      BY <3>3 DEF IInv, CountersAgree
    <3>5. QED
      BY <2>7, <3>1, <3>2, <3>4, WriteLoopKeepsIInv DEF WriterWakes
  <2>8. CASE ReleaseWrite(t)
    <3> USE <2>8 DEF ReleaseWrite, NotifyAll, IInv, TypeOK
    <3>1. TypeOK'
      OBVIOUS
    <3>2. Readers' = Readers /\ QueuedWriters' = QueuedWriters
      BY SameSets
    <3>3. QED
      BY <3>1, <3>2, RWLockAssumption
      DEF CountersAgree, MutualExclusion, NoSelfWait, NoLostWakeup
  <2>9. CASE DeadlinePasses(t)
    <3> USE <2>9 DEF DeadlinePasses, fields, IInv, TypeOK
    <3>1. TypeOK'
      BY DEF Deadlines
    <3>2. Readers' = Readers /\ QueuedWriters' = QueuedWriters
      BY SameSets
    <3>3. QED
      BY <3>1, <3>2 DEF CountersAgree, MutualExclusion, NoSelfWait, NoLostWakeup,
                        ReadBlocked, WriteBlocked
  <2>10. CASE Refuse(t)
    BY <2>10 DEF Refuse, vars, fields, IInv, TypeOK, CountersAgree, MutualExclusion,
       NoSelfWait, NoLostWakeup, ReadBlocked, WriteBlocked, Readers, QueuedWriters
  <2>11. QED
    BY <1>1, <2>1, <2>2, <2>3, <2>4, <2>5, <2>6, <2>7, <2>8, <2>9, <2>10
    DEF Step, ReleaseRead
<1>2. CASE UNCHANGED vars
  BY <1>2 DEF vars, fields, IInv, TypeOK, CountersAgree, MutualExclusion,
     NoSelfWait, NoLostWakeup, ReadBlocked, WriteBlocked, Readers, QueuedWriters
<1>3. QED
  BY <1>1, <1>2 DEF Next

\* In every reachable state of the lock the inductive invariant holds.
THEOREM Invariance == Spec => []IInv
<1>1. Init => IInv
  BY InitIInv
<1>2. IInv /\ [Next]_vars => IInv'
  BY StepIInv
<1>3. QED
  BY <1>1, <1>2, PTL DEF Spec

\* The fields keep their types; in particular neither counter of
\* runtime/rwlock.py ever goes below zero.
THEOREM TypeCorrect == Spec => []TypeOK
<1>1. IInv => TypeOK
  BY DEF IInv
<1>2. QED
  BY <1>1, Invariance, PTL

\* No thread reads while another one writes.
THEOREM Exclusion == Spec => []MutualExclusion
<1>1. IInv => MutualExclusion
  BY DEF IInv
<1>2. QED
  BY <1>1, Invariance, PTL

\* reader_count and writers_waiting report the sets they are documented to.
THEOREM Counters == Spec => []CountersAgree
<1>1. IInv => CountersAgree
  BY DEF IInv
<1>2. QED
  BY <1>1, Invariance, PTL

\* No thread sleeps in wait() after its loop condition became false.
THEOREM Wakeups == Spec => []NoLostWakeup
<1>1. IInv => NoLostWakeup
  BY DEF IInv
<1>2. QED
  BY <1>1, Invariance, PTL

-----------------------------------------------------------------------------
(* Writer preference.                                                      *)

\* A thread starts to read only when no thread is in the write loop: the
\* reader tests a counter, and the counter is zero only for the empty queue.
THEOREM Preference == Spec => WriterPreference
<1>1. ASSUME IInv, [Next]_vars,
             NEW t \in Threads, t \notin Readers, t \in Readers'
      PROVE  QueuedWriters = {}
  <2>1. readerThreads[t] = 0 /\ readerThreads'[t] > 0
    BY <1>1 DEF Readers, IInv, TypeOK
  <2>2. PICK u \in Threads : Step(u)
    <3>1. CASE UNCHANGED vars
      BY <2>1, <3>1 DEF vars, fields
    <3>2. QED
      BY <1>1, <3>1 DEF Next
  <2>3. ASSUME NEW d, ReadLoop(u, d) PROVE ~ReadBlocked
    BY <2>1, <2>3 DEF ReadLoop, ReaderEnters, ReaderTimesOut, ReaderWaits, fields
  <2>4. ~ReadBlocked
    <3>1. ASSUME NEW d, NEW q, WriteLoop(u, d, q) PROVE FALSE
      BY <2>1, <3>1 DEF WriteLoop, WriterEnters, WriterTimesOut, WriterWaits
    <3>2. CASE AcquireRead(u)
      BY <2>3, <3>2 DEF AcquireRead
    <3>3. CASE ReaderWakes(u)
      BY <2>3, <3>3 DEF ReaderWakes
    <3>4. CASE AcquireWrite(u) \/ WriterWakes(u)
      BY <3>1, <3>4 DEF AcquireWrite, WriterWakes
    <3>5. CASE ReacquireRead(u) \/ ReleaseInnerRead(u) \/ ReleaseLastRead(u)
      BY <1>1, <2>1, <3>5
      DEF ReacquireRead, ReleaseInnerRead, ReleaseLastRead, IInv, TypeOK
    <3>6. CASE ReleaseWrite(u) \/ Refuse(u) \/ DeadlinePasses(u)
      BY <2>1, <3>6 DEF ReleaseWrite, Refuse, DeadlinePasses, vars, fields
    <3>7. QED
      BY <2>2, <3>2, <3>3, <3>4, <3>5, <3>6 DEF Step, ReleaseRead
  <2>5. waitingWriters = 0
    BY <1>1, <2>4 DEF ReadBlocked, IInv, TypeOK
  <2>6. QED
    BY <1>1, <2>5, Counted DEF IInv, CountersAgree, QueuedWriters
<1>2. IInv /\ [Next]_vars =>
        [\A t \in Threads : (t \notin Readers /\ t \in Readers') => QueuedWriters = {}]_vars
  BY <1>1
<1>3. QED
  BY <1>2, Invariance, PTL DEF Spec, WriterPreference

-----------------------------------------------------------------------------
(* The refinement of ReadWriteMutex.                                       *)

\* A pass through the read loop is a ShareLock or leaves the lock's contract
\* state alone.
LEMMA ReadLoopRefines ==
    ASSUME IInv, NEW t \in Threads, NEW d, readerThreads[t] = 0, ReadLoop(t, d)
    PROVE  Mutex!ShareLock(t) \/ UNCHANGED Mutex!mutexVars
<1>1. CASE ReaderEnters(t)
  BY <1>1 DEF ReaderEnters, ReadBlocked, Mutex!ShareLock
<1>2. CASE ReaderTimesOut(t, d) \/ ReaderWaits(t, d)
  BY <1>2 DEF ReaderTimesOut, ReaderWaits, fields, Mutex!mutexVars
<1>3. QED
  BY <1>1, <1>2 DEF ReadLoop

\* A pass through the write loop is an OwnLock or leaves the state alone; that
\* a zero counter means no reader is CountersAgree again.
LEMMA WriteLoopRefines ==
    ASSUME IInv, NEW t \in Threads, NEW d, NEW queued, WriteLoop(t, d, queued)
    PROVE  Mutex!OwnLock(t) \/ UNCHANGED Mutex!mutexVars
<1>1. CASE WriterEnters(t, queued)
  <2>1. activeReaders = 0 /\ activeWriter = NoThread
    BY <1>1 DEF WriterEnters, WriteBlocked, IInv, TypeOK
  <2>2. Readers = {}
    BY <2>1, Counted DEF IInv, CountersAgree, Readers
  <2>3. \A u \in Threads : readerThreads[u] = 0
    BY <2>2 DEF Readers, IInv, TypeOK
  <2>4. QED
    BY <1>1, <2>1, <2>3 DEF WriterEnters, Mutex!OwnLock
<1>2. CASE WriterTimesOut(t, d, queued) \/ WriterWaits(t, d, queued)
  BY <1>2 DEF WriterTimesOut, WriterWaits, Mutex!mutexVars
<1>3. QED
  BY <1>1, <1>2 DEF WriteLoop

\* RWLock implements the readers-writer mutex its callers rely on.
THEOREM Refinement == Spec => ImplementsMutex
<1>1. Init => Mutex!MutexInit
  BY DEF Init, Mutex!MutexInit
<1>2. IInv /\ [Next]_vars => [Mutex!MutexNext]_(Mutex!mutexVars)
  <2> SUFFICES ASSUME IInv, [Next]_vars
               PROVE  [Mutex!MutexNext]_(Mutex!mutexVars)
    OBVIOUS
  <2>1. ASSUME NEW t \in Threads, Step(t)
        PROVE  Mutex!MutexNext \/ UNCHANGED Mutex!mutexVars
    <3>1. CASE AcquireRead(t)
      BY <3>1, ReadLoopRefines DEF AcquireRead, Mutex!MutexNext
    <3>2. CASE ReaderWakes(t)
      <4>1. readerThreads[t] = 0
        BY <3>2 DEF ReaderWakes, IInv, NoSelfWait, Readers, TypeOK
      <4>2. QED
        BY <3>2, <4>1, ReadLoopRefines DEF ReaderWakes, Mutex!MutexNext
    <3>3. CASE ReacquireRead(t)
      <4>1. t \in Readers
        BY <3>3 DEF ReacquireRead, Readers
      <4>2. activeWriter = NoThread
        BY <4>1 DEF IInv, MutualExclusion
      <4>3. Mutex!ShareLock(t)
        BY <3>3, <4>2 DEF ReacquireRead, Mutex!ShareLock
      <4>4. QED
        BY <4>3 DEF Mutex!MutexNext
    <3>4. CASE ReleaseInnerRead(t)
      <4>1. Mutex!UnshareLock(t)
        BY <3>4 DEF ReleaseInnerRead, Mutex!UnshareLock, IInv, TypeOK
      <4>2. QED
        BY <4>1 DEF Mutex!MutexNext
    <3>5. CASE ReleaseLastRead(t)
      <4>1. Mutex!UnshareLock(t)
        BY <3>5 DEF ReleaseLastRead, Mutex!UnshareLock, IInv, TypeOK
      <4>2. QED
        BY <4>1 DEF Mutex!MutexNext
    <3>6. CASE AcquireWrite(t)
      BY <3>6, WriteLoopRefines DEF AcquireWrite, Mutex!MutexNext
    <3>7. CASE WriterWakes(t)
      BY <3>7, WriteLoopRefines DEF WriterWakes, Mutex!MutexNext
    <3>8. CASE ReleaseWrite(t)
      BY <3>8 DEF ReleaseWrite, Mutex!DisownLock, Mutex!MutexNext
    <3>9. CASE Refuse(t) \/ DeadlinePasses(t)
      BY <3>9 DEF Refuse, DeadlinePasses, vars, fields, Mutex!mutexVars
    <3>10. QED
      BY <2>1, <3>1, <3>2, <3>3, <3>4, <3>5, <3>6, <3>7, <3>8, <3>9
      DEF Step, ReleaseRead
  <2>2. CASE UNCHANGED vars
    BY <2>2 DEF vars, fields, Mutex!mutexVars
  <2>3. QED
    BY <2>1, <2>2 DEF Next
<1>3. QED
  BY <1>1, <1>2, Invariance, PTL DEF Spec, ImplementsMutex, Mutex!MutexSpec
=============================================================================
