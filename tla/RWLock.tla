------------------------------- MODULE RWLock -------------------------------
(***************************************************************************)
(* The readers-writer lock of runtime/rwlock.py: one Condition around four *)
(* fields.  A method holds the condition's lock from its first test to its *)
(* return or to its wait(), so one such section is one step.  A thread in  *)
(* wait() is "sleeping" until notify_all() or its deadline wakes it; it    *)
(* then competes for the condition's lock like every other caller, and the *)
(* loop tests its condition again in a later step.                         *)
(***************************************************************************)
EXTENDS Naturals, FiniteSets

CONSTANTS Threads,   \* the threads that use the lock
          NoThread,  \* "no writer" (None in the source)
          MaxHold    \* bound on the nesting of one thread's read blocks

ASSUME RWLockAssumption == /\ IsFiniteSet(Threads)
                           /\ NoThread \notin Threads
                           /\ MaxHold \in Nat \ {0}

VARIABLES activeReaders,   \* _active_readers
          activeWriter,    \* _active_writer
          waitingWriters,  \* _waiting_writers
          readerThreads,   \* _reader_threads; 0 stands for an absent key
          pc,              \* where each thread is: outside the two acquire loops, or in one
          sleeping,        \* the threads inside Condition.wait()
          deadline         \* whether a waiting call has a deadline and whether it has passed

fields == <<activeReaders, activeWriter, waitingWriters, readerThreads>>
vars == <<fields, pc, sleeping, deadline>>

Deadlines == {"none", "pending", "passed"}

TypeOK ==
    /\ activeReaders \in Nat
    /\ activeWriter \in Threads \cup {NoThread}
    /\ waitingWriters \in Nat
    /\ readerThreads \in [Threads -> 0..MaxHold]
    /\ pc \in [Threads -> {"outside", "readLoop", "writeLoop"}]
    /\ sleeping \subseteq Threads
    /\ deadline \in [Threads -> Deadlines]

Init ==
    /\ activeReaders = 0
    /\ activeWriter = NoThread
    /\ waitingWriters = 0
    /\ readerThreads = [t \in Threads |-> 0]
    /\ pc = [t \in Threads |-> "outside"]
    /\ sleeping = {}
    /\ deadline = [t \in Threads |-> "none"]

-----------------------------------------------------------------------------
(* The condition variable.                                                 *)

NotifyAll == sleeping' = {}

Waits(t, loop, d) ==
    /\ pc' = [pc EXCEPT ![t] = loop]
    /\ sleeping' = sleeping \cup {t}
    /\ deadline' = [deadline EXCEPT ![t] = d]

Leaves(t) ==
    /\ pc' = [pc EXCEPT ![t] = "outside"]
    /\ deadline' = [deadline EXCEPT ![t] = "none"]

-----------------------------------------------------------------------------
(* Readers.                                                                *)

\* Mutant: readers overtake waiting writers.
ReadBlockedByWriterOnly == activeWriter # NoThread

ReadBlocked == activeWriter # NoThread \/ waitingWriters > 0

ReaderEnters(t) ==
    /\ ~ReadBlocked
    /\ activeReaders' = activeReaders + 1
    /\ readerThreads' = [readerThreads EXCEPT ![t] = 1]
    /\ Leaves(t)
    /\ UNCHANGED <<activeWriter, waitingWriters, sleeping>>

ReaderTimesOut(t, d) ==
    /\ ReadBlocked
    /\ d = "passed"
    /\ Leaves(t)
    /\ UNCHANGED <<fields, sleeping>>

ReaderWaits(t, d) ==
    /\ ReadBlocked
    /\ d # "passed"
    /\ Waits(t, "readLoop", d)
    /\ UNCHANGED fields

ReadLoop(t, d) == ReaderEnters(t) \/ ReaderTimesOut(t, d) \/ ReaderWaits(t, d)

\* _acquire_read up to the loop's first test; a timeout of 0 has passed at once.
AcquireRead(t) ==
    /\ pc[t] = "outside"
    /\ readerThreads[t] = 0
    /\ activeWriter # t
    /\ \E d \in Deadlines : ReadLoop(t, d)

\* _acquire_read by a thread that already reads: never blocked by waiting writers.
ReacquireRead(t) ==
    /\ pc[t] = "outside"
    /\ readerThreads[t] \in 1..(MaxHold - 1)
    /\ readerThreads' = [readerThreads EXCEPT ![t] = @ + 1]
    /\ UNCHANGED <<activeReaders, activeWriter, waitingWriters, pc, sleeping, deadline>>

ReaderWakes(t) ==
    /\ pc[t] = "readLoop"
    /\ t \notin sleeping
    /\ ReadLoop(t, deadline[t])

ReleaseInnerRead(t) ==
    /\ pc[t] = "outside"
    /\ readerThreads[t] > 1
    /\ readerThreads' = [readerThreads EXCEPT ![t] = @ - 1]
    /\ UNCHANGED <<activeReaders, activeWriter, waitingWriters, pc, sleeping, deadline>>

ReleaseLastRead(t) ==
    /\ pc[t] = "outside"
    /\ readerThreads[t] = 1
    /\ readerThreads' = [readerThreads EXCEPT ![t] = 0]
    /\ activeReaders' = activeReaders - 1
    /\ IF activeReaders' = 0 THEN NotifyAll ELSE UNCHANGED sleeping
    /\ UNCHANGED <<activeWriter, waitingWriters, pc, deadline>>

ReleaseRead(t) == ReleaseInnerRead(t) \/ ReleaseLastRead(t)

-----------------------------------------------------------------------------
(* Writers.  `queued` is _waiting_writers with the calling thread counted. *)

\* Mutant: a writer looks only at other writers.
WriteBlockedByWriterOnly == activeWriter # NoThread

WriteBlocked == activeReaders > 0 \/ activeWriter # NoThread

WriterEnters(t, queued) ==
    /\ ~WriteBlocked
    /\ activeWriter' = t
    /\ waitingWriters' = queued - 1
    /\ NotifyAll
    /\ Leaves(t)
    /\ UNCHANGED <<activeReaders, readerThreads>>

\* Mutant: the finally block of _acquire_write without its notify_all().
WriterTimesOutSilently(t, d, queued) ==
    /\ WriteBlocked
    /\ d = "passed"
    /\ waitingWriters' = queued - 1
    /\ Leaves(t)
    /\ UNCHANGED <<activeReaders, activeWriter, readerThreads, sleeping>>

\* Mutant: the TimeoutError leaves without the finally block's decrement.
WriterTimesOutStillQueued(t, d, queued) ==
    /\ WriteBlocked
    /\ d = "passed"
    /\ waitingWriters' = queued
    /\ NotifyAll
    /\ Leaves(t)
    /\ UNCHANGED <<activeReaders, activeWriter, readerThreads>>

WriterTimesOut(t, d, queued) ==
    /\ WriteBlocked
    /\ d = "passed"
    /\ waitingWriters' = queued - 1
    /\ NotifyAll
    /\ Leaves(t)
    /\ UNCHANGED <<activeReaders, activeWriter, readerThreads>>

WriterWaits(t, d, queued) ==
    /\ WriteBlocked
    /\ d # "passed"
    /\ waitingWriters' = queued
    /\ Waits(t, "writeLoop", d)
    /\ UNCHANGED <<activeReaders, activeWriter, readerThreads>>

WriteLoop(t, d, queued) == \/ WriterEnters(t, queued)
                           \/ WriterTimesOut(t, d, queued)
                           \/ WriterWaits(t, d, queued)

AcquireWrite(t) ==
    /\ pc[t] = "outside"
    /\ readerThreads[t] = 0
    /\ activeWriter # t
    /\ \E d \in Deadlines : WriteLoop(t, d, waitingWriters + 1)

WriterWakes(t) ==
    /\ pc[t] = "writeLoop"
    /\ t \notin sleeping
    /\ WriteLoop(t, deadline[t], waitingWriters)

\* Mutant: the writer leaves without notify_all().
ReleaseWriteSilently(t) ==
    /\ pc[t] = "outside"
    /\ activeWriter = t
    /\ activeWriter' = NoThread
    /\ UNCHANGED <<activeReaders, waitingWriters, readerThreads, pc, sleeping, deadline>>

ReleaseWrite(t) ==
    /\ pc[t] = "outside"
    /\ activeWriter = t
    /\ activeWriter' = NoThread
    /\ NotifyAll
    /\ UNCHANGED <<activeReaders, waitingWriters, readerThreads, pc, deadline>>

-----------------------------------------------------------------------------
(* A call that would upgrade, downgrade or nest the write lock raises      *)
(* RuntimeError and touches nothing.                                       *)

Refuse(t) ==
    /\ pc[t] = "outside"
    /\ readerThreads[t] > 0 \/ activeWriter = t
    /\ UNCHANGED vars

\* wait(timeout=remaining) returns at the deadline, notified or not.
DeadlinePasses(t) ==
    /\ deadline[t] = "pending"
    /\ deadline' = [deadline EXCEPT ![t] = "passed"]
    /\ sleeping' = sleeping \ {t}
    /\ UNCHANGED <<fields, pc>>

Step(t) ==
    \/ AcquireRead(t)
    \/ ReacquireRead(t)
    \/ ReaderWakes(t)
    \/ ReleaseRead(t)
    \/ AcquireWrite(t)
    \/ WriterWakes(t)
    \/ ReleaseWrite(t)
    \/ Refuse(t)
    \/ DeadlinePasses(t)

Next == \E t \in Threads : Step(t)

Spec == Init /\ [][Next]_vars

\* A woken thread gets the condition's lock, time passes, and the body of a
\* `with lock.read()` or `with lock.write()` block ends, so that no thread
\* keeps a lock for ever by nesting and unnesting read blocks.  A body that is
\* stuck in a loop of the same lock is not assumed to end.
Fairness ==
    /\ \A t \in Threads : /\ WF_vars(ReaderWakes(t))
                          /\ WF_vars(WriterWakes(t))
                          /\ WF_vars(DeadlinePasses(t))
                          /\ WF_vars(ReleaseRead(t))
                          /\ WF_vars(ReleaseWrite(t))
    /\ \A t \in Threads : []<>(readerThreads[t] = 0 \/ pc[t] # "outside")

FairSpec == Spec /\ Fairness

-----------------------------------------------------------------------------
(* Properties.                                                             *)

Readers == {t \in Threads : readerThreads[t] > 0}
QueuedWriters == {t \in Threads : pc[t] = "writeLoop"}

\* No thread reads while another one writes, whatever the order of waits,
\* time-outs and nested reads that led there.
MutualExclusion == activeWriter # NoThread => Readers = {}

\* The two counters say what they are documented to say: reader_count is the
\* number of distinct reading threads (nesting not counted) and
\* writers_waiting is the number of threads inside _acquire_write's loop.
CountersAgree == /\ activeReaders = Cardinality(Readers)
                 /\ waitingWriters = Cardinality(QueuedWriters)

\* No lost wake-up: a thread that sleeps has something to wait for.  Every
\* change that makes a loop condition false has notified all sleepers.
NoLostWakeup ==
    \A t \in sleeping : /\ pc[t] = "readLoop" => ReadBlocked
                        /\ pc[t] = "writeLoop" => WriteBlocked

\* No thread waits for itself: whoever is in a loop holds neither lock.
NoSelfWait == \A t \in Threads : pc[t] # "outside" => t \notin Readers \cup {activeWriter}

\* Writer preference: a thread that reads newly has not overtaken a thread
\* that was already in the write loop.
WriterPreference ==
    [][\A t \in Threads : (t \notin Readers /\ t \in Readers') => QueuedWriters = {}]_vars

\* The lock's contract: RWLock implements ReadWriteMutex.
Mutex == INSTANCE ReadWriteMutex WITH holds <- readerThreads, writer <- activeWriter
ImplementsMutex == Mutex!MutexSpec

\* Readers cannot starve writers: while writers queue, one of them gets the
\* lock, unless all of them time out first; none waits for its own reads.
WritersAreServed ==
    (QueuedWriters # {}) ~> (activeWriter # NoThread \/ QueuedWriters = {})

\* Nobody stays blocked in a lock that is free of writers: a reader in its
\* loop keeps meeting active or waiting writers (also those that time out)
\* or it leaves the loop.
ReadersAreServed ==
    \A t \in Threads : ~<>[](/\ pc[t] = "readLoop"
                             /\ activeWriter = NoThread
                             /\ QueuedWriters = {})

\* A call with a timeout returns or raises: no deadline is slept through.
TimeoutsEnd == \A t \in Threads : (deadline[t] # "none") ~> (pc[t] = "outside")

\* Under weak fairness of the scheduler no call is forgotten in the condition's queue:
\* the three together.
NoCallIsForgotten == WritersAreServed /\ ReadersAreServed /\ TimeoutsEnd
=============================================================================
