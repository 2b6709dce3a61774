--------------------------- MODULE ReadWriteMutex ---------------------------
(***************************************************************************)
(* What RWLock promises its callers, without its monitor: a lock that is   *)
(* held by any number of readers, each one several times over, or by one   *)
(* writer, exactly once.  RWLock is shown to implement this module.        *)
(***************************************************************************)
EXTENDS Naturals

CONSTANTS Threads,   \* the threads that use the lock
          NoThread   \* "no writer" (None in the source)

VARIABLES holds,     \* holds[t]: how many read acquisitions t has not released
          writer     \* the thread that holds the lock exclusively, or NoThread

mutexVars == <<holds, writer>>

MutexInit == /\ holds = [t \in Threads |-> 0]
             /\ writer = NoThread

ShareLock(t) == /\ writer = NoThread
                /\ holds' = [holds EXCEPT ![t] = @ + 1]
                /\ UNCHANGED writer

UnshareLock(t) == /\ holds[t] > 0
                  /\ holds' = [holds EXCEPT ![t] = @ - 1]
                  /\ UNCHANGED writer

OwnLock(t) == /\ writer = NoThread
              /\ \A u \in Threads : holds[u] = 0
              /\ writer' = t
              /\ UNCHANGED holds

DisownLock(t) == /\ writer = t
                 /\ writer' = NoThread
                 /\ UNCHANGED holds

MutexNext == \E t \in Threads : \/ ShareLock(t)
                                \/ UnshareLock(t)
                                \/ OwnLock(t)
                                \/ DisownLock(t)

MutexSpec == MutexInit /\ [][MutexNext]_mutexVars
=============================================================================
