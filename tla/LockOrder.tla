------------------------------ MODULE LockOrder -----------------------------
(***************************************************************************)
(* The locks of one FluentLocalization and of its bundles, taken together: *)
(* which calls acquire which locks in which order, and where they run code *)
(* of the application in between (a custom function while a message is     *)
(* formatted, the iterator of add_resource_stream), which may call the     *)
(* library again.  A call is the sequence of its lock operations; a thread *)
(* has a stack of calls, the innermost one first, and a lock's holders are *)
(* read off the stacks.                                                    *)
(***************************************************************************)
EXTENDS Naturals, Sequences, FiniteSets

CONSTANTS Threads,
          Bundles,       \* the bundles of the chain, from the primary locale on: 1..n
          MaxDepth,      \* bound on the nesting of calls in one thread
          MaxWrites,     \* bound on the number of calls that take a write lock
          NestedCalls    \* NestedCalls[l]: what the application's code may call inside a call under lock l

ASSUME LockOrderAssumption == /\ Bundles \in SUBSET (Nat \ {0})
                              /\ IsFiniteSet(Bundles)
                              /\ MaxDepth \in Nat \ {0}
                              /\ MaxWrites \in Nat

VARIABLES stack,    \* stack[t]: the calls that t is in, each with what it still has to do
          queued,   \* the threads counted in the _waiting_writers of the lock they ask for
          writes    \* calls that take a write lock, so far

vars == <<stack, queued, writes>>

-----------------------------------------------------------------------------
(* The calls.                                                              *)

Localization == 0              \* FluentLocalization._lock; bundle b's lock is b
Locks == {Localization} \cup Bundles

Acquire(lock, mode) == [do |-> "acquire", lock |-> lock, mode |-> mode]
Release(lock, mode) == [do |-> "release", lock |-> lock, mode |-> mode]
UserCode(lock) == [do |-> "user", inside |-> lock]

Section(lock, mode) == <<Acquire(lock, mode), Release(lock, mode)>>

\* bundle.format_pattern, bundle.has_message, bundle.add_resource
BundleFormat(b) == <<Acquire(b, "read"), UserCode(b), Release(b, "read")>>
BundleQuery(b) == Section(b, "read")
BundleWrite(b) == Section(b, "write")

\* The walk along the chain up to bundle b: a look at _bundles, has_message.
Walk[b \in Nat] == IF b = 0 THEN <<>>
                   ELSE Walk[b - 1] \o Section(Localization, "read") \o BundleQuery(b)

ChainFormat(b) == Walk[b] \o BundleFormat(b)
ChainQuery(b) == Walk[b]

\* _get_or_create_bundle for a bundle that is not there yet.
CreateBundle == Section(Localization, "read") \o Section(Localization, "write")

\* add_resource, add_resource_stream; add_function and clear_cache for all
\* bundles.
AddResource(b) == <<Acquire(Localization, "write")>> \o BundleWrite(b)
                                                     \o <<Release(Localization, "write")>>
AddStream(b) == <<Acquire(Localization, "write"), UserCode(Localization)>> \o BundleWrite(b)
                                                     \o <<Release(Localization, "write")>>

WriteAll[b \in Nat] == IF b = 0 THEN <<>> ELSE WriteAll[b - 1] \o BundleWrite(b)

ForAllBundles == <<Acquire(Localization, "write")>> \o WriteAll[Cardinality(Bundles)]
                                                    \o <<Release(Localization, "write")>>

\* get_cache_stats and get_cache_audit_log read no bundle's lock under their own.
CacheReport == Section(Localization, "read")

\* A bundle's query is a format without the application's code, and a query of
\* the chain a format that stops early: neither holds more.
ReadCalls == {CacheReport, ChainQuery(Cardinality(Bundles))}
                 \cup {BundleFormat(b) : b \in Bundles} \cup {ChainFormat(b) : b \in Bundles}
WriteCalls == {BundleWrite(b) : b \in Bundles} \cup {AddResource(b) : b \in Bundles}
                 \cup {AddStream(b) : b \in Bundles} \cup {CreateBundle, ForAllBundles}

-----------------------------------------------------------------------------
(* The locks.                                                              *)

Holds(t, lock, mode) == \E i \in DOMAIN stack[t] : <<lock, mode>> \in stack[t][i].held
Readers(lock) == {t \in Threads : Holds(t, lock, "read")}
Writers(lock) == {t \in Threads : Holds(t, lock, "write")}

Init == stack = [t \in Threads |-> <<>>] /\ queued = {} /\ writes = 0

\* What thread t has to do next.
Ahead(t) == Head(Head(stack[t]).plan)
IsNext(t, what) == /\ stack[t] # <<>> /\ Head(stack[t]).plan # <<>>
                   /\ Ahead(t).do = what
Wants(t, mode) == IsNext(t, "acquire") /\ Ahead(t).mode = mode

Queue(lock) == {t \in queued : Ahead(t).lock = lock}

Done(t, held) ==
    stack' = [stack EXCEPT ![t][1].plan = Tail(@), ![t][1].held = held]

Enters(t, call) == stack' = [stack EXCEPT ![t] = <<[plan |-> call, held |-> {}]>> \o @]

\* The application calls the library.
Call(t) ==
    /\ stack[t] = <<>>
    /\ \/ \E c \in ReadCalls : Enters(t, c) /\ UNCHANGED writes
       \/ /\ writes < MaxWrites /\ writes' = writes + 1
          /\ \E c \in WriteCalls : Enters(t, c)
    /\ UNCHANGED queued

\* Its code inside a call does, and ends with that call: a second one would find
\* the locks of this thread as the first one did.
NestedCall(t) ==
    /\ IsNext(t, "user") /\ Len(stack[t]) < MaxDepth
    /\ \E c \in NestedCalls[Ahead(t).inside] :
         stack' = [stack EXCEPT ![t] = <<[plan |-> c, held |-> {}],
                                         [Head(@) EXCEPT !.plan = Tail(@)]>> \o Tail(@)]
    /\ UNCHANGED <<queued, writes>>

UserReturns(t) ==
    /\ IsNext(t, "user")
    /\ Done(t, Head(stack[t]).held)
    /\ UNCHANGED <<queued, writes>>

Return(t) ==
    /\ stack[t] # <<>> /\ Head(stack[t]).plan = <<>>
    /\ stack' = [stack EXCEPT ![t] = Tail(@)]
    /\ UNCHANGED <<queued, writes>>

\* RuntimeError: upgrade, downgrade or nested write.
IsRefused(t) ==
    /\ IsNext(t, "acquire")
    /\ \/ Holds(t, Ahead(t).lock, "write")
       \/ Ahead(t).mode = "write" /\ Holds(t, Ahead(t).lock, "read")

\* Mutant: readers overtake the writers that wait.
CanReadPastWriters(t, lock) == t \in Readers(lock) \/ Writers(lock) = {}

\* _acquire_read: at once for a thread that reads already, otherwise behind
\* the writer and the writers that wait.
CanRead(t, lock) == \/ t \in Readers(lock)
                    \/ Writers(lock) = {} /\ Queue(lock) = {}

AcquireRead(t) ==
    /\ Wants(t, "read") /\ ~IsRefused(t)
    /\ CanRead(t, Ahead(t).lock)
    /\ Done(t, Head(stack[t]).held \cup {<<Ahead(t).lock, "read">>})
    /\ UNCHANGED <<queued, writes>>

\* _acquire_write: it joins the writers that wait, then enters.
QueueWrite(t) ==
    /\ Wants(t, "write") /\ t \notin queued /\ ~IsRefused(t)
    /\ queued' = queued \cup {t}
    /\ UNCHANGED <<stack, writes>>

AcquireWrite(t) ==
    /\ t \in queued
    /\ Readers(Ahead(t).lock) = {} /\ Writers(Ahead(t).lock) = {}
    /\ queued' = queued \ {t}
    /\ Done(t, Head(stack[t]).held \cup {<<Ahead(t).lock, "write">>})
    /\ UNCHANGED writes

\* The call's `with` blocks are left; the application's code goes on.
Refused(t) ==
    /\ IsRefused(t)
    /\ stack' = [stack EXCEPT ![t] = Tail(@)]
    /\ UNCHANGED <<queued, writes>>

ReleaseLock(t) ==
    /\ IsNext(t, "release")
    /\ Done(t, Head(stack[t]).held \ {<<Ahead(t).lock, Ahead(t).mode>>})
    /\ UNCHANGED <<queued, writes>>

Goes(t) == \/ UserReturns(t) \/ Return(t) \/ AcquireRead(t) \/ QueueWrite(t)
           \/ AcquireWrite(t) \/ Refused(t) \/ ReleaseLock(t)

Next == \E t \in Threads : Call(t) \/ NestedCall(t) \/ Goes(t)

Spec == Init /\ [][Next]_vars
FairSpec == Spec /\ \A t \in Threads : WF_vars(Goes(t))

-----------------------------------------------------------------------------

\* Who keeps thread t out of the lock it asks for.
WaitsFor(t) ==
    IF ~IsNext(t, "acquire") \/ IsRefused(t) THEN {}
    ELSE LET lock == Ahead(t).lock IN
         IF Wants(t, "write") THEN (Readers(lock) \cup Writers(lock)) \ {t}
         ELSE IF CanRead(t, lock) THEN {}
         ELSE (Writers(lock) \cup Queue(lock)) \ {t}

\* No threads wait for each other in a circle: the lock of the localization is
\* only ever asked for by threads that hold no bundle's lock.
NoCircularWait ==
    ~ \E S \in SUBSET Threads \ {{}} :
        \A t \in S : WaitsFor(t) \cap S # {}

\* Every call returns once there are no new writers: nobody waits for ever.
CallsReturn == \A t \in Threads : stack[t] # <<>> ~> stack[t] = <<>>
=============================================================================
