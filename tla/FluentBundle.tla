---------------------------- MODULE FluentBundle ----------------------------
(***************************************************************************)
(* One FluentBundle used by several threads: formatting under the read     *)
(* lock, through the cache; add_resource, add_function and clear_cache     *)
(* under the write lock.  Parsing happens before the lock is taken.  The   *)
(* lock is the one ReadWriteMutex promises; between two of its operations  *)
(* every dictionary access is a step of its own, so that the locking and   *)
(* the order of the accesses is what keeps formats and cache consistent.   *)
(* A message names one term and calls one function; a formatted result is  *)
(* the versions of the three that it was made from.                        *)
(***************************************************************************)
EXTENDS Naturals, FiniteSets

CONSTANTS Threads, NoThread,
          Ids,         \* message ids
          Terms,       \* term ids
          TermOf,      \* TermOf[id]: the term that message id refers to
          Versions,    \* definitions a message or a term may have
          Absent,      \* no such message, term or cache entry
          Functions,   \* definitions the custom function may have
          Resources,   \* parsed resources: [messages, terms, junk]
          Strict,      \* strict
          MaxWrites    \* bound on the number of calls that write

Partial(D, R) == UNION {[S -> R] : S \in SUBSET D}

ASSUME BundleAssumption ==
    /\ NoThread \notin Threads
    /\ TermOf \in [Ids -> Terms]
    /\ Absent \notin Versions
    /\ \A r \in Resources : /\ r.messages \in Partial(Ids, Versions)
                            /\ r.terms \in Partial(Terms, Versions)
                            /\ r.junk \in BOOLEAN
    /\ Strict \in BOOLEAN
    /\ MaxWrites \in Nat

VARIABLES messages,    \* _messages
          terms,       \* _terms
          msgDeps,     \* _msg_deps: the definition whose references are recorded
          registries,  \* the shared function registry and the bundle's own copy
          registry,    \* _function_registry: which of the two
          resolver,    \* _resolver: which of the two its registry is
          cache,       \* _cache
          readers, writer,   \* _rwlock
          pc,          \* where each thread is in its call
          arg,         \* the call's message id, parsed resource or function
          seen,        \* what a format call has read so far
          answer,      \* what a format call is about to return
          writes,      \* calls that write, so far
          committed    \* history: what the last successful write left

store == <<messages, terms, msgDeps>>
functionState == <<registries, registry, resolver>>
lock == <<readers, writer>>
locals == <<arg, seen, answer>>
vars == <<store, functionState, cache, lock, pc, locals, writes, committed>>

\* A format result: the three definitions it was made from, or Absent for a
\* message the bundle does not have.
Result(m, t, f, id) ==
    IF m[id] = Absent THEN Absent
    ELSE [body |-> m[id], term |-> t[TermOf[id]], function |-> f]

Results == {Absent} \cup [body : Versions, term : Versions \cup {Absent}, function : Functions]

Current(id) == Result(messages, terms, registries[resolver], id)
Committed(id) == Result(committed.messages, committed.terms, committed.function, id)

FormatSteps == {"lookup", "body", "term", "call", "store", "leaveRead"}
WriteSteps == {"collect", "messages", "terms", "deps", "own", "register", "rebuild",
               "clear", "leaveWrite", "leaveRaised"}

\* The first step under the write lock, by the call that waits for the lock.
First == [wantResource |-> "collect", wantFunction |-> "own", wantClear |-> "clear"]

Steps == {"idle", "wantRead"} \cup DOMAIN First \cup FormatSteps \cup WriteSteps

Unread == [body |-> Absent, term |-> Absent, function |-> Absent]

Init ==
    /\ messages = [id \in Ids |-> Absent]
    /\ terms = [x \in Terms |-> Absent]
    /\ msgDeps = [id \in Ids |-> Absent]
    /\ \E f \in Functions : /\ registries = [shared |-> f, own |-> f]
                            /\ committed = [messages |-> messages, terms |-> terms,
                                            function |-> f]
    /\ registry = "shared" /\ resolver = "shared"
    /\ cache = [id \in Ids |-> Absent]
    /\ readers = {} /\ writer = NoThread
    /\ pc = [t \in Threads |-> "idle"]
    /\ arg = [t \in Threads |-> Absent]
    /\ seen = [t \in Threads |-> Unread]
    /\ answer = [t \in Threads |-> Absent]
    /\ writes = 0

Goes(t, from, to) == pc[t] = from /\ pc' = [pc EXCEPT ![t] = to]
Calls(t, want, x) == Goes(t, "idle", want) /\ arg' = [arg EXCEPT ![t] = x]

Forgets(t) == /\ arg' = [arg EXCEPT ![t] = Absent]
              /\ seen' = [seen EXCEPT ![t] = Unread]
              /\ answer' = [answer EXCEPT ![t] = Absent]

-----------------------------------------------------------------------------
(* The lock.                                                               *)

EnterRead(t) ==
    /\ Goes(t, "wantRead", "lookup")
    /\ writer = NoThread
    /\ readers' = readers \cup {t}
    /\ UNCHANGED <<store, functionState, cache, writer, locals, writes, committed>>

LeaveRead(t) ==
    /\ Goes(t, "leaveRead", "idle")
    /\ readers' = readers \ {t}
    /\ Forgets(t)
    /\ UNCHANGED <<store, functionState, cache, writer, writes, committed>>

\* Mutant: the writer does not wait for the readers.
EnterWriteEarly(t) ==
    /\ \E want \in DOMAIN First : Goes(t, want, First[want])
    /\ writer = NoThread
    /\ writer' = t
    /\ UNCHANGED <<store, functionState, cache, readers, locals, writes, committed>>

EnterWrite(t) ==
    /\ \E want \in DOMAIN First : Goes(t, want, First[want])
    /\ writer = NoThread /\ readers = {}
    /\ writer' = t
    /\ UNCHANGED <<store, functionState, cache, readers, locals, writes, committed>>

\* The call returns: what it has written is the bundle's content from now on.
LeaveWrite(t) ==
    /\ Goes(t, "leaveWrite", "idle")
    /\ writer' = NoThread
    /\ Forgets(t)
    /\ committed' = [messages |-> messages, terms |-> terms, function |-> registries[registry]]
    /\ UNCHANGED <<store, functionState, cache, readers, writes>>

\* The call raises out of the `with` block.
LeaveRaised(t) ==
    /\ Goes(t, "leaveRaised", "idle")
    /\ writer' = NoThread
    /\ Forgets(t)
    /\ UNCHANGED <<store, functionState, cache, readers, writes, committed>>

-----------------------------------------------------------------------------
(* format_pattern                                                          *)

CallFormat(t) ==
    /\ \E id \in Ids : Calls(t, "wantRead", id)
    /\ UNCHANGED <<store, functionState, cache, lock, seen, answer, writes, committed>>

LookupHit(t) ==
    /\ Goes(t, "lookup", "leaveRead")
    /\ cache[arg[t]] # Absent
    /\ answer' = [answer EXCEPT ![t] = cache[arg[t]]]
    /\ UNCHANGED <<store, functionState, cache, lock, arg, seen, writes, committed>>

LookupMiss(t) ==
    /\ Goes(t, "lookup", "body")
    /\ cache[arg[t]] = Absent
    /\ UNCHANGED <<store, functionState, cache, lock, locals, writes, committed>>

\* A missing message is answered, or raised in strict mode, but never cached.
MessageMissing(t) ==
    /\ Goes(t, "body", "leaveRead")
    /\ messages[arg[t]] = Absent
    /\ UNCHANGED <<store, functionState, cache, lock, locals, writes, committed>>

ReadBody(t) ==
    /\ Goes(t, "body", "term")
    /\ messages[arg[t]] # Absent
    /\ seen' = [seen EXCEPT ![t].body = messages[arg[t]]]
    /\ UNCHANGED <<store, functionState, cache, lock, arg, answer, writes, committed>>

ReadTerm(t) ==
    /\ Goes(t, "term", "call")
    /\ seen' = [seen EXCEPT ![t].term = terms[TermOf[arg[t]]]]
    /\ UNCHANGED <<store, functionState, cache, lock, arg, answer, writes, committed>>

CallFunction(t) ==
    /\ Goes(t, "call", "store")
    /\ seen' = [seen EXCEPT ![t].function = registries[resolver]]
    /\ UNCHANGED <<store, functionState, cache, lock, arg, answer, writes, committed>>

\* Results with errors are stored as well; the LRU bound may evict another one.
StoreResult(t) ==
    /\ Goes(t, "store", "leaveRead")
    /\ \E evicted \in SUBSET (Ids \ {arg[t]}) :
           /\ Cardinality(evicted) <= 1
           /\ cache' = [id \in Ids |-> IF id = arg[t] THEN seen[t]
                                       ELSE IF id \in evicted THEN Absent ELSE cache[id]]
    /\ answer' = [answer EXCEPT ![t] = seen[t]]
    /\ UNCHANGED <<store, functionState, lock, arg, seen, writes, committed>>

Format(t) == \/ CallFormat(t) \/ EnterRead(t) \/ LookupHit(t) \/ LookupMiss(t)
             \/ MessageMissing(t) \/ ReadBody(t) \/ ReadTerm(t) \/ CallFunction(t)
             \/ StoreResult(t) \/ LeaveRead(t)

-----------------------------------------------------------------------------
(* add_resource, add_resource_stream                                       *)

\* The caller's thread has parsed the source when it asks for the lock.
CallAddResource(t) ==
    /\ writes < MaxWrites /\ writes' = writes + 1
    /\ \E r \in Resources : Calls(t, "wantResource", r)
    /\ UNCHANGED <<store, functionState, cache, lock, seen, answer, committed>>

Update(f, g) == [x \in DOMAIN f |-> IF x \in DOMAIN g THEN g[x] ELSE f[x]]

\* Mutant: entries are registered while they are collected.
RejectTooLate(t) ==
    /\ Goes(t, "collect", "leaveRaised")
    /\ Strict /\ arg[t].junk
    /\ messages' = Update(messages, arg[t].messages)
    /\ UNCHANGED <<terms, msgDeps, functionState, cache, lock, locals, writes, committed>>

\* Phase one: strict mode refuses a resource with junk before any change.
Reject(t) ==
    /\ Goes(t, "collect", "leaveRaised")
    /\ Strict /\ arg[t].junk
    /\ UNCHANGED <<store, functionState, cache, lock, locals, writes, committed>>

Collect(t) ==
    /\ Goes(t, "collect", "messages")
    /\ ~(Strict /\ arg[t].junk)
    /\ UNCHANGED <<store, functionState, cache, lock, locals, writes, committed>>

UpdateMessages(t) ==
    /\ Goes(t, "messages", "terms")
    /\ messages' = Update(messages, arg[t].messages)
    /\ UNCHANGED <<terms, msgDeps, functionState, cache, lock, locals, writes, committed>>

UpdateTerms(t) ==
    /\ Goes(t, "terms", "deps")
    /\ terms' = Update(terms, arg[t].terms)
    /\ UNCHANGED <<messages, msgDeps, functionState, cache, lock, locals, writes, committed>>

\* Mutant: the write lock is given up, as it were, before the cache is cleared.
UpdateDepsOnly(t) ==
    /\ Goes(t, "deps", "leaveWrite")
    /\ msgDeps' = Update(msgDeps, arg[t].messages)
    /\ UNCHANGED <<messages, terms, functionState, cache, lock, locals, writes, committed>>

\* Mutant: dependencies are recorded for new ids only.
UpdateDepsOfNewIds(t) ==
    /\ Goes(t, "deps", "clear")
    /\ msgDeps' = [id \in Ids |-> IF msgDeps[id] = Absent THEN messages[id] ELSE msgDeps[id]]
    /\ UNCHANGED <<messages, terms, functionState, cache, lock, locals, writes, committed>>

UpdateDeps(t) ==
    /\ Goes(t, "deps", "clear")
    /\ msgDeps' = Update(msgDeps, arg[t].messages)
    /\ UNCHANGED <<messages, terms, functionState, cache, lock, locals, writes, committed>>

ClearCache(t) ==
    /\ Goes(t, "clear", "leaveWrite")
    /\ cache' = [id \in Ids |-> Absent]
    /\ UNCHANGED <<store, functionState, lock, locals, writes, committed>>

-----------------------------------------------------------------------------
(* add_function, clear_cache                                               *)

CallAddFunction(t) ==
    /\ writes < MaxWrites /\ writes' = writes + 1
    /\ \E f \in Functions : Calls(t, "wantFunction", f)
    /\ UNCHANGED <<store, functionState, cache, lock, seen, answer, committed>>

\* Copy on first write of the registry that bundles share.
OwnRegistry(t) ==
    /\ Goes(t, "own", "register")
    /\ IF registry = "own" THEN UNCHANGED functionState
       ELSE /\ registries' = [registries EXCEPT !.own = registries.shared]
            /\ registry' = "own"
            /\ UNCHANGED resolver
    /\ UNCHANGED <<store, cache, lock, locals, writes, committed>>

Register(t) ==
    /\ Goes(t, "register", "rebuild")
    /\ registries' = [registries EXCEPT ![registry] = arg[t]]
    /\ UNCHANGED <<store, registry, resolver, cache, lock, locals, writes, committed>>

\* FunctionRegistry.register rejects the callable or its name.
RegisterFails(t) ==
    /\ Goes(t, "register", "leaveRaised")
    /\ UNCHANGED <<store, functionState, cache, lock, locals, writes, committed>>

RebuildResolver(t) ==
    /\ Goes(t, "rebuild", "clear")
    /\ resolver' = registry
    /\ UNCHANGED <<store, registries, registry, cache, lock, locals, writes, committed>>

CallClearCache(t) ==
    /\ writes < MaxWrites /\ writes' = writes + 1
    /\ Goes(t, "idle", "wantClear")
    /\ UNCHANGED <<store, functionState, cache, lock, locals, committed>>

Write(t) == \/ CallAddResource(t) \/ CallAddFunction(t) \/ CallClearCache(t)
            \/ EnterWrite(t) \/ LeaveWrite(t) \/ LeaveRaised(t)
            \/ Reject(t) \/ Collect(t) \/ UpdateMessages(t) \/ UpdateTerms(t)
            \/ UpdateDeps(t) \/ ClearCache(t)
            \/ OwnRegistry(t) \/ Register(t) \/ RegisterFails(t) \/ RebuildResolver(t)

Next == \E t \in Threads : Format(t) \/ Write(t)

Spec == Init /\ [][Next]_vars

-----------------------------------------------------------------------------
(* Properties.                                                             *)

TypeOK ==
    /\ messages \in [Ids -> Versions \cup {Absent}]
    /\ terms \in [Terms -> Versions \cup {Absent}]
    /\ msgDeps \in [Ids -> Versions \cup {Absent}]
    /\ registries \in [{"shared", "own"} -> Functions]
    /\ {registry, resolver} \subseteq {"shared", "own"}
    /\ cache \in [Ids -> Results]
    /\ readers \subseteq Threads
    /\ writer \in Threads \cup {NoThread}
    /\ pc \in [Threads -> Steps]
    /\ arg \in [Threads -> {Absent} \cup Ids \cup Resources \cup Functions]
    /\ seen \in [Threads -> [body : Versions \cup {Absent}, term : Versions \cup {Absent},
                           function : Functions \cup {Absent}]]
    /\ answer \in [Threads -> Results]
    /\ writes \in 0..MaxWrites

\* Whenever no writer is at work, every cached result is the one that would
\* be computed now: no result of the past survives the write that outdated it.
CacheIsFresh ==
    writer = NoThread => \A id \in Ids : cache[id] \in {Absent, Current(id)}

\* A format call answers from one consistent content of the bundle, the one
\* the last successful write left: never with a message of one resource and a
\* term or a function of another, and never from a call that raised.
FormatsAreAtomic ==
    \A t \in Threads : pc[t] = "leaveRead" => answer[t] = Committed(arg[t])

\* validate_resource and the queries read, under the read lock, dependency
\* sets that belong to the definitions they stand beside.
DependenciesMatch == writer = NoThread => msgDeps = messages

\* A call that raises leaves the bundle's content as it found it.
FailedWritesLeaveNoTrace ==
    [][\A t \in Threads : LeaveRaised(t) =>
            /\ committed.messages = messages
            /\ committed.terms = terms
            /\ committed.function = registries[resolver]]_vars
=============================================================================
