------------------------- MODULE FluentBundleProofs -------------------------
(***************************************************************************)
(* Proofs about FluentBundle, for any threads, messages, resources and     *)
(* functions: the cache is fresh whenever no writer is at work, and every  *)
(* format call answers from the content the last successful write left.    *)
(***************************************************************************)
EXTENDS FluentBundle, TLAPS

Quiet(S) == \A t \in Threads : pc[t] \notin S

\* Who holds the lock can be read off the program counters.
LockInv ==
    /\ \A t \in Threads : t \in readers <=> pc[t] \in FormatSteps
    /\ \A t \in Threads : writer = t <=> pc[t] \in WriteSteps
    /\ readers # {} => writer = NoThread

ArgInv ==
    \A t \in Threads :
        /\ pc[t] \in {"wantRead"} \cup FormatSteps => arg[t] \in Ids
        /\ pc[t] \in {"wantResource", "collect", "messages", "terms", "deps"}
               => arg[t] \in Resources
        /\ pc[t] \in {"wantFunction", "own", "register"} => arg[t] \in Functions

\* What a format call has read so far is still what the bundle contains.
SeenInv ==
    \A t \in Threads :
        /\ pc[t] \in {"term", "call", "store"} => /\ messages[arg[t]] # Absent
                                                  /\ seen[t].body = messages[arg[t]]
        /\ pc[t] \in {"call", "store"} => seen[t].term = terms[TermOf[arg[t]]]
        /\ pc[t] = "store" => seen[t].function = registries[resolver]
        /\ pc[t] = "leaveRead" => answer[t] = Current(arg[t])
        /\ pc[t] # "leaveRead" => answer[t] = Absent

\* The content differs from the committed one only between the first change
\* of a write and its return.
CommittedInv ==
    Quiet({"terms", "deps", "rebuild", "clear", "leaveWrite"}) =>
        committed = [messages |-> messages, terms |-> terms,
                     function |-> registries[resolver]]

ResolverInv ==
    /\ resolver = "own" => registry = "own"
    /\ Quiet({"rebuild"}) => registries[registry] = registries[resolver]

\* The cache may be out of date only until the write that changed the content
\* clears it, which it does before it returns.
CacheInv ==
    Quiet({"terms", "deps", "rebuild", "clear"}) =>
        \A id \in Ids : cache[id] \in {Absent, Current(id)}

DepsInv ==
    /\ Quiet({"terms", "deps"}) => msgDeps = messages
    /\ \A t \in Threads : pc[t] \in {"terms", "deps"} =>
           messages = Update(msgDeps, arg[t].messages)

IInv == /\ TypeOK /\ LockInv /\ ArgInv /\ SeenInv
        /\ CommittedInv /\ ResolverInv /\ CacheInv /\ DepsInv

-----------------------------------------------------------------------------

\* Registering a resource's entries yields dictionaries of the same type.
LEMMA ResourceTypes ==
    ASSUME NEW r \in Resources, NEW f \in [Ids -> Versions \cup {Absent}],
           NEW g \in [Terms -> Versions \cup {Absent}]
    PROVE  /\ Update(f, r.messages) \in [Ids -> Versions \cup {Absent}]
           /\ Update(g, r.terms) \in [Terms -> Versions \cup {Absent}]
BY BundleAssumption DEF Partial, Update

\* At the start the bundle is empty, the cache too, and nobody holds the lock.
LEMMA InitIInv == Init => IInv
<1> SUFFICES ASSUME Init PROVE IInv
  OBVIOUS
<1> USE BundleAssumption DEF Init
<1>1. TypeOK
  BY DEF TypeOK, Steps, Unread, Results
<1>2. LockInv /\ ArgInv /\ SeenInv
  BY DEF LockInv, ArgInv, SeenInv, FormatSteps, WriteSteps
<1>3. CommittedInv /\ ResolverInv /\ CacheInv /\ DepsInv
  BY DEF CommittedInv, ResolverInv, CacheInv, DepsInv, Update
<1>4. QED
  BY <1>1, <1>2, <1>3 DEF IInv

\* A call that begins changes nothing but the caller's own state.
LEMMA CallsKeepIInv ==
    ASSUME IInv, NEW t \in Threads, CallFormat(t) \/ CallAddResource(t) \/ CallAddFunction(t) \/
           CallClearCache(t)
    PROVE  IInv'
<1> USE BundleAssumption
  DEF IInv, Goes, Calls, Forgets, store, functionState, lock, locals, FormatSteps, WriteSteps,
      Steps, First, TypeOK, LockInv, ArgInv
<1>1. CASE CallFormat(t)
  <2> USE <1>1 DEF CallFormat
  <2>1. TypeOK' /\ ArgInv'
    BY ResourceTypes DEF Results, Unread
  <2>2. LockInv'
    OBVIOUS
  <2>3. SeenInv'
    BY DEF SeenInv, Current, Result
  <2>4. CommittedInv' /\ ResolverInv' /\ CacheInv'
    BY DEF CommittedInv, ResolverInv, CacheInv, Quiet, Current, Result
  <2>5. DepsInv'
    BY DEF DepsInv, Quiet, Update
  <2>6. QED
    BY <2>1, <2>2, <2>3, <2>4, <2>5
<1>2. CASE CallAddResource(t)
  <2> USE <1>2 DEF CallAddResource
  <2>1. TypeOK' /\ ArgInv'
    BY ResourceTypes DEF Results, Unread
  <2>2. LockInv'
    OBVIOUS
  <2>3. SeenInv'
    BY DEF SeenInv, Current, Result
  <2>4. CommittedInv' /\ ResolverInv' /\ CacheInv'
    BY DEF CommittedInv, ResolverInv, CacheInv, Quiet, Current, Result
  <2>5. DepsInv'
    BY DEF DepsInv, Quiet, Update
  <2>6. QED
    BY <2>1, <2>2, <2>3, <2>4, <2>5
<1>3. CASE CallAddFunction(t)
  <2> USE <1>3 DEF CallAddFunction
  <2>1. TypeOK' /\ ArgInv'
    BY ResourceTypes DEF Results, Unread
  <2>2. LockInv'
    OBVIOUS
  <2>3. SeenInv'
    BY DEF SeenInv, Current, Result
  <2>4. CommittedInv' /\ ResolverInv' /\ CacheInv'
    BY DEF CommittedInv, ResolverInv, CacheInv, Quiet, Current, Result
  <2>5. DepsInv'
    BY DEF DepsInv, Quiet, Update
  <2>6. QED
    BY <2>1, <2>2, <2>3, <2>4, <2>5
<1>4. CASE CallClearCache(t)
  <2> USE <1>4 DEF CallClearCache
  <2>1. TypeOK' /\ ArgInv'
    BY ResourceTypes DEF Results, Unread
  <2>2. LockInv'
    OBVIOUS
  <2>3. SeenInv'
    BY DEF SeenInv, Current, Result
  <2>4. CommittedInv' /\ ResolverInv' /\ CacheInv'
    BY DEF CommittedInv, ResolverInv, CacheInv, Quiet, Current, Result
  <2>5. DepsInv'
    BY DEF DepsInv, Quiet, Update
  <2>6. QED
    BY <2>1, <2>2, <2>3, <2>4, <2>5
<1>5. QED
  BY <1>1, <1>2, <1>3, <1>4

\* Taking the lock: readers find no writer inside, a writer nobody.
LEMMA EntersKeepIInv ==
    ASSUME IInv, NEW t \in Threads, EnterRead(t) \/ EnterWrite(t)
    PROVE  IInv'
<1> USE BundleAssumption
  DEF IInv, Goes, Calls, Forgets, store, functionState, lock, locals, FormatSteps, WriteSteps,
      Steps, First, TypeOK, LockInv, ArgInv
<1>1. CASE EnterRead(t)
  <2> USE <1>1 DEF EnterRead
  <2>1. TypeOK' /\ ArgInv'
    BY ResourceTypes DEF Results, Unread
  <2>2. LockInv'
    OBVIOUS
  <2>3. SeenInv'
    BY DEF SeenInv, Current, Result
  <2>4. CommittedInv' /\ ResolverInv' /\ CacheInv'
    BY DEF CommittedInv, ResolverInv, CacheInv, Quiet, Current, Result
  <2>5. DepsInv'
    BY DEF DepsInv, Quiet, Update
  <2>6. QED
    BY <2>1, <2>2, <2>3, <2>4, <2>5
<1>2. CASE EnterWrite(t)
  <2> USE <1>2 DEF EnterWrite
  <2>1. TypeOK' /\ ArgInv'
    BY ResourceTypes DEF Results, Unread
  <2>2. LockInv'
    OBVIOUS
  <2>3. SeenInv'
    BY DEF SeenInv, Current, Result
  <2>4. CommittedInv' /\ ResolverInv' /\ CacheInv'
    BY DEF CommittedInv, ResolverInv, CacheInv, Quiet, Current, Result
  <2>5. DepsInv'
    BY DEF DepsInv, Quiet, Update
  <2>6. QED
    BY <2>1, <2>2, <2>3, <2>4, <2>5
<1>3. QED
  BY <1>1, <1>2

\* The steps of a format call read the content, which no writer is changing.
LEMMA ReadsKeepIInv ==
    ASSUME IInv, NEW t \in Threads, LookupHit(t) \/ LookupMiss(t) \/ MessageMissing(t) \/
           ReadBody(t) \/ ReadTerm(t) \/ CallFunction(t)
    PROVE  IInv'
<1> USE BundleAssumption
  DEF IInv, Goes, Calls, Forgets, store, functionState, lock, locals, FormatSteps, WriteSteps,
      Steps, First, TypeOK, LockInv, ArgInv
<1>1. CASE LookupHit(t)
  <2> USE <1>1 DEF LookupHit
  <2>1. TypeOK' /\ ArgInv'
    BY ResourceTypes DEF Results, Unread
  <2>2. LockInv'
    OBVIOUS
  <2>3. SeenInv'
    BY DEF SeenInv, Current, Result, CacheInv, Quiet
  <2>4. CommittedInv' /\ ResolverInv' /\ CacheInv'
    BY DEF CommittedInv, ResolverInv, CacheInv, Quiet, Current, Result
  <2>5. DepsInv'
    BY DEF DepsInv, Quiet, Update
  <2>6. QED
    BY <2>1, <2>2, <2>3, <2>4, <2>5
<1>2. CASE LookupMiss(t)
  <2> USE <1>2 DEF LookupMiss
  <2>1. TypeOK' /\ ArgInv'
    BY ResourceTypes DEF Results, Unread
  <2>2. LockInv'
    OBVIOUS
  <2>3. SeenInv'
    BY DEF SeenInv, Current, Result
  <2>4. CommittedInv' /\ ResolverInv' /\ CacheInv'
    BY DEF CommittedInv, ResolverInv, CacheInv, Quiet, Current, Result
  <2>5. DepsInv'
    BY DEF DepsInv, Quiet, Update
  <2>6. QED
    BY <2>1, <2>2, <2>3, <2>4, <2>5
<1>3. CASE MessageMissing(t)
  <2> USE <1>3 DEF MessageMissing
  <2>1. TypeOK' /\ ArgInv'
    BY ResourceTypes DEF Results, Unread
  <2>2. LockInv'
    OBVIOUS
  <2>3. SeenInv'
    BY DEF SeenInv, Current, Result
  <2>4. CommittedInv' /\ ResolverInv' /\ CacheInv'
    BY DEF CommittedInv, ResolverInv, CacheInv, Quiet, Current, Result
  <2>5. DepsInv'
    BY DEF DepsInv, Quiet, Update
  <2>6. QED
    BY <2>1, <2>2, <2>3, <2>4, <2>5
<1>4. CASE ReadBody(t)
  <2> USE <1>4 DEF ReadBody
  <2>0. ArgInv'
    OBVIOUS
  <2>1. TypeOK'
    BY SMTT(30)
  <2>2. LockInv'
    OBVIOUS
  <2>3. SeenInv'
    BY DEF SeenInv, Current, Result
  <2>4. CommittedInv' /\ ResolverInv' /\ CacheInv'
    BY DEF CommittedInv, ResolverInv, CacheInv, Quiet, Current, Result
  <2>5. DepsInv'
    BY DEF DepsInv, Quiet, Update
  <2>6. QED
    BY <2>0, <2>1, <2>2, <2>3, <2>4, <2>5
<1>5. CASE ReadTerm(t)
  <2> USE <1>5 DEF ReadTerm
  <2>0. ArgInv'
    OBVIOUS
  <2>1. TypeOK'
    BY SMTT(30)
  <2>2. LockInv'
    OBVIOUS
  <2>3. SeenInv'
    BY DEF SeenInv, Current, Result
  <2>4. CommittedInv' /\ ResolverInv' /\ CacheInv'
    BY DEF CommittedInv, ResolverInv, CacheInv, Quiet, Current, Result
  <2>5. DepsInv'
    BY DEF DepsInv, Quiet, Update
  <2>6. QED
    BY <2>0, <2>1, <2>2, <2>3, <2>4, <2>5
<1>6. CASE CallFunction(t)
  <2> USE <1>6 DEF CallFunction
  <2>0. ArgInv'
    OBVIOUS
  <2>1. TypeOK'
    OBVIOUS
  <2>2. LockInv'
    OBVIOUS
  <2>3. SeenInv'
    BY DEF SeenInv, Current, Result
  <2>4. CommittedInv' /\ ResolverInv' /\ CacheInv'
    BY DEF CommittedInv, ResolverInv, CacheInv, Quiet, Current, Result
  <2>5. DepsInv'
    BY DEF DepsInv, Quiet, Update
  <2>6. QED
    BY <2>0, <2>1, <2>2, <2>3, <2>4, <2>5
<1>7. QED
  BY <1>1, <1>2, <1>3, <1>4, <1>5, <1>6

\* What a format call stores is the current result, whichever entry it evicts.
LEMMA StoresKeepIInv ==
    ASSUME IInv, NEW t \in Threads, StoreResult(t)
    PROVE  IInv'
<1> USE BundleAssumption
  DEF IInv, Goes, Calls, Forgets, store, functionState, lock, locals, FormatSteps, WriteSteps,
      Steps, First, TypeOK, LockInv, ArgInv
<1>1. CASE StoreResult(t)
  <2> USE <1>1 DEF StoreResult
  <2>1. TypeOK' /\ ArgInv'
    <3>1. seen[t] \in [body : Versions, term : Versions \cup {Absent}, function : Functions]
      BY DEF SeenInv
    <3>2. seen[t] \in Results
      BY <3>1 DEF Results
    <3>3. QED
      BY <3>2 DEF Results
  <2>2. LockInv'
    OBVIOUS
  <2>3. SeenInv'
    BY DEF SeenInv, Current, Result
  <2>4. CommittedInv' /\ ResolverInv' /\ CacheInv'
    BY DEF CommittedInv, ResolverInv, CacheInv, Quiet, Current, Result, SeenInv
  <2>5. DepsInv'
    BY DEF DepsInv, Quiet, Update
  <2>6. QED
    BY <2>1, <2>2, <2>3, <2>4, <2>5
<1>2. QED
  BY <1>1

\* Giving up the lock: a write returns with the cache cleared and the resolver
\* rebuilt, and raises only while the content is still the committed one.
LEMMA LeavesKeepIInv ==
    ASSUME IInv, NEW t \in Threads, LeaveRead(t) \/ LeaveWrite(t) \/ LeaveRaised(t)
    PROVE  IInv'
<1> USE BundleAssumption
  DEF IInv, Goes, Calls, Forgets, store, functionState, lock, locals, FormatSteps, WriteSteps,
      Steps, First, TypeOK, LockInv, ArgInv
<1>1. CASE LeaveRead(t)
  <2> USE <1>1 DEF LeaveRead
  <2>1. TypeOK' /\ ArgInv'
    BY ResourceTypes DEF Results, Unread
  <2>2. LockInv'
    OBVIOUS
  <2>3. SeenInv'
    BY DEF SeenInv, Current, Result
  <2>4. CommittedInv' /\ ResolverInv' /\ CacheInv'
    BY DEF CommittedInv, ResolverInv, CacheInv, Quiet, Current, Result
  <2>5. DepsInv'
    BY DEF DepsInv, Quiet, Update
  <2>6. QED
    BY <2>1, <2>2, <2>3, <2>4, <2>5
<1>2. CASE LeaveWrite(t)
  <2> USE <1>2 DEF LeaveWrite
  <2>1. TypeOK' /\ ArgInv'
    BY ResourceTypes DEF Results, Unread
  <2>2. LockInv'
    OBVIOUS
  <2>3. SeenInv'
    BY DEF SeenInv, Current, Result
  <2>4. CommittedInv' /\ ResolverInv' /\ CacheInv'
    BY DEF CommittedInv, ResolverInv, CacheInv, Quiet, Current, Result
  <2>5. DepsInv'
    BY DEF DepsInv, Quiet, Update
  <2>6. QED
    BY <2>1, <2>2, <2>3, <2>4, <2>5
<1>3. CASE LeaveRaised(t)
  <2> USE <1>3 DEF LeaveRaised
  <2>1. TypeOK' /\ ArgInv'
    BY ResourceTypes DEF Results, Unread
  <2>2. LockInv'
    OBVIOUS
  <2>3. SeenInv'
    BY DEF SeenInv, Current, Result
  <2>4. CommittedInv' /\ ResolverInv' /\ CacheInv'
    BY DEF CommittedInv, ResolverInv, CacheInv, Quiet, Current, Result
  <2>5. DepsInv'
    BY DEF DepsInv, Quiet, Update
  <2>6. QED
    BY <2>1, <2>2, <2>3, <2>4, <2>5
<1>4. QED
  BY <1>1, <1>2, <1>3

\* The two phases of _register_resource: no format call is under way, and the
\* cache counts as out of date from the first update on.
LEMMA RegistersKeepIInv ==
    ASSUME IInv, NEW t \in Threads, Reject(t) \/ Collect(t) \/ UpdateMessages(t) \/
           UpdateTerms(t) \/ UpdateDeps(t)
    PROVE  IInv'
<1> USE BundleAssumption
  DEF IInv, Goes, Calls, Forgets, store, functionState, lock, locals, FormatSteps, WriteSteps,
      Steps, First, TypeOK, LockInv, ArgInv
<1>1. CASE Reject(t)
  <2> USE <1>1 DEF Reject
  <2>1. TypeOK' /\ ArgInv'
    BY ResourceTypes DEF Results, Unread
  <2>2. LockInv'
    OBVIOUS
  <2>3. SeenInv'
    BY DEF SeenInv, Current, Result
  <2>4. CommittedInv' /\ ResolverInv' /\ CacheInv'
    BY DEF CommittedInv, ResolverInv, CacheInv, Quiet, Current, Result
  <2>5. DepsInv'
    BY DEF DepsInv, Quiet, Update
  <2>6. QED
    BY <2>1, <2>2, <2>3, <2>4, <2>5
<1>2. CASE Collect(t)
  <2> USE <1>2 DEF Collect
  <2>1. TypeOK' /\ ArgInv'
    BY ResourceTypes DEF Results, Unread
  <2>2. LockInv'
    OBVIOUS
  <2>3. SeenInv'
    BY DEF SeenInv, Current, Result
  <2>4. CommittedInv' /\ ResolverInv' /\ CacheInv'
    BY DEF CommittedInv, ResolverInv, CacheInv, Quiet, Current, Result
  <2>5. DepsInv'
    BY DEF DepsInv, Quiet, Update
  <2>6. QED
    BY <2>1, <2>2, <2>3, <2>4, <2>5
<1>3. CASE UpdateMessages(t)
  <2> USE <1>3 DEF UpdateMessages
  <2>1. TypeOK' /\ ArgInv'
    BY ResourceTypes DEF Results, Unread
  <2>2. LockInv'
    OBVIOUS
  <2>3. SeenInv'
    BY DEF SeenInv, Current, Result
  <2>4. CommittedInv' /\ ResolverInv' /\ CacheInv'
    BY DEF CommittedInv, ResolverInv, CacheInv, Quiet, Current, Result
  <2>5. DepsInv'
    BY DEF DepsInv, Quiet, Update
  <2>6. QED
    BY <2>1, <2>2, <2>3, <2>4, <2>5
<1>4. CASE UpdateTerms(t)
  <2> USE <1>4 DEF UpdateTerms
  <2>1. TypeOK' /\ ArgInv'
    BY ResourceTypes DEF Results, Unread
  <2>2. LockInv'
    OBVIOUS
  <2>3. SeenInv'
    BY DEF SeenInv, Current, Result
  <2>4. CommittedInv' /\ ResolverInv' /\ CacheInv'
    BY DEF CommittedInv, ResolverInv, CacheInv, Quiet, Current, Result
  <2>5. DepsInv'
    BY DEF DepsInv, Quiet, Update
  <2>6. QED
    BY <2>1, <2>2, <2>3, <2>4, <2>5
<1>5. CASE UpdateDeps(t)
  <2> USE <1>5 DEF UpdateDeps
  <2>1. TypeOK' /\ ArgInv'
    BY ResourceTypes DEF Results, Unread
  <2>2. LockInv'
    OBVIOUS
  <2>3. SeenInv'
    BY DEF SeenInv, Current, Result
  <2>4. CommittedInv' /\ ResolverInv' /\ CacheInv'
    BY DEF CommittedInv, ResolverInv, CacheInv, Quiet, Current, Result
  <2>5. DepsInv'
    BY DEF DepsInv, Quiet, Update
  <2>6. QED
    BY <2>1, <2>2, <2>3, <2>4, <2>5
<1>6. QED
  BY <1>1, <1>2, <1>3, <1>4, <1>5

\* Clearing makes the cache trivially fresh.
LEMMA ClearsKeepIInv ==
    ASSUME IInv, NEW t \in Threads, ClearCache(t)
    PROVE  IInv'
<1> USE BundleAssumption
  DEF IInv, Goes, Calls, Forgets, store, functionState, lock, locals, FormatSteps, WriteSteps,
      Steps, First, TypeOK, LockInv, ArgInv
<1>1. CASE ClearCache(t)
  <2> USE <1>1 DEF ClearCache
  <2>1. TypeOK' /\ ArgInv'
    BY ResourceTypes DEF Results, Unread
  <2>2. LockInv'
    OBVIOUS
  <2>3. SeenInv'
    BY DEF SeenInv, Current, Result
  <2>4. CommittedInv' /\ ResolverInv' /\ CacheInv'
    BY DEF CommittedInv, ResolverInv, CacheInv, Quiet, Current, Result
  <2>5. DepsInv'
    BY DEF DepsInv, Quiet, Update
  <2>6. QED
    BY <2>1, <2>2, <2>3, <2>4, <2>5
<1>2. QED
  BY <1>1

\* add_function: the copy of the shared registry has its content, so the
\* resolver still agrees with the bundle until the new function is in.
LEMMA AddsFunctionKeepIInv ==
    ASSUME IInv, NEW t \in Threads, OwnRegistry(t) \/ Register(t) \/ RegisterFails(t) \/
           RebuildResolver(t)
    PROVE  IInv'
<1> USE BundleAssumption
  DEF IInv, Goes, Calls, Forgets, store, functionState, lock, locals, FormatSteps, WriteSteps,
      Steps, First, TypeOK, LockInv, ArgInv
<1>1. CASE OwnRegistry(t)
  <2> USE <1>1 DEF OwnRegistry
  <2>1. TypeOK' /\ ArgInv'
    BY ResourceTypes DEF Results, Unread
  <2>2. LockInv'
    OBVIOUS
  <2>3. SeenInv'
    BY DEF SeenInv, Current, Result
  <2>4. CommittedInv' /\ ResolverInv' /\ CacheInv'
    BY DEF CommittedInv, ResolverInv, CacheInv, Quiet, Current, Result
  <2>5. DepsInv'
    BY DEF DepsInv, Quiet, Update
  <2>6. QED
    BY <2>1, <2>2, <2>3, <2>4, <2>5
<1>2. CASE Register(t)
  <2> USE <1>2 DEF Register
  <2>1. TypeOK' /\ ArgInv'
    BY ResourceTypes DEF Results, Unread
  <2>2. LockInv'
    OBVIOUS
  <2>3. SeenInv'
    BY DEF SeenInv, Current, Result
  <2>4. CommittedInv' /\ ResolverInv' /\ CacheInv'
    BY DEF CommittedInv, ResolverInv, CacheInv, Quiet, Current, Result
  <2>5. DepsInv'
    BY DEF DepsInv, Quiet, Update
  <2>6. QED
    BY <2>1, <2>2, <2>3, <2>4, <2>5
<1>3. CASE RegisterFails(t)
  <2> USE <1>3 DEF RegisterFails
  <2>1. TypeOK' /\ ArgInv'
    BY ResourceTypes DEF Results, Unread
  <2>2. LockInv'
    OBVIOUS
  <2>3. SeenInv'
    BY DEF SeenInv, Current, Result
  <2>4. CommittedInv' /\ ResolverInv' /\ CacheInv'
    BY DEF CommittedInv, ResolverInv, CacheInv, Quiet, Current, Result
  <2>5. DepsInv'
    BY DEF DepsInv, Quiet, Update
  <2>6. QED
    BY <2>1, <2>2, <2>3, <2>4, <2>5
<1>4. CASE RebuildResolver(t)
  <2> USE <1>4 DEF RebuildResolver
  <2>1. TypeOK' /\ ArgInv'
    BY ResourceTypes DEF Results, Unread
  <2>2. LockInv'
    OBVIOUS
  <2>3. SeenInv'
    BY DEF SeenInv, Current, Result
  <2>4. CommittedInv' /\ ResolverInv' /\ CacheInv'
    BY DEF CommittedInv, ResolverInv, CacheInv, Quiet, Current, Result
  <2>5. DepsInv'
    BY DEF DepsInv, Quiet, Update
  <2>6. QED
    BY <2>1, <2>2, <2>3, <2>4, <2>5
<1>5. QED
  BY <1>1, <1>2, <1>3, <1>4

\* Every step of the bundle keeps the invariant.
LEMMA StepIInv == IInv /\ [Next]_vars => IInv'
<1> SUFFICES ASSUME IInv, [Next]_vars PROVE IInv'
  OBVIOUS
<1>1. ASSUME NEW t \in Threads, Format(t) PROVE IInv'
  BY <1>1, CallsKeepIInv, EntersKeepIInv, ReadsKeepIInv, StoresKeepIInv, LeavesKeepIInv
  DEF Format
<1>2. ASSUME NEW t \in Threads, Write(t) PROVE IInv'
  BY <1>2, CallsKeepIInv, EntersKeepIInv, LeavesKeepIInv, RegistersKeepIInv,
     ClearsKeepIInv, AddsFunctionKeepIInv
  DEF Write
<1>3. CASE UNCHANGED vars
  BY <1>3 DEF vars, store, functionState, lock, locals, IInv, TypeOK, LockInv, ArgInv, SeenInv,
     CommittedInv, ResolverInv, CacheInv, DepsInv, Quiet, Current, Result
<1>4. QED
  BY <1>1, <1>2, <1>3 DEF Next

\* The inductive invariant holds in every reachable state.
THEOREM Invariance == Spec => []IInv
<1>1. Init => IInv
  BY InitIInv
<1>2. IInv /\ [Next]_vars => IInv'
  BY StepIInv
<1>3. QED
  BY <1>1, <1>2, PTL DEF Spec

\* The dictionaries, the cache and the program counters keep their types.
THEOREM TypeCorrect == Spec => []TypeOK
<1>1. IInv => TypeOK
  BY DEF IInv
<1>2. QED
  BY <1>1, Invariance, PTL

\* No cached result outlives the write that outdated it.
THEOREM Freshness == Spec => []CacheIsFresh
<1>1. IInv => CacheIsFresh
  BY BundleAssumption DEF IInv, CacheIsFresh, CacheInv, LockInv, Quiet, WriteSteps, TypeOK
<1>2. QED
  BY <1>1, Invariance, PTL

\* A format call answers from what the last successful write left.
THEOREM Atomicity == Spec => []FormatsAreAtomic
<1>1. IInv => FormatsAreAtomic
  <2> SUFFICES ASSUME IInv, NEW t \in Threads, pc[t] = "leaveRead"
               PROVE  answer[t] = Committed(arg[t])
    BY DEF FormatsAreAtomic
  <2>1. writer = NoThread
    BY DEF IInv, LockInv, FormatSteps
  <2>2. Quiet(WriteSteps)
    BY <2>1, BundleAssumption DEF IInv, LockInv, Quiet
  <2>3. committed = [messages |-> messages, terms |-> terms,
                     function |-> registries[resolver]]
    BY <2>2 DEF IInv, CommittedInv, Quiet, WriteSteps
  <2>4. answer[t] = Current(arg[t])
    BY DEF IInv, SeenInv
  <2>5. QED
    BY <2>3, <2>4 DEF Current, Committed
<1>2. QED
  BY <1>1, Invariance, PTL

\* Dependency sets and definitions agree whenever they can be read.
THEOREM Dependencies == Spec => []DependenciesMatch
<1>1. IInv => DependenciesMatch
  BY BundleAssumption DEF IInv, DependenciesMatch, DepsInv, LockInv, Quiet, WriteSteps
<1>2. QED
  BY <1>1, Invariance, PTL

\* A write that raises finds, and leaves, the committed content.
THEOREM Rollback == Spec => FailedWritesLeaveNoTrace
<1>1. IInv => \A t \in Threads : LeaveRaised(t) =>
            /\ committed.messages = messages
            /\ committed.terms = terms
            /\ committed.function = registries[resolver]
  <2> SUFFICES ASSUME IInv, NEW t \in Threads, pc[t] = "leaveRaised"
               PROVE  committed = [messages |-> messages, terms |-> terms,
                                   function |-> registries[resolver]]
    BY DEF LeaveRaised, Goes
  <2>1. writer = t
    BY DEF IInv, LockInv, WriteSteps
  <2>2. \A u \in Threads : pc[u] \in WriteSteps => u = t
    BY <2>1 DEF IInv, LockInv
  <2>3. Quiet({"terms", "deps", "rebuild", "clear", "leaveWrite"})
    BY <2>2 DEF Quiet, WriteSteps
  <2>4. QED
    BY <2>3 DEF IInv, CommittedInv
<1>2. QED
  BY <1>1, Invariance, PTL DEF Spec, FailedWritesLeaveNoTrace
=============================================================================
