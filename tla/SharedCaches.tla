----------------------------- MODULE SharedCaches -----------------------------
(***************************************************************************)
(* The caches that all bundles of a process share: the locale contexts of  *)
(* runtime/locale_context.py, a bounded LRU cache, the results of          *)
(* introspection/message.py, a weak dictionary, and cache_management.py,   *)
(* which clears them one after the other.                                  *)
(*                                                                         *)
(* Both look a key up under a lock, compute without it and take it again   *)
(* to store, with a second look in between; a step here is what happens    *)
(* under one acquisition of a lock or between two.  An object is its       *)
(* identity; an address may be used again when nobody holds it any more.   *)
(***************************************************************************)
EXTENDS Naturals, Sequences, FiniteSets

CONSTANTS Threads,
          Locales,      \* canonical locale codes
          Known,        \* those of them that Babel knows
          Messages,     \* messages, up to equality: the keys of the weak dictionary
          MaxContexts,  \* MAX_LOCALE_CACHE_SIZE
          Objects,      \* addresses of contexts and of introspection results
          None, Refused

ASSUME KeysAssumption ==
    /\ Known \subseteq Locales
    /\ Locales \cap Messages = {}
    /\ IsFiniteSet(Locales)
    /\ None \notin Locales \cup Messages
ASSUME BoundAssumption == MaxContexts \in Nat \ {0}
ASSUME ObjectsAssumption == None \notin Objects /\ Refused \notin Objects /\ None # Refused

VARIABLES
    cached,     \* LocaleContext._cache and _introspection_cache: their keys are disjoint
    recent,     \* the order of LocaleContext._cache, least recently used first
    pc, asked,  \* where each thread is, and for which key
    fresh,      \* fresh[t]: what t has made and not stored yet
    answer,     \* answer[t]: what t's last call returned
    toClear     \* toClear[t]: what t's clear_module_caches has still to clear

vars == <<cached, recent, pc, asked, fresh, answer, toClear>>

Keys == Locales \cup Messages
Components == {"runtime.locale_context", "introspection.message"}
Steps == {"idle", "strict", "lookup", "make", "make_apart", "store", "clear"}

Contexts == DOMAIN cached \cap Locales
InUse == { cached[k] : k \in DOMAIN cached }
           \cup { fresh[t] : t \in Threads } \cup { answer[t] : t \in Threads }

Only(f, K) == [ k \in DOMAIN f \cap K |-> f[k] ]
Extended(f, k, o) == [ j \in DOMAIN f \cup {k} |-> IF j = k THEN o ELSE f[j] ]

(* The sequence without the key at position p, its only occurrence.        *)
Position(s, k) == CHOOSE p \in 1 .. Len(s) : s[p] = k
Without(s, k) ==
    [ i \in 1 .. Len(s) - 1 |-> IF i < Position(s, k) THEN s[i] ELSE s[i + 1] ]

Init ==
    /\ cached = [ k \in {} |-> None ]
    /\ recent = <<>>
    /\ pc = [ t \in Threads |-> "idle" ]
    /\ asked = [ t \in Threads |-> None ]
    /\ fresh = [ t \in Threads |-> None ]
    /\ answer = [ t \in Threads |-> None ]
    /\ toClear = [ t \in Threads |-> {} ]

Goto(t, label) == pc' = [ pc EXCEPT ![t] = label ]

Start(t, k, label) ==
    /\ pc[t] = "idle"
    /\ Goto(t, label)
    /\ asked' = [ asked EXCEPT ![t] = k ]
    /\ answer' = [ answer EXCEPT ![t] = None ]
    /\ UNCHANGED <<cached, recent, fresh, toClear>>

Return(t, o) ==
    /\ answer' = [ answer EXCEPT ![t] = o ]
    /\ Goto(t, "idle")

Create(t, k) == Start(t, k, "lookup")
CreateOrRaise(t, k) == Start(t, k, "strict")
Introspect(t, m) == Start(t, m, "lookup")
IntrospectUncached(t, m) == Start(t, m, "make_apart")

(* create_or_raise asks Babel first, whatever is cached: the context that  *)
(* create made for an unknown locale is not for its callers.               *)
StrictParse(t) ==
    /\ pc[t] = "strict"
    /\ IF asked[t] \in Known THEN Goto(t, "lookup") /\ answer' = answer
                             ELSE Return(t, Refused)
    /\ UNCHANGED <<cached, recent, asked, fresh, toClear>>

Touched(k) == IF k \in Locales THEN Append(Without(recent, k), k) ELSE recent

LookUp(t) ==
    /\ pc[t] = "lookup"
    /\ IF asked[t] \in DOMAIN cached
       THEN Return(t, cached[asked[t]]) /\ recent' = Touched(asked[t])
       ELSE Goto(t, "make") /\ UNCHANGED <<recent, answer>>
    /\ UNCHANGED <<cached, asked, fresh, toClear>>

(* A new context, with the rules of en_US when Babel does not know the     *)
(* locale, or a new result.  Nothing depends on its address.               *)
NewObject == CHOOSE o \in Objects : o \notin InUse

Make(t) ==
    /\ pc[t] = "make"
    /\ Objects \ InUse # {}
    /\ fresh' = [ fresh EXCEPT ![t] = NewObject ]
    /\ Goto(t, "store")
    /\ UNCHANGED <<cached, recent, asked, answer, toClear>>

MakeApart(t) ==
    /\ pc[t] = "make_apart"
    /\ Objects \ InUse # {}
    /\ Return(t, NewObject)
    /\ UNCHANGED <<cached, recent, asked, fresh, toClear>>

(* Mutant: the call returns what it has made, as functools.lru_cache does. *)
FindStoredInVain(t) ==
    /\ asked[t] \in DOMAIN cached
    /\ Return(t, fresh[t])
    /\ UNCHANGED <<cached, recent>>

(* Someone else has stored a result meanwhile; a context that is found     *)
(* here keeps its place in the order.                                      *)
FindStored(t) ==
    /\ asked[t] \in DOMAIN cached
    /\ Return(t, cached[asked[t]])
    /\ UNCHANGED <<cached, recent>>

(* Mutant: the bound is tested after it has been exceeded.                 *)
EvictsTooLate == Cardinality(Contexts) > MaxContexts

Evicts == Cardinality(Contexts) >= MaxContexts

StoreContext(t) ==
    LET k == asked[t]
        kept == IF Evicts THEN Only(cached, Keys \ {Head(recent)}) ELSE cached
    IN  /\ k \in Locales
        /\ k \notin DOMAIN cached
        /\ cached' = Extended(kept, k, fresh[t])
        /\ recent' = Append(IF Evicts THEN Tail(recent) ELSE recent, k)
        /\ Return(t, fresh[t])

StoreIntrospection(t) ==
    /\ asked[t] \in Messages
    /\ asked[t] \notin DOMAIN cached
    /\ cached' = Extended(cached, asked[t], fresh[t])
    /\ recent' = recent
    /\ Return(t, fresh[t])

Store(t) ==
    /\ pc[t] = "store"
    /\ FindStored(t) \/ StoreContext(t) \/ StoreIntrospection(t)
    /\ fresh' = [ fresh EXCEPT ![t] = None ]
    /\ UNCHANGED <<asked, toClear>>

(* clear_module_caches, and LocaleContext.clear_cache and                  *)
(* clear_introspection_cache, which clear one cache.                       *)
CallClear(t, S) ==
    /\ pc[t] = "idle"
    /\ Goto(t, "clear")
    /\ toClear' = [ toClear EXCEPT ![t] = S ]
    /\ UNCHANGED <<cached, recent, asked, fresh, answer>>

ClearContexts(t) ==
    /\ "runtime.locale_context" \in toClear[t]
    /\ cached' = Only(cached, Messages)
    /\ recent' = <<>>
    /\ toClear' = [ toClear EXCEPT ![t] = @ \ {"runtime.locale_context"} ]
    /\ pc' = pc

ClearIntrospections(t) ==
    /\ toClear[t] = {"introspection.message"}
    /\ cached' = Only(cached, Locales)
    /\ toClear' = [ toClear EXCEPT ![t] = {} ]
    /\ UNCHANGED <<recent, pc>>

EndClear(t) ==
    /\ toClear[t] = {}
    /\ Goto(t, "idle")
    /\ UNCHANGED <<cached, recent, toClear>>

Clear(t) ==
    /\ pc[t] = "clear"
    /\ ClearContexts(t) \/ ClearIntrospections(t) \/ EndClear(t)
    /\ UNCHANGED <<asked, fresh, answer>>

(* The message that is the key of an entry is garbage: an equal one may    *)
(* still be in use, its entry goes nevertheless.                           *)
Collect(m) ==
    /\ m \in DOMAIN cached
    /\ cached' = Only(cached, Keys \ {m})
    /\ UNCHANGED <<recent, pc, asked, fresh, answer, toClear>>

Step(t) ==
    \/ \E k \in Locales : Create(t, k) \/ CreateOrRaise(t, k)
    \/ \E m \in Messages : Introspect(t, m) \/ IntrospectUncached(t, m)
    \/ StrictParse(t) \/ LookUp(t) \/ Make(t) \/ MakeApart(t) \/ Store(t)
    \/ \E S \in SUBSET Components : CallClear(t, S)
    \/ Clear(t)

Next == (\E t \in Threads : Step(t)) \/ (\E m \in Messages : Collect(m))

Spec == Init /\ [][Next]_vars

-----------------------------------------------------------------------------
TypeOK ==
    /\ DOMAIN cached \subseteq Keys
    /\ \A k \in DOMAIN cached : cached[k] \in Objects
    /\ recent \in Seq(Locales)
    /\ pc \in [Threads -> Steps]
    /\ asked \in [Threads -> Keys \cup {None}]
    /\ fresh \in [Threads -> Objects \cup {None}]
    /\ answer \in [Threads -> Objects \cup {None, Refused}]
    /\ toClear \in [Threads -> SUBSET Components]

(* The order lists every cached locale exactly once, and there are never   *)
(* more than MAX_LOCALE_CACHE_SIZE of them, however many calls that found  *)
(* nothing store at the same time.                                         *)
ContextsBounded ==
    /\ Cardinality(Contexts) <= MaxContexts
    /\ Contexts = { recent[i] : i \in DOMAIN recent }
    /\ \A i, j \in DOMAIN recent : recent[i] = recent[j] => i = j

Apart == { t \in Threads : pc[t] = "make_apart" }
Table == INSTANCE MemoTable WITH memo <- cached, apart <- Apart

(* Concurrent calls with one key get one instance, as long as its entry    *)
(* stays: what a call returns is what the cache has for its key at that    *)
(* moment, and nobody else's.                                              *)
ImplementsMemo == Table!MemoSpec
=============================================================================
