-------------------------- MODULE SharedCachesProofs --------------------------
(***************************************************************************)
(* Proofs about SharedCaches, for any threads, locales, messages and bound *)
(* of the locale cache: the order and the table of the LRU cache belong    *)
(* together and stay within the bound, and both caches implement           *)
(* MemoTable.                                                              *)
(***************************************************************************)
EXTENDS SharedCaches, FiniteSetTheorems, TLAPS

Asking == {"strict", "lookup", "make", "make_apart", "store"}

\* A thread that is at work has a key and no answer yet, and only one that is
\* about to store has made an object.
WorkInv ==
    \A t \in Threads :
        /\ pc[t] \in Asking => asked[t] \in Keys /\ answer[t] = None
        /\ fresh[t] # None <=> pc[t] = "store"

\* What a thread has made and not stored belongs to it alone.
OwnInv ==
    \A t \in Threads : fresh[t] # None =>
        /\ \A k \in DOMAIN cached : cached[k] # fresh[t]
        /\ \A u \in Threads : answer[u] # fresh[t] /\ (u # t => fresh[u] # fresh[t])

IInv == TypeOK /\ ContextsBounded /\ WorkInv /\ OwnInv

-----------------------------------------------------------------------------
(* The order of the LRU cache.                                             *)

Listed(s) == { s[i] : i \in DOMAIN s }
NoneTwice(s) == \A i, j \in DOMAIN s : s[i] = s[j] => i = j

\* move_to_end, first half: taking out a key leaves the others, once each.
LEMMA WithoutKey ==
    ASSUME NEW S, NEW s \in Seq(S), NoneTwice(s), NEW k \in Listed(s)
    PROVE  /\ Without(s, k) \in Seq(S)
           /\ Listed(Without(s, k)) = Listed(s) \ {k}
           /\ NoneTwice(Without(s, k))
<1> DEFINE p == Position(s, k)
           w == Without(s, k)
<1>1. /\ p \in 1 .. Len(s) /\ s[p] = k
      /\ \A i \in 1 .. Len(s) : s[i] = k => i = p
  BY DEF Position, Listed, NoneTwice
<1>2. Len(s) \in Nat /\ Len(s) >= 1 /\ DOMAIN s = 1 .. Len(s)
  BY <1>1
<1>3. /\ DOMAIN w = 1 .. Len(s) - 1
      /\ \A i \in 1 .. Len(s) - 1 : w[i] = IF i < p THEN s[i] ELSE s[i + 1]
  BY DEF Without
<1> HIDE DEF p, w
<1>4. \A i \in 1 .. Len(s) - 1 : w[i] \in S
  BY <1>1, <1>2, <1>3
<1>5. w \in Seq(S)
  <2>1. w = [ i \in 1 .. Len(s) - 1 |-> w[i] ]
    BY <1>3 DEF w, Without
  <2>2. QED
    BY <2>1, <1>2, <1>4
<1>6. Listed(w) = Listed(s) \ {k}
  <2>1. ASSUME NEW i \in 1 .. Len(s) - 1  PROVE w[i] \in Listed(s) \ {k}
    BY <1>1, <1>2, <1>3, <2>1 DEF Listed
  <2>2. ASSUME NEW i \in 1 .. Len(s), s[i] # k  PROVE s[i] \in Listed(w)
    <3>1. CASE i < p
      BY <1>1, <1>2, <1>3, <3>1 DEF Listed
    <3>2. CASE i > p
      <4>1. i - 1 \in 1 .. Len(s) - 1 /\ ~(i - 1 < p) /\ (i - 1) + 1 = i
        BY <1>1, <1>2, <3>2
      <4>2. w[i - 1] = s[i]
        BY <4>1, <1>3
      <4>3. QED
        BY <4>1, <4>2, <1>3 DEF Listed
    <3>3. QED
      BY <1>1, <1>2, <2>2, <3>1, <3>2
  <2>3. QED
    BY <2>1, <2>2, <1>2, <1>3 DEF Listed
<1>7. NoneTwice(w)
  <2> SUFFICES ASSUME NEW i \in 1 .. Len(s) - 1, NEW j \in 1 .. Len(s) - 1, w[i] = w[j]
               PROVE  i = j
    BY <1>3 DEF NoneTwice
  <2> DEFINE at(x) == IF x < p THEN x ELSE x + 1
  <2>1. at(i) \in 1 .. Len(s) /\ at(j) \in 1 .. Len(s)
    BY <1>1, <1>2
  <2>2. s[at(i)] = s[at(j)]
    BY <1>3
  <2>3. at(i) = at(j)
    BY <2>1, <2>2, <1>2 DEF NoneTwice
  <2>4. QED
    BY <2>3, <1>1
<1>8. QED
  BY <1>5, <1>6, <1>7 DEF w

\* move_to_end, second half, and insertion.
LEMMA AppendKey ==
    ASSUME NEW S, NEW s \in Seq(S), NoneTwice(s), NEW k \in S, k \notin Listed(s)
    PROVE  /\ Append(s, k) \in Seq(S)
           /\ Listed(Append(s, k)) = Listed(s) \cup {k}
           /\ NoneTwice(Append(s, k))
<1> DEFINE a == Append(s, k)
<1>1. /\ a \in Seq(S) /\ Len(s) \in Nat /\ Len(a) = Len(s) + 1
      /\ DOMAIN a = 1 .. Len(s) + 1 /\ DOMAIN s = 1 .. Len(s)
      /\ \A i \in 1 .. Len(s) : a[i] = s[i]
      /\ a[Len(s) + 1] = k
  OBVIOUS
<1> HIDE DEF a
<1>2. Listed(a) = Listed(s) \cup {k}
  BY <1>1 DEF Listed
<1>3. NoneTwice(a)
  BY <1>1 DEF NoneTwice, Listed
<1>4. QED
  BY <1>1, <1>2, <1>3 DEF a

\* popitem(last=False).
LEMMA PopKey ==
    ASSUME NEW S, NEW s \in Seq(S), NoneTwice(s), s # <<>>
    PROVE  /\ Head(s) \in Listed(s)
           /\ Tail(s) \in Seq(S)
           /\ Listed(Tail(s)) = Listed(s) \ {Head(s)}
           /\ NoneTwice(Tail(s))
<1> DEFINE r == Tail(s)
<1>1. /\ r \in Seq(S) /\ Len(s) \in Nat /\ Len(s) >= 1 /\ Len(r) = Len(s) - 1
      /\ DOMAIN r = 1 .. Len(s) - 1 /\ DOMAIN s = 1 .. Len(s)
      /\ \A i \in 1 .. Len(s) - 1 : r[i] = s[i + 1]
      /\ Head(s) = s[1]
  OBVIOUS
<1> HIDE DEF r
<1>2. Head(s) \in Listed(s)
  BY <1>1 DEF Listed
<1>3. ASSUME NEW i \in 1 .. Len(s), s[i] # s[1]  PROVE s[i] \in Listed(r)
  <2>1. i - 1 \in 1 .. Len(s) - 1 /\ r[i - 1] = s[i]
    BY <1>1, <1>3
  <2>2. QED
    BY <2>1, <1>1 DEF Listed
<1>4. ASSUME NEW i \in 1 .. Len(s) - 1  PROVE r[i] \in Listed(s) /\ r[i] # s[1]
  <2>1. i + 1 \in 1 .. Len(s) /\ i + 1 # 1 /\ r[i] = s[i + 1]
    BY <1>1
  <2>2. QED
    BY <2>1, <1>1 DEF Listed, NoneTwice
<1>5. Listed(r) = Listed(s) \ {Head(s)}
  <2>1. Listed(r) \subseteq Listed(s) \ {s[1]}
    BY <1>1, <1>4 DEF Listed
  <2>2. Listed(s) \ {s[1]} \subseteq Listed(r)
    <3>1. Listed(s) = { s[i] : i \in 1 .. Len(s) }
      BY <1>1 DEF Listed
    <3>2. QED
      BY <3>1, <1>3
  <2>3. QED
    BY <2>1, <2>2, <1>1
<1>6. NoneTwice(r)
  <2> SUFFICES ASSUME NEW i \in 1 .. Len(s) - 1, NEW j \in 1 .. Len(s) - 1, r[i] = r[j]
               PROVE  i = j
    BY <1>1 DEF NoneTwice
  <2>1. i + 1 \in 1 .. Len(s) /\ j + 1 \in 1 .. Len(s) /\ s[i + 1] = s[j + 1]
    BY <1>1
  <2>2. i + 1 = j + 1
    BY <2>1, <1>1 DEF NoneTwice
  <2>3. QED
    BY <2>2
<1>7. QED
  BY <1>1, <1>2, <1>5, <1>6 DEF r

-----------------------------------------------------------------------------
(* The inductive invariant.                                                *)

\* What a step that leaves both tables alone keeps.
LEMMA TablesKept ==
    ASSUME ContextsBounded, cached' = cached, recent' = recent
    PROVE  ContextsBounded'
BY DEF ContextsBounded, Contexts

LEMMA Bounds ==
    ASSUME TypeOK, ContextsBounded
    PROVE  /\ recent \in Seq(Locales) /\ NoneTwice(recent)
           /\ Listed(recent) = Contexts /\ Contexts \subseteq Locales
           /\ IsFiniteSet(Contexts) /\ Cardinality(Contexts) \in Nat
<1>1. Contexts \subseteq Locales
  BY DEF Contexts
<1>2. IsFiniteSet(Contexts) /\ Cardinality(Contexts) \in Nat
  BY <1>1, KeysAssumption, FS_Subset, FS_CardinalityType
<1>3. QED
  BY <1>1, <1>2 DEF TypeOK, ContextsBounded, Listed, NoneTwice

\* A context that is used again moves to the end.
LEMMA TouchKeeps ==
    ASSUME TypeOK, ContextsBounded, NEW k \in DOMAIN cached,
           cached' = cached, recent' = Touched(k)
    PROVE  recent' \in Seq(Locales) /\ ContextsBounded'
<1>1. CASE k \notin Locales
  BY <1>1 DEF Touched, ContextsBounded, Contexts, TypeOK
<1>2. CASE k \in Locales
  <2> DEFINE w == Without(recent, k)
  <2>1. k \in Listed(recent)
    BY <1>2, Bounds DEF Contexts
  <2>2. w \in Seq(Locales) /\ Listed(w) = Contexts \ {k} /\ NoneTwice(w)
    BY <2>1, Bounds, WithoutKey
  <2>3. recent' = Append(w, k)
    BY <1>2 DEF Touched
  <2> HIDE DEF w
  <2>4. recent' \in Seq(Locales) /\ Listed(recent') = Contexts /\ NoneTwice(recent')
    <3>1. k \notin Listed(w)
      BY <2>2
    <3>2. /\ recent' \in Seq(Locales) /\ NoneTwice(recent')
          /\ Listed(recent') = Listed(w) \cup {k}
      BY <1>2, <2>2, <2>3, <3>1, AppendKey
    <3>3. k \in Contexts
      BY <1>2 DEF Contexts
    <3>4. QED
      BY <2>2, <3>2, <3>3
  <2>5. QED
    BY <2>4 DEF ContextsBounded, Contexts, Listed, NoneTwice
<1>3. QED
  BY <1>1, <1>2

\* A new context makes room for itself when the cache is full.
LEMMA StoreKeeps ==
    ASSUME TypeOK, ContextsBounded, NEW t \in Threads, asked[t] \in Keys,
           fresh[t] \in Objects, StoreContext(t)
    PROVE  /\ recent' \in Seq(Locales) /\ ContextsBounded'
           /\ DOMAIN cached' \subseteq Keys
           /\ \A k \in DOMAIN cached' : cached'[k] = fresh[t] \/ \E j \in DOMAIN cached : cached'[k] = cached[j]
<1> DEFINE k == asked[t]
           kept == IF Evicts THEN Only(cached, Keys \ {Head(recent)}) ELSE cached
           rest == IF Evicts THEN Tail(recent) ELSE recent
           C == DOMAIN kept \cap Locales
<1>1. /\ k \in Locales /\ k \notin DOMAIN cached
      /\ cached' = Extended(kept, k, fresh[t]) /\ recent' = Append(rest, k)
  BY DEF StoreContext
<1>2. /\ DOMAIN kept \subseteq DOMAIN cached
      /\ \A j \in DOMAIN kept : kept[j] = cached[j]
  BY DEF Only
<1>3. /\ rest \in Seq(Locales) /\ NoneTwice(rest) /\ Listed(rest) = C
      /\ Cardinality(C) <= MaxContexts - 1
  <2>1. CASE Evicts
    <3>1. Contexts # {}
      <4>1. Cardinality(Contexts) # 0
        BY <2>1, BoundAssumption, Bounds DEF Evicts
      <4>2. QED
        BY <4>1, FS_EmptySet
    <3>2. recent # <<>>
      BY <3>1, Bounds DEF Listed
    <3>3. /\ Head(recent) \in Contexts
          /\ rest \in Seq(Locales) /\ Listed(rest) = Contexts \ {Head(recent)} /\ NoneTwice(rest)
      BY <2>1, <3>2, Bounds, PopKey
    <3>4. C = Contexts \ {Head(recent)}
      BY <2>1 DEF Only, Contexts, TypeOK
    <3>5. Cardinality(C) = Cardinality(Contexts) - 1
      BY <3>3, <3>4, Bounds, FS_RemoveElement
    <3>6. Cardinality(C) <= MaxContexts - 1
      BY <3>5, Bounds, BoundAssumption DEF ContextsBounded
    <3>7. QED
      BY <3>3, <3>4, <3>6
  <2>2. CASE ~Evicts
    BY <2>2, Bounds, BoundAssumption DEF Evicts, Contexts
  <2>3. QED
    BY <2>1, <2>2
<1>4. Contexts' = C \cup {k} /\ k \notin C
  BY <1>1, <1>2 DEF Contexts, Extended
<1>5. IsFiniteSet(C)
  BY KeysAssumption, FS_Subset
<1>6. Cardinality(Contexts') = Cardinality(C) + 1 /\ Cardinality(C) \in Nat
  BY <1>4, <1>5, FS_AddElement, FS_CardinalityType
<1>7. Cardinality(Contexts') <= MaxContexts
  BY <1>3, <1>6, BoundAssumption
<1>8. DOMAIN cached' = DOMAIN kept \cup {k}
  BY <1>1 DEF Extended
<1>9. \A j \in DOMAIN cached' : cached'[j] = IF j = k THEN fresh[t] ELSE kept[j]
  BY <1>1 DEF Extended
<1>10. k \in Keys
  OBVIOUS
<1> HIDE DEF k, kept, rest, C
<1>11. recent' \in Seq(Locales) /\ Listed(recent') = Contexts' /\ NoneTwice(recent')
  BY <1>1, <1>3, <1>4, AppendKey
<1>12. ContextsBounded'
  BY <1>7, <1>11 DEF ContextsBounded, Listed, NoneTwice
<1>13. DOMAIN cached' \subseteq Keys
  BY <1>2, <1>8, <1>10 DEF TypeOK
<1>14. QED
  BY <1>2, <1>8, <1>9, <1>11, <1>12, <1>13

LEMMA NewIsNew ==
    ASSUME Objects \ InUse # {}
    PROVE  NewObject \in Objects /\ NewObject \notin InUse
BY DEF NewObject

LEMMA InitInv == Init => IInv
<1> SUFFICES ASSUME Init PROVE IInv
  OBVIOUS
<1>1. TypeOK
  BY KeysAssumption DEF Init, TypeOK, Steps
<1>2. ContextsBounded
  <2>1. Contexts = {} /\ Cardinality(Contexts) = 0
    BY FS_EmptySet DEF Init, Contexts
  <2>2. recent = <<>>
    BY DEF Init
  <2>3. QED
    BY <2>1, <2>2, BoundAssumption DEF ContextsBounded
<1>3. WorkInv /\ OwnInv
  BY DEF Init, WorkInv, OwnInv, Asking
<1>4. QED
  BY <1>1, <1>2, <1>3 DEF IInv

\* The steps that leave the tables alone, one by one.
LEMMA ThreadSteps ==
    ASSUME IInv, NEW t \in Threads,
           \/ \E k \in Keys, label \in {"lookup", "strict", "make_apart"} : Start(t, k, label)
           \/ StrictParse(t) \/ Make(t) \/ MakeApart(t)
           \/ \E S \in SUBSET Components : CallClear(t, S)
    PROVE  IInv'
<1> USE DEF IInv
<1>1. cached' = cached /\ recent' = recent
  BY DEF Start, StrictParse, Make, MakeApart, CallClear
<1>2. ContextsBounded'
  BY <1>1, TablesKept
<1>3. ASSUME NEW k \in Keys, NEW label \in {"lookup", "strict", "make_apart"}, Start(t, k, label)
      PROVE  TypeOK' /\ WorkInv' /\ OwnInv'
  <2>1. TypeOK'
    BY <1>3 DEF Start, Goto, TypeOK, Steps
  <2>2. WorkInv' /\ OwnInv'
    BY <1>3, KeysAssumption DEF Start, Goto, TypeOK, WorkInv, OwnInv, Asking
  <2>3. QED
    BY <2>1, <2>2
<1>4. CASE StrictParse(t)
  <2>1. TypeOK'
    BY <1>4 DEF StrictParse, Return, Goto, TypeOK, Steps
  <2>2. WorkInv' /\ OwnInv'
    BY <1>4, ObjectsAssumption DEF StrictParse, Return, Goto, TypeOK, WorkInv, OwnInv, Asking
  <2>3. QED
    BY <2>1, <2>2, <1>2
<1>5. CASE Make(t)
  <2>1. NewObject \in Objects /\ NewObject \notin InUse /\ NewObject # None
    BY <1>5, NewIsNew, ObjectsAssumption DEF Make
  <2>2. TypeOK'
    BY <1>5, <2>1 DEF Make, Goto, TypeOK, Steps
  <2>3. WorkInv'
    BY <1>5, <2>1 DEF Make, Goto, TypeOK, WorkInv, Asking
  <2>4. OwnInv'
    BY <1>5, <2>1 DEF Make, TypeOK, OwnInv, InUse
  <2>5. QED
    BY <2>2, <2>3, <2>4, <1>2
<1>6. CASE MakeApart(t)
  <2>1. NewObject \in Objects /\ NewObject \notin InUse /\ NewObject # None
    BY <1>6, NewIsNew, ObjectsAssumption DEF MakeApart
  <2>2. TypeOK'
    BY <1>6, <2>1 DEF MakeApart, Return, Goto, TypeOK, Steps
  <2>3. WorkInv'
    BY <1>6, <2>1 DEF MakeApart, Return, Goto, TypeOK, WorkInv, Asking
  <2>4. OwnInv'
    BY <1>6, <2>1 DEF MakeApart, Return, TypeOK, OwnInv, InUse
  <2>5. QED
    BY <2>2, <2>3, <2>4, <1>2
<1>7. ASSUME NEW S \in SUBSET Components, CallClear(t, S)
      PROVE  TypeOK' /\ WorkInv' /\ OwnInv'
  <2>1. TypeOK'
    BY <1>7 DEF CallClear, Goto, TypeOK, Steps
  <2>2. WorkInv' /\ OwnInv'
    BY <1>7 DEF CallClear, Goto, TypeOK, WorkInv, OwnInv, Asking
  <2>3. QED
    BY <2>1, <2>2
<1>8. QED
  BY <1>2, <1>3, <1>4, <1>5, <1>6, <1>7

LEMMA LookUpStep ==
    ASSUME IInv, NEW t \in Threads, LookUp(t)
    PROVE  IInv'
<1> USE DEF IInv
<1>1. CASE asked[t] \in DOMAIN cached
  <2>1. /\ answer' = [ answer EXCEPT ![t] = cached[asked[t]] ]
        /\ pc' = [ pc EXCEPT ![t] = "idle" ]
        /\ pc[t] = "lookup" /\ recent' = Touched(asked[t])
        /\ UNCHANGED <<cached, asked, fresh, toClear>>
    BY <1>1 DEF LookUp, Return, Goto
  <2>2. recent' \in Seq(Locales) /\ ContextsBounded'
    BY <1>1, <2>1, TouchKeeps
  <2>3. cached[asked[t]] \in Objects
    BY <1>1 DEF TypeOK
  <2>4. TypeOK'
    BY <2>1, <2>2, <2>3 DEF TypeOK, Steps
  <2>5. WorkInv'
    BY <2>1 DEF TypeOK, WorkInv, Asking
  <2>6. OwnInv'
    BY <1>1, <2>1 DEF TypeOK, OwnInv
  <2>7. QED
    BY <2>2, <2>4, <2>5, <2>6
<1>2. CASE asked[t] \notin DOMAIN cached
  <2>1. /\ pc' = [ pc EXCEPT ![t] = "make" ] /\ pc[t] = "lookup"
        /\ UNCHANGED <<cached, recent, asked, fresh, answer, toClear>>
    BY <1>2 DEF LookUp, Goto
  <2>2. ContextsBounded'
    BY <2>1, TablesKept
  <2>3. TypeOK'
    BY <2>1 DEF TypeOK, Steps
  <2>4. WorkInv' /\ OwnInv'
    BY <2>1 DEF TypeOK, WorkInv, OwnInv, Asking
  <2>5. QED
    BY <2>2, <2>3, <2>4
<1>3. QED
  BY <1>1, <1>2

\* What is stored by a thread is no longer its own, and was nobody else's.
LEMMA StoreStep ==
    ASSUME IInv, NEW t \in Threads, Store(t)
    PROVE  IInv'
<1> USE DEF IInv
<1>1. /\ pc[t] = "store" /\ asked[t] \in Keys /\ answer[t] = None
      /\ fresh[t] \in Objects /\ fresh[t] # None
      /\ fresh' = [ fresh EXCEPT ![t] = None ]
      /\ UNCHANGED <<asked, toClear>>
  BY DEF Store, TypeOK, WorkInv, Asking
<1>2. ASSUME NEW o \in Objects, Return(t, o),
             recent' \in Seq(Locales), ContextsBounded', DOMAIN cached' \subseteq Keys,
             \A k \in DOMAIN cached' :
                 cached'[k] = fresh[t] \/ \E j \in DOMAIN cached : cached'[k] = cached[j],
             o = fresh[t] \/ \E j \in DOMAIN cached : o = cached[j]
      PROVE  IInv'
  <2>1. /\ answer' = [ answer EXCEPT ![t] = o ]
        /\ pc' = [ pc EXCEPT ![t] = "idle" ]
    BY <1>2 DEF Return, Goto
  <2>2. \A k \in DOMAIN cached' : cached'[k] \in Objects
    BY <1>1, <1>2 DEF TypeOK
  <2>3. TypeOK'
    BY <1>1, <1>2, <2>1, <2>2 DEF TypeOK, Steps
  <2>4. WorkInv'
    BY <1>1, <2>1 DEF TypeOK, WorkInv, Asking
  <2>5. OwnInv'
    BY <1>1, <1>2, <2>1 DEF TypeOK, OwnInv
  <2>6. QED
    BY <1>2, <2>3, <2>4, <2>5
<1>3. CASE FindStored(t)
  <2>1. /\ asked[t] \in DOMAIN cached /\ Return(t, cached[asked[t]])
        /\ cached' = cached /\ recent' = recent
    BY <1>3 DEF FindStored
  <2>2. cached[asked[t]] \in Objects /\ DOMAIN cached' \subseteq Keys /\ recent' \in Seq(Locales)
    BY <2>1 DEF TypeOK
  <2>3. ContextsBounded'
    BY <2>1, TablesKept
  <2>4. QED
    BY <1>2, <2>1, <2>2, <2>3
<1>4. CASE StoreContext(t)
  <2>1. Return(t, fresh[t])
    BY <1>4 DEF StoreContext
  <2>2. QED
    BY <1>1, <1>2, <1>4, <2>1, StoreKeeps
<1>5. CASE StoreIntrospection(t)
  <2>1. /\ asked[t] \in Messages /\ asked[t] \notin DOMAIN cached
        /\ cached' = Extended(cached, asked[t], fresh[t])
        /\ recent' = recent /\ Return(t, fresh[t])
    BY <1>5 DEF StoreIntrospection
  <2>2. /\ DOMAIN cached' = DOMAIN cached \cup {asked[t]}
        /\ \A k \in DOMAIN cached' : cached'[k] = IF k = asked[t] THEN fresh[t] ELSE cached[k]
    BY <2>1 DEF Extended
  <2>3. Contexts' = Contexts
    BY <2>1, <2>2, KeysAssumption DEF Contexts
  <2>4. ContextsBounded'
    BY <2>1, <2>3 DEF ContextsBounded
  <2>5. DOMAIN cached' \subseteq Keys /\ recent' \in Seq(Locales)
    BY <1>1, <2>1, <2>2 DEF TypeOK
  <2>6. \A k \in DOMAIN cached' :
            cached'[k] = fresh[t] \/ \E j \in DOMAIN cached : cached'[k] = cached[j]
    BY <2>2
  <2>7. QED
    BY <1>1, <1>2, <2>1, <2>4, <2>5, <2>6
<1>6. QED
  BY <1>3, <1>4, <1>5 DEF Store

\* Forgetting takes nothing from those who hold it.
LEMMA ForgetStep ==
    ASSUME IInv, NEW K, cached' = Only(cached, K), UNCHANGED <<pc, asked, fresh, answer>>
    PROVE  WorkInv' /\ OwnInv'
<1>1. DOMAIN cached' \subseteq DOMAIN cached /\ \A k \in DOMAIN cached' : cached'[k] = cached[k]
  BY DEF Only
<1>2. QED
  BY <1>1 DEF IInv, WorkInv, OwnInv

LEMMA ClearStep ==
    ASSUME IInv, NEW t \in Threads, Clear(t)
    PROVE  IInv'
<1> USE DEF IInv
<1>1. pc[t] = "clear" /\ UNCHANGED <<asked, fresh, answer>> /\ toClear[t] \in SUBSET Components
  BY DEF Clear, TypeOK
<1>2. CASE ClearContexts(t)
  <2>1. /\ cached' = Only(cached, Messages) /\ recent' = <<>> /\ pc' = pc
        /\ toClear' = [ toClear EXCEPT ![t] = @ \ {"runtime.locale_context"} ]
    BY <1>2 DEF ClearContexts
  <2>2. Contexts' = {} /\ Cardinality(Contexts') = 0
    <3>1. Contexts' = {}
      BY <2>1, KeysAssumption DEF Contexts, Only
    <3>2. QED
      BY <3>1, FS_EmptySet
  <2>3. ContextsBounded'
    BY <2>1, <2>2, BoundAssumption DEF ContextsBounded
  <2>4. recent' \in Seq(Locales)
    BY <2>1
  <2>5. TypeOK'
    BY <1>1, <2>1, <2>4 DEF TypeOK, Only
  <2>6. QED
    BY <1>1, <2>1, <2>3, <2>4, <2>5, ForgetStep
<1>3. CASE ClearIntrospections(t)
  <2>1. /\ cached' = Only(cached, Locales) /\ recent' = recent /\ pc' = pc
        /\ toClear' = [ toClear EXCEPT ![t] = {} ]
    BY <1>3 DEF ClearIntrospections
  <2>2. Contexts' = Contexts
    BY <2>1 DEF Contexts, Only
  <2>3. ContextsBounded'
    BY <2>1, <2>2 DEF ContextsBounded
  <2>4. TypeOK'
    BY <1>1, <2>1 DEF TypeOK, Only
  <2>5. QED
    BY <1>1, <2>1, <2>3, <2>4, ForgetStep DEF TypeOK
<1>4. CASE EndClear(t)
  <2>1. /\ pc' = [ pc EXCEPT ![t] = "idle" ]
        /\ UNCHANGED <<cached, recent, toClear>>
    BY <1>4 DEF EndClear, Goto
  <2>2. ContextsBounded'
    BY <2>1, TablesKept
  <2>3. TypeOK'
    BY <1>1, <2>1 DEF TypeOK, Steps
  <2>4. WorkInv' /\ OwnInv'
    BY <1>1, <2>1 DEF TypeOK, WorkInv, OwnInv, Asking
  <2>5. QED
    BY <2>2, <2>3, <2>4
<1>5. QED
  BY <1>2, <1>3, <1>4 DEF Clear

LEMMA CollectStep ==
    ASSUME IInv, NEW m \in Messages, Collect(m)
    PROVE  IInv'
<1> USE DEF IInv
<1>1. /\ cached' = Only(cached, Keys \ {m})
      /\ UNCHANGED <<recent, pc, asked, fresh, answer, toClear>>
  BY DEF Collect
<1>2. Contexts' = Contexts
  BY <1>1, KeysAssumption DEF Contexts, Only, Keys
<1>3. ContextsBounded'
  BY <1>1, <1>2 DEF ContextsBounded
<1>4. TypeOK'
  BY <1>1 DEF TypeOK, Only
<1>5. QED
  BY <1>1, <1>3, <1>4, ForgetStep DEF TypeOK

\* The tables belong together, whoever is in the middle of a call, and every
\* object that waits to be stored has one owner.
THEOREM Invariance == Spec => []IInv
<1>1. IInv /\ [Next]_vars => IInv'
  <2> SUFFICES ASSUME IInv, [Next]_vars PROVE IInv'
    OBVIOUS
  <2>1. ASSUME NEW t \in Threads, Step(t) PROVE IInv'
    <3>1. CASE \E k \in Locales : Create(t, k) \/ CreateOrRaise(t, k)
      BY <3>1, ThreadSteps DEF Create, CreateOrRaise, Keys
    <3>2. CASE \E m \in Messages : Introspect(t, m) \/ IntrospectUncached(t, m)
      BY <3>2, ThreadSteps DEF Introspect, IntrospectUncached, Keys
    <3>3. CASE StrictParse(t) \/ Make(t) \/ MakeApart(t) \/ \E S \in SUBSET Components : CallClear(t, S)
      BY <3>3, ThreadSteps
    <3>4. CASE LookUp(t) \/ Store(t) \/ Clear(t)
      BY <3>4, LookUpStep, StoreStep, ClearStep
    <3>5. QED
      BY <2>1, <3>1, <3>2, <3>3, <3>4 DEF Step
  <2>2. CASE UNCHANGED vars
    <3>1. ContextsBounded'
      BY <2>2, TablesKept DEF vars, IInv
    <3>2. TypeOK' /\ WorkInv' /\ OwnInv'
      BY <2>2 DEF vars, IInv, TypeOK, WorkInv, OwnInv
    <3>3. QED
      BY <3>1, <3>2 DEF IInv
  <2>3. QED
    BY <2>1, <2>2, CollectStep DEF Next
<1>2. QED
  BY <1>1, InitInv, PTL DEF Spec

\* The cache of locale contexts stays within its bound, and its order lists
\* what it has, once (locale_context.py).
THEOREM Bounded == Spec => []ContextsBounded
<1>1. IInv => ContextsBounded
  BY DEF IInv
<1>2. QED
  BY <1>1, Invariance, PTL

-----------------------------------------------------------------------------
(* The refinement: MakeApart, StrictParse when it refuses, LookUp when it  *)
(* finds something and Store answer; the other steps of a call stutter.    *)

LEMMA StoreRefines ==
    ASSUME IInv, NEW t \in Threads, Store(t)
    PROVE  Table!AnswerKnown(t) \/ Table!AnswerNew(t)
<1> USE DEF IInv
<1>1. /\ pc[t] = "store" /\ asked[t] \in Keys /\ answer[t] = None
      /\ fresh[t] \in Objects /\ fresh[t] # None /\ asked' = asked
  BY DEF Store, TypeOK, WorkInv, Asking
<1>2. Table!Waiting(t)
  BY <1>1 DEF Table!Waiting, Apart
<1>3. fresh[t] \in Objects \ Table!Held
  BY <1>1 DEF Table!Held, OwnInv
<1>4. ASSUME NEW o, Return(t, o) PROVE answer' = [ answer EXCEPT ![t] = o ] /\ Apart' = Apart
  <2>1. pc' = [ pc EXCEPT ![t] = "idle" ]
    BY <1>4 DEF Return, Goto
  <2>2. \A u \in Threads : pc'[u] = "make_apart" <=> pc[u] = "make_apart"
    BY <1>1, <2>1 DEF TypeOK
  <2>3. QED
    BY <1>4, <2>2 DEF Return, Apart
<1>5. CASE FindStored(t)
  BY <1>1, <1>2, <1>4, <1>5 DEF FindStored, Table!AnswerKnown
<1>6. CASE StoreContext(t)
  <2> DEFINE kept == IF Evicts THEN Only(cached, Keys \ {Head(recent)}) ELSE cached
  <2>1. /\ asked[t] \notin DOMAIN cached
        /\ cached' = Extended(kept, asked[t], fresh[t]) /\ Return(t, fresh[t])
    BY <1>6 DEF StoreContext
  <2>2. DOMAIN kept \in SUBSET DOMAIN cached /\ \A k \in DOMAIN kept : kept[k] = cached[k]
    BY DEF Only
  <2> HIDE DEF kept
  <2>3. cached' = [ k \in DOMAIN kept \cup {asked[t]} |-> IF k = asked[t] THEN fresh[t] ELSE cached[k] ]
    BY <2>1, <2>2 DEF Extended
  <2>4. QED
    BY <1>1, <1>2, <1>3, <1>4, <2>1, <2>2, <2>3 DEF Table!AnswerNew
<1>7. CASE StoreIntrospection(t)
  <2>1. /\ asked[t] \notin DOMAIN cached /\ Return(t, fresh[t])
        /\ cached' = [ k \in DOMAIN cached \cup {asked[t]} |-> IF k = asked[t] THEN fresh[t] ELSE cached[k] ]
    BY <1>7 DEF StoreIntrospection, Extended
  <2>2. QED
    BY <1>1, <1>2, <1>3, <1>4, <2>1 DEF Table!AnswerNew
<1>8. QED
  BY <1>5, <1>6, <1>7 DEF Store

LEMMA ForgetRefines ==
    ASSUME NEW K, cached' = Only(cached, K), UNCHANGED <<asked, pc, answer>>
    PROVE  Table!Forget
<1>1. DOMAIN cached \cap K \in SUBSET DOMAIN cached
  OBVIOUS
<1>2. Apart' = Apart
  BY DEF Apart
<1>3. QED
  BY <1>1, <1>2 DEF Only, Table!Forget

\* What callers get is what a table would have given them in one step.
THEOREM Refinement == Spec => ImplementsMemo
<1>1. Init => Table!MemoInit
  BY DEF Init, Table!MemoInit, Apart
<1>2. IInv /\ [Next]_vars => [Table!MemoNext]_(Table!memoVars)
  <2> SUFFICES ASSUME IInv, [Next]_vars PROVE Table!MemoNext \/ UNCHANGED Table!memoVars
    OBVIOUS
  <2> USE DEF IInv
  <2>1. ASSUME NEW t \in Threads, NEW k \in Keys, NEW label \in {"lookup", "strict", "make_apart"},
               Start(t, k, label)
        PROVE  Table!Ask(t, k)
    <3>1. /\ cached' = cached /\ asked' = [ asked EXCEPT ![t] = k ]
          /\ answer' = [ answer EXCEPT ![t] = None ] /\ pc' = [ pc EXCEPT ![t] = label ]
      BY <2>1 DEF Start, Goto
    <3>2. Apart' = IF label = "make_apart" THEN Apart \cup {t} ELSE Apart \ {t}
      BY <3>1 DEF Apart, TypeOK
    <3>3. QED
      BY <3>1, <3>2 DEF Table!Ask
  <2>2. ASSUME NEW t \in Threads, Step(t) PROVE Table!MemoNext \/ UNCHANGED Table!memoVars
    <3>1. CASE \E k \in Locales : Create(t, k) \/ CreateOrRaise(t, k)
      BY <3>1, <2>1 DEF Create, CreateOrRaise, Keys, Table!MemoNext
    <3>2. CASE \E m \in Messages : Introspect(t, m) \/ IntrospectUncached(t, m)
      BY <3>2, <2>1 DEF Introspect, IntrospectUncached, Keys, Table!MemoNext
    <3>3. CASE StrictParse(t)
      <4>1. pc[t] = "strict" /\ UNCHANGED <<cached, asked>> /\ asked[t] \in Keys /\ answer[t] = None
        BY <3>3 DEF StrictParse, WorkInv, Asking
      <4>2. Apart' = Apart
        BY <3>3, <4>1 DEF StrictParse, Return, Goto, Apart, TypeOK
      <4>3. CASE asked[t] \in Known
        BY <3>3, <4>1, <4>2, <4>3 DEF StrictParse, Table!memoVars
      <4>4. CASE asked[t] \notin Known
        <5>1. Table!Refuse(t)
          BY <3>3, <4>1, <4>2, <4>4 DEF StrictParse, Return, Table!Refuse, Table!Waiting, Apart
        <5>2. QED
          BY <5>1 DEF Table!MemoNext
      <4>5. QED
        BY <4>3, <4>4
    <3>4. CASE LookUp(t)
      <4>1. pc[t] = "lookup" /\ UNCHANGED <<cached, asked>> /\ asked[t] \in Keys /\ answer[t] = None
        BY <3>4 DEF LookUp, WorkInv, Asking
      <4>2. Apart' = Apart
        BY <3>4, <4>1 DEF LookUp, Return, Goto, Apart, TypeOK
      <4>3. CASE asked[t] \in DOMAIN cached
        <5>1. Table!AnswerKnown(t)
          BY <3>4, <4>1, <4>2, <4>3 DEF LookUp, Return, Table!AnswerKnown, Table!Waiting, Apart
        <5>2. QED
          BY <5>1 DEF Table!MemoNext
      <4>4. CASE asked[t] \notin DOMAIN cached
        BY <3>4, <4>1, <4>2, <4>4 DEF LookUp, Table!memoVars
      <4>5. QED
        BY <4>3, <4>4
    <3>5. CASE Make(t)
      <4>1. Apart' = Apart
        BY <3>5 DEF Make, Goto, Apart, TypeOK
      <4>2. QED
        BY <3>5, <4>1 DEF Make, Table!memoVars
    <3>6. CASE MakeApart(t)
      <4>1. NewObject \in Objects \ Table!Held
        BY <3>6, NewIsNew DEF MakeApart, InUse, Table!Held
      <4>2. t \in Apart /\ Apart' = Apart \ {t}
        BY <3>6 DEF MakeApart, Return, Goto, Apart, TypeOK
      <4>3. Table!AnswerApart(t)
        BY <3>6, <4>1, <4>2 DEF MakeApart, Return, Table!AnswerApart
      <4>4. QED
        BY <4>3 DEF Table!MemoNext
    <3>7. CASE Store(t)
      BY <3>7, StoreRefines DEF Table!MemoNext
    <3>8. CASE \E S \in SUBSET Components : CallClear(t, S)
      <4>1. Apart' = Apart
        BY <3>8 DEF CallClear, Goto, Apart, TypeOK
      <4>2. QED
        BY <3>8, <4>1 DEF CallClear, Table!memoVars
    <3>9. CASE Clear(t)
      <4>1. CASE ClearContexts(t)
        BY <3>9, <4>1, ForgetRefines DEF Clear, ClearContexts, Table!MemoNext
      <4>2. CASE ClearIntrospections(t)
        BY <3>9, <4>2, ForgetRefines DEF Clear, ClearIntrospections, Table!MemoNext
      <4>3. CASE EndClear(t)
        <5>1. Apart' = Apart
          BY <3>9, <4>3 DEF Clear, EndClear, Goto, Apart, TypeOK
        <5>2. QED
          BY <3>9, <4>3, <5>1 DEF Clear, EndClear, Table!memoVars
      <4>4. QED
        BY <3>9, <4>1, <4>2, <4>3 DEF Clear
    <3>10. QED
      BY <2>2, <3>1, <3>2, <3>3, <3>4, <3>5, <3>6, <3>7, <3>8, <3>9 DEF Step
  <2>3. ASSUME NEW m \in Messages, Collect(m) PROVE Table!MemoNext
    BY <2>3, ForgetRefines DEF Collect, Table!MemoNext
  <2>4. CASE UNCHANGED vars
    BY <2>4 DEF vars, Table!memoVars, Apart
  <2>5. QED
    BY <2>2, <2>3, <2>4 DEF Next
<1>3. QED
  BY <1>1, <1>2, Invariance, PTL DEF Spec, ImplementsMemo, Table!MemoSpec
=============================================================================
