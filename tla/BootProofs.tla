------------------------------ MODULE BootProofs ------------------------------
(***************************************************************************)
(* Proofs about Boot, for any threads, chain, resources, required messages *)
(* and schemas: a boot() that returns hands out a localization that is     *)
(* complete and clean, and a thread gets past the one-shot guard once.     *)
(***************************************************************************)
EXTENDS Boot, FiniteSetTheorems, WellFoundedInduction, TLAPS

Statuses == {"success", "junk", "not_found", "error"}

TypeOK ==
    /\ strict \in BOOLEAN /\ booted \in BOOLEAN /\ starts \in Nat
    /\ pc \in [Threads -> Steps]
    /\ results \in [Threads -> Seq(Statuses)]
    /\ bundles \in [Threads -> [Chain -> [Ids -> Definitions] \cup {NoBundle}]]
    /\ found \in [Threads -> SUBSET Chain]

\* Until some call sets the flag, the calls that got past the guard are those
\* about to set it.
Guarded == {t \in Threads : pc[t] = "guarded"}
OneShotInv ==
    /\ starts <= Cardinality(Threads)
    /\ ~booted => /\ starts = Cardinality(Guarded)
                  /\ \A t \in Threads : pc[t] \in {"idle", "guarded"}

\* A resource that was loaded left a bundle in its locale.
LoadInv ==
    \A t \in Threads :
        /\ Len(results[t]) <= Locales * Resources
        /\ \A i \in 1 .. Len(results[t]) : results[t][i] = "success" =>
               LocaleOf(i) \in found[t] /\ bundles[t][LocaleOf(i)] # NoBundle

\* What the checks that a call has passed have found is still so.
Checked == {"clean", "complete", "returned"}
CheckInv ==
    \A t \in Threads :
        /\ pc[t] \in Checked \cup {"loaded"} => Len(results[t]) = Locales * Resources
        /\ pc[t] \in Checked => AllClean(results[t])
        /\ pc[t] \in {"complete", "returned"} => \A id \in Required : Holders(t, id) # {}
        /\ pc[t] = "returned" => \A id \in Schemas :
               \E l \in Chain : /\ bundles[t][l][id] = "right"
                                /\ \A k \in 1 .. (l - 1) : bundles[t][k][id] = "absent"

IInv == TypeOK /\ OneShotInv /\ LoadInv /\ CheckInv

-----------------------------------------------------------------------------
(* Arithmetic of the chain, and the first holder of a message.             *)

LEMMA LeastNatural ==
    ASSUME NEW S \in SUBSET Nat, S # {}
    PROVE  \E n \in S : \A m \in S : n <= m
<1>1. PICK n \in S : \A m \in S : <<m, n>> \notin OpToRel(<, Nat)
  BY NatLessThanWellFounded, WFMin
<1>2. \A m \in S : ~(m < n)
  BY <1>1 DEF OpToRel
<1>3. QED
  BY <1>2

\* The k-th load is of a locale in the chain.
LEMMA LocaleInChain ==
    ASSUME NEW k \in Nat \ {0}, k <= Locales * Resources
    PROVE  LocaleOf(k) \in Chain
<1>1. \A n \in Nat, a \in Nat, b \in Nat \ {0} : n < a * b => n \div b \in 0 .. (a - 1)
  OBVIOUS
<1>2. QED
  BY <1>1, BootAssumption DEF LocaleOf, Chain

\* Every locale of the chain has a load.
LEMMA LocaleHasLoad ==
    ASSUME NEW l \in Chain
    PROVE  \E k \in 1 .. (Locales * Resources) : LocaleOf(k) = l
<1>1. \A n \in Nat, a \in Nat, b \in Nat \ {0} : n < a => n * b + 1 \in 1 .. (a * b)
  OBVIOUS
<1>2. \A n \in Nat, b \in Nat \ {0} : (n * b) \div b = n
  OBVIOUS
<1>3. (l - 1) * Resources + 1 \in 1 .. (Locales * Resources)
  BY <1>1, BootAssumption DEF Chain
<1>4. LocaleOf((l - 1) * Resources + 1) = l
  <2>1. ((l - 1) * Resources + 1) - 1 = (l - 1) * Resources
    BY BootAssumption DEF Chain
  <2>2. QED
    BY <1>2, <2>1, BootAssumption DEF LocaleOf, Chain
<1>5. QED
  BY <1>3, <1>4

\* The holder a walk stops at is the first.
LEMMA FirstHolderIsFirst ==
    ASSUME NEW t \in Threads, NEW id, Holders(t, id) # {}
    PROVE  /\ FirstHolder(t, id) \in Holders(t, id)
           /\ \A k \in Holders(t, id) : FirstHolder(t, id) <= k
<1>1. Holders(t, id) \in SUBSET Nat
  BY BootAssumption DEF Holders, Chain
<1>2. QED
  BY <1>1, LeastNatural DEF FirstHolder

\* When every load succeeded, every locale was found and has its bundle.
LEMMA CleanChain ==
    ASSUME IInv, NEW t \in Threads, pc[t] \in Checked
    PROVE  /\ found[t] = Chain
           /\ \A l \in Chain : bundles[t][l] # NoBundle
<1>1. \A l \in Chain : l \in found[t] /\ bundles[t][l] # NoBundle
  <2> SUFFICES ASSUME NEW l \in Chain PROVE l \in found[t] /\ bundles[t][l] # NoBundle
    OBVIOUS
  <2>1. PICK k \in 1 .. (Locales * Resources) : LocaleOf(k) = l
    BY LocaleHasLoad
  <2>2. k \in 1 .. Len(results[t]) /\ results[t][k] = "success"
    BY <2>1 DEF IInv, CheckInv, TypeOK, AllClean
  <2>3. QED
    BY <2>1, <2>2 DEF IInv, LoadInv
<1>2. QED
  BY <1>1 DEF IInv, TypeOK

-----------------------------------------------------------------------------

LEMMA InitIInv == Init => IInv
<1> SUFFICES ASSUME Init PROVE IInv
  OBVIOUS
<1> USE BootAssumption DEF Init
<1>1. TypeOK
  <2>1. results \in [Threads -> Seq(Statuses)]
    OBVIOUS
  <2>2. bundles \in [Threads -> [Chain -> [Ids -> Definitions] \cup {NoBundle}]]
    OBVIOUS
  <2>3. QED
    BY <2>1, <2>2 DEF TypeOK, Steps
<1>2. OneShotInv
  <2>1. Guarded = {}
    BY DEF Guarded
  <2>2. QED
    BY <2>1, FS_EmptySet, FS_CardinalityType DEF OneShotInv
<1>3. LoadInv
  BY DEF LoadInv
<1>4. CheckInv
  BY DEF CheckInv, Checked
<1>5. QED
  BY <1>1, <1>2, <1>3, <1>4 DEF IInv

\* The steps around the flag: a thread is counted when it gets past the guard,
\* and none gets past it any more once the first of them has set it.
LEMMA OneShotSteps ==
    ASSUME IInv, NEW t \in Threads, BootRefused(t) \/ PassGuard(t) \/ SetBooted(t) \/ Forget(t)
    PROVE  IInv'
<1> USE BootAssumption DEF IInv, Goes, local
<1>1. CASE BootRefused(t)
  <2> USE <1>1 DEF BootRefused
  <2>1. TypeOK'
    BY DEF TypeOK, Steps
  <2>2. OneShotInv'
    BY DEF OneShotInv
  <2>3. LoadInv' /\ CheckInv'
    BY DEF TypeOK, LoadInv, CheckInv, Checked, Holders
  <2>4. QED
    BY <2>1, <2>2, <2>3
<1>2. CASE PassGuard(t)
  <2> USE <1>2 DEF PassGuard
  <2>1. TypeOK'
    BY DEF TypeOK, Steps
  <2>2. OneShotInv'
    <3>1. Guarded' = Guarded \cup {t} /\ t \notin Guarded
      BY DEF TypeOK, Guarded
    <3>2. Guarded \in SUBSET Threads /\ Guarded' \in SUBSET Threads
      BY DEF Guarded
    <3>3. IsFiniteSet(Guarded)
      BY <3>2, FS_Subset
    <3>4. Cardinality(Guarded') = Cardinality(Guarded) + 1
      BY <3>1, <3>3, FS_AddElement
    <3>5. Cardinality(Guarded') <= Cardinality(Threads)
      BY <3>2, FS_Subset
    <3>6. QED
      BY <3>4, <3>5 DEF OneShotInv, TypeOK
  <2>3. LoadInv' /\ CheckInv'
    BY DEF TypeOK, LoadInv, CheckInv, Checked, Holders
  <2>4. QED
    BY <2>1, <2>2, <2>3
<1>3. CASE SetBooted(t)
  <2> USE <1>3 DEF SetBooted
  <2>1. TypeOK'
    BY DEF TypeOK, Steps
  <2>2. OneShotInv'
    BY DEF OneShotInv
  <2>3. LoadInv' /\ CheckInv'
    BY DEF TypeOK, LoadInv, CheckInv, Checked, Holders
  <2>4. QED
    BY <2>1, <2>2, <2>3
<1>4. CASE Forget(t)
  <2> USE <1>4 DEF Forget
  <2>1. TypeOK'
    BY DEF TypeOK, Steps
  <2>2. OneShotInv'
    BY DEF OneShotInv, TypeOK
  <2>3. LoadInv' 
    BY DEF TypeOK, LoadInv
  <2>4. CheckInv'
    BY DEF TypeOK, CheckInv, Checked, Holders
  <2>5. QED
    BY <2>1, <2>2, <2>3, <2>4
<1>5. QED
  BY <1>1, <1>2, <1>3, <1>4

\* One load: its result is recorded, and a text leaves a bundle in its locale.
LEMMA LoadSteps ==
    ASSUME IInv, NEW t \in Threads, LoadFails(t) \/ TextRejected(t) \/ TextAdded(t)
    PROVE  IInv'
<1> USE BootAssumption DEF IInv
<1>1. Loading(t) /\ UNCHANGED <<strict, booted, starts, pc>>
  BY DEF LoadFails, TextRejected, TextAdded
<1>2. PICK status \in Statuses :
          /\ results' = [results EXCEPT ![t] = Append(@, status)]
          /\ status = "success" => TextAdded(t)
  BY DEF LoadFails, TextRejected, TextAdded, Record, Statuses
<1>3. AtLocale(t) \in Chain /\ Len(results[t]) \in Nat /\ Len(results[t]) + 1 <= Locales * Resources
  <2>1. Len(results[t]) \in Nat /\ Len(results[t]) < Locales * Resources
    BY <1>1 DEF Loading, TypeOK
  <2>2. Locales * Resources \in Nat
    OBVIOUS
  <2>3. QED
    BY <2>1, <2>2, LocaleInChain DEF AtLocale
<1>4. \/ UNCHANGED <<bundles, found>> /\ status # "success"
      \/ \E b \in [Ids -> Definitions] :
             /\ bundles' = [bundles EXCEPT ![t] = [@ EXCEPT ![AtLocale(t)] = b]]
             /\ found' = [found EXCEPT ![t] = @ \cup {AtLocale(t)}]
  <2>1. Bundle(t, AtLocale(t)) \in [Ids -> Definitions]
    BY <1>3 DEF TypeOK, Bundle, EmptyBundle, Definitions
  <2>2. CASE LoadFails(t)
    BY <1>2, <2>2 DEF LoadFails, TextAdded, Record, TypeOK
  <2>3. CASE TextRejected(t)
    BY <2>1, <2>3 DEF TextRejected
  <2>4. CASE TextAdded(t)
    <3>1. PICK defined \in [Ids -> Definitions] :
              bundles' = [bundles EXCEPT ![t][AtLocale(t)] =
                  [id \in Ids |-> IF defined[id] = "absent" THEN Bundle(t, AtLocale(t))[id]
                                                         ELSE defined[id]]]
      BY <2>4 DEF TextAdded
    <3>2. [id \in Ids |-> IF defined[id] = "absent" THEN Bundle(t, AtLocale(t))[id]
                                                   ELSE defined[id]] \in [Ids -> Definitions]
      BY <2>1
    <3>3. QED
      BY <2>4, <3>1, <3>2 DEF TextAdded
  <2>5. QED
    BY <2>2, <2>3, <2>4
<1>5. TypeOK'
  <2>1. results' \in [Threads -> Seq(Statuses)]
    BY <1>2 DEF TypeOK
  <2>2. CASE UNCHANGED <<bundles, found>>
    BY <1>1, <2>1, <2>2 DEF TypeOK
  <2>3. ASSUME NEW b \in [Ids -> Definitions],
               bundles' = [bundles EXCEPT ![t] = [@ EXCEPT ![AtLocale(t)] = b]],
               found' = [found EXCEPT ![t] = @ \cup {AtLocale(t)}]
        PROVE  TypeOK'
    <3>1. [bundles[t] EXCEPT ![AtLocale(t)] = b] \in [Chain -> [Ids -> Definitions] \cup {NoBundle}]
      BY DEF TypeOK
    <3>2. bundles' \in [Threads -> [Chain -> [Ids -> Definitions] \cup {NoBundle}]]
      BY <2>3, <3>1 DEF TypeOK
    <3>3. found' \in [Threads -> SUBSET Chain]
      BY <1>3, <2>3 DEF TypeOK
    <3>4. QED
      BY <1>1, <2>1, <3>2, <3>3 DEF TypeOK
  <2>4. QED
    BY <1>4, <2>2, <2>3
<1>6. OneShotInv'
  BY <1>1 DEF OneShotInv, Guarded
<1>7. LoadInv'
  <2>1. Len(results'[t]) = Len(results[t]) + 1
    BY <1>2 DEF TypeOK
  <2>2. \A i \in 1 .. Len(results[t]) : results'[t][i] = results[t][i]
    BY <1>2 DEF TypeOK
  <2>3. results'[t][Len(results[t]) + 1] = status
    BY <1>2 DEF TypeOK
  <2>4. \A u \in Threads \ {t} : /\ results'[u] = results[u] /\ bundles'[u] = bundles[u]
                                 /\ found'[u] = found[u]
    BY <1>2, <1>4 DEF TypeOK
  <2>5. /\ found[t] \subseteq found'[t]
        /\ \A l \in Chain : bundles[t][l] # NoBundle => bundles'[t][l] # NoBundle
    BY <1>3, <1>4 DEF TypeOK, Definitions
  <2>6. status = "success" => AtLocale(t) \in found'[t] /\ bundles'[t][AtLocale(t)] # NoBundle
    BY <1>3, <1>4 DEF TypeOK, Definitions
  <2>7. \A i \in 1 .. Len(results[t]) : LocaleOf(i) \in Chain
    BY <1>3, LocaleInChain
  <2>8. \A i \in 1 .. Len(results'[t]) : results'[t][i] = "success" =>
            LocaleOf(i) \in found'[t] /\ bundles'[t][LocaleOf(i)] # NoBundle
    <3> SUFFICES ASSUME NEW i \in 1 .. Len(results'[t]), results'[t][i] = "success"
                 PROVE  LocaleOf(i) \in found'[t] /\ bundles'[t][LocaleOf(i)] # NoBundle
      OBVIOUS
    <3>1. CASE i = Len(results[t]) + 1
      BY <2>3, <2>6, <3>1 DEF AtLocale
    <3>2. CASE i # Len(results[t]) + 1
      <4>1. i \in 1 .. Len(results[t])
        BY <1>3, <2>1, <3>2
      <4>2. QED
        BY <2>2, <2>5, <2>7, <4>1 DEF LoadInv
    <3>3. QED
      BY <3>1, <3>2
  <2>9. QED
    BY <1>3, <2>1, <2>4, <2>8 DEF LoadInv
<1>8. CheckInv'
  <2>1. pc[t] = "loading"
    BY <1>1 DEF Loading
  <2>2. \A u \in Threads \ {t} : results'[u] = results[u] /\ bundles'[u] = bundles[u]
    BY <1>2, <1>4 DEF TypeOK
  <2>3. QED
    BY <1>1, <2>1, <2>2 DEF CheckInv, Checked, Holders
<1>9. QED
  BY <1>5, <1>6, <1>7, <1>8

\* The constructor returns or raises, and require_clean judges its results.
LEMMA ConstructionSteps ==
    ASSUME IInv, NEW t \in Threads, JunkRaises(t) \/ Constructed(t) \/ RequireClean(t)
    PROVE  IInv'
<1> USE BootAssumption DEF IInv, Goes, local, JunkRaises, Constructed, RequireClean
<1>1. TypeOK'
  BY DEF TypeOK, Steps
<1>2. OneShotInv'
  BY DEF OneShotInv, TypeOK
<1>3. LoadInv'
  BY DEF LoadInv
<1>4. CheckInv'
  <2>1. \A u \in Threads \ {t} : pc'[u] = pc[u]
    BY DEF TypeOK
  <2>2. /\ pc'[t] \in {"raised", "loaded", "clean"}
        /\ pc'[t] \in {"loaded", "clean"} => Len(results[t]) = Locales * Resources
        /\ pc'[t] = "clean" => AllClean(results[t])
    BY DEF TypeOK, CheckInv, Checked
  <2>3. QED
    BY <2>1, <2>2 DEF CheckInv, Checked, Holders, AllClean
<1>5. QED
  BY <1>1, <1>2, <1>3, <1>4

\* The checks walk along a chain that is complete by now, so they create no
\* bundle and see what format calls will see.
LEMMA CheckSteps ==
    ASSUME IInv, NEW t \in Threads, CheckRequired(t) \/ CheckSchemas(t)
    PROVE  IInv'
<1> USE BootAssumption
<1>1. pc[t] \in {"clean", "complete"} /\ UNCHANGED <<strict, booted, starts, results, found>>
  BY DEF CheckRequired, CheckSchemas, Goes
<1>2. UNCHANGED bundles
  <2>1. \A l \in Chain : Bundle(t, l) = bundles[t][l]
    BY <1>1, CleanChain DEF Bundle, Checked
  <2>2. bundles[t] = [l \in Chain |-> bundles[t][l]]
    BY DEF IInv, TypeOK
  <2>3. \A ids : [bundles EXCEPT ![t] = [l \in Chain |->
                     IF \E id \in ids : l \in Walked(t, id) THEN Bundle(t, l) ELSE @[l]]] = bundles
    BY <2>1, <2>2 DEF IInv, TypeOK
  <2>4. QED
    BY <2>3 DEF CheckRequired, CheckSchemas, WalksFor
<1>3. TypeOK'
  BY <1>1, <1>2 DEF IInv, TypeOK, Steps, CheckRequired, CheckSchemas, Goes
<1>4. OneShotInv'
  BY <1>1 DEF IInv, OneShotInv, TypeOK
<1>5. LoadInv'
  BY <1>1, <1>2 DEF IInv, LoadInv
<1>6. CheckInv'
  <2>1. \A u \in Threads \ {t} : pc'[u] = pc[u]
    BY DEF IInv, TypeOK, CheckRequired, CheckSchemas, Goes
  <2>2. /\ pc'[t] \in {"complete", "returned", "raised"}
        /\ Len(results[t]) = Locales * Resources /\ AllClean(results[t])
    BY <1>1 DEF IInv, TypeOK, CheckInv, Checked, CheckRequired, CheckSchemas, Goes
  <2>3. pc'[t] \in {"complete", "returned"} => \A id \in Required : Holders(t, id) # {}
    BY <1>1 DEF IInv, TypeOK, CheckInv, CheckRequired, CheckSchemas, Goes
  <2>4. ASSUME pc'[t] = "returned", NEW id \in Schemas
        PROVE  \E l \in Chain : /\ bundles[t][l][id] = "right"
                                /\ \A k \in 1 .. (l - 1) : bundles[t][k][id] = "absent"
    <3>1. Holders(t, id) # {} /\ bundles[t][FirstHolder(t, id)][id] = "right"
      BY <2>4 DEF IInv, TypeOK, CheckRequired, CheckSchemas, Goes
    <3>2. FirstHolder(t, id) \in Chain
      BY <3>1, FirstHolderIsFirst DEF Holders
    <3>3. \A k \in 1 .. (FirstHolder(t, id) - 1) : k \in Chain /\ k \notin Holders(t, id)
      BY <3>1, <3>2, FirstHolderIsFirst DEF Chain
    <3>4. \A k \in 1 .. (FirstHolder(t, id) - 1) : bundles[t][k][id] = "absent"
      BY <1>1, <3>3, CleanChain DEF Holders, Checked
    <3>5. QED
      BY <3>1, <3>2, <3>4
  <2>5. QED
    BY <1>1, <1>2, <2>1, <2>2, <2>3, <2>4 DEF IInv, CheckInv, Checked, Holders
<1>7. QED
  BY <1>3, <1>4, <1>5, <1>6 DEF IInv

\* Every step of every thread keeps the invariant.
LEMMA StepIInv == IInv /\ [Next]_vars => IInv'
<1> SUFFICES ASSUME IInv, [Next]_vars PROVE IInv'
  OBVIOUS
<1>1. ASSUME NEW t \in Threads, Boot(t) PROVE IInv'
  BY <1>1, OneShotSteps, LoadSteps, ConstructionSteps, CheckSteps DEF Boot
<1>2. CASE UNCHANGED vars
  BY <1>2 DEF vars, IInv, TypeOK, OneShotInv, Guarded, LoadInv, CheckInv, Holders
<1>3. QED
  BY <1>1, <1>2 DEF Next

-----------------------------------------------------------------------------

\* The inductive invariant holds in every reachable state.
THEOREM Invariance == Spec => []IInv
<1>1. Init => IInv
  BY InitIInv
<1>2. IInv /\ [Next]_vars => IInv'
  BY StepIInv
<1>3. QED
  BY <1>1, <1>2, PTL DEF Spec

\* A boot() that returns hands out a complete and clean localization, and no
\* more calls than threads ever got past the one-shot guard.
THEOREM ValidBoot == Spec => []BootedIsValid
<1>1. IInv => BootedIsValid
  <2> SUFFICES ASSUME IInv, NEW t \in Threads, pc[t] = "returned"
               PROVE  /\ starts <= Cardinality(Threads)
                      /\ Len(results[t]) = Locales * Resources
                      /\ \A i \in DOMAIN results[t] : results[t][i] = "success"
                      /\ found[t] = Chain
                      /\ \A id \in Required : \E l \in Chain : bundles[t][l][id] # "absent"
                      /\ \A id \in Schemas : \E l \in Chain :
                            /\ bundles[t][l][id] = "right"
                            /\ \A k \in 1 .. (l - 1) : bundles[t][k][id] = "absent"
    BY DEF BootedIsValid
  <2>1. found[t] = Chain
    BY CleanChain DEF Checked
  <2>2. \A id \in Required : \E l \in Chain : bundles[t][l][id] # "absent"
    BY DEF IInv, CheckInv, Holders
  <2>3. QED
    BY <2>1, <2>2 DEF IInv, OneShotInv, CheckInv, Checked, AllClean
<1>2. QED
  BY <1>1, Invariance, PTL

\* The flag is never reset, and once it is set nobody gets past the guard.
THEOREM OneShot == Spec => [][booted => booted' /\ starts' = starts]_vars
<1>1. [Next]_vars => [booted => booted' /\ starts' = starts]_vars
  BY DEF Next, Boot, BootRefused, PassGuard, SetBooted, Forget, LoadFails, TextRejected, TextAdded,
     JunkRaises, Constructed, RequireClean, CheckRequired, CheckSchemas, vars
<1>2. QED
  BY <1>1, PTL DEF Spec
=============================================================================
