-------------------------- MODULE LocalizationProofs --------------------------
(***************************************************************************)
(* Proofs about Localization, for any threads, chain, messages, functions  *)
(* and bound on the changes: what add_resource acknowledged stays, custom  *)
(* functions reach every bundle, and an answer is one the chain justifies. *)
(***************************************************************************)
EXTENDS Localization, TLAPS

Calls == Walks \cup Adds \cup Registrations \cup {NoCall}
Writing == {"recheck", "apply", "add", "pend", "cover"}
OnTheWay == {"look", "wantCreate", "recheck", "apply", "ask"}

TypeOK ==
    /\ heap \in [Objects -> Bundle \cup {NoBundle}]
    /\ bundles \in [Locales -> Objects \cup {NoObject}]
    /\ pending \in [Names -> Functions \cup {None}]
    /\ writer \in Threads \cup {NoThread}
    /\ pc \in [Threads -> Steps]
    /\ call \in [Threads -> Calls]
    /\ at \in [Threads -> Locales \cup {0}]
    /\ ref \in [Threads -> Objects \cup {NoObject}]
    /\ draft \in [Threads -> Bundle \cup {NoBundle}]
    /\ todo \in [Threads -> SUBSET (Names \cup Locales)]
    /\ answer \in [Threads -> SUBSET (Locales \X Ids)]
    /\ before \in [Threads -> SUBSET (Locales \X Ids)]
    /\ acknowledged \subseteq Locales \X Ids
    /\ changes \in 0 .. MaxChanges

\* Who is in a write section can be read off the program counters.
WriterInv ==
    \A t \in Threads : writer = t <=> pc[t] \in Writing

\* What a thread's local variables hold where it is.
CallInv ==
    \A t \in Threads :
        /\ pc[t] \in {"look", "wantCreate", "ask", "format", "callback", "returned"} =>
               call[t] \in Walks
        /\ pc[t] \in {"format", "callback"} => call[t].kind = "format"
        /\ pc[t] \in {"wantAdd", "add"} => call[t] \in Adds
        /\ pc[t] \in {"recheck", "apply"} => call[t] \in Walks \cup Adds
        /\ pc[t] \in {"wantFunction", "pend", "cover"} => call[t] \in Registrations
        /\ pc[t] \in {"look", "wantCreate", "apply", "ask", "format", "add"} => at[t] \in Locales
        /\ pc[t] = "recheck" /\ call[t] \in Walks => at[t] \in Locales

\* A locale's bundle exists, and is no other locale's; a thread outside the
\* lock works with the bundle its locale has.
BundlesInv ==
    /\ \A l \in Locales : bundles[l] # NoObject => heap[bundles[l]] \in Bundle
    /\ \A l, m \in Locales : bundles[l] = bundles[m] /\ bundles[l] # NoObject => l = m
    /\ \A t \in Threads : pc[t] \in {"ask", "format", "add"} =>
           bundles[at[t]] # NoObject /\ ref[t] = bundles[at[t]]

\* A bundle being built is the only one of its locale, empty, and has the
\* pending functions its loop is past.
DraftInv ==
    \A t \in Threads : pc[t] = "apply" =>
        /\ bundles[at[t]] = NoObject
        /\ draft[t] \in Bundle
        /\ draft[t].messages = {}
        /\ todo[t] \subseteq Names
        /\ \A n \in Names \ todo[t] : draft[t].functions[n] = pending[n]

\* A bundle lacks a pending function only until the loop of add_function
\* reaches it.
CoverInv ==
    /\ \A t \in Threads : pc[t] = "cover" =>
           /\ pending[call[t].name] = call[t].func
           /\ todo[t] \subseteq {l \in Locales : bundles[l] # NoObject}
    /\ \A l \in Locales, n \in Names :
           bundles[l] # NoObject /\ pending[n] \notin Bad =>
               \/ heap[bundles[l]].functions[n] = pending[n]
               \/ \E t \in Threads : pc[t] = "cover" /\ call[t].name = n /\ l \in todo[t]

\* What threads have seen of the chain is still there.
SeenInv ==
    /\ acknowledged \subseteq Content
    /\ \A t \in Threads : before[t] \subseteq Content /\ answer[t] \subseteq Content
    /\ \A t \in Threads : pc[t] = "format" => call[t].id \in heap[ref[t]].messages

\* A walk has missed nothing in the locales it is past.
PastInv ==
    \A t \in Threads :
        /\ pc[t] \in OnTheWay \cup {"format"} /\ call[t] \in Walks =>
               \A l \in Locales : l < at[t] =>
                   IF call[t].kind = "ids"
                   THEN \A id \in Ids : <<l, id>> \in before[t] => <<l, id>> \in answer[t]
                   ELSE <<l, call[t].id>> \notin before[t]
        /\ pc[t] \in {"callback", "returned"} =>
               IF call[t].kind = "ids"
               THEN before[t] \subseteq answer[t]
               ELSE \A l \in Locales : <<l, call[t].id>> \in before[t] =>
                        \E k \in 1 .. l : answer[t] = {<<k, call[t].id>>}

IInv == /\ TypeOK /\ WriterInv /\ CallInv /\ BundlesInv
        /\ DraftInv /\ CoverInv /\ SeenInv /\ PastInv

-----------------------------------------------------------------------------

\* What adding a function does.
LEMMA FunctionAdded ==
    ASSUME NEW b \in Bundle, NEW n \in Names, NEW f \in Functions \cup {None}
    PROVE  /\ [b EXCEPT !.functions[n] = f] \in Bundle
           /\ [b EXCEPT !.functions[n] = f].messages = b.messages
           /\ [b EXCEPT !.functions[n] = f].functions = [b.functions EXCEPT ![n] = f]
BY DEF Bundle


\* A query begins: it is before the first locale.
LEMMA StartWalkKeepsIInv ==
    ASSUME IInv, NEW t \in Threads, StartWalk(t)
    PROVE  IInv'
<1> USE LocalizationAssumption DEF IInv, StartWalk, Goes, shared
<1>1. TypeOK'
  <2>1. call' \in [Threads -> Calls]
    BY DEF TypeOK, Calls
  <2>2. at' \in [Threads -> Locales \cup {0}]
    BY DEF TypeOK, Locales
  <2>3. before' \in [Threads -> SUBSET (Locales \X Ids)]
    BY DEF TypeOK, Content
  <2>4. QED
    BY <2>1, <2>2, <2>3 DEF TypeOK, Steps
<1>2. WriterInv'
  BY DEF TypeOK, WriterInv, Writing
<1>3. CallInv'
  BY DEF TypeOK, CallInv, BundlesInv, Locales, Walks, Adds, Registrations
<1>4. BundlesInv'
  BY DEF TypeOK, CallInv, BundlesInv, DraftInv, Built
<1>5. DraftInv'
  BY DEF TypeOK, CallInv, WriterInv, BundlesInv, DraftInv, Writing, Empty, Bundle
<1>6. CoverInv'
  BY DEF TypeOK, CallInv, WriterInv, BundlesInv, DraftInv, CoverInv, Writing, Bundle
<1>7. SeenInv'
  BY DEF TypeOK, CallInv, BundlesInv, DraftInv, SeenInv, Content, Held, Bundle
<1>8. PastInv'
  BY DEF TypeOK, CallInv, PastInv, OnTheWay, Locales
<1>9. QED
  BY <1>1, <1>2, <1>3, <1>4, <1>5, <1>6, <1>7, <1>8

\* The bundle of the locale is there.
LEMMA LookKeepsIInv ==
    ASSUME IInv, NEW t \in Threads, Look(t)
    PROVE  IInv'
<1> USE LocalizationAssumption DEF IInv, Look, Goes, shared
<1>1. TypeOK'
  <2>1. ref' \in [Threads -> Objects \cup {NoObject}]
    BY DEF TypeOK, CallInv
  <2>2. QED
    BY <2>1 DEF TypeOK, Steps
<1>2. WriterInv'
  BY DEF TypeOK, WriterInv, Writing
<1>3. CallInv'
  BY DEF TypeOK, CallInv, BundlesInv, Walks, Adds, Registrations, NoCall
<1>4. BundlesInv'
  BY DEF TypeOK, CallInv, BundlesInv, DraftInv, Built
<1>5. DraftInv'
  BY DEF TypeOK, CallInv, WriterInv, BundlesInv, DraftInv, Writing, Empty, Bundle
<1>6. CoverInv'
  BY DEF TypeOK, CallInv, WriterInv, BundlesInv, DraftInv, CoverInv, Writing, Bundle
<1>7. SeenInv'
  BY DEF TypeOK, CallInv, BundlesInv, DraftInv, SeenInv, Content, Held, Bundle
<1>8. PastInv'
  BY DEF TypeOK, CallInv, BundlesInv, SeenInv, PastInv, OnTheWay, Walks, Content, Held
<1>9. QED
  BY <1>1, <1>2, <1>3, <1>4, <1>5, <1>6, <1>7, <1>8

\* It is not.
LEMMA LookInVainKeepsIInv ==
    ASSUME IInv, NEW t \in Threads, LookInVain(t)
    PROVE  IInv'
<1> USE LocalizationAssumption DEF IInv, LookInVain, Goes, shared, locals
<1>1. TypeOK'
  BY DEF TypeOK, Calls, Steps
<1>2. WriterInv'
  BY DEF TypeOK, WriterInv, Writing
<1>3. CallInv'
  BY DEF TypeOK, CallInv, BundlesInv, Walks, Adds, Registrations, NoCall
<1>4. BundlesInv'
  BY DEF TypeOK, CallInv, BundlesInv, DraftInv, Built
<1>5. DraftInv'
  BY DEF TypeOK, CallInv, WriterInv, BundlesInv, DraftInv, Writing, Empty, Bundle
<1>6. CoverInv'
  BY DEF TypeOK, CallInv, WriterInv, BundlesInv, DraftInv, CoverInv, Writing, Bundle
<1>7. SeenInv'
  BY DEF TypeOK, CallInv, BundlesInv, DraftInv, SeenInv, Content, Held, Bundle
<1>8. PastInv'
  BY DEF TypeOK, CallInv, BundlesInv, SeenInv, PastInv, OnTheWay, Walks, Content, Held
<1>9. QED
  BY <1>1, <1>2, <1>3, <1>4, <1>5, <1>6, <1>7, <1>8

\* The bundle the walk was given lacks the message, and so did the locale
\* when the walk began.
LEMMA AskInVainKeepsIInv ==
    ASSUME IInv, NEW t \in Threads, AskInVain(t)
    PROVE  IInv'
<1> USE LocalizationAssumption DEF IInv, AskInVain, Goes, NextLocale, shared
<1>1. TypeOK'
  <2>1. at' \in [Threads -> Locales \cup {0}]
    BY DEF TypeOK, Locales
  <2>2. QED
    BY <2>1 DEF TypeOK, Steps
<1>2. WriterInv'
  BY DEF TypeOK, WriterInv, Writing
<1>3. CallInv'
  BY DEF TypeOK, CallInv, BundlesInv, Locales, Walks, Adds, Registrations
<1>4. BundlesInv'
  BY DEF TypeOK, CallInv, BundlesInv, DraftInv, Built
<1>5. DraftInv'
  BY DEF TypeOK, CallInv, WriterInv, BundlesInv, DraftInv, Writing, Empty, Bundle
<1>6. CoverInv'
  BY DEF TypeOK, CallInv, WriterInv, BundlesInv, DraftInv, CoverInv, Writing, Bundle
<1>7. SeenInv'
  BY DEF TypeOK, CallInv, BundlesInv, DraftInv, SeenInv, Content, Held, Bundle
<1>8. PastInv'
  <2>1. call[t] \in Walks /\ at[t] \in Locales /\ <<at[t], call[t].id>> \notin before[t]
    BY DEF TypeOK, CallInv, BundlesInv, SeenInv, Content, Held
  <2>2. \A l \in Locales : l < at[t] => <<l, call[t].id>> \notin before[t]
    BY <2>1 DEF PastInv, OnTheWay
  <2>3. \A l \in Locales : l < at[t] + 1 => <<l, call[t].id>> \notin before[t]
    BY <2>1, <2>2 DEF Locales
  <2>4. CASE at[t] < Last
    BY <2>1, <2>3, <2>4 DEF TypeOK, PastInv, OnTheWay
  <2>5. CASE ~(at[t] < Last)
    <3>1. \A l \in Locales : <<l, call[t].id>> \notin before[t]
      BY <2>1, <2>3, <2>5 DEF Locales
    <3>2. QED
      BY <2>5, <3>1 DEF TypeOK, PastInv, OnTheWay
  <2>6. QED
    BY <2>4, <2>5
<1>9. QED
  BY <1>1, <1>2, <1>3, <1>4, <1>5, <1>6, <1>7, <1>8

\* The bundle has the message, and no locale before had it.
LEMMA AskKeepsIInv ==
    ASSUME IInv, NEW t \in Threads, Ask(t)
    PROVE  IInv'
<1> USE LocalizationAssumption DEF IInv, Ask, Goes, shared
<1>1. TypeOK'
  <2>1. <<at[t], call[t].id>> \in Locales \X Ids
    BY DEF TypeOK, CallInv, Walks, BundlesInv, Bundle
  <2>2. QED
    BY <2>1 DEF TypeOK, Steps
<1>2. WriterInv'
  BY DEF TypeOK, WriterInv, Writing
<1>3. CallInv'
  BY DEF TypeOK, CallInv, BundlesInv, Walks, Adds, Registrations, NoCall
<1>4. BundlesInv'
  BY DEF TypeOK, CallInv, BundlesInv, DraftInv, Built
<1>5. DraftInv'
  BY DEF TypeOK, CallInv, WriterInv, BundlesInv, DraftInv, Writing, Empty, Bundle
<1>6. CoverInv'
  BY DEF TypeOK, CallInv, WriterInv, BundlesInv, DraftInv, CoverInv, Writing, Bundle
<1>7. SeenInv'
  BY DEF TypeOK, CallInv, BundlesInv, DraftInv, SeenInv, Content, Held, Bundle
<1>8. PastInv'
  <2>1. call[t] \in Walks /\ at[t] \in Locales /\ call[t].kind # "ids"
    BY DEF TypeOK, CallInv
  <2>2. \A l \in Locales : l < at[t] => <<l, call[t].id>> \notin before[t]
    BY <2>1 DEF PastInv, OnTheWay
  <2>3. \A l \in Locales : <<l, call[t].id>> \in before[t] => at[t] \in 1 .. l
    BY <2>1, <2>2 DEF Locales
  <2>4. QED
    BY <2>1, <2>2, <2>3 DEF TypeOK, PastInv, OnTheWay
<1>9. QED
  BY <1>1, <1>2, <1>3, <1>4, <1>5, <1>6, <1>7, <1>8

\* get_message_ids collects what the locale has, which is all it had.
LEMMA AskIdsKeepsIInv ==
    ASSUME IInv, NEW t \in Threads, AskIds(t)
    PROVE  IInv'
<1> USE LocalizationAssumption DEF IInv, AskIds, Goes, NextLocale, shared
<1>1. TypeOK'
  <2>1. at' \in [Threads -> Locales \cup {0}]
    BY DEF TypeOK, Locales
  <2>2. {at[t]} \X heap[ref[t]].messages \subseteq Locales \X Ids
    BY DEF TypeOK, CallInv, BundlesInv, Bundle
  <2>3. answer' \in [Threads -> SUBSET (Locales \X Ids)]
    BY <2>2 DEF TypeOK
  <2>4. QED
    BY <2>1, <2>2, <2>3 DEF TypeOK, Steps
<1>2. WriterInv'
  BY DEF TypeOK, WriterInv, Writing
<1>3. CallInv'
  BY DEF TypeOK, CallInv, BundlesInv, Locales, Walks, Adds, Registrations
<1>4. BundlesInv'
  BY DEF TypeOK, CallInv, BundlesInv, DraftInv, Built
<1>5. DraftInv'
  BY DEF TypeOK, CallInv, WriterInv, BundlesInv, DraftInv, Writing, Empty, Bundle
<1>6. CoverInv'
  BY DEF TypeOK, CallInv, WriterInv, BundlesInv, DraftInv, CoverInv, Writing, Bundle
<1>7. SeenInv'
  BY DEF TypeOK, CallInv, BundlesInv, DraftInv, SeenInv, Content, Held, Bundle
<1>8. PastInv'
  <2>1. call[t] \in Walks /\ at[t] \in Locales
    BY DEF TypeOK, CallInv
  <2>2. \A id \in Ids : <<at[t], id>> \in before[t] => <<at[t], id>> \in answer'[t]
    BY <2>1 DEF TypeOK, BundlesInv, SeenInv, Content, Held
  <2>3. \A l \in Locales, id \in Ids :
            l < at[t] + 1 => (<<l, id>> \in before[t] => <<l, id>> \in answer'[t])
    <3>1. \A l \in Locales, id \in Ids :
              l < at[t] => (<<l, id>> \in before[t] => <<l, id>> \in answer[t])
      BY <2>1 DEF PastInv, OnTheWay
    <3>2. answer[t] \subseteq answer'[t]
      BY DEF TypeOK
    <3>3. \A l \in Locales : l < at[t] + 1 => l < at[t] \/ l = at[t]
      BY <2>1 DEF Locales
    <3>4. QED
      BY <2>2, <3>1, <3>2, <3>3
  <2>4. CASE at[t] < Last
    BY <2>1, <2>3, <2>4 DEF TypeOK, PastInv, OnTheWay
  <2>5. CASE ~(at[t] < Last)
    <3>1. before[t] \subseteq answer'[t]
      BY <2>1, <2>3, <2>5 DEF TypeOK, Locales
    <3>2. QED
      BY <2>5, <3>1 DEF TypeOK, PastInv, OnTheWay
  <2>6. QED
    BY <2>4, <2>5
<1>9. QED
  BY <1>1, <1>2, <1>3, <1>4, <1>5, <1>6, <1>7, <1>8

\* The text comes from the first locale that had the message, or from one
\* before it.
LEMMA FormatKeepsIInv ==
    ASSUME IInv, NEW t \in Threads, Format(t)
    PROVE  IInv'
<1> USE LocalizationAssumption DEF IInv, Format, Goes, shared
<1>1. TypeOK'
  <2>1. <<at[t], call[t].id>> \in Locales \X Ids
    BY DEF TypeOK, CallInv, Walks
  <2>2. QED
    BY <2>1 DEF TypeOK, Steps
<1>2. WriterInv'
  BY DEF TypeOK, WriterInv, Writing
<1>3. CallInv'
  BY DEF TypeOK, CallInv, BundlesInv, Walks, Adds, Registrations, NoCall
<1>4. BundlesInv'
  BY DEF TypeOK, CallInv, BundlesInv, DraftInv, Built
<1>5. DraftInv'
  BY DEF TypeOK, CallInv, WriterInv, BundlesInv, DraftInv, Writing, Empty, Bundle
<1>6. CoverInv'
  BY DEF TypeOK, CallInv, WriterInv, BundlesInv, DraftInv, CoverInv, Writing, Bundle
<1>7. SeenInv'
  BY DEF TypeOK, CallInv, BundlesInv, DraftInv, SeenInv, Content, Held, Bundle
<1>8. PastInv'
  <2>1. call[t] \in Walks /\ at[t] \in Locales /\ call[t].kind # "ids"
    BY DEF TypeOK, CallInv
  <2>2. \A l \in Locales : l < at[t] => <<l, call[t].id>> \notin before[t]
    BY <2>1 DEF PastInv, OnTheWay
  <2>3. \A l \in Locales : <<l, call[t].id>> \in before[t] => at[t] \in 1 .. l
    BY <2>1, <2>2 DEF Locales
  <2>4. QED
    BY <2>1, <2>2, <2>3 DEF TypeOK, PastInv, OnTheWay
<1>9. QED
  BY <1>1, <1>2, <1>3, <1>4, <1>5, <1>6, <1>7, <1>8

\* on_fallback returns or raises.
LEMMA CallbackKeepsIInv ==
    ASSUME IInv, NEW t \in Threads, Callback(t)
    PROVE  IInv'
<1> USE LocalizationAssumption DEF IInv, Callback, Goes, Ends, shared, locals
<1>1. TypeOK'
  BY SMTT(30) DEF TypeOK, Calls, Steps
<1>2. WriterInv'
  BY DEF TypeOK, WriterInv, Writing
<1>3. CallInv'
  BY DEF TypeOK, CallInv, BundlesInv, Walks, Adds, Registrations, NoCall
<1>4. BundlesInv'
  BY DEF TypeOK, CallInv, BundlesInv, DraftInv, Built
<1>5. DraftInv'
  BY DEF TypeOK, CallInv, WriterInv, BundlesInv, DraftInv, Writing, Empty, Bundle
<1>6. CoverInv'
  <2>1. \A u \in Threads : /\ pc'[u] = "cover" <=> pc[u] = "cover"
                           /\ pc[u] = "cover" => call'[u] = call[u] /\ todo'[u] = todo[u]
    BY DEF TypeOK
  <2>2. QED
    BY <2>1 DEF CoverInv
<1>7. SeenInv'
  BY SMTT(30) DEF TypeOK, CallInv, BundlesInv, DraftInv, SeenInv, Content, Held, Bundle
<1>8. PastInv'
  BY DEF TypeOK, CallInv, BundlesInv, SeenInv, PastInv, OnTheWay, Walks, Content, Held
<1>9. QED
  BY <1>1, <1>2, <1>3, <1>4, <1>5, <1>6, <1>7, <1>8

\* A call returns, or raises, and forgets its variables.
LEMMA ReturnKeepsIInv ==
    ASSUME IInv, NEW t \in Threads, Return(t)
    PROVE  IInv'
<1> USE LocalizationAssumption DEF IInv, Return, Goes, Ends, shared
<1>1. TypeOK'
  BY DEF TypeOK, Calls, Steps
<1>2. WriterInv'
  BY DEF TypeOK, WriterInv, Writing
<1>3. CallInv'
  BY DEF TypeOK, CallInv, BundlesInv, Walks, Adds, Registrations, NoCall
<1>4. BundlesInv'
  BY DEF TypeOK, CallInv, BundlesInv, DraftInv, Built
<1>5. DraftInv'
  BY DEF TypeOK, CallInv, WriterInv, BundlesInv, DraftInv, Writing, Empty, Bundle
<1>6. CoverInv'
  <2>1. \A u \in Threads : /\ pc'[u] = "cover" <=> pc[u] = "cover"
                           /\ pc[u] = "cover" => call'[u] = call[u] /\ todo'[u] = todo[u]
    BY DEF TypeOK
  <2>2. QED
    BY <2>1 DEF CoverInv
<1>7. SeenInv'
  <2>1. \A u \in Threads : /\ before'[u] \in {before[u], {}}
                           /\ answer'[u] \in {answer[u], {}}
                           /\ pc'[u] = "format" => u # t /\ pc[u] = "format"
                           /\ u # t => call'[u] = call[u] /\ ref'[u] = ref[u]
    BY DEF TypeOK
  <2>2. Content' = Content
    BY DEF Content, Held
  <2>3. QED
    BY <2>1, <2>2 DEF SeenInv
<1>8. PastInv'
  BY DEF TypeOK, CallInv, BundlesInv, SeenInv, PastInv, OnTheWay, Walks, Content, Held
<1>9. QED
  BY <1>1, <1>2, <1>3, <1>4, <1>5, <1>6, <1>7, <1>8

\* add_resource is called.
LEMMA CallAddResourceKeepsIInv ==
    ASSUME IInv, NEW t \in Threads, CallAddResource(t)
    PROVE  IInv'
<1> USE LocalizationAssumption DEF IInv, CallAddResource, Goes, shared
<1>1. TypeOK'
  BY DEF TypeOK, Calls, Steps
<1>2. WriterInv'
  BY DEF TypeOK, WriterInv, Writing
<1>3. CallInv'
  BY DEF TypeOK, CallInv, BundlesInv, Walks, Adds, Registrations, NoCall
<1>4. BundlesInv'
  BY DEF TypeOK, CallInv, BundlesInv, DraftInv, Built
<1>5. DraftInv'
  BY DEF TypeOK, CallInv, WriterInv, BundlesInv, DraftInv, Writing, Empty, Bundle
<1>6. CoverInv'
  BY DEF TypeOK, CallInv, WriterInv, BundlesInv, DraftInv, CoverInv, Writing, Bundle
<1>7. SeenInv'
  BY DEF TypeOK, CallInv, BundlesInv, DraftInv, SeenInv, Content, Held, Bundle
<1>8. PastInv'
  BY DEF TypeOK, CallInv, BundlesInv, SeenInv, PastInv, OnTheWay, Walks, Content, Held
<1>9. QED
  BY <1>1, <1>2, <1>3, <1>4, <1>5, <1>6, <1>7, <1>8

\* add_function is called.
LEMMA CallAddFunctionKeepsIInv ==
    ASSUME IInv, NEW t \in Threads, CallAddFunction(t)
    PROVE  IInv'
<1> USE LocalizationAssumption DEF IInv, CallAddFunction, Goes, shared
<1>1. TypeOK'
  BY DEF TypeOK, Calls, Steps
<1>2. WriterInv'
  BY DEF TypeOK, WriterInv, Writing
<1>3. CallInv'
  BY DEF TypeOK, CallInv, BundlesInv, Walks, Adds, Registrations, NoCall
<1>4. BundlesInv'
  BY DEF TypeOK, CallInv, BundlesInv, DraftInv, Built
<1>5. DraftInv'
  BY DEF TypeOK, CallInv, WriterInv, BundlesInv, DraftInv, Writing, Empty, Bundle
<1>6. CoverInv'
  BY DEF TypeOK, CallInv, WriterInv, BundlesInv, DraftInv, CoverInv, Writing, Bundle
<1>7. SeenInv'
  BY DEF TypeOK, CallInv, BundlesInv, DraftInv, SeenInv, Content, Held, Bundle
<1>8. PastInv'
  BY DEF TypeOK, CallInv, BundlesInv, SeenInv, PastInv, OnTheWay, Walks, Content, Held
<1>9. QED
  BY <1>1, <1>2, <1>3, <1>4, <1>5, <1>6, <1>7, <1>8

\* One thread at a time enters a write section.
LEMMA EnterKeepsIInv ==
    ASSUME IInv, NEW t \in Threads, Enter(t)
    PROVE  IInv'
<1> USE LocalizationAssumption DEF IInv, Enter, Goes, Enters, locals
<1>1. TypeOK'
  BY DEF TypeOK, Calls, Steps
<1>2. WriterInv'
  BY DEF TypeOK, WriterInv, Writing
<1>3. CallInv'
  BY DEF TypeOK, CallInv, BundlesInv, Walks, Adds, Registrations, NoCall
<1>4. BundlesInv'
  BY DEF TypeOK, CallInv, BundlesInv, DraftInv, Built
<1>5. DraftInv'
  BY DEF TypeOK, CallInv, WriterInv, BundlesInv, DraftInv, Writing, Empty, Bundle
<1>6. CoverInv'
  BY DEF TypeOK, CallInv, WriterInv, BundlesInv, DraftInv, CoverInv, Writing, Bundle
<1>7. SeenInv'
  BY DEF TypeOK, CallInv, BundlesInv, DraftInv, SeenInv, Content, Held, Bundle
<1>8. PastInv'
  BY DEF TypeOK, CallInv, PastInv, OnTheWay, Walks, Adds, Registrations
<1>9. QED
  BY <1>1, <1>2, <1>3, <1>4, <1>5, <1>6, <1>7, <1>8

\* add_resource refuses a locale outside the chain.
LEMMA NotInChainKeepsIInv ==
    ASSUME IInv, NEW t \in Threads, NotInChain(t)
    PROVE  IInv'
<1> USE LocalizationAssumption DEF IInv, NotInChain, Goes, Ends, Leaves
<1>1. TypeOK'
  BY DEF TypeOK, Calls, Steps
<1>2. WriterInv'
  BY DEF TypeOK, WriterInv, Writing
<1>3. CallInv'
  BY DEF TypeOK, CallInv, BundlesInv, Walks, Adds, Registrations, NoCall
<1>4. BundlesInv'
  BY DEF TypeOK, CallInv, BundlesInv, DraftInv, Built
<1>5. DraftInv'
  BY DEF TypeOK, CallInv, WriterInv, BundlesInv, DraftInv, Writing, Empty, Bundle
<1>6. CoverInv'
  BY DEF TypeOK, CallInv, WriterInv, BundlesInv, DraftInv, CoverInv, Writing, Bundle
<1>7. SeenInv'
  BY DEF TypeOK, CallInv, BundlesInv, DraftInv, SeenInv, Content, Held, Bundle
<1>8. PastInv'
  BY DEF TypeOK, CallInv, BundlesInv, SeenInv, PastInv, OnTheWay, Walks, Content, Held
<1>9. QED
  BY <1>1, <1>2, <1>3, <1>4, <1>5, <1>6, <1>7, <1>8

\* The bundle is there after all.
LEMMA RecheckKeepsIInv ==
    ASSUME IInv, NEW t \in Threads, Recheck(t)
    PROVE  IInv'
<1> USE LocalizationAssumption DEF IInv, Recheck, Goes, Leaves
<1>1. TypeOK'
  BY DEF TypeOK, Calls, Steps
<1>2. WriterInv'
  BY DEF TypeOK, WriterInv, Writing
<1>3. CallInv'
  BY DEF TypeOK, CallInv, BundlesInv, Walks, Adds, Registrations, NoCall
<1>4. BundlesInv'
  BY DEF TypeOK, CallInv, BundlesInv, DraftInv, Built
<1>5. DraftInv'
  BY DEF TypeOK, CallInv, WriterInv, BundlesInv, DraftInv, Writing, Empty, Bundle
<1>6. CoverInv'
  BY DEF TypeOK, CallInv, WriterInv, BundlesInv, DraftInv, CoverInv, Writing, Bundle
<1>7. SeenInv'
  BY DEF TypeOK, CallInv, BundlesInv, DraftInv, SeenInv, Content, Held, Bundle
<1>8. PastInv'
  BY DEF TypeOK, CallInv, BundlesInv, SeenInv, PastInv, OnTheWay, Walks, Content, Held
<1>9. QED
  BY <1>1, <1>2, <1>3, <1>4, <1>5, <1>6, <1>7, <1>8

\* A new bundle lacks exactly the pending functions its loop is to add.
LEMMA CreateKeepsIInv ==
    ASSUME IInv, NEW t \in Threads, Create(t)
    PROVE  IInv'
<1> USE LocalizationAssumption DEF IInv, Create, Goes, shared
<1>1. TypeOK'
  <2>1. Empty(at[t]) \in Bundle
    BY DEF TypeOK, Empty, Bundle
  <2>2. draft' \in [Threads -> Bundle \cup {NoBundle}]
    BY <2>1 DEF TypeOK
  <2>3. todo' \in [Threads -> SUBSET (Names \cup Locales)]
    BY DEF TypeOK
  <2>4. QED
    BY <2>1, <2>2, <2>3 DEF TypeOK, Steps
<1>2. WriterInv'
  BY DEF TypeOK, WriterInv, Writing
<1>3. CallInv'
  BY DEF TypeOK, CallInv, BundlesInv, Walks, Adds, Registrations, NoCall
<1>4. BundlesInv'
  BY DEF TypeOK, CallInv, BundlesInv, DraftInv, Built
<1>5. DraftInv'
  BY DEF TypeOK, CallInv, WriterInv, BundlesInv, DraftInv, Writing, Empty, Bundle
<1>6. CoverInv'
  BY DEF TypeOK, CallInv, WriterInv, BundlesInv, DraftInv, CoverInv, Writing, Bundle
<1>7. SeenInv'
  BY DEF TypeOK, CallInv, BundlesInv, DraftInv, SeenInv, Content, Held, Bundle
<1>8. PastInv'
  BY DEF TypeOK, CallInv, BundlesInv, SeenInv, PastInv, OnTheWay, Walks, Content, Held
<1>9. QED
  BY <1>1, <1>2, <1>3, <1>4, <1>5, <1>6, <1>7, <1>8

\* The loop adds one of them.
LEMMA ApplyKeepsIInv ==
    ASSUME IInv, NEW t \in Threads, Apply(t)
    PROVE  IInv'
<1> USE LocalizationAssumption DEF IInv, Apply, shared
<1>1. TypeOK'
  <2>1. PICK n \in todo[t] : /\ pending[n] \notin Bad
                             /\ draft' = [draft EXCEPT ![t].functions[n] = pending[n]]
                             /\ todo' = [todo EXCEPT ![t] = @ \ {n}]
    OBVIOUS
  <2>2. draft' \in [Threads -> Bundle \cup {NoBundle}]
    BY <2>1, FunctionAdded DEF TypeOK, DraftInv
  <2>3. todo' \in [Threads -> SUBSET (Names \cup Locales)]
    BY <2>1 DEF TypeOK
  <2>4. QED
    BY <2>2, <2>3 DEF TypeOK
<1>2. WriterInv'
  BY DEF TypeOK, WriterInv, Writing
<1>3. CallInv'
  BY DEF TypeOK, CallInv, BundlesInv, Walks, Adds, Registrations, NoCall
<1>4. BundlesInv'
  BY DEF TypeOK, CallInv, BundlesInv, DraftInv, Built
<1>5. DraftInv'
  <2>1. PICK n \in todo[t] : /\ draft' = [draft EXCEPT ![t].functions[n] = pending[n]]
                             /\ todo' = [todo EXCEPT ![t] = @ \ {n}]
    OBVIOUS
  <2>2. /\ draft[t] \in Bundle /\ draft[t].messages = {} /\ todo[t] \subseteq Names
        /\ \A m \in Names \ todo[t] : draft[t].functions[m] = pending[m]
        /\ pending[n] \in Functions \cup {None}
    BY DEF DraftInv, TypeOK
  <2>3. /\ draft'[t] \in Bundle /\ draft'[t].messages = {}
        /\ draft'[t].functions = [draft[t].functions EXCEPT ![n] = pending[n]]
    BY <2>1, <2>2, FunctionAdded DEF TypeOK
  <2>4. draft[t].functions \in [Names -> Functions \cup {None}]
    BY <2>2 DEF Bundle
  <2>5. \A m \in Names \ todo'[t] : draft'[t].functions[m] = pending[m]
    BY <2>1, <2>2, <2>3, <2>4 DEF TypeOK
  <2>6. \A u \in Threads : u # t => draft'[u] = draft[u] /\ todo'[u] = todo[u]
    BY <2>1 DEF TypeOK
  <2>7. todo'[t] \subseteq Names
    BY <2>1, <2>2 DEF TypeOK
  <2>8. QED
    BY <2>2, <2>3, <2>5, <2>6, <2>7 DEF DraftInv
<1>6. CoverInv'
  BY DEF TypeOK, CallInv, WriterInv, BundlesInv, DraftInv, CoverInv, Writing, Bundle
<1>7. SeenInv'
  BY DEF TypeOK, CallInv, BundlesInv, DraftInv, SeenInv, Content, Held, Bundle
<1>8. PastInv'
  BY DEF TypeOK, CallInv, BundlesInv, SeenInv, PastInv, OnTheWay, Walks, Content, Held
<1>9. QED
  BY <1>1, <1>2, <1>3, <1>4, <1>5, <1>6, <1>7, <1>8

\* A function is refused: the draft is dropped.
LEMMA ApplyFailsKeepsIInv ==
    ASSUME IInv, NEW t \in Threads, ApplyFails(t)
    PROVE  IInv'
<1> USE LocalizationAssumption DEF IInv, ApplyFails, Goes, Leaves, locals
<1>1. TypeOK'
  BY DEF TypeOK, Calls, Steps
<1>2. WriterInv'
  BY DEF TypeOK, WriterInv, Writing
<1>3. CallInv'
  BY DEF TypeOK, CallInv, BundlesInv, Walks, Adds, Registrations, NoCall
<1>4. BundlesInv'
  BY DEF TypeOK, CallInv, BundlesInv, DraftInv, Built
<1>5. DraftInv'
  BY DEF TypeOK, CallInv, WriterInv, BundlesInv, DraftInv, Writing, Empty, Bundle
<1>6. CoverInv'
  BY DEF TypeOK, CallInv, WriterInv, BundlesInv, DraftInv, CoverInv, Writing, Bundle
<1>7. SeenInv'
  BY DEF TypeOK, CallInv, BundlesInv, DraftInv, SeenInv, Content, Held, Bundle
<1>8. PastInv'
  BY DEF TypeOK, CallInv, BundlesInv, SeenInv, PastInv, OnTheWay, Walks, Content, Held
<1>9. QED
  BY <1>1, <1>2, <1>3, <1>4, <1>5, <1>6, <1>7, <1>8

\* The bundle that _create_bundle registers is a new object, empty, and the
\* first of its locale.
LEMMA RegisterEffect ==
    ASSUME IInv, NEW t \in Threads, Register(t)
    PROVE  /\ at[t] \in Locales /\ bundles[at[t]] = NoObject
           /\ draft[t] \in Bundle /\ draft[t].messages = {}
           /\ \E o \in Objects \ Built :
                  /\ heap' = [heap EXCEPT ![o] = draft[t]]
                  /\ bundles' = [bundles EXCEPT ![at[t]] = o]
                  /\ ref' = [ref EXCEPT ![t] = o]
                  /\ \A l \in Locales : bundles[l] # o
<1> USE LocalizationAssumption DEF IInv, Register
<1>1. \A o \in Objects \ Built, l \in Locales : bundles[l] # o
  BY DEF BundlesInv, Built, Bundle
<1>2. QED
  BY <1>1 DEF CallInv, DraftInv

\* The draft becomes the locale's bundle, with every pending function.
LEMMA RegisterKeepsIInv ==
    ASSUME IInv, NEW t \in Threads, Register(t)
    PROVE  IInv'
<1> USE LocalizationAssumption DEF IInv, Register, Goes, Leaves
<1>1. TypeOK'
  <2>1. PICK o \in Objects \ Built : /\ heap' = [heap EXCEPT ![o] = draft[t]]
                                     /\ bundles' = [bundles EXCEPT ![at[t]] = o]
                                     /\ ref' = [ref EXCEPT ![t] = o]
    OBVIOUS
  <2>2. heap' \in [Objects -> Bundle \cup {NoBundle}]
    BY <2>1 DEF TypeOK, DraftInv
  <2>3. bundles' \in [Locales -> Objects \cup {NoObject}]
    BY <2>1 DEF TypeOK
  <2>4. ref' \in [Threads -> Objects \cup {NoObject}]
    BY <2>1 DEF TypeOK
  <2>5. QED
    BY <2>2, <2>3, <2>4 DEF TypeOK, Steps
<1>2. WriterInv'
  BY DEF TypeOK, WriterInv, Writing
<1>3. CallInv'
  BY DEF TypeOK, CallInv, BundlesInv, Walks, Adds, Registrations, NoCall
<1>4. BundlesInv'
  <2>1. PICK o \in Objects \ Built : /\ heap' = [heap EXCEPT ![o] = draft[t]]
                                     /\ bundles' = [bundles EXCEPT ![at[t]] = o]
                                     /\ ref' = [ref EXCEPT ![t] = o]
                                     /\ \A l \in Locales : bundles[l] # o
    BY RegisterEffect
  <2>2. /\ at[t] \in Locales /\ bundles[at[t]] = NoObject
        /\ draft[t] \in Bundle /\ draft[t].messages = {}
    BY RegisterEffect
  <2>3. \A l \in Locales : bundles'[l] # NoObject => heap'[bundles'[l]] \in Bundle
    BY <2>1, <2>2 DEF BundlesInv, TypeOK
  <2>4. \A l, m \in Locales : bundles'[l] = bundles'[m] /\ bundles'[l] # NoObject => l = m
    BY <2>1, <2>2 DEF BundlesInv, TypeOK
  <2>5. \A u \in Threads : pc'[u] \in {"ask", "format", "add"} =>
            bundles'[at'[u]] # NoObject /\ ref'[u] = bundles'[at'[u]]
    BY <2>1, <2>2 DEF BundlesInv, TypeOK, CallInv
  <2>6. QED
    BY <2>3, <2>4, <2>5 DEF BundlesInv
<1>5. DraftInv'
  BY DEF TypeOK, CallInv, WriterInv, BundlesInv, DraftInv, Writing, Empty, Bundle
<1>6. CoverInv'
  BY DEF TypeOK, CallInv, WriterInv, BundlesInv, DraftInv, CoverInv, Writing, Bundle
<1>7. SeenInv'
  <2>1. PICK o \in Objects \ Built : /\ heap' = [heap EXCEPT ![o] = draft[t]]
                                     /\ bundles' = [bundles EXCEPT ![at[t]] = o]
                                     /\ ref' = [ref EXCEPT ![t] = o]
                                     /\ \A l \in Locales : bundles[l] # o
    BY RegisterEffect
  <2>2. /\ at[t] \in Locales /\ bundles[at[t]] = NoObject
        /\ draft[t] \in Bundle /\ draft[t].messages = {}
    BY RegisterEffect
  <2>3. \A l \in Locales : bundles[l] # NoObject => /\ bundles'[l] = bundles[l]
                                                    /\ heap'[bundles[l]] = heap[bundles[l]]
    BY <2>1, <2>2 DEF TypeOK
  <2>4. Content \subseteq Content'
    BY <2>3 DEF Content, Held
  <2>5. \A u \in Threads : pc'[u] = "format" =>
            /\ pc[u] = "format" /\ at'[u] = at[u] /\ at[u] \in Locales
            /\ ref'[u] = bundles[at[u]] /\ bundles[at[u]] # NoObject
    BY <2>1 DEF TypeOK, CallInv, BundlesInv
  <2>6. \A u \in Threads : pc'[u] = "format" => call'[u].id \in heap'[ref'[u]].messages
    BY <2>3, <2>5 DEF SeenInv, BundlesInv
  <2>7. QED
    BY <2>4, <2>6 DEF SeenInv
<1>8. PastInv'
  BY DEF TypeOK, CallInv, BundlesInv, SeenInv, PastInv, OnTheWay, Walks, Content, Held
<1>9. QED
  BY <1>1, <1>2, <1>3, <1>4, <1>5, <1>6, <1>7, <1>8

\* add_resource touches only the messages of its locale's bundle, and adds to
\* them.
LEMMA AddEffect ==
    ASSUME IInv, NEW t \in Threads, Add(t)
    PROVE  /\ call[t] \in Adds /\ at[t] \in Locales /\ bundles[at[t]] # NoObject
           /\ ref[t] = bundles[at[t]]
           /\ \A l \in Locales : bundles[l] # NoObject =>
                  /\ heap'[bundles[l]] \in Bundle
                  /\ heap[bundles[l]].messages \subseteq heap'[bundles[l]].messages
                  /\ heap'[bundles[l]].functions = heap[bundles[l]].functions
           /\ acknowledged' \subseteq acknowledged \cup ({at[t]} \X heap'[ref[t]].messages)
<1> USE LocalizationAssumption DEF IInv, Add
<1>1. /\ call[t] \in Adds /\ call[t].ids \in SUBSET Ids /\ at[t] \in Locales
      /\ ref[t] = bundles[at[t]] /\ bundles[at[t]] # NoObject
  BY DEF CallInv, BundlesInv, Adds
<1>2. CASE /\ heap' = [heap EXCEPT ![ref[t]].messages = @ \cup call[t].ids]
           /\ acknowledged' = acknowledged \cup ({at[t]} \X call[t].ids)
  <2>1. heap[ref[t]] \in Bundle
    BY <1>1 DEF BundlesInv
  <2>2. ref[t] \in Objects
    BY <1>1 DEF TypeOK
  <2>3. heap' = [heap EXCEPT ![ref[t]] = [heap[ref[t]] EXCEPT !.messages = @ \cup call[t].ids]]
    BY <1>2
  <2>4. heap'[ref[t]] = [heap[ref[t]] EXCEPT !.messages = @ \cup call[t].ids]
    BY <2>2, <2>3 DEF TypeOK
  <2>5. /\ heap'[ref[t]] \in Bundle
        /\ heap'[ref[t]].messages = heap[ref[t]].messages \cup call[t].ids
        /\ heap'[ref[t]].functions = heap[ref[t]].functions
    <3> HIDE DEF Add, IInv
    <3> QED
      BY <1>1, <2>1, <2>4 DEF Bundle
  <2>6. \A l \in Locales : bundles[l] # NoObject /\ bundles[l] # ref[t] =>
            heap'[bundles[l]] = heap[bundles[l]]
    BY <2>2, <2>3 DEF TypeOK
  <2>7. QED
    BY <1>1, <2>5, <2>6 DEF BundlesInv
<1>3. CASE UNCHANGED <<heap, acknowledged>>
  BY <1>1, <1>3 DEF BundlesInv
<1>4. QED
  BY <1>1, <1>2, <1>3

\* add_resource in its bundle, and its return.
LEMMA AddKeepsIInv ==
    ASSUME IInv, NEW t \in Threads, Add(t)
    PROVE  IInv'
<1> USE LocalizationAssumption DEF IInv, Add, Goes, Ends, Leaves
<1>1. TypeOK'
  <2>1. heap' \in [Objects -> Bundle \cup {NoBundle}]
    BY DEF TypeOK, CallInv, BundlesInv, Bundle, Adds
  <2>2. acknowledged' \subseteq Locales \X Ids
    BY DEF TypeOK, CallInv, Adds
  <2>3. QED
    BY <2>1, <2>2 DEF TypeOK, Steps, Calls
<1>2. WriterInv'
  BY DEF TypeOK, WriterInv, Writing
<1>3. CallInv'
  BY DEF TypeOK, CallInv, BundlesInv, Walks, Adds, Registrations, NoCall
<1>4. BundlesInv'
  <2>1. \A u \in Threads : pc'[u] \in {"ask", "format", "add"} =>
            pc[u] = pc'[u] /\ at'[u] = at[u] /\ ref'[u] = ref[u]
    BY DEF TypeOK
  <2>2. \A l \in Locales : bundles'[l] # NoObject => heap'[bundles'[l]] \in Bundle
    BY AddEffect
  <2>3. QED
    BY <2>1, <2>2 DEF BundlesInv
<1>5. DraftInv'
  BY DEF TypeOK, CallInv, WriterInv, BundlesInv, DraftInv, Writing, Empty, Bundle
<1>6. CoverInv'
  <2>1. \A u \in Threads : /\ pc'[u] = "cover" <=> pc[u] = "cover"
                           /\ pc[u] = "cover" => call'[u] = call[u] /\ todo'[u] = todo[u]
    BY DEF TypeOK
  <2>2. \A l \in Locales : bundles[l] # NoObject =>
            heap'[bundles[l]].functions = heap[bundles[l]].functions
    BY AddEffect
  <2>3. QED
    BY <2>1, <2>2 DEF CoverInv
<1>7. SeenInv'
  <2>1. Content \subseteq Content'
    BY AddEffect DEF Content, Held
  <2>2. acknowledged' \subseteq Content'
    <3>1. /\ at[t] \in Locales /\ bundles'[at[t]] = ref[t] /\ ref[t] # NoObject
          /\ acknowledged' \subseteq acknowledged \cup ({at[t]} \X heap'[ref[t]].messages)
          /\ heap'[ref[t]].messages \subseteq Ids
      BY AddEffect DEF Bundle
    <3>2. {at[t]} \X heap'[ref[t]].messages \subseteq Content'
      BY <3>1 DEF Content, Held
    <3>3. QED
      BY <2>1, <3>1, <3>2 DEF SeenInv
  <2>3. \A u \in Threads : before'[u] \subseteq Content' /\ answer'[u] \subseteq Content'
    BY <2>1 DEF SeenInv, TypeOK
  <2>4. \A u \in Threads : pc'[u] = "format" =>
            /\ pc[u] = "format" /\ at[u] \in Locales /\ call'[u] = call[u]
            /\ ref[u] = bundles[at[u]] /\ ref'[u] = ref[u] /\ bundles[at[u]] # NoObject
    BY DEF TypeOK, CallInv, BundlesInv
  <2>5. \A u \in Threads : pc'[u] = "format" => call'[u].id \in heap'[ref'[u]].messages
    <3>1. \A u \in Threads : pc[u] = "format" => call[u].id \in heap[ref[u]].messages
      BY DEF SeenInv
    <3>2. \A l \in Locales : bundles[l] # NoObject =>
              heap[bundles[l]].messages \subseteq heap'[bundles[l]].messages
      BY AddEffect
    <3> HIDE DEF Add, IInv
    <3>3. QED
      BY <2>4, <3>1, <3>2
  <2>6. QED
    BY <2>2, <2>3, <2>5 DEF SeenInv
<1>8. PastInv'
  BY DEF TypeOK, CallInv, BundlesInv, SeenInv, PastInv, OnTheWay, Walks, Content, Held
<1>9. QED
  BY <1>1, <1>2, <1>3, <1>4, <1>5, <1>6, <1>7, <1>8

\* add_function makes its function pending: the bundles of the chain are
\* what its loop has to cover.
LEMMA PendKeepsIInv ==
    ASSUME IInv, NEW t \in Threads, Pend(t)
    PROVE  IInv'
<1> USE LocalizationAssumption DEF IInv, Pend, Goes
<1>1. TypeOK'
  <2>1. pending' \in [Names -> Functions \cup {None}]
    BY DEF TypeOK, CallInv, Registrations
  <2>2. todo' \in [Threads -> SUBSET (Names \cup Locales)]
    BY DEF TypeOK
  <2>3. QED
    BY <2>1, <2>2 DEF TypeOK, Steps
<1>2. WriterInv'
  BY DEF TypeOK, WriterInv, Writing
<1>3. CallInv'
  BY DEF TypeOK, CallInv, BundlesInv, Walks, Adds, Registrations, NoCall
<1>4. BundlesInv'
  BY DEF TypeOK, CallInv, BundlesInv, DraftInv, Built
<1>5. DraftInv'
  BY DEF TypeOK, CallInv, WriterInv, BundlesInv, DraftInv, Writing, Empty, Bundle
<1>6. CoverInv'
  <2>1. \A u \in Threads : u # t => pc[u] # "cover"
    BY DEF WriterInv, Writing
  <2>2. call[t].name \in Names /\ call[t].func \in Functions
    BY DEF CallInv, Registrations
  <2>3. \A u \in Threads : pc'[u] = "cover" => u = t
    BY <2>1 DEF TypeOK
  <2>4. pc'[t] = "cover" /\ todo'[t] = {l \in Locales : bundles[l] # NoObject}
    BY DEF TypeOK
  <2>5. \A l \in Locales, n \in Names :
            bundles[l] # NoObject /\ pending'[n] \notin Bad /\ n # call[t].name =>
                heap[bundles[l]].functions[n] = pending'[n]
    <3>1. \A n \in Names : n # call[t].name => pending'[n] = pending[n]
      BY <2>2 DEF TypeOK
    <3>2. \A u \in Threads : pc[u] # "cover"
      BY <2>1
    <3>3. QED
      BY <3>1, <3>2 DEF CoverInv
  <2>6. QED
    BY <2>2, <2>3, <2>4, <2>5 DEF TypeOK, CoverInv
<1>7. SeenInv'
  BY DEF TypeOK, CallInv, BundlesInv, DraftInv, SeenInv, Content, Held, Bundle
<1>8. PastInv'
  BY DEF TypeOK, CallInv, BundlesInv, SeenInv, PastInv, OnTheWay, Walks, Content, Held
<1>9. QED
  BY <1>1, <1>2, <1>3, <1>4, <1>5, <1>6, <1>7, <1>8

\* The loop of add_function gives the function to one bundle of the chain, and
\* changes nothing else in it.
LEMMA CoverEffect ==
    ASSUME IInv, NEW t \in Threads, Cover(t)
    PROVE  /\ call[t].name \in Names /\ call[t].func \in Functions
           /\ \E l \in Locales :
                  /\ bundles[l] # NoObject /\ heap[bundles[l]] \in Bundle
                  /\ todo' = [todo EXCEPT ![t] = @ \ {l}]
                  /\ heap' = [heap EXCEPT ![bundles[l]].functions[call[t].name] = call[t].func]
                  /\ heap'[bundles[l]] \in Bundle
                  /\ heap'[bundles[l]].messages = heap[bundles[l]].messages
                  /\ heap'[bundles[l]].functions =
                         [heap[bundles[l]].functions EXCEPT ![call[t].name] = call[t].func]
                  /\ \A m \in Locales : bundles[m] # NoObject /\ m # l =>
                         heap'[bundles[m]] = heap[bundles[m]]
<1> USE LocalizationAssumption DEF IInv, Cover
<1>1. PICK l \in todo[t] : /\ heap' = [heap EXCEPT ![bundles[l]].functions[call[t].name] = call[t].func]
                           /\ todo' = [todo EXCEPT ![t] = @ \ {l}]
  OBVIOUS
<1>2. call[t].name \in Names /\ call[t].func \in Functions
  BY DEF CallInv, Registrations
<1>3. l \in Locales /\ bundles[l] # NoObject /\ heap[bundles[l]] \in Bundle
  BY DEF CoverInv, BundlesInv
<1>4. \A m \in Locales : bundles[m] # NoObject /\ m # l => heap'[bundles[m]] = heap[bundles[m]]
  BY <1>1, <1>3 DEF TypeOK, BundlesInv
<1>5. /\ heap'[bundles[l]] \in Bundle
      /\ heap'[bundles[l]].messages = heap[bundles[l]].messages
      /\ heap'[bundles[l]].functions = [heap[bundles[l]].functions EXCEPT ![call[t].name] = call[t].func]
  BY <1>1, <1>2, <1>3, FunctionAdded DEF TypeOK
<1>6. QED
  BY <1>1, <1>2, <1>3, <1>4, <1>5

\* The loop covers one bundle.
LEMMA CoverKeepsIInv ==
    ASSUME IInv, NEW t \in Threads, Cover(t)
    PROVE  IInv'
<1> USE LocalizationAssumption DEF IInv, Cover
<1>1. TypeOK'
  <2>1. PICK l \in Locales :
            /\ bundles[l] # NoObject /\ heap[bundles[l]] \in Bundle
            /\ todo' = [todo EXCEPT ![t] = @ \ {l}]
            /\ heap' = [heap EXCEPT ![bundles[l]].functions[call[t].name] = call[t].func]
    BY CoverEffect
  <2>2. heap' \in [Objects -> Bundle \cup {NoBundle}]
    BY <2>1, CoverEffect, FunctionAdded DEF TypeOK
  <2>3. todo' \in [Threads -> SUBSET (Names \cup Locales)]
    BY <2>1 DEF TypeOK
  <2>4. QED
    BY <2>2, <2>3 DEF TypeOK
<1>2. WriterInv'
  BY DEF TypeOK, WriterInv, Writing
<1>3. CallInv'
  BY DEF TypeOK, CallInv, BundlesInv, Walks, Adds, Registrations, NoCall
<1>4. BundlesInv'
  <2>1. PICK l \in Locales :
            /\ bundles[l] # NoObject
            /\ todo' = [todo EXCEPT ![t] = @ \ {l}]
            /\ heap'[bundles[l]] \in Bundle
            /\ heap'[bundles[l]].messages = heap[bundles[l]].messages
            /\ heap'[bundles[l]].functions =
                   [heap[bundles[l]].functions EXCEPT ![call[t].name] = call[t].func]
            /\ \A m \in Locales : bundles[m] # NoObject /\ m # l =>
                   heap'[bundles[m]] = heap[bundles[m]]
    BY ZenonT(40), CoverEffect
  <2>2. QED
    BY <2>1 DEF BundlesInv
<1>5. DraftInv'
  BY DEF TypeOK, CallInv, WriterInv, BundlesInv, DraftInv, Writing, Empty, Bundle
<1>6. CoverInv'
  <2>1. PICK l \in Locales :
            /\ bundles[l] # NoObject
            /\ todo' = [todo EXCEPT ![t] = @ \ {l}]
            /\ heap'[bundles[l]] \in Bundle
            /\ heap'[bundles[l]].messages = heap[bundles[l]].messages
            /\ heap'[bundles[l]].functions =
                   [heap[bundles[l]].functions EXCEPT ![call[t].name] = call[t].func]
            /\ \A m \in Locales : bundles[m] # NoObject /\ m # l =>
                   heap'[bundles[m]] = heap[bundles[m]]
    BY ZenonT(40), CoverEffect
  <2>2. /\ todo'[t] = todo[t] \ {l} /\ pc[t] = "cover" /\ pending[call[t].name] = call[t].func
        /\ call[t].name \in Names
    BY <2>1 DEF TypeOK, CoverInv, CallInv, Registrations
  <2>3. \A u \in Threads : u # t => pc[u] # "cover"
    BY DEF WriterInv, Writing
  <2>4. \A n \in Names : pending[n] \notin Bad =>
            \/ heap'[bundles[l]].functions[n] = pending[n]
            \/ \E u \in Threads : pc[u] = "cover" /\ call[u].name = n /\ l \in todo'[u]
    <3>1. heap[bundles[l]].functions \in [Names -> Functions \cup {None}]
      BY <2>1 DEF BundlesInv, Bundle
    <3>2. QED
      BY <2>1, <2>2, <2>3, <3>1 DEF CoverInv
  <2>5. \A m \in Locales, n \in Names : bundles[m] # NoObject /\ pending[n] \notin Bad /\ m # l =>
            \/ heap'[bundles[m]].functions[n] = pending[n]
            \/ \E u \in Threads : pc[u] = "cover" /\ call[u].name = n /\ m \in todo'[u]
    BY <2>1, <2>2, <2>3 DEF CoverInv
  <2>6. \A u \in Threads : pc[u] = "cover" =>
            /\ pending[call[u].name] = call[u].func
            /\ todo'[u] \subseteq {k \in Locales : bundles[k] # NoObject}
    BY <2>2, <2>3 DEF CoverInv
  <2>7. QED
    BY <2>4, <2>5, <2>6 DEF CoverInv
<1>7. SeenInv'
  <2>1. PICK l \in Locales :
            /\ bundles[l] # NoObject
            /\ todo' = [todo EXCEPT ![t] = @ \ {l}]
            /\ heap'[bundles[l]] \in Bundle
            /\ heap'[bundles[l]].messages = heap[bundles[l]].messages
            /\ heap'[bundles[l]].functions =
                   [heap[bundles[l]].functions EXCEPT ![call[t].name] = call[t].func]
            /\ \A m \in Locales : bundles[m] # NoObject /\ m # l =>
                   heap'[bundles[m]] = heap[bundles[m]]
    BY ZenonT(40), CoverEffect
  <2>2. \A m \in Locales : bundles[m] # NoObject => heap'[bundles[m]].messages = heap[bundles[m]].messages
    BY <2>1
  <2>3. Content' = Content
    BY <2>2 DEF Content, Held
  <2>4. \A u \in Threads : pc[u] = "format" => heap'[ref[u]].messages = heap[ref[u]].messages
    BY <2>2 DEF BundlesInv, CallInv
  <2>5. QED
    BY <2>3, <2>4 DEF SeenInv
<1>8. PastInv'
  BY DEF TypeOK, CallInv, BundlesInv, SeenInv, PastInv, OnTheWay, Walks, Content, Held
<1>9. QED
  BY <1>1, <1>2, <1>3, <1>4, <1>5, <1>6, <1>7, <1>8

\* It ends with every bundle covered, or with a function bundles refuse.
LEMMA CoveredKeepsIInv ==
    ASSUME IInv, NEW t \in Threads, Covered(t)
    PROVE  IInv'
<1> USE LocalizationAssumption DEF IInv, Covered, Goes, Ends, Leaves
<1>1. TypeOK'
  BY DEF TypeOK, Calls, Steps
<1>2. WriterInv'
  BY DEF TypeOK, WriterInv, Writing
<1>3. CallInv'
  BY DEF TypeOK, CallInv, BundlesInv, Walks, Adds, Registrations, NoCall
<1>4. BundlesInv'
  BY DEF TypeOK, CallInv, BundlesInv, DraftInv, Built
<1>5. DraftInv'
  BY DEF TypeOK, CallInv, WriterInv, BundlesInv, DraftInv, Writing, Empty, Bundle
<1>6. CoverInv'
  BY DEF TypeOK, CallInv, WriterInv, BundlesInv, DraftInv, CoverInv, Writing, Bundle
<1>7. SeenInv'
  BY DEF TypeOK, CallInv, BundlesInv, DraftInv, SeenInv, Content, Held, Bundle
<1>8. PastInv'
  BY DEF TypeOK, CallInv, BundlesInv, SeenInv, PastInv, OnTheWay, Walks, Content, Held
<1>9. QED
  BY <1>1, <1>2, <1>3, <1>4, <1>5, <1>6, <1>7, <1>8

\* At the start there is no bundle, nothing pending and no call.
LEMMA InitIInv == Init => IInv
<1> SUFFICES ASSUME Init PROVE IInv
  OBVIOUS
<1> USE LocalizationAssumption DEF Init
<1>1. TypeOK
  BY DEF TypeOK, Steps, Calls
<1>2. WriterInv /\ CallInv /\ BundlesInv /\ DraftInv /\ CoverInv
  BY DEF WriterInv, Writing, CallInv, BundlesInv, DraftInv, CoverInv
<1>3. SeenInv /\ PastInv
  BY DEF SeenInv, PastInv, OnTheWay
<1>4. QED
  BY <1>1, <1>2, <1>3 DEF IInv

\* Every step keeps the invariant.
LEMMA StepIInv == IInv /\ [Next]_vars => IInv'
<1> SUFFICES ASSUME IInv, [Next]_vars PROVE IInv'
  OBVIOUS
<1>1. ASSUME NEW t \in Threads, Walk(t) PROVE IInv'
  BY <1>1, StartWalkKeepsIInv, LookKeepsIInv, LookInVainKeepsIInv, AskInVainKeepsIInv, AskKeepsIInv,
     AskIdsKeepsIInv, FormatKeepsIInv, CallbackKeepsIInv, ReturnKeepsIInv
  DEF Walk
<1>2. ASSUME NEW t \in Threads, Write(t) PROVE IInv'
  BY <1>2, CallAddResourceKeepsIInv, CallAddFunctionKeepsIInv, EnterKeepsIInv, NotInChainKeepsIInv,
     RecheckKeepsIInv, CreateKeepsIInv, ApplyKeepsIInv, ApplyFailsKeepsIInv, RegisterKeepsIInv,
     AddKeepsIInv, PendKeepsIInv, CoverKeepsIInv, CoveredKeepsIInv
  DEF Write
<1>3. CASE UNCHANGED vars
  BY <1>3 DEF vars, shared, locals, IInv, TypeOK, WriterInv, CallInv, BundlesInv, DraftInv, CoverInv,
     SeenInv, PastInv, Content, Held
<1>4. QED
  BY <1>1, <1>2, <1>3 DEF Next

-----------------------------------------------------------------------------

\* The inductive invariant holds in every reachable state.
THEOREM Invariance == Spec => []IInv
<1>1. Init => IInv
  BY InitIInv
<1>2. IInv /\ [Next]_vars => IInv'
  BY StepIInv
<1>3. QED
  BY <1>1, <1>2, PTL DEF Spec

\* What add_resource reported as added stays where queries look for it, for
\* any number of threads, locales and resources.
THEOREM Kept == Spec => []ResourcesKept
<1>1. IInv => ResourcesKept
  BY DEF IInv, SeenInv, ResourcesKept
<1>2. QED
  BY <1>1, Invariance, PTL

\* Outside the write sections every bundle of the chain has every pending
\* function that bundles accept, whenever it was created.
THEOREM CoveredFunctions == Spec => []FunctionsCovered
<1>1. IInv => FunctionsCovered
  <2> SUFFICES ASSUME IInv, writer = NoThread
               PROVE  \A t \in Threads : pc[t] # "cover"
    BY DEF IInv, CoverInv, FunctionsCovered
  <2>1. QED
    BY LocalizationAssumption DEF IInv, WriterInv, Writing
<1>2. QED
  BY <1>1, Invariance, PTL

\* A walk that interleaves with any writes answers no later in the chain than
\* the content it started from tells it to.
THEOREM CurrentWalks == Spec => []WalksAreCurrent
<1>1. IInv => WalksAreCurrent
  BY DEF IInv, SeenInv, PastInv, WalksAreCurrent
<1>2. QED
  BY <1>1, Invariance, PTL

\* A locale never loses its bundle or gets a second one, and two locales
\* never share one: the double check of _get_or_create_bundle suffices.
THEOREM OneBundlePerLocale ==
    Spec => /\ [](\A l, m \in Locales : bundles[l] = bundles[m] /\ bundles[l] # NoObject => l = m)
            /\ [][\A l \in Locales : bundles[l] # NoObject => bundles'[l] = bundles[l]]_vars
<1>1. IInv => \A l, m \in Locales : bundles[l] = bundles[m] /\ bundles[l] # NoObject => l = m
  BY DEF IInv, BundlesInv
<1>2. IInv /\ [Next]_vars => [\A l \in Locales : bundles[l] # NoObject => bundles'[l] = bundles[l]]_vars
  <2> SUFFICES ASSUME IInv, NEW t \in Threads, Walk(t) \/ Write(t),
                      NEW l \in Locales, bundles[l] # NoObject
               PROVE  bundles'[l] = bundles[l]
    BY DEF Next
  <2>1. CASE Register(t)
    <3>1. PICK o \in Objects \ Built : bundles' = [bundles EXCEPT ![at[t]] = o]
      BY <2>1, RegisterEffect
    <3>2. bundles[at[t]] = NoObject
      BY <2>1, RegisterEffect
    <3>3. QED
      BY <3>1, <3>2 DEF IInv, TypeOK
  <2>2. CASE ~Register(t)
    BY <2>2 DEF Walk, Write, StartWalk, Look, LookInVain, AskInVain, Ask, AskIds, Format, Callback,
       Return, CallAddResource, CallAddFunction, Enter, NotInChain, Recheck, Create, Apply, ApplyFails,
       Add, Pend, Cover, Covered, shared
  <2>3. QED
    BY <2>1, <2>2
<1>3. QED
  BY <1>1, <1>2, Invariance, PTL DEF Spec
=============================================================================
