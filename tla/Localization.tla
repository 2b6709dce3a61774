---------------------------- MODULE Localization ----------------------------
(***************************************************************************)
(* One FluentLocalization used by several threads: a chain of locales, a   *)
(* bundle per locale that is created when it is first needed, and custom   *)
(* functions that must reach the bundles that exist and those that will.   *)
(* The lock is the one ReadWriteMutex promises; a read section that only   *)
(* looks a bundle up is one step.  A bundle's own operations are atomic,   *)
(* which FluentBundle shows, and happen outside this lock in every query:  *)
(* a thread goes on with the bundle object it was given.  Locales are      *)
(* their positions in the chain; the primary locale is 1.                  *)
(***************************************************************************)
EXTENDS Naturals, FiniteSets

CONSTANTS Threads, NoThread,
          Last,          \* length of the fallback chain
          Ids,           \* message ids
          Names,         \* names of custom functions
          Functions,     \* callables
          Bad,           \* callables that FunctionRegistry.register refuses
          None,          \* no function under this name
          Objects, NoObject,   \* identities of FluentBundle objects
          NoBundle,      \* an identity not in use
          MaxChanges     \* bound on the calls of add_resource and add_function

Locales == 1 .. Last

ASSUME LocalizationAssumption ==
    /\ NoThread \notin Threads
    /\ Last \in Nat \ {0}
    /\ Bad \subseteq Functions
    /\ None \notin Functions
    /\ NoObject \notin Objects
    /\ NoBundle \notin [locale : Locales, messages : SUBSET Ids,
                        functions : [Names -> Functions \cup {None}]]
    /\ MaxChanges \in Nat

VARIABLES heap,        \* the FluentBundle objects
          bundles,     \* _bundles
          pending,     \* _pending_functions
          writer,      \* the thread in a write section of _lock
          pc,          \* where each thread is in its call
          call,        \* the arguments of its call
          at,          \* the locale it is at
          ref,         \* the bundle it was given, or is building
          draft,       \* a bundle that _create_bundle has not registered yet
          todo,        \* what its loop over functions or bundles has left
          answer,      \* what its call returns
          before,      \* history: what the chain held when its call began
          acknowledged, \* history: the messages of the add_resource calls that returned
          changes      \* calls that change something, so far

shared == <<heap, bundles, pending, writer>>
locals == <<call, at, ref, draft, todo, answer, before>>
vars == <<shared, pc, locals, acknowledged, changes>>

Bundle == [locale : Locales, messages : SUBSET Ids, functions : [Names -> Functions \cup {None}]]
Built == {o \in Objects : heap[o] # NoBundle}
Held(l) == IF bundles[l] = NoObject THEN {} ELSE heap[bundles[l]].messages
Content == {c \in Locales \X Ids : c[2] \in Held(c[1])}
Empty(l) == [locale |-> l, messages |-> {}, functions |-> [n \in Names |-> None]]

NoCall == [kind |-> "none"]
Walks == {[kind |-> k, id |-> id] : k \in {"format", "has"}, id \in Ids} \cup {[kind |-> "ids"]}
Adds == {[kind |-> "add", ids |-> ids] : ids \in SUBSET Ids \ {{}}}
Registrations == {[kind |-> "function", name |-> n, func |-> f] : n \in Names, f \in Functions}

Steps == {"idle", "look", "wantCreate", "wantAdd", "wantFunction", "recheck", "apply", "add",
          "cover", "pend", "ask", "format", "callback", "returned", "refused"}

Init ==
    /\ heap = [o \in Objects |-> NoBundle]
    /\ bundles = [l \in Locales |-> NoObject]
    /\ pending = [n \in Names |-> None]
    /\ writer = NoThread
    /\ pc = [t \in Threads |-> "idle"]
    /\ call = [t \in Threads |-> NoCall]
    /\ at = [t \in Threads |-> 0]
    /\ ref = [t \in Threads |-> NoObject]
    /\ draft = [t \in Threads |-> NoBundle]
    /\ todo = [t \in Threads |-> {}]
    /\ answer = [t \in Threads |-> {}]
    /\ before = [t \in Threads |-> {}]
    /\ acknowledged = {} /\ changes = 0

Goes(t, from, to) == pc[t] = from /\ pc' = [pc EXCEPT ![t] = to]
Enters(t) == writer = NoThread /\ writer' = t
Leaves(t) == writer' = NoThread

\* The call is over: its local variables are gone.
Ends(t, from) ==
    /\ Goes(t, from, "idle")
    /\ call' = [call EXCEPT ![t] = NoCall]
    /\ at' = [at EXCEPT ![t] = 0]
    /\ ref' = [ref EXCEPT ![t] = NoObject]
    /\ draft' = [draft EXCEPT ![t] = NoBundle]
    /\ todo' = [todo EXCEPT ![t] = {}]
    /\ answer' = [answer EXCEPT ![t] = {}]
    /\ before' = [before EXCEPT ![t] = {}]

-----------------------------------------------------------------------------
(* The walk along the chain: format_value and format_pattern, has_message   *)
(* and the other queries for one message, get_message_ids.                 *)

StartWalk(t) ==
    /\ Goes(t, "idle", "look")
    /\ \E w \in Walks : call' = [call EXCEPT ![t] = w]
    /\ at' = [at EXCEPT ![t] = 1]
    /\ before' = [before EXCEPT ![t] = Content]
    /\ UNCHANGED <<shared, ref, draft, todo, answer, acknowledged, changes>>

\* _get_or_create_bundle, under the read lock: the bundle is there.
Look(t) ==
    /\ Goes(t, "look", "ask")
    /\ writer = NoThread
    /\ bundles[at[t]] # NoObject
    /\ ref' = [ref EXCEPT ![t] = bundles[at[t]]]
    /\ UNCHANGED <<shared, call, at, draft, todo, answer, before, acknowledged, changes>>

\* It is not: the read lock is released and the write lock asked for.
LookInVain(t) ==
    /\ Goes(t, "look", "wantCreate")
    /\ writer = NoThread
    /\ bundles[at[t]] = NoObject
    /\ UNCHANGED <<shared, locals, acknowledged, changes>>

\* The chain goes on, or ends.
NextLocale(t) ==
    IF at[t] < Last
    THEN Goes(t, "ask", "look") /\ at' = [at EXCEPT ![t] = @ + 1]
    ELSE Goes(t, "ask", "returned") /\ UNCHANGED at

\* Mutant: the walk stops at the first locale that lacks the message.
AskOnce(t) ==
    /\ pc[t] = "ask" /\ call[t].kind # "ids" /\ call[t].id \notin heap[ref[t]].messages
    /\ Goes(t, "ask", "returned")
    /\ ref' = [ref EXCEPT ![t] = NoObject]
    /\ UNCHANGED <<shared, call, at, draft, todo, answer, before, acknowledged, changes>>

\* bundle.has_message is false.
AskInVain(t) ==
    /\ pc[t] = "ask" /\ call[t].kind # "ids" /\ call[t].id \notin heap[ref[t]].messages
    /\ NextLocale(t)
    /\ ref' = [ref EXCEPT ![t] = NoObject]
    /\ UNCHANGED <<shared, call, draft, todo, answer, before, acknowledged, changes>>

\* It is true: has_message answers, format_pattern asks the bundle to format.
Ask(t) ==
    /\ pc[t] = "ask" /\ call[t].kind # "ids" /\ call[t].id \in heap[ref[t]].messages
    /\ IF call[t].kind = "has"
       THEN Goes(t, "ask", "returned") /\ answer' = [answer EXCEPT ![t] = {<<at[t], call[t].id>>}]
       ELSE Goes(t, "ask", "format") /\ UNCHANGED answer
    /\ UNCHANGED <<shared, call, at, ref, draft, todo, before, acknowledged, changes>>

\* get_message_ids: the ids of this locale, too.
AskIds(t) ==
    /\ pc[t] = "ask" /\ call[t].kind = "ids"
    /\ NextLocale(t)
    /\ answer' = [answer EXCEPT ![t] = @ \cup ({at[t]} \X heap[ref[t]].messages)]
    /\ ref' = [ref EXCEPT ![t] = NoObject]
    /\ UNCHANGED <<shared, call, draft, todo, before, acknowledged, changes>>

\* bundle.format_pattern: the text is this locale's.
Format(t) ==
    /\ Goes(t, "format", IF at[t] = 1 THEN "returned" ELSE "callback")
    /\ answer' = [answer EXCEPT ![t] = {<<at[t], call[t].id>>}]
    /\ UNCHANGED <<shared, call, at, ref, draft, todo, before, acknowledged, changes>>

\* on_fallback runs, with no lock held; what it raises ends the call.
Callback(t) ==
    \/ /\ Goes(t, "callback", "returned")
       /\ UNCHANGED <<shared, locals, acknowledged, changes>>
    \/ /\ Ends(t, "callback")
       /\ UNCHANGED <<shared, acknowledged, changes>>

Return(t) ==
    /\ Ends(t, "returned") \/ Ends(t, "refused")
    /\ UNCHANGED <<shared, acknowledged, changes>>

-----------------------------------------------------------------------------
(* The write sections.                                                     *)

\* add_resource and add_resource_stream; locale 0 is one that is not in the
\* chain.
CallAddResource(t) ==
    /\ changes < MaxChanges
    /\ Goes(t, "idle", "wantAdd")
    /\ \E a \in Adds : call' = [call EXCEPT ![t] = a]
    /\ \E l \in Locales \cup {0} : at' = [at EXCEPT ![t] = l]
    /\ changes' = changes + 1
    /\ UNCHANGED <<shared, ref, draft, todo, answer, before, acknowledged>>

CallAddFunction(t) ==
    /\ changes < MaxChanges
    /\ Goes(t, "idle", "wantFunction")
    /\ \E r \in Registrations : call' = [call EXCEPT ![t] = r]
    /\ changes' = changes + 1
    /\ UNCHANGED <<shared, at, ref, draft, todo, answer, before, acknowledged>>

\* Mutant: several threads may be in a write section.
EnterUnchecked(t) ==
    /\ \/ Goes(t, "wantCreate", "recheck")
       \/ Goes(t, "wantAdd", "recheck")
       \/ Goes(t, "wantFunction", "pend")
    /\ writer' = t
    /\ UNCHANGED <<heap, bundles, pending, locals, acknowledged, changes>>

Enter(t) ==
    /\ \/ Goes(t, "wantCreate", "recheck")
       \/ Goes(t, "wantAdd", "recheck")
       \/ Goes(t, "wantFunction", "pend")
    /\ Enters(t)
    /\ UNCHANGED <<heap, bundles, pending, locals, acknowledged, changes>>

\* ValueError: the locale is not in the chain.
NotInChain(t) ==
    /\ pc[t] = "recheck" /\ at[t] = 0
    /\ Ends(t, "recheck") /\ Leaves(t)
    /\ UNCHANGED <<heap, bundles, pending, acknowledged, changes>>

\* The bundle is there, perhaps since the other thread's turn: a walk goes on
\* with it, add_resource stays inside.
Recheck(t) ==
    /\ pc[t] = "recheck" /\ at[t] # 0 /\ bundles[at[t]] # NoObject
    /\ ref' = [ref EXCEPT ![t] = bundles[at[t]]]
    /\ IF call[t].kind = "add"
       THEN Goes(t, "recheck", "add") /\ UNCHANGED writer
       ELSE Goes(t, "recheck", "ask") /\ Leaves(t)
    /\ UNCHANGED <<heap, bundles, pending, call, at, draft, todo, answer, before, acknowledged, changes>>

\* Mutant: a new bundle ignores the functions added so far.
CreateBare(t) ==
    /\ at[t] # 0 /\ bundles[at[t]] = NoObject
    /\ Goes(t, "recheck", "apply")
    /\ draft' = [draft EXCEPT ![t] = Empty(at[t])]
    /\ todo' = [todo EXCEPT ![t] = {}]
    /\ UNCHANGED <<shared, call, at, ref, answer, before, acknowledged, changes>>

\* _create_bundle builds a bundle ...
Create(t) ==
    /\ at[t] # 0 /\ bundles[at[t]] = NoObject
    /\ Goes(t, "recheck", "apply")
    /\ draft' = [draft EXCEPT ![t] = Empty(at[t])]
    /\ todo' = [todo EXCEPT ![t] = {n \in Names : pending[n] # None}]
    /\ UNCHANGED <<shared, call, at, ref, answer, before, acknowledged, changes>>

\* ... adds every pending function to it ...
Apply(t) ==
    /\ pc[t] = "apply"
    /\ \E n \in todo[t] :
        /\ pending[n] \notin Bad
        /\ draft' = [draft EXCEPT ![t].functions[n] = pending[n]]
        /\ todo' = [todo EXCEPT ![t] = @ \ {n}]
    /\ UNCHANGED <<shared, pc, call, at, ref, answer, before, acknowledged, changes>>

\* ... one of which is refused: the call raises and the bundle is lost ...
ApplyFails(t) ==
    /\ Goes(t, "apply", "refused")
    /\ \E n \in todo[t] : pending[n] \in Bad
    /\ Leaves(t)
    /\ UNCHANGED <<heap, bundles, pending, locals, acknowledged, changes>>

\* ... and registers it.
Register(t) ==
    /\ pc[t] = "apply" /\ todo[t] = {}
    /\ \E o \in Objects \ Built :
        /\ heap' = [heap EXCEPT ![o] = draft[t]]
        /\ bundles' = [bundles EXCEPT ![at[t]] = o]
        /\ ref' = [ref EXCEPT ![t] = o]
    /\ draft' = [draft EXCEPT ![t] = NoBundle]
    /\ IF call[t].kind = "add"
       THEN Goes(t, "apply", "add") /\ UNCHANGED writer
       ELSE Goes(t, "apply", "ask") /\ Leaves(t)
    /\ UNCHANGED <<pending, call, at, todo, answer, before, acknowledged, changes>>

\* bundle.add_resource, still inside: it succeeds, or raises and leaves the
\* bundle as it was.
Add(t) ==
    /\ pc[t] = "add"
    /\ Ends(t, "add") /\ Leaves(t)
    /\ \/ /\ heap' = [heap EXCEPT ![ref[t]].messages = @ \cup call[t].ids]
          /\ acknowledged' = acknowledged \cup ({at[t]} \X call[t].ids)
       \/ UNCHANGED <<heap, acknowledged>>
    /\ UNCHANGED <<bundles, pending, changes>>

\* add_function: the callable is pending before any bundle has accepted it ...
Pend(t) ==
    /\ Goes(t, "pend", "cover")
    /\ pending' = [pending EXCEPT ![call[t].name] = call[t].func]
    /\ todo' = [todo EXCEPT ![t] = {l \in Locales : bundles[l] # NoObject}]
    /\ UNCHANGED <<heap, bundles, writer, call, at, ref, draft, answer, before, acknowledged, changes>>

\* ... then goes to one bundle after the other ...
Cover(t) ==
    /\ pc[t] = "cover"
    /\ call[t].func \notin Bad
    /\ \E l \in todo[t] :
        /\ heap' = [heap EXCEPT ![bundles[l]].functions[call[t].name] = call[t].func]
        /\ todo' = [todo EXCEPT ![t] = @ \ {l}]
    /\ UNCHANGED <<bundles, pending, writer, pc, call, at, ref, draft, answer, before, acknowledged, changes>>

\* ... until all have it, or the first refuses it.
Covered(t) ==
    /\ pc[t] = "cover"
    /\ todo[t] = {} \/ call[t].func \in Bad
    /\ Ends(t, "cover") /\ Leaves(t)
    /\ UNCHANGED <<heap, bundles, pending, acknowledged, changes>>

-----------------------------------------------------------------------------
Walk(t) == \/ StartWalk(t) \/ Look(t) \/ LookInVain(t)
           \/ AskInVain(t) \/ Ask(t) \/ AskIds(t)
           \/ Format(t) \/ Callback(t) \/ Return(t)

Write(t) == \/ CallAddResource(t) \/ CallAddFunction(t) \/ Enter(t)
            \/ NotInChain(t) \/ Recheck(t)
            \/ Create(t) \/ Apply(t) \/ ApplyFails(t) \/ Register(t)
            \/ Add(t) \/ Pend(t) \/ Cover(t) \/ Covered(t)

Next == \E t \in Threads : Walk(t) \/ Write(t)

Spec == Init /\ [][Next]_vars

-----------------------------------------------------------------------------

\* The messages of an add_resource call that returned stay where format calls
\* look for them.
ResourcesKept ==
    acknowledged \subseteq Content

\* add_function reaches the bundles that exist and those created later: while
\* nobody is in a write section every bundle has the function that is pending
\* under a name, unless it is one that bundles refuse.
FunctionsCovered ==
    writer = NoThread =>
        \A l \in Locales, n \in Names :
            bundles[l] # NoObject /\ pending[n] \notin Bad =>
                heap[bundles[l]].functions[n] = pending[n]

\* A walk is not atomic, yet its answer is one that the chain justifies: a
\* format or has_message call answers no later in the chain than the first
\* locale that had the message when the call began, and get_message_ids leaves
\* out nothing that was there then; what they report is there.
WalksAreCurrent ==
    \A t \in Threads : pc[t] = "returned" =>
        /\ answer[t] \subseteq Content
        /\ IF call[t].kind = "ids"
           THEN before[t] \subseteq answer[t]
           ELSE \A l \in Locales : <<l, call[t].id>> \in before[t] =>
                    \E k \in 1 .. l : answer[t] = {<<k, call[t].id>>}

=============================================================================
