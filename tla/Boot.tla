-------------------------------- MODULE Boot --------------------------------
(***************************************************************************)
(* LocalizationBootConfig.boot() and the FluentLocalization that each call *)
(* of it constructs: the one-shot flag, the eager loading of every         *)
(* resource of every locale, require_clean, the required messages and the  *)
(* message schemas.  Several threads share one boot configuration; what    *)
(* they construct is their own.  A message that a resource defines has the *)
(* variables its schema declares ("right") or others ("wrong").            *)
(***************************************************************************)
EXTENDS Naturals, Sequences, FiniteSets, SequencesExt

CONSTANTS Threads,
          Locales,      \* number of locales in the fallback chain
          Resources,    \* number of resource ids
          Ids,          \* message ids
          Required,     \* required_messages
          Schemas,      \* the message ids of message_schemas
          NoBundle      \* a locale that has no bundle yet

ASSUME BootAssumption == /\ IsFiniteSet(Threads)
                         /\ Locales \in Nat \ {0} /\ Resources \in Nat \ {0}
                         /\ Required \subseteq Ids /\ Schemas \subseteq Ids
                         /\ NoBundle \notin [Ids -> {"right", "wrong", "absent"}]

VARIABLES strict,    \* strict, which no call changes
          booted,    \* _booted
          starts,    \* history: how many calls got past the one-shot guard
          pc,        \* where each thread is in boot()
          results,   \* _load_results of the localization it constructs
          bundles,   \* _bundles: what each locale's bundle defines, if it has one
          found      \* history: the locales whose loader has returned a text

vars == <<strict, booted, starts, pc, results, bundles, found>>

Chain == 1 .. Locales
Definitions == {"right", "wrong", "absent"}
EmptyBundle == [id \in Ids |-> "absent"]
Steps == {"idle", "guarded", "loading", "loaded", "clean", "complete",
          "returned", "refused", "raised"}

Init ==
    /\ strict \in BOOLEAN
    /\ booted = FALSE /\ starts = 0
    /\ pc = [t \in Threads |-> "idle"]
    /\ results = [t \in Threads |-> <<>>]
    /\ bundles = [t \in Threads |-> [l \in Chain |-> NoBundle]]
    /\ found = [t \in Threads |-> {}]

Goes(t, from, to) == pc[t] = from /\ pc' = [pc EXCEPT ![t] = to]
local == <<results, bundles, found>>

-----------------------------------------------------------------------------
(* The one-shot guard: a test and, in a later step, an assignment.         *)

BootRefused(t) ==
    /\ Goes(t, "idle", "refused")
    /\ booted
    /\ UNCHANGED <<strict, booted, starts, local>>

PassGuard(t) ==
    /\ Goes(t, "idle", "guarded")
    /\ ~booted
    /\ starts' = starts + 1
    /\ UNCHANGED <<strict, booted, local>>

SetBooted(t) ==
    /\ Goes(t, "guarded", "loading")
    /\ booted' = TRUE
    /\ UNCHANGED <<strict, starts, local>>

\* The caller drops what the call returned or raised.
Forget(t) ==
    /\ \E over \in {"returned", "refused", "raised"} : Goes(t, over, "idle")
    /\ results' = [results EXCEPT ![t] = <<>>]
    /\ bundles' = [bundles EXCEPT ![t] = [l \in Chain |-> NoBundle]]
    /\ found' = [found EXCEPT ![t] = {}]
    /\ UNCHANGED <<strict, booted, starts>>

-----------------------------------------------------------------------------
(* The construction: every resource of the first locale, then of the next. *)

LocaleOf(k) == ((k - 1) \div Resources) + 1

Loading(t) == pc[t] = "loading" /\ Len(results[t]) < Locales * Resources
AtLocale(t) == LocaleOf(Len(results[t]) + 1)

Record(t, status) == results' = [results EXCEPT ![t] = Append(@, status)]

Bundle(t, l) == IF bundles[t][l] = NoBundle THEN EmptyBundle ELSE bundles[t][l]

\* FileNotFoundError or another OSError, or ValueError, out of the loader.
LoadFails(t) ==
    /\ Loading(t)
    /\ \E status \in {"not_found", "error"} : Record(t, status)
    /\ UNCHANGED <<strict, booted, starts, pc, bundles, found>>

\* The loader returns a text; the locale gets its bundle; add_resource raises
\* ValueError (the text is too long).
TextRejected(t) ==
    /\ Loading(t)
    /\ Record(t, "error")
    /\ bundles' = [bundles EXCEPT ![t][AtLocale(t)] = Bundle(t, AtLocale(t))]
    /\ found' = [found EXCEPT ![t] = @ \cup {AtLocale(t)}]
    /\ UNCHANGED <<strict, booted, starts, pc>>

\* It registers what the text defines; a text with junk is only registered
\* when the localization is not strict.
TextAdded(t) ==
    /\ Loading(t)
    /\ \E status \in {"success"} \cup (IF strict THEN {} ELSE {"junk"}) : Record(t, status)
    /\ \E defined \in [Ids -> Definitions] :
         LET old == Bundle(t, AtLocale(t)) IN
         bundles' = [bundles EXCEPT ![t][AtLocale(t)] =
             [id \in Ids |-> IF defined[id] = "absent" THEN old[id] ELSE defined[id]]]
    /\ found' = [found EXCEPT ![t] = @ \cup {AtLocale(t)}]
    /\ UNCHANGED <<strict, booted, starts, pc>>

\* SyntaxIntegrityError leaves the constructor, and boot() with it.
JunkRaises(t) ==
    /\ strict
    /\ Loading(t) /\ Goes(t, "loading", "raised")
    /\ UNCHANGED <<strict, booted, starts, local>>

Constructed(t) ==
    /\ Goes(t, "loading", "loaded")
    /\ Len(results[t]) = Locales * Resources
    /\ UNCHANGED <<strict, booted, starts, local>>

-----------------------------------------------------------------------------
(* The checks.  A check that fails raises IntegrityCheckFailedError.       *)

AllClean(s) == \A i \in DOMAIN s : s[i] = "success"

RequireClean(t) ==
    /\ Goes(t, "loaded", IF AllClean(results[t]) THEN "clean" ELSE "raised")
    /\ UNCHANGED <<strict, booted, starts, local>>

Holders(t, id) == {l \in Chain : bundles[t][l] # NoBundle /\ bundles[t][l][id] # "absent"}
FirstHolder(t, id) == CHOOSE l \in Holders(t, id) : \A k \in Holders(t, id) : l <= k

\* The locales that a walk for a message goes to, creating their bundles.
Walked(t, id) == IF Holders(t, id) = {} THEN Chain ELSE 1 .. FirstHolder(t, id)

WalksFor(t, ids) ==
    bundles' = [bundles EXCEPT ![t] = [l \in Chain |->
        IF \E id \in ids : l \in Walked(t, id) THEN Bundle(t, l) ELSE @[l]]]

CheckRequired(t) ==
    /\ Goes(t, "clean", IF \A id \in Required : Holders(t, id) # {}
                        THEN "complete" ELSE "raised")
    /\ WalksFor(t, Required)
    /\ UNCHANGED <<strict, booted, starts, results, found>>

\* Mutant: any locale's definition will do.
CheckSchemasAnywhere(t) ==
    /\ Goes(t, "complete",
            IF \A id \in Schemas : \E l \in Holders(t, id) : bundles[t][l][id] = "right"
            THEN "returned" ELSE "raised")
    /\ WalksFor(t, Schemas)
    /\ UNCHANGED <<strict, booted, starts, results, found>>

\* validate_message_schemas looks at the first locale that has the message.
CheckSchemas(t) ==
    /\ Goes(t, "complete",
            IF \A id \in Schemas : /\ Holders(t, id) # {}
                                   /\ bundles[t][FirstHolder(t, id)][id] = "right"
            THEN "returned" ELSE "raised")
    /\ WalksFor(t, Schemas)
    /\ UNCHANGED <<strict, booted, starts, results, found>>

Boot(t) == \/ BootRefused(t) \/ PassGuard(t) \/ SetBooted(t) \/ Forget(t)
           \/ LoadFails(t) \/ TextRejected(t) \/ TextAdded(t) \/ JunkRaises(t)
           \/ Constructed(t) \/ RequireClean(t) \/ CheckRequired(t) \/ CheckSchemas(t)

Next == \E t \in Threads : Boot(t)

Spec == Init /\ [][Next]_vars

-----------------------------------------------------------------------------

\* A boot() that returns hands out a localization whose every resource was
\* loaded cleanly, and whose format calls will find every required message,
\* and every message with a schema in a definition that has its variables.  And
\* it was the only shot, whether others failed or were refused: a thread gets past
\* the guard once at most.  (Threads that test the flag before any of them has set
\* it do so once each: the test and the assignment are two steps.)
BootedIsValid ==
    \A t \in Threads : pc[t] = "returned" =>
        /\ starts <= Cardinality(Threads)
        /\ Len(results[t]) = Locales * Resources
        /\ \A i \in DOMAIN results[t] : results[t][i] = "success"
        /\ found[t] = Chain
        /\ \A id \in Required : \E l \in Chain : bundles[t][l][id] # "absent"
        /\ \A id \in Schemas : \E l \in Chain :
              /\ bundles[t][l][id] = "right"
              /\ \A k \in 1 .. (l - 1) : bundles[t][k][id] = "absent"

=============================================================================
