-------------------------- MODULE ResolverMeaning --------------------------
(***************************************************************************)
(* What a resource means, without limits and failures, by rules in the     *)
(* manner of a natural semantics: three relations between what is          *)
(* evaluated, in which resource and with which arguments, and the result.  *)
(* They are constants, of which only the rules are known, so that what     *)
(* holds of all relations with these rules holds of the least ones, which  *)
(* are the meaning: a cyclic reference has none there.  Resolver's answers *)
(* are compared with them, and its complaints about cycles with the        *)
(* references that patterns make.                                          *)
(***************************************************************************)
EXTENDS Resolver

CONSTANTS Says(_, _, _, _),       \* Says(r, e, a, v): e evaluates to v
          Writes(_, _, _, _, _),  \* Writes(r, o, p, a, t): behind the text o, the elements p make t
          Takes(_, _, _, _, _),   \* Takes(r, g, es, a, vs): behind the values g, es have the values vs
          Mentions(_),            \* the keys that an expression refers to
          MentionedIn(_)          \* the keys that a sequence of expressions and texts refers to

\* A pattern is its texts and the values of its placeables, which are texts.
PatternRules(r) ==
    \A o, p, a, t :
        /\ Writes(r, o, <<>>, a, o)
        /\ p # <<>> /\ Head(p).form = "text" /\ Writes(r, o \o Head(p).text, Tail(p), a, t)
               => Writes(r, o, p, a, t)
        /\ \A v : p # <<>> /\ Head(p).form # "text" /\ Says(r, Head(p), a, v) /\ v # Float
                      /\ Writes(r, o \o Isolated(v), Tail(p), a, t) => Writes(r, o, p, a, t)

ArgumentRules(r) ==
    \A g, es, a, vs :
        /\ Takes(r, g, <<>>, a, g)
        /\ \A v : es # <<>> /\ Says(r, Head(es), a, v) /\ Takes(r, Append(g, v), Tail(es), a, vs)
                      => Takes(r, g, es, a, vs)

\* What a custom function gives for its arguments' values.  One that formats a message
\* gives its text; unless the bundle is strict it does not learn whether that failed.
Gives(r, e, values, v) ==
    \/ e.does = "return" /\ v = Joined(values)
    \/ e.does = "float" /\ v = Float
    \/ e.does = "format" /\ (~Strict \/ Writes(r, <<>>, r[e.of], Args, v))

ReferenceRules(r) ==
    \A e, a, v :
        /\ e.form = "literal" => Says(r, e, a, e.text)
        /\ e.form = "var" /\ e.name \in DOMAIN a => Says(r, e, a, a[e.name])
        /\ e.form = "message" /\ e.key \in DOMAIN r /\ r[e.key] # NoPattern
              /\ Writes(r, <<>>, r[e.key], a, v) => Says(r, e, a, v)
        /\ e.form = "nest" /\ Says(r, e.of, a, v) => Says(r, e, a, v)

TermRule(r) ==
    \A e, a, vs, v :
        e.form = "term" /\ e.key \in DOMAIN r /\ r[e.key] # NoPattern /\ e.positional = <<>>
            /\ Takes(r, <<>>, Passed(e), a, vs) /\ Writes(r, <<>>, r[e.key], Bound(e, vs), v)
                => Says(r, e, a, v)

CallRule(r) ==
    \A e, a, vs, v :
        e.form = "call" /\ Takes(r, <<>>, e.args, a, vs) /\ Gives(r, e, vs, v) => Says(r, e, a, v)

SelectRule(r) ==
    \A e, a, s, v :
        e.form = "select" /\ Says(r, e.on, a, s) /\ s # Float
            /\ Writes(r, <<>>, Variant(e, s), a, v)
                => Says(r, e, a, v)

ExpressionRules(r) == ReferenceRules(r) /\ TermRule(r) /\ CallRule(r) /\ SelectRule(r)

MeaningRules == \A r \in Catalogs : PatternRules(r) /\ ArgumentRules(r) /\ ExpressionRules(r)

\* A call that reports no error returned the whole text: no fallback, no text cut
\* short, no variable of the caller in a term, from the cache or not.
NoSilentLoss ==
    \A i \in DOMAIN answers :
        answers[i].errors = <<>> =>
            Writes(catalog, <<>>, catalog[answers[i].key], Args, answers[i].out)

-----------------------------------------------------------------------------

MentionRules ==
    /\ \A p : p # <<>> => Mentions(Head(p)) \cup MentionedIn(Tail(p)) \subseteq MentionedIn(p)
    /\ \A e :
        /\ e.form = "message" => e.key \in Mentions(e)
        /\ e.form = "nest" => Mentions(e.of) \subseteq Mentions(e)
        /\ e.form = "term" => {e.key} \cup MentionedIn(Passed(e)) \subseteq Mentions(e)
        /\ e.form = "call" => MentionedIn(e.args) \subseteq Mentions(e)
        /\ e.form = "select" =>
             Mentions(e.on) \cup MentionedIn(e.other)
                 \cup UNION {MentionedIn(p) : p \in {e.variants[v] : v \in DOMAIN e.variants}}
                     \subseteq Mentions(e)

References(r, k) == IF r[k] = NoPattern THEN {} ELSE MentionedIn(r[k]) \cap DOMAIN r

\* The references from k lead to l: whatever contains the first of them and all that
\* follow contains l.
Reaches(r, k, l) ==
    \A keys \in SUBSET DOMAIN r :
        References(r, k) \subseteq keys /\ (\A m \in keys : References(r, m) \subseteq keys)
            => l \in keys

\* A cyclic reference is only reported for a key that does reach itself: no two
\* references to one message side by side, and no reference after a failed one,
\* are taken for a cycle.
CyclesAreReal ==
    \A i \in DOMAIN answers : \A n \in DOMAIN answers[i].errors :
        LET e == answers[i].errors[n] IN e.kind = "cyclic" => Reaches(catalog, e.of, e.of)
=============================================================================
