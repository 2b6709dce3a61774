--------------------------- MODULE MCFluentBundle ---------------------------
EXTENDS FluentBundle, TLC

CONSTANTS m1, m2, term, v1, v2

BothTerms == [id \in {m1, m2} |-> term]

Resource(ms, ts, junk) == [messages |-> ms, terms |-> ts, junk |-> junk]

\* A message with its term, a new term alone, another message, and junk.
SmallResources ==
    {Resource(m1 :> v1, term :> v1, FALSE),
     Resource(m1 :> v2, term :> v2, FALSE),
     Resource(<<>>, term :> v2, FALSE),
     Resource((m1 :> v2) @@ (m2 :> v1), <<>>, TRUE)}

Symmetry == Permutations(Threads)
=============================================================================
