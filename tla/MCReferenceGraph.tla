-------------------------- MODULE MCReferenceGraph --------------------------
(***************************************************************************)
(* Small resources for ReferenceGraph.                                     *)
(***************************************************************************)
EXTENDS ReferenceGraph, TLC

CONSTANTS m1, m2, m3, m4    \* entries

Val(id) == <<id, "value">>
Tip(id) == <<id, "tip">>
Small(S, n) == {s \in SUBSET S : Cardinality(s) <= n}
Plain(refs) == "value" :> refs
Both(refs, tip) == ("value" :> refs) @@ ("tip" :> tip)
Nothing == << >>

\* Graphs of four values, the complete one but for one reference among them.
Resource4 ==
    {[local |-> (m1 :> Plain(ra)) @@ (m2 :> Plain(rb)) @@ (m3 :> Plain(rc)) @@ (m4 :> Plain(rd)), known |-> Nothing] :
        ra \in {{Val(m2), Val(m3)}, {Val(m2), Val(m3), Val(m4)}}, rb \in SUBSET {Val(m1), Val(m3), Val(m4)},
        rc \in SUBSET {Val(m1), Val(m2), Val(m4)}, rd \in Small({Val(m1), Val(m2), Val(m3)}, 2)}

\* Two entries with attributes next to one of the bundle, m3, with or without an
\* attribute, and one that replaces an entry of the bundle, m2; m4 is nowhere.
Mixed ==
    {[local |-> (m1 :> Both(ra, ta)) @@ (m2 :> eb), known |-> (m2 :> Plain({Val(m1)})) @@ (m3 :> ec)] :
        ra \in Small({Val(m1), Tip(m1), Val(m2), Val(m3), Val(m4)}, 2), ta \in Small({Val(m1), Tip(m2), Val(m3)}, 1),
        eb \in {"tip" :> {Val(m3)}, Plain({Tip(m1)}), Both({Tip(m1), Val(m3)}, {Val(m2)})},
        ec \in {Plain(rc) : rc \in Small({Val(m1), Tip(m1), Val(m2), Tip(m2), Val(m4)}, 2)}
                 \cup {Both({Tip(m3)}, {Val(m1)}), Both({Val(m2)}, {Tip(m1)})}}

AllResources == Resource4 \cup Mixed

====
