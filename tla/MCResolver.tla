----------------------------- MODULE MCResolver -----------------------------
(***************************************************************************)
(* Small resources for Resolver, and ResolverMeaning's relations for them  *)
(* as recursive functions over the expressions.  Message a is a sequence   *)
(* of any two elements, b, c and the term -t come in a few shapes.         *)
(***************************************************************************)
EXTENDS ResolverMeaning, TLC

Letter(l) == [form |-> "text", text |-> <<l>>]
Literally(l) == [form |-> "literal", text |-> <<l>>]
Var(n) == [form |-> "var", name |-> n]
Message(k) == [form |-> "message", key |-> k]
Term(named, positional) == [form |-> "term", key |-> "t", named |-> named, positional |-> positional]
Named(v) == <<[name |-> "y", value |-> v]>>
Fun(does, of, args) == [form |-> "call", does |-> does, of |-> of, args |-> args]
Nesting(e) == [form |-> "nest", of |-> e]
Selecting(on, value, p, q) == [form |-> "select", on |-> on, variants |-> value :> p, other |-> q]

XArgs == [n \in {"x"} |-> <<"x">>]

Elements ==
    {Letter("l"), Literally("q"), Var("x"), Message("a"), Message("b"), Message("c"), Message("z"),
     Term(<<>>, <<>>), Term(Named(Var("x")), <<>>), Term(Named(Message("b")), <<Var("z")>>),
     Term(<<>>, <<Fun("float", "", <<>>)>>),
     Nesting(Message("b")), Nesting(Nesting(Var("z"))),
     Fun("return", "", <<Message("b"), Message("b")>>), Fun("refuse", "", <<Var("x")>>),
     Fun("fail", "", <<Nesting(Var("x"))>>), Fun("float", "", <<>>), Fun("return", "", <<Var("z")>>),
     Fun("format", "a", <<>>), Fun("format", "b", <<Term(<<>>, <<>>)>>),
     Selecting(Var("x"), <<"x">>, <<Message("b")>>, <<Letter("o")>>),
     Selecting(Var("z"), <<"x">>, <<Letter("p")>>, <<Message("b"), Letter("o")>>),
     Selecting(Fun("float", "", <<>>), <<"x">>, <<>>, <<Letter("o")>>),
     Selecting(Message("b"), <<"l">>, <<Nesting(Selecting(Message("c"), <<"q">>, <<Var("x")>>, <<>>))>>, <<Var("y")>>)}

Deep == Selecting(Selecting(Selecting(Var("x"), <<"y">>, <<>>, <<Var("x")>>), <<"x">>, <<Var("z")>>, <<>>),
                  <<"x">>, <<Letter("p")>>, <<Var("x")>>)

Resources(as, bs, cs, ts) ==
    {("a" :> a) @@ ("b" :> b) @@ ("c" :> c) @@ ("t" :> t) : a \in as, b \in bs, c \in cs, t \in ts}

ShapesB == {NoPattern, <<Letter("l")>>, <<Message("a")>>, <<Letter("l"), Fun("format", "a", <<>>)>>,
            <<Term(Named(Literally("q")), <<>>), Var("x")>>}
ShapesT == {<<Var("y")>>, <<Message("b")>>}

Seconds == {Letter("l"), Message("b"), Message("c"), Nesting(Var("z")),
            Fun("return", "", <<Message("b"), Message("b")>>), Term(Named(Message("b")), <<Var("z")>>)}

MixedCatalogs == Resources({<<e, f>> : e \in Elements, f \in Seconds}, ShapesB,
                           {<<Deep, Letter("q")>>}, ShapesT)

-----------------------------------------------------------------------------
\* The meaning, as functions: what is written and said if nothing is cyclic or too deep.
RECURSIVE FullText(_, _, _)
FullPattern(r, p, args) == FlattenSeq([i \in DOMAIN p |-> FullText(r, p[i], args)])
RECURSIVE FullValue(_, _, _)
FullValues(r, es, args) == [i \in DOMAIN es |-> FullValue(r, es[i], args)]
FullValue(r, e, args) ==
    CASE e.form = "literal" -> e.text
      [] e.form = "var" -> args[e.name]
      [] e.form = "message" -> FullPattern(r, r[e.key], args)
      [] e.form = "term" -> FullPattern(r, r[e.key], Bound(e, FullValues(r, Passed(e), args)))
      [] e.form = "nest" -> FullValue(r, e.of, args)
      [] e.form = "select" -> FullPattern(r, Variant(e, FullValue(r, e.on, args)), args)
      [] e.does = "float" -> Float
      [] e.does = "format" -> FullPattern(r, r[e.of], Args)
      [] OTHER -> Joined(FullValues(r, e.args, args))
FullText(r, x, args) == IF x.form = "text" THEN x.text ELSE Isolated(FullValue(r, x, args))

MCSays(r, e, a, v) == v = FullValue(r, e, a)
MCWrites(r, o, p, a, t) == t = o \o FullPattern(r, p, a)
MCTakes(r, g, es, a, vs) == vs = g \o FullValues(r, es, a)

RECURSIVE MCMentions(_)
MCMentionedIn(p) == UNION {MCMentions(p[i]) : i \in DOMAIN p}
MCMentions(e) ==
    CASE e.form \in {"text", "literal", "var"} -> {}
      [] e.form = "message" -> {e.key}
      [] e.form = "term" -> {e.key} \cup MCMentionedIn(Passed(e))
      [] e.form = "nest" -> MCMentions(e.of)
      [] e.form = "select" -> MCMentions(e.on) \cup MCMentionedIn(e.other)
                               \cup UNION {MCMentionedIn(p) : p \in Range(e.variants)}
      [] OTHER -> MCMentionedIn(e.args)
=============================================================================
