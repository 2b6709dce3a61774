------------------------------ MODULE MCSyntax ------------------------------
(* Small sources for FtlToolchain: whole lines in any order, values made of tokens,
   variants, and placeables deeper than the limit.                               *)
EXTENDS FtlToolchain

Join(strings, separator) ==
  FoldLeft(LAMBDA out, s : IF out = <<>> THEN Text(s) ELSE out \o separator \o Text(s),
           <<>>, strings)

Entries == {"a = x", "-a = y", " .b = { m.c }", "# c", "## g", "#### m", "", "j", " j", "a =",
            "a = { -t.b(x, y: 1) }", "a = {", " }"}
Lines9 == {"# c", "## g", "#### m", "", " ", "a = x", "j", " .b = { m.c }", "a ="}
Tokens == {" ", "\n  ", "\n    ", "x", "\n\n ", "{ $v }", "}", "[x]", "*[", "{"}
Placeables == {"{ \"}[\\u000A\" }", "{ f($v, k: \"q\") }", "\n .b = { m }", "\n  { -t }", "\n   . ", "{\"*\"}[", "\tx"}
VariantLines == {" *[a] y", " [b] q", "[1] {\"x\"}[x] w", "    z", "  { m.a }", "}", " *[1.0] }",
                 "[a] { $v ->\n *[b] z\n }"}
Select(body) == "{ $v ->\n *[a] " \o body \o "\n }"
Deep == {"a = {{{{{ $v }}}}}", "a = {{{{{{ $v }}}}}}", "a = { f(g(f(g(h(1))))) }", "a = {{ f(g(f(1))) }}",
         "a = " \o Select(Select(Select("{ -t(m) }"))),
         "a = " \o Select(Select(Select(Select("{ $v }")))),
         "a = " \o Select(Select(Select(Select(Select("b"))))),
         "a = { -t(x: 1, x: 2) }", "a = { 1.5 }{ -1 }{ 1. }", "a = { \"\\uD800\" }", "a = x\r\n# c\r-b = { f() }",
         "a = { m. }", "a = { f(k: $v) }", "a = { f(m k) }\n .x = y\n .x = { m }"}

AllSources ==
  {Join(<<a, b, c>>, <<NL>>) : a, b, c \in Entries}
  \cup {Join(<<a, b, c, d>>, <<NL>>) : a, b, c, d \in Lines9}
  \cup {Text("a = ") \o Join(<<a, b, c, d>>, <<>>) : a, b, c, d \in Tokens}
  \cup {Text("a = ") \o Join(<<a, b, c>>, <<>>) : a, b, c \in Tokens \cup Placeables}
  \cup {Text("a = { $v ->\n") \o Join(<<a, b, c>>, <<NL>>) \o Text("\n }") : a, b, c \in VariantLines}
  \cup {Join(<<a, b>>, <<NL>>) : a, b \in Deep}

KnownIds == [Message |-> {<<"m">>}, Term |-> {<<"a">>}]

SomeRules ==
  {Rule(class, "remove") : class \in
     {"Placeable", "TextElement", "Variant", "TermReference", "CallArguments", "NamedArgument",
      "Attribute", "StringLiteral"}}
  \cup {Rule(class, "double") : class \in {"Variant", "Attribute", "Placeable", "NamedArgument"}}
  \cup {Rule(class, "replace") : class \in {"Variant", "Attribute"}}
=============================================================================
