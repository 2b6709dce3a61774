---------------------------- MODULE FtlSerializer ----------------------------
(* syntax/serializer.py, serializer_lines.py and serializer_validation.py: the text
   of a syntax tree, and the checks that come before.                           *)
EXTENDS FtlGrammar

Quote(chars) == Text("{ \"") \o chars \o Text("\" }")

EscapeText(text) ==
  FoldLeft(LAMBDA out, c : out \o (IF c \in {"{", "}"} THEN Quote(<<c>>) ELSE <<c>>), <<>>, text)

(* text.split("\n") *)
RECURSIVE Lines(_)
Lines(text) ==
  LET end == SkipToLineEnd(text, 0)
  IN IF end = Len(text) THEN <<text>>
     ELSE <<Slice(text, 0, end)>> \o Lines(Slice(text, end + 1, Len(text)))

-----------------------------------------------------------------------------
(* serializer_lines.py: what a line of text would mean at the start of its line *)

LineStartSyntax == {".", "[", "*"}

IsNormalLine(line) == Ch(line, SkipSpaces(line, 0)) \notin LineStartSyntax \cup {EOF}

EmitLine(line) ==
  LET width == SkipSpaces(line, 0)
      rest == Slice(line, width + 1, Len(line))
  IN CASE line = <<>> -> <<>>
       [] line # <<>> /\ width = Len(line) -> Quote(line)
       [] Ch(line, width) \in LineStartSyntax
          -> (IF width > 0 THEN Quote(Spaces(width)) ELSE <<>>)
             \o Quote(<<Ch(line, width)>>) \o EscapeText(rest)
       [] OTHER -> EscapeText(line)

(* Whether some line after the first of a pattern is indented text, so that the pattern
   has to start on a line of its own to keep that indent.                        *)
NeedsSeparateLine(els) ==
  \E i \in DOMAIN els : IsText(els, i) /\
    LET lines == Lines(els[i].value)
        afterBreak == IsText(els, i - 1) /\ Ch(els[i - 1].value, Len(els[i - 1].value) - 1) = NL
    IN \E k \in DOMAIN lines :
         /\ k > 1 \/ afterBreak
         /\ Ch(lines[k], 0) = SP
         /\ IsNormalLine(lines[k])

-----------------------------------------------------------------------------
(* serializer.py *)

Continuation == Text("\n    ")

(* A text's lines, each but the first on a line of its own; whether the output is
   then at the start of a line.                                                 *)
EmitText(text, atStart) ==
  LET lines == Lines(text)
      first == IF atStart THEN EmitLine(lines[1]) ELSE EscapeText(lines[1])
  IN [out |-> FoldLeft(LAMBDA out, line : out \o Continuation \o EmitLine(line),
                       first, Tail(lines)),
      atStart |-> Len(lines) > 1 /\ lines[Len(lines)] = <<>>]

EscapeString(value) ==
  FoldLeft(LAMBDA out, c :
    out \o (CASE c \in {"\\", "\""} -> <<"\\", c>>
              [] c = NL -> Text("\\u000A")
              [] c = "\t" -> Text("\\u0009")
              [] OTHER -> <<c>>), <<>>, value)

RECURSIVE EmitExpression(_)
RECURSIVE EmitArguments(_)
RECURSIVE EmitPattern(_)

EmitName(id, attribute) == id \o (IF attribute = None THEN <<>> ELSE <<".">> \o attribute)

EmitExpression(expr) ==
  CASE expr.t = "StringLiteral" -> <<"\"">> \o EscapeString(expr.value) \o <<"\"">>
    [] expr.t = "NumberLiteral" -> expr.raw
    [] expr.t = "VariableReference" -> <<"$">> \o expr.id
    [] expr.t = "MessageReference" -> EmitName(expr.id, expr.attribute)
    [] expr.t = "TermReference" ->
         <<"-">> \o EmitName(expr.id, expr.attribute)
         \o (IF expr.arguments = None THEN <<>> ELSE EmitArguments(expr.arguments[1]))
    [] expr.t = "FunctionReference" -> expr.id \o EmitArguments(expr.arguments[1])
    [] expr.t = "Placeable" -> Text("{ ") \o EmitExpression(expr.expression) \o Text(" }")
    [] expr.t = "SelectExpression" ->
         FoldLeft(LAMBDA out, v :
                    out \o Text("\n   ") \o (IF v.default THEN <<"*">> ELSE <<>>)
                    \o <<"[">> \o (IF v.key.t = "Identifier" THEN v.key.id ELSE v.key.raw)
                    \o Text("] ") \o EmitPattern(v.value),
                  EmitExpression(expr.selector) \o Text(" ->"), expr.variants) \o <<NL>>

EmitArguments(args) ==
  LET texts == [i \in DOMAIN args.positional |-> EmitExpression(args.positional[i])]
               \o [i \in DOMAIN args.named |->
                     args.named[i].name \o Text(": ") \o EmitExpression(args.named[i].value)]
      joined == FoldLeft(LAMBDA out, text : IF out = <<>> THEN text ELSE out \o Text(", ") \o text,
                         <<>>, texts)
  IN <<"(">> \o joined \o <<")">>

(* Spaces that begin the pattern are put in a placeable of their own. *)
EmitPattern(els) ==
  LET separate == NeedsSeparateLine(els)
      first == IF IsText(els, 1) THEN els[1].value ELSE <<>>
      width == SkipSpaces(first, 0)
      onlySpaces == width > 0 /\ width = Len(first)
      rest == IF onlySpaces THEN Tail(els)
              ELSE IF width > 0 THEN [els EXCEPT ![1].value = Slice(first, width, Len(first))]
              ELSE els
      start == [out |-> (IF separate THEN Continuation ELSE <<>>)
                        \o (IF width > 0 THEN Quote(Spaces(width)) ELSE <<>>),
                atStart |-> separate /\ ~onlySpaces]
      emit(done, el) ==
        IF el.t = "TextElement"
        THEN LET text == EmitText(el.value, done.atStart)
             IN [text EXCEPT !.out = done.out \o @]
        ELSE [out |-> done.out \o EmitExpression(el), atStart |-> FALSE]
  IN FoldLeft(emit, start, rest).out

EmitComment(comment) ==
  FoldLeft(LAMBDA out, line :
             out \o [i \in 1..comment.type |-> "#"]
             \o (IF line = <<>> THEN <<>> ELSE <<SP>> \o line) \o <<NL>>,
           <<>>, comment.content)

EmitEntry(entry) ==
  CASE entry.t = "Comment" -> EmitComment(entry)
    [] entry.t = "Junk" ->
         entry.content \o (IF Ch(entry.content, Len(entry.content) - 1) = NL THEN <<>> ELSE <<NL>>)
    [] OTHER ->
         (IF entry.comment = None THEN <<>> ELSE EmitComment(entry.comment[1]))
         \o (IF entry.t = "Term" THEN <<"-">> ELSE <<>>) \o entry.id
         \o (IF Value(entry) = None THEN <<>> ELSE Text(" = ") \o EmitPattern(Value(entry)[1]))
         \o FoldLeft(LAMBDA out, attr :
                       out \o Continuation \o <<".">> \o attr.id \o Text(" = ")
                       \o EmitPattern(attr.value), <<>>, entry.attributes)
         \o <<NL>>

TrailingNewlines(s) ==
  LET text == {i \in 0..(Len(s) - 1) : Ch(s, i) # NL}
  IN IF text = {} THEN Len(s) ELSE Len(s) - 1 - Max(text)

\* Mutant: junk has always one line break after it.
SeparatorAfterJunk(prev, entry) ==
  LET definition(e) == e.t \in {"Message", "Term"}
      n == CASE entry.t = "Junk" /\ Ch(entry.content, 0) \in {NL, SP} -> 0
             [] prev.t = "Comment" /\ (definition(entry) \/ entry.t = "Comment") -> 2
             [] definition(prev) /\ definition(entry) -> 0
             [] OTHER -> 1
  IN [i \in 1..n |-> NL]

(* The line breaks between two entries.  Between a comment and what it must not be
   attached to or merged with there is a blank line and one more.                *)
Separator(prev, entry) ==
  LET definition(e) == e.t \in {"Message", "Term"}
      n == CASE entry.t = "Junk" /\ Ch(entry.content, 0) \in {NL, SP} -> 0
             [] /\ prev.t = "Comment"
                /\ IF entry.t = "Comment" THEN entry.type = prev.type ELSE definition(entry)
                -> 2
             [] definition(prev) /\ definition(entry) -> 0
             [] prev.t = "Junk" /\ TrailingNewlines(prev.content) >= 2 -> 0
             [] prev.t = "Junk" /\ TrailingNewlines(prev.content) < 2
                  -> 2 - TrailingNewlines(prev.content)
             [] OTHER -> 1
  IN [i \in 1..n |-> NL]

Serialize(tree) ==
  LET between(i) == IF i = 1 THEN <<>> ELSE Separator(tree[i - 1], tree[i])
  IN FoldLeft(LAMBDA out, i : out \o between(i) \o EmitEntry(tree[i]),
              <<>>, [i \in DOMAIN tree |-> i])
=============================================================================
