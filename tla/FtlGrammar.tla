----------------------------- MODULE FtlGrammar -----------------------------
(* syntax/parser/primitives.py, expressions.py, patterns.py, entries.py and
   context.py: one operator per rule of the grammar.  A rule takes the source, the
   offset where it starts and the depth of nesting, and has a result: the node and
   the offset after it, or a failure.                                            *)
EXTENDS FtlTree, SequencesExt

CONSTANT MaxNesting    \* ParseContext.max_nesting_depth

(* deep tells whether a placeable was refused for its depth on the way: the flag that
   all contexts of one parse share.                                              *)
Got(node, p) == [ok |-> TRUE, v |-> node, p |-> p, deep |-> FALSE]
Fail == [ok |-> FALSE, deep |-> FALSE]
TooDeep == [ok |-> FALSE, deep |-> TRUE]
After(r, result) == [result EXCEPT !.deep = @ \/ r.deep]

(* One rule, then the next with its result; one rule, or else another result. *)
Then(r, Next(_)) == IF r.ok THEN After(r, Next(r)) ELSE r
OrElse(r, other) == IF r.ok THEN r ELSE After(r, other)

(* The node, if the character that closes it is there. *)
Closed(s, p, char, node) == IF Ch(s, p) = char THEN Got(node, p + 1) ELSE Fail

-----------------------------------------------------------------------------
(* primitives.py *)

ParseIdentifier(s, p) ==
  LET q == SkipAll(s, p, IdentifierChars)
  IN IF Ch(s, p) \in Letters THEN Got(Slice(s, p, q), q) ELSE Fail

ParseNumber(s, p) ==
  LET int == IF Ch(s, p) = "-" THEN p + 1 ELSE p
      dot == SkipAll(s, int, Digits)
      end == SkipAll(s, dot + 1, Digits)
  IN CASE dot = int -> Fail
       [] dot > int /\ Ch(s, dot) # "." -> Got(NumberLiteral(Slice(s, p, dot)), dot)
       [] dot > int /\ Ch(s, dot) = "."
            -> IF end = dot + 1 THEN Fail ELSE Got(NumberLiteral(Slice(s, p, end)), end)

HexDigits == Digits \cup {"a", "b", "c", "d", "e", "f", "A", "B", "C", "D", "E", "F"}

(* A code point that is a character: not a surrogate, and within Unicode.  hex is
   four or six digits.                                                          *)
IsScalar(hex) ==
  LET last4 == SubSeq(hex, Len(hex) - 3, Len(hex))
  IN IF Len(hex) = 6 /\ <<hex[1], hex[2]>> # <<"0", "0">>
     THEN hex[1] = "0" \/ <<hex[1], hex[2]>> = <<"1", "0">>
     ELSE ~(last4[1] \in {"d", "D"} /\ last4[2] \notin {"0", "1", "2", "3", "4", "5", "6", "7"})

(* The character of a code point: one that the grammar knows, or a symbol of its own. *)
Decode(hex) ==
  LET ascii == \A i \in 1..(Len(hex) - 2) : hex[i] = "0"
      low == IF ascii THEN SubSeq(hex, Len(hex) - 1, Len(hex)) ELSE <<"", "">>
  IN CASE low[1] = "0" /\ low[2] \in {"a", "A"} -> NL
       [] low = <<"0", "9">> -> "\t"
       [] low = <<"2", "2">> -> "\""
       [] low[1] = "5" /\ low[2] \in {"c", "C"} -> "\\"
       [] OTHER -> FoldLeft(LAMBDA symbol, digit : symbol \o digit, "U+", hex)

(* What follows a backslash: the character it stands for. *)
ParseEscape(s, p) ==
  LET n == IF Ch(s, p) = "u" THEN 4 ELSE 6
      hex == Slice(s, p + 1, p + 1 + n)
  IN CASE Ch(s, p) \in {"\"", "\\"} -> Got(Ch(s, p), p + 1)
       [] Ch(s, p) = "n" -> Got(NL, p + 1)
       [] Ch(s, p) = "t" -> Got("\t", p + 1)
       [] /\ Ch(s, p) \in {"u", "U"}
          /\ p + 1 + n <= Len(s)
          /\ \A i \in 1..n : hex[i] \in HexDigits
          /\ IsScalar(hex) -> Got(Decode(hex), p + 1 + n)
       [] OTHER -> Fail

(* The characters up to the closing quote. *)
RECURSIVE StringRest(_, _, _)
StringRest(s, p, chars) ==
  CASE Ch(s, p) \in {EOF, NL} -> Fail
    [] Ch(s, p) = "\"" -> Got(StringLiteral(chars), p + 1)
    [] Ch(s, p) = "\\" -> Then(ParseEscape(s, p + 1), LAMBDA esc :
                             StringRest(s, esc.p, Append(chars, esc.v)))
    [] OTHER -> StringRest(s, p + 1, Append(chars, Ch(s, p)))

-----------------------------------------------------------------------------
(* patterns.py: the text of patterns *)

(* "*[", or "[key]" at the end of its line or before another variant: what ends
   the text of a variant.                                                      *)
IsVariantMarker(s, p) ==
  LET key == SkipSpaces(s, p + 1)
      end == SkipAll(s, key, IdentifierChars \cup {"."})
  IN \/ Ch(s, p) = "*" /\ Ch(s, p + 1) = "["
     \/ /\ Ch(s, p) = "["
        /\ Ch(s, key) \in Letters \cup Digits \cup {"_"}
        /\ Ch(s, end) = "]"
        /\ Ch(s, SkipSpaces(s, end + 1)) \in {EOF, NL, "}", "[", "*"}

RECURSIVE TextEnd(_, _, _)
TextEnd(s, p, inVariant) ==
  IF \/ Ch(s, p) \in {EOF, "{", NL}
     \/ inVariant /\ (Ch(s, p) = "}" \/ IsVariantMarker(s, p))
  THEN p ELSE TextEnd(s, p + 1, inVariant)

IsText(els, i) == i \in DOMAIN els /\ els[i].t = "TextElement"

AppendNewline(els) ==
  IF IsText(els, Len(els))
  THEN [els EXCEPT ![Len(els)].value = Append(@, NL)]
  ELSE Append(els, TextElement(<<NL>>))

RECURSIVE TrimStart(_)
TrimStart(els) ==
  IF ~IsText(els, 1) THEN els
  ELSE LET value == els[1].value
           text == Slice(value, SkipWhitespace(value, 0), Len(value))
       IN IF text = <<>> THEN TrimStart(Tail(els)) ELSE [els EXCEPT ![1].value = text]

(* Blank lines at the end go; spaces after the last text stay. *)
RECURSIVE TrimEnd(_)
TrimEnd(els) ==
  IF ~IsText(els, Len(els)) THEN els
  ELSE LET n == Len(els)
           value == els[n].value
           breaks == Newlines(value, Len(value))
           last == Max(breaks)
       IN IF breaks = {} \/ \E i \in (last + 1)..(Len(value) - 1) : Ch(value, i) # SP THEN els
          ELSE IF last = 0 THEN TrimEnd(SubSeq(els, 1, n - 1))
          ELSE TrimEnd([els EXCEPT ![n].value = Slice(value, 0, last)])

Spaces(n) == [i \in 1..n |-> SP]

(* Elements found so far; spaces of the new line not yet part of a text; the indent
   that all continuation lines share, 0 when none is known yet.                 *)
Flush(els, extra) == IF extra = 0 THEN els ELSE Append(els, TextElement(Spaces(extra)))

-----------------------------------------------------------------------------
(* expressions.py and the loops of patterns.py, which call each other *)

RECURSIVE ParsePlaceable(_, _, _)
RECURSIVE ParsePatternFrom(_, _, _, _, _, _, _)
RECURSIVE ParseArguments(_, _, _, _, _)
RECURSIVE ParseVariants(_, _, _, _)

(* parse_pattern and parse_simple_pattern: text, placeables and continuation lines. *)
ParsePatternFrom(s, p, d, inVariant, els, extra, indent) ==
  LET line == SkipAll(s, p, {NL})
      width == SkipSpaces(s, line) - line
      more == IF indent.known /\ width > indent.n THEN width - indent.n ELSE 0
      end == TextEnd(s, p, inVariant)
      text == TextElement(Spaces(extra) \o Slice(s, p, end))
  IN CASE Ch(s, p) = "{"
          -> Then(ParsePlaceable(s, p + 1, d), LAMBDA r :
               ParsePatternFrom(s, r.p, d, inVariant, Append(Flush(els, extra), r.v), 0, indent))
       [] IsIndentedContinuation(s, p)
          -> ParsePatternFrom(s, line + width, d, inVariant, AppendNewline(els), extra + more,
               IF indent.known THEN indent ELSE [known |-> TRUE, n |-> width])
       [] end > p
          -> ParsePatternFrom(s, end, d, inVariant, Append(els, text), 0, indent)
       [] OTHER
          -> Got(TrimEnd(TrimStart(Flush(els, extra))), p)

ParseSimplePattern(s, p, d) ==
  ParsePatternFrom(s, p, d, TRUE, <<>>, 0, [known |-> FALSE, n |-> 0])

(* The value after "=", on the same line or indented below it. *)
ParsePattern(s, p, d) ==
  LET start == PatternStart(s, p)
  IN ParsePatternFrom(s, start.p, d, FALSE, <<>>, 0,
                      [known |-> start.indent > 0, n |-> start.indent])

(* "(" arguments ")" after the name; a call is one level deeper and is refused,
   without setting the flag, at the limit.                                      *)
ParseCall(s, p, d) ==
  IF d >= MaxNesting THEN Fail
  ELSE Then(ParseArguments(s, SkipWhitespace(s, p + 1), d + 1, <<>>, <<>>), LAMBDA args :
         Closed(s, SkipSpaces(s, args.p), ")", args.v))

(* A function's name with its arguments, or a message's with or without an attribute.
   A "." that no name follows is skipped.                                       *)
ParseName(s, p, d) ==
  Then(ParseIdentifier(s, p), LAMBDA id :
    IF Ch(s, SkipSpaces(s, id.p)) = "("
    THEN Then(ParseCall(s, SkipSpaces(s, id.p), d), LAMBDA call :
           Got(FunctionReference(id.v, <<call.v>>), call.p))
    ELSE IF Ch(s, id.p) = "."
    THEN Then(OrElse(ParseIdentifier(s, id.p + 1), Got(None, id.p + 1)), LAMBDA attr :
           Got(MessageReference(id.v, attr.v), attr.p))
    ELSE Got(MessageReference(id.v, None), id.p))

ParseTermReference(s, p, d) ==
  Then(ParseIdentifier(s, p + 1), LAMBDA id :
    Then(IF Ch(s, id.p) = "." THEN ParseIdentifier(s, id.p + 1) ELSE Got(None, id.p), LAMBDA attr :
      IF Ch(s, SkipSpaces(s, attr.p)) = "("
      THEN Then(ParseCall(s, SkipSpaces(s, attr.p), d), LAMBDA call :
             Got(TermReference(id.v, attr.v, <<call.v>>), call.p))
      ELSE Got(TermReference(id.v, attr.v, None), SkipSpaces(s, attr.p))))

(* parse_inline_expression, and parse_argument_expression, which accepts the same. *)
ParseInline(s, p, d) ==
  LET c == Ch(s, p)
  IN CASE c = "$" -> Then(ParseIdentifier(s, p + 1), LAMBDA id : Got(VariableReference(id.v), id.p))
       [] c = "\"" -> StringRest(s, p + 1, <<>>)
       [] c = "-" /\ Ch(s, p + 1) \in Letters -> ParseTermReference(s, p, d)
       [] c = "{" -> ParsePlaceable(s, p + 1, d)
       [] c \in Letters -> ParseName(s, p, d)
       [] OTHER -> ParseNumber(s, p)

(* Commas between arguments are optional. *)
NextArgument(s, p) ==
  LET q == SkipWhitespace(s, p) IN IF Ch(s, q) = "," THEN SkipWhitespace(s, q + 1) ELSE q

\* Mutant: names may come again.
CanNameAgain(arg, named) == arg.t = "MessageReference"

(* A name before ":" that no argument has yet. *)
CanName(arg, named) ==
  arg.t = "MessageReference" /\ \A i \in DOMAIN named : named[i].name # arg.id

(* The arguments before ")", positional ones first. *)
ParseArguments(s, p, d, positional, named) ==
  IF Ch(s, p) \in {EOF, ")"} THEN Got(CallArguments(positional, named), p)
  ELSE Then(ParseInline(s, p, d), LAMBDA arg :
    LET colon == SkipWhitespace(s, arg.p)
    IN IF Ch(s, colon) = ":"
       THEN IF ~CanName(arg.v, named) THEN Fail
            ELSE Then(ParseInline(s, SkipWhitespace(s, colon + 1), d), LAMBDA value :
              IF ~IsLiteral(value.v) THEN Fail
              ELSE ParseArguments(s, NextArgument(s, value.p), d, positional,
                     Append(named, NamedArgument(arg.v.id, value.v))))
       ELSE IF named # <<>> THEN Fail
       ELSE ParseArguments(s, NextArgument(s, arg.p), d, Append(positional, arg.v), named))

ParseVariantKey(s, p) ==
  IF Ch(s, p) \in Digits \cup {"-"} THEN ParseNumber(s, p)
  ELSE Then(ParseIdentifier(s, p), LAMBDA id : Got(Identifier(id.v), id.p))

ParseVariant(s, p, d) ==
  LET default == Ch(s, p) = "*"
      open == IF default THEN p + 1 ELSE p
  IN IF Ch(s, open) # "[" THEN Fail
     ELSE Then(ParseVariantKey(s, SkipWhitespace(s, open + 1)), LAMBDA key :
            Then(Closed(s, SkipWhitespace(s, key.p), "]", key.v), LAMBDA head :
              Then(ParseSimplePattern(s, SkipSpaces(s, head.p), d), LAMBDA value :
                Got(Variant(key.v, value.v, default), value.p))))

(* parse_select_expression, after "->" *)
ParseVariants(s, p, d, variants) ==
  LET q == SkipWhitespace(s, p)
  IN IF Ch(s, q) \in {EOF, "}"} THEN IF CanSelect(variants) THEN Got(variants, q) ELSE Fail
     ELSE Then(ParseVariant(s, q, d), LAMBDA r : ParseVariants(s, r.p, d, Append(variants, r.v)))

ParsePlaceable(s, p, d) ==
  IF d >= MaxNesting THEN TooDeep
  ELSE Then(ParseInline(s, SkipWhitespace(s, p), d + 1), LAMBDA expr :
    LET q == SkipWhitespace(s, expr.p)
    IN IF expr.v.t # "Placeable" /\ Ch(s, q) = "-" /\ Ch(s, q + 1) = ">"
       THEN Then(ParseVariants(s, q + 2, d + 1, <<>>), LAMBDA variants :
              Closed(s, variants.p, "}", Placeable(SelectExpression(expr.v, variants.v))))
       ELSE Closed(s, q, "}", Placeable(expr.v)))

-----------------------------------------------------------------------------
(* entries.py *)

(* identifier "=": the identifier, and the offset after the sign. *)
ParseHeader(s, p) ==
  Then(ParseIdentifier(s, p), LAMBDA id : Closed(s, SkipSpaces(s, id.p), "=", id.v))

ParseAttribute(s, p) ==
  Then(ParseHeader(s, SkipSpaces(s, p) + 1), LAMBDA head :
    Then(ParsePattern(s, head.p, 0), LAMBDA value : Got(Attribute(head.v, value.v), value.p)))

(* Lines that begin with "."; one that is not an attribute is left for later, at the
   beginning of its line.                                                       *)
RECURSIVE ParseAttributes(_, _, _)
ParseAttributes(s, p, attributes) ==
  LET line == SkipAll(s, p, {NL})
  IN CASE Ch(s, p) # NL -> Got(attributes, p)
       [] Ch(s, p) = NL /\ Ch(s, SkipSpaces(s, line)) # "." -> Got(attributes, line)
       [] OTHER -> Then(OrElse(ParseAttribute(s, line), Got(None, line)), LAMBDA r :
                     IF r.v = None THEN Got(attributes, line)
                     ELSE ParseAttributes(s, r.p, Append(attributes, r.v)))

ParseMessage(s, p) ==
  Then(ParseHeader(s, p), LAMBDA head :
    Then(ParsePattern(s, head.p, 0), LAMBDA value :
      Then(ParseAttributes(s, value.p, <<>>), LAMBDA attrs :
        IF value.v = <<>> /\ attrs.v = <<>> THEN Fail
        ELSE Got(Message(head.v, <<value.v>>, attrs.v, p, attrs.p), attrs.p))))

ParseTerm(s, p) ==
  Then(ParseHeader(s, p + 1), LAMBDA head :
    Then(ParsePattern(s, head.p, 0), LAMBDA value :
      IF value.v = <<>> THEN Fail
      ELSE Then(ParseAttributes(s, value.p, <<>>), LAMBDA attrs :
             Got(Term(head.v, value.v, attrs.v, p, attrs.p), attrs.p))))

(* One to three "#", perhaps a space, and the rest of the line. *)
ParseComment(s, p) ==
  LET text == SkipAll(s, p, {"#"})
      from == IF Ch(s, text) = SP THEN text + 1 ELSE text
      end == SkipLine(s, from)
  IN IF text - p > 3 THEN Fail
     ELSE Got(Comment(text - p, <<Slice(s, from, SkipToLineEnd(s, from))>>, p, end), end)
=============================================================================
