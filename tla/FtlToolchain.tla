---------------------------- MODULE FtlToolchain ----------------------------
(* What a tool does with a resource: it parses the source; then it serializes the
   tree and parses the result again, or it parses the source as a stream.  The walks
   over the tree of the first parse are compared with each other.                *)
EXTENDS FtlParser, FtlSerializer, FtlTransform, FtlValidation

CONSTANTS
  Sources,    \* the texts that are parsed
  Known,      \* the ids that validate_resource() is told of, by kind of entry
  Rules       \* the transformers that are tried

VARIABLES
  source,     \* the chosen text
  stage,      \* "parse", "again", "stream", or "refused" by the serializer
  first       \* the tree of the first parse

vars == <<source, stage, first, parserVars>>

Init ==
  /\ source \in Sources
  /\ src = Normalize(source)
  /\ pos = 0
  /\ entries = <<>> /\ pending = <<>>
  /\ deep = FALSE
  /\ junkCount = 0
  /\ chunks = <<>>
  /\ parsing = TRUE
  /\ stage = "parse"
  /\ first = <<>>

Definitions(tree) == {i \in DOMAIN tree : IsDefinition(tree[i])}

(* serialize(tree) raises nothing. *)
CanSerializeTree(tree) ==
  \A i \in Definitions(tree) :
    /\ CanSerializeEntry(tree[i])
    /\ Depth("validate", tree[i]) <= MaxDepth
    /\ Depth("serialize", tree[i]) <= MaxDepth

SerializeAndParse ==
  /\ stage = "parse" /\ ParserDone
  /\ CanSerializeTree(entries)
  /\ stage' = "again"
  /\ first' = entries
  /\ entries' = <<>>
  /\ Start(Serialize(entries), <<>>)
  /\ UNCHANGED source

RefuseToSerialize ==
  /\ stage = "parse" /\ ParserDone
  /\ ~CanSerializeTree(entries)
  /\ stage' = "refused"
  /\ UNCHANGED <<source, first, parserVars>>

ParseStream ==
  /\ stage = "parse" /\ ParserDone
  /\ Chunks(src) # <<>>
  /\ stage' = "stream"
  /\ first' = entries
  /\ entries' = <<>>
  /\ Start(Head(Chunks(src)), Tail(Chunks(src)))
  /\ UNCHANGED source

tool == <<source, stage, first>>

Next ==
  \/ EndOfSource /\ UNCHANGED tool
  \/ IndentedJunk /\ UNCHANGED tool
  \/ CommentLine /\ UNCHANGED tool
  \/ MalformedComment /\ UNCHANGED tool
  \/ MessageOrTerm /\ UNCHANGED tool
  \/ BrokenEntry /\ UNCHANGED tool
  \/ NextChunk /\ UNCHANGED tool
  \/ SerializeAndParse
  \/ RefuseToSerialize
  \/ ParseStream

Spec == Init /\ [][Next]_vars

Parsed == stage = "parse" /\ ParserDone
Reparsed == stage = "again" /\ ParserDone
Streamed == stage = "stream" /\ ParserDone

-----------------------------------------------------------------------------
(* An entry and its comment as spans of the source. *)
Pieces(entry) ==
  {[start |-> e.start, end |-> e.end] :
     e \in {entry} \cup (IF IsDefinition(entry) THEN ToSet(entry.comment) ELSE {})}

Covers(piece, p) == piece.start <= p /\ p < piece.end

InSourceOrder(tree) == \A i \in 1..(Len(tree) - 1) : tree[i].start < tree[i + 1].start

LineAt(text, p) == Slice(text, Max({x \in LineStarts(text) : x <= p}), SkipToLineEnd(text, p))

HasBlankLineIn(text, entry) ==
  \E piece \in Pieces(entry) : \E p \in (piece.start)..(piece.end - 2) :
    /\ Ch(text, p) = NL /\ Ch(text, p + 1) = NL
    /\ \E q \in (piece.start)..p : Ch(text, q) # NL
    /\ \E q \in (p + 2)..(piece.end - 1) : Ch(text, q) # NL

RECURSIVE Has(_, _)
Has(class, n) == n.t = class \/ \E i \in DOMAIN Children(n) : Has(class, Children(n)[i])

(* A tree without spans, and without what tells one kind of junk from another. *)
WithoutSpans(tree) ==
  LET bare(e) == [e EXCEPT !.start = 0, !.end = 0]
      comments(cs) == [k \in DOMAIN cs |-> bare(cs[k])]
      text(s) == Slice(s, SkipAll(s, 0, {NL}), Len(s) - TrailingNewlines(s))
  IN [i \in DOMAIN tree |->
        CASE IsDefinition(tree[i]) -> [bare(tree[i]) EXCEPT !.comment = comments(@)]
          [] tree[i].t = "Junk" -> [bare(tree[i]) EXCEPT !.code = "", !.content = text(@)]
          [] OTHER -> bare(tree[i])]

(* What a pattern says: its characters but for blanks, whether they are text or a
   string in a placeable, and its other placeables.                             *)
RECURSIVE Says(_)
Says(n) ==
  LET characters(text) ==
        LET seen == SelectSeq(text, LAMBDA c : c \notin {SP, NL})
        IN [i \in DOMAIN seen |-> [character |-> seen[i]]]
  IN CASE n.t = "Pattern" -> FoldLeft(LAMBDA said, el : said \o Says(el), <<>>, n.elements)
       [] n.t = "TextElement" -> characters(n.value)
       [] n.t = "SelectExpression" ->
            <<[select |-> Says(n.selector)]>> \o
            [i \in DOMAIN n.variants |->
               [variant |-> n.variants[i].key, default |-> n.variants[i].default,
                says |-> Says(Pattern(n.variants[i].value))]]
       [] n.t = "Placeable" ->
            IF n.expression.t = "StringLiteral" THEN characters(n.expression.value)
            ELSE <<[placeable |-> Says(n.expression)]>>
       [] OTHER -> <<n>>

Content(entry) ==
  IF ~IsDefinition(entry) THEN WithoutSpans(<<entry>>)[1]
  ELSE [t |-> entry.t, id |-> entry.id,
        attributes |-> [i \in DOMAIN entry.attributes |-> entry.attributes[i].id],
        says |-> [i \in DOMAIN Patterns(entry) |-> Says(Patterns(entry)[i])],
        comment |-> [i \in DOMAIN entry.comment |-> entry.comment[i].content]]

-----------------------------------------------------------------------------
(* Nothing of a source gets lost, and nothing is found twice: every character that is
   not a blank is in one entry or comment, whatever is malformed around it.  Only when
   the limit of junk ends the parse is the rest left out (core.py's loop).         *)
EveryCharacterOnce ==
  Parsed =>
    \A p \in 0..(pos - 1) :
      LET holders == {i \in DOMAIN entries : \E piece \in Pieces(entries[i]) : Covers(piece, p)}
      IN /\ Cardinality(holders) <= 1
         /\ Ch(src, p) \notin {SP, NL} => holders # {}

(* Each turn of the parser's loop gets further, so that every parse ends: no path through
   junk, a comment or an entry leaves the cursor where it was (core.py's loop).     *)
EveryTurnAdvances ==
  [][parsing /\ stage' = stage /\ parsing' => pos' > pos]_vars

(* A formatter that has run once changes nothing when it runs again: the serialized text
   is parsed and serialized to itself, junk included (serializer.py).  Except where a
   malformed comment overtakes a pending one.                                     *)
FormattingIsStable ==
  Reparsed /\ InSourceOrder(first) => Serialize(entries) = src

(* ... and the text says what the source said: the same kinds of entries in the same
   order, and in each the same characters, variants and placeables; so it is valid where
   the source was.                                                                *)
FormattingKeepsContent ==
  Reparsed /\ InSourceOrder(first) =>
    /\ [i \in DOMAIN entries |-> Content(entries[i])] = [i \in DOMAIN first |-> Content(first[i])]
    /\ IsValid(src, entries) <=> IsValid(Normalize(source), first)

(* A formatter can run at any time: its output is stable and says the same.       *)
FormattingIsFaithful == FormattingIsStable /\ FormattingKeepsContent

(* A source parsed as a stream has the entries that it has as a whole, when no entry and
   no junk goes over a blank line (parse_stream()).                                *)
StreamAgrees ==
  (/\ Streamed
   /\ InSourceOrder(first)
   /\ Len(SelectSeq(first, LAMBDA e : e.t = "Junk")) < MaxParseErrors)
  => \/ \E i \in DOMAIN first : LET whole == Normalize(source) IN HasBlankLineIn(whole, first[i])
     \/ WithoutSpans(entries) = WithoutSpans(first)

(* The two walks that look for references find the same ones, and the variables that a call
   is given are among those of the message; and the graph's edges, which
   are kept by attribute, lack some only where validate_resource() warns of an attribute
   that is defined twice (reference_extraction.py, introspection/message.py).       *)
ReferencesAgree ==
  Parsed =>
    \A i \in Definitions(entries) :
      LET e == entries[i]
          byAttribute == ExtractByAttribute(e)
      IN /\ ExtractReferences(e) = {use \in Introspect(e) :
                                      use.t \in {"MessageReference", "TermReference"}}
         /\ \A use \in Introspect(e) :
              use.t = "FunctionCall" => ToSet(use.positional) \subseteq VariableNames(e)
         /\ \/ UNION {byAttribute[name] : name \in DOMAIN byAttribute} = ExtractReferences(e)
            \/ \E w \in StructureWarnings(src, entries, Known) :
                 w.code = "DUPLICATE_ATTRIBUTE" /\ w.context[1] = e.id

(* What the parser lets through passes the checks of the two validators but for what the
   grammar does not forbid: variants with one key and positional arguments of terms.
   The semantic walk goes no deeper than the parser did (validator.py,
   serializer_validation.py).                                                     *)
ParsedIsValid ==
  Parsed =>
    \A i \in Definitions(entries) :
      /\ Validate(entries[i]) \subseteq {"VARIANT_DUPLICATE", "TERM_POSITIONAL_ARGS"}
      /\ CanSerializeEntry(entries[i])
      /\ Depth("semantic", entries[i]) <= MaxNesting

(* A validation error stands where its junk begins: the line and the column that the
   bisection finds select, in the source with normalized line ends, the text of the junk,
   and are those that the cursor and position.py compute.  In the context that is shown
   the marker is under the line of the junk (resource.py, cursor.py, position.py).  *)
ErrorsPointAtJunk ==
  Parsed =>
    \A e \in SyntaxErrors(src, entries) :
      LET start == LineOffsets(src)[e.at.line] + e.at.col - 1
      IN /\ Slice(src, start, start + Len(e.content)) = e.content
         /\ e.at = ComputeLineCol(src, start)
         /\ e.at = [line |-> LineOffset(src, start) + 1, col |-> ColumnOffset(src, start) + 1]
         /\ LET shown == ErrorContext(src, start, 1) IN
              \E i \in DOMAIN shown : /\ i > 1 /\ shown[i] = Marker(e.at.col - 1)
                                      /\ shown[i - 1] = LineAt(src, start)

(* A definition that a later one overrides, which no check of references looks at, has a
   warning of its own or its successor has (_check_entry).                         *)
NothingIsOverriddenSilently ==
  Parsed /\ CanValidate(entries) =>
    \A i \in Definitions(entries) \ Kept(entries) :
      \E k \in Kept(entries) :
        /\ SameId(entries, i, k)
        /\ Warning("DUPLICATE_ID", src, entries, k, <<entries[k].id>>)
           \in Warnings(src, entries, Known)

(* A transformer that removes a class of nodes either raises or leaves none of them, and
   one that doubles or replaces nodes cannot make a select expression without its one
   default, nor a message without content; only names may then be there twice, which the
   validators see (ASTTransformer.generic_visit).                                 *)
TransformsAreTotal ==
  Parsed =>
    \A rule \in Rules : \A result \in {Transform(rule, entries)} :
      result.ok =>
        LET new == result.nodes[1].entries
        IN \A i \in Definitions(new) :
             /\ Validate(new[i]) \subseteq
                  {"VARIANT_DUPLICATE", "TERM_POSITIONAL_ARGS", "NAMED_ARG_DUPLICATE"}
             /\ CanBeMessage(Value(new[i]), new[i].attributes)
             /\ rule.does = "remove" => \A p \in ToSet(Patterns(new[i])) : ~Has(rule.class, p)
=============================================================================
