----------------------------- MODULE FtlParser -----------------------------
(* syntax/parser/core.py: the loop of FluentParserV1.parse(), one iteration a step,
   and the chunks of parse_stream().  The rules of the grammar are FtlGrammar's.   *)
EXTENDS FtlGrammar

CONSTANT MaxParseErrors    \* how many Junk entries end a parse; 0: no limit

VARIABLES
  src,        \* the source being parsed, with normalized line ends
  pos,        \* the cursor
  entries,    \* what has been found
  pending,    \* the comment that may yet be merged or attached: at most one
  deep,       \* the context's flag: some placeable was refused for its depth
  junkCount,
  chunks,     \* what parse_stream() has still to parse
  parsing     \* the loop is running

parserVars == <<src, pos, entries, pending, deep, junkCount, chunks, parsing>>

(* "\r\n" and "\r" become "\n". *)
RECURSIVE Normalize(_)
Normalize(s) ==
  LET cr == SkipUntil(s, 0, {"\r"})
  IN IF cr = Len(s) THEN s
     ELSE Append(Slice(s, 0, cr), NL)
          \o Normalize(Slice(s, IF Ch(s, cr + 1) = NL THEN cr + 2 ELSE cr + 1, Len(s)))

\* Mutant: lines of spaces end a chunk, too.
RECURSIVE ChunksOfText(_)
ChunksOfText(s) ==
  LET from == SkipAll(s, 0, {NL})
      blank == {p \in from..Len(s) : Ch(s, p) = NL /\ Ch(s, SkipSpaces(s, p + 1)) \in {NL, EOF}}
      end == IF blank = {} THEN Len(s) ELSE Min(blank)
  IN IF from = Len(s) THEN <<>>
     ELSE <<Slice(s, from, end)>> \o ChunksOfText(Slice(s, end, Len(s)))

(* The chunks of parse_stream(): runs of lines that are not empty. *)
RECURSIVE Chunks(_)
Chunks(s) ==
  LET from == SkipAll(s, 0, {NL})
      blank == {p \in from..Len(s) : Ch(s, p) = NL /\ Ch(s, p + 1) \in {NL, EOF}}
      end == IF blank = {} THEN Len(s) ELSE Min(blank)
  IN IF from = Len(s) THEN <<>>
     ELSE <<Slice(s, from, end)>> \o Chunks(Slice(s, end, Len(s)))

(* Lines of junk: up to a line that begins with a comment, a term or a letter. *)
RECURSIVE JunkEnd(_, _)
JunkEnd(s, p) ==
  LET text == SkipSpaces(s, p)
  IN IF text = Len(s) THEN text
     ELSE IF text = p /\ Ch(s, p) \in Letters \cup {"#", "-"} THEN p
     ELSE JunkEnd(s, SkipLine(s, p))

\* Mutant: without the first line, which is junk whatever it begins with.
ConsumeLaterLines(s, p) == JunkEnd(s, p)

ConsumeJunkLines(s, p) == JunkEnd(s, SkipLine(s, p))

-----------------------------------------------------------------------------
Start(source, rest) ==
  /\ src' = Normalize(source)
  /\ pos' = 0
  /\ pending' = <<>>
  /\ deep' = FALSE
  /\ junkCount' = 0
  /\ chunks' = rest
  /\ parsing' = TRUE

at == SkipWhitespace(src, pos)
AtColumnOne == at \in LineStarts(src)
NoBlankLineSince(comment) == Newlines(src, at) \cap (comment.end)..at = {}

(* Emit junk; the limit of junk entries ends the loop, and so the pending comment
   comes last.                                                                  *)
EmitJunk(before, code, start, end, next, newPending) ==
  LET node == Junk(Slice(src, start, end), code, start, end)
      stop == MaxParseErrors > 0 /\ junkCount + 1 >= MaxParseErrors
  IN /\ entries' = entries \o before \o <<node>> \o (IF stop THEN newPending ELSE <<>>)
     /\ pending' = IF stop THEN <<>> ELSE newPending
     /\ junkCount' = junkCount + 1
     /\ parsing' = ~stop
     /\ pos' = IF stop THEN end ELSE next

(* Nothing but blanks is left. *)
EndOfSource ==
  /\ parsing
  /\ at = Len(src)
  /\ entries' = entries \o pending
  /\ pending' = <<>>
  /\ pos' = at
  /\ parsing' = FALSE
  /\ UNCHANGED <<src, deep, junkCount, chunks>>

\* Mutant: the pending comment is forgotten.
IndentedJunkAlone ==
  /\ parsing
  /\ at < Len(src) /\ ~AtColumnOne
  /\ LET end == ConsumeJunkLines(src, at) IN
       EmitJunk(<<>>, "PARSE_JUNK", pos, end, end, <<>>)
  /\ UNCHANGED <<src, deep, chunks>>

IndentedJunk ==
  /\ parsing
  /\ at < Len(src) /\ ~AtColumnOne
  /\ LET end == ConsumeJunkLines(src, at) IN
       EmitJunk(pending, "PARSE_JUNK", pos, end, end, <<>>)
  /\ UNCHANGED <<src, deep, chunks>>

(* A comment is merged with the pending one, or takes its place. *)
CommentLine ==
  /\ parsing
  /\ at < Len(src) /\ AtColumnOne /\ Ch(src, at) = "#"
  /\ LET r == ParseComment(src, at) IN
       /\ r.ok
       /\ pos' = r.p
       /\ IF /\ pending # <<>>
             /\ pending[1].type = r.v.type
             /\ NoBlankLineSince(pending[1])
          THEN /\ pending' = <<[pending[1] EXCEPT !.content = @ \o r.v.content, !.end = r.v.end]>>
               /\ UNCHANGED entries
          ELSE /\ pending' = <<r.v>>
               /\ entries' = entries \o pending
  /\ UNCHANGED <<src, deep, junkCount, chunks, parsing>>

(* Too many "#": the line is junk.  The pending comment stays pending. *)
MalformedComment ==
  /\ parsing
  /\ at < Len(src) /\ AtColumnOne /\ Ch(src, at) = "#"
  /\ ~ParseComment(src, at).ok
  /\ LET end == SkipToLineEnd(src, at) IN
       EmitJunk(<<>>, "PARSE_JUNK", at, end, SkipLineEnd(src, end), pending)
  /\ UNCHANGED <<src, deep, chunks>>

(* A pending comment right before the entry is attached to it. *)
Attached ==
  SelectSeq(pending, LAMBDA c : c.type = 1 /\ NoBlankLineSince(c))
Standalone == IF Attached = <<>> THEN pending ELSE <<>>

(* A term, or else a message. *)
ParsedEntry ==
  IF Ch(src, at) = "-" THEN OrElse(ParseTerm(src, at), ParseMessage(src, at))
  ELSE ParseMessage(src, at)

StartsEntry == parsing /\ at < Len(src) /\ AtColumnOne /\ Ch(src, at) # "#"

MessageOrTerm ==
  /\ StartsEntry
  /\ \E r \in {ParsedEntry} :
       /\ r.ok
       /\ entries' = entries \o Standalone \o <<[r.v EXCEPT !.comment = Attached]>>
       /\ pos' = r.p
       /\ deep' = (deep \/ r.deep)
  /\ pending' = <<>>
  /\ UNCHANGED <<src, junkCount, chunks, parsing>>

(* What would have been attached is an entry of its own; then junk, whose code is that
   of the context's flag.                                                       *)
BrokenEntry ==
  /\ StartsEntry
  /\ \E r \in {ParsedEntry} :
       /\ ~r.ok
       /\ deep' = (deep \/ r.deep)
  /\ LET end == ConsumeJunkLines(src, at)
         code == IF deep' THEN "PARSE_NESTING_DEPTH_EXCEEDED" ELSE "PARSE_JUNK"
     IN EmitJunk(pending, code, at, end, end, <<>>)
  /\ UNCHANGED <<src, chunks>>

(* parse_stream() parses the next chunk with a parse() of its own. *)
NextChunk ==
  /\ ~parsing
  /\ chunks # <<>>
  /\ Start(Head(chunks), Tail(chunks))
  /\ UNCHANGED entries

ParserDone == ~parsing /\ chunks = <<>>
=============================================================================
