----------------------------- MODULE FtlCursor -----------------------------
(* syntax/cursor.py, syntax/position.py and syntax/parser/whitespace.py: the
   movements of an immutable cursor over a source, and the three ways in which
   the library turns an offset into a line and a column.

   A source is a sequence of one-character strings.  Offsets count from 0, as in
   the code; Ch is what the cursor reads, EOF at the end.                       *)
EXTENDS Naturals, Sequences, FiniteSets, FiniteSetsExt

EOF == ""
SP == " "
NL == "\n"

Text(string) == [i \in 1..Len(string) |-> SubSeq(string, i, i)]

Ch(s, p) == IF p < Len(s) THEN s[p + 1] ELSE EOF

Slice(s, p, q) == SubSeq(s, p + 1, q)

RECURSIVE SkipAll(_, _, _)
SkipAll(s, p, chars) == IF Ch(s, p) \in chars THEN SkipAll(s, p + 1, chars) ELSE p

RECURSIVE SkipUntil(_, _, _)
SkipUntil(s, p, chars) ==
  IF p >= Len(s) \/ Ch(s, p) \in chars THEN p ELSE SkipUntil(s, p + 1, chars)

SkipSpaces(s, p) == SkipAll(s, p, {SP})

SkipWhitespace(s, p) == SkipAll(s, p, {SP, NL})

SkipLineEnd(s, p) == IF Ch(s, p) = NL THEN p + 1 ELSE p

SkipToLineEnd(s, p) == SkipUntil(s, p, {NL})

(* The rest of this line with its line break. *)
SkipLine(s, p) == SkipLineEnd(s, SkipToLineEnd(s, p))

-----------------------------------------------------------------------------
(* whitespace.py *)

(* A newline, perhaps blank lines, then an indented line that does not begin
   with a variant, an attribute or a closing brace.                            *)
IsIndentedContinuation(s, p) ==
  /\ Ch(s, p) = NL
  /\ LET line == SkipAll(s, p, {NL}) IN
       /\ Ch(s, line) = SP
       /\ Ch(s, SkipSpaces(s, line)) \notin {"[", "*", ".", "}"}

(* Where the text after "=" begins, and its indent when that is on a later line. *)
PatternStart(s, p) ==
  LET q == SkipSpaces(s, p)
      line == SkipAll(s, q, {NL})
      text == SkipSpaces(s, line)
  IN IF IsIndentedContinuation(s, q) THEN [p |-> text, indent |-> text - line]
                                     ELSE [p |-> q, indent |-> 0]

-----------------------------------------------------------------------------
(* Offsets as lines and columns *)

Newlines(s, p) == {i \in 0..(p - 1) : Ch(s, i) = NL}

(* Cursor.compute_line_col: by counting and searching backwards. *)
ComputeLineCol(s, p) ==
  [line |-> Cardinality(Newlines(s, p)) + 1,
   col  |-> IF Newlines(s, p) = {} THEN p + 1 ELSE p - Max(Newlines(s, p))]

LineStarts(s) == {0} \cup {i + 1 : i \in Newlines(s, Len(s))}

(* LineOffsetCache: the offset of every line's first character, in order ... *)
LineOffsets(s) ==
  LET starts == LineStarts(s)
  IN [k \in 1..Cardinality(starts) |->
        CHOOSE x \in starts : Cardinality({y \in starts : y < x}) = k - 1]

\* Mutant: a position at the start of a line belongs to the line before.
RECURSIVE BisectBefore(_, _, _, _)
BisectBefore(offsets, p, left, right) ==
  IF left >= right THEN left
  ELSE LET mid == (left + right + 1) \div 2
       IN IF offsets[mid + 1] < p THEN BisectBefore(offsets, p, mid, right)
                                  ELSE BisectBefore(offsets, p, left, mid - 1)

(* ... searched by bisection. *)
RECURSIVE Bisect(_, _, _, _)
Bisect(offsets, p, left, right) ==
  IF left >= right THEN left
  ELSE LET mid == (left + right + 1) \div 2
       IN IF offsets[mid + 1] <= p THEN Bisect(offsets, p, mid, right)
                                   ELSE Bisect(offsets, p, left, mid - 1)

CachedLineCol(s, pos) ==
  LET p == IF pos > Len(s) THEN Len(s) ELSE pos
      offsets == LineOffsets(s)
      k == Bisect(offsets, p, 0, Len(offsets) - 1)
  IN [line |-> k + 1, col |-> p - offsets[k + 1] + 1]

(* position.py: zero-based, and clamped to the source. *)
LineOffset(s, pos) == Cardinality(Newlines(s, IF pos > Len(s) THEN Len(s) ELSE pos))

ColumnOffset(s, pos) ==
  LET p == IF pos > Len(s) THEN Len(s) ELSE pos
  IN IF Newlines(s, p) = {} THEN p ELSE p - Max(Newlines(s, p)) - 1

(* source.splitlines(): a final line break opens no line. *)
RECURSIVE SplitLines(_)
SplitLines(s) ==
  IF s = <<>> THEN <<>>
  ELSE LET end == SkipToLineEnd(s, 0)
       IN <<Slice(s, 0, end)>> \o SplitLines(Slice(s, SkipLine(s, 0), Len(s)))

(* The line of the marker: spaces as far as the column. *)
Marker(col) == Append([i \in 1..col |-> SP], "^")

(* get_error_context: the lines around the position, with the marker under its line. *)
ErrorContext(s, pos, around) ==
  LET lines == SplitLines(s)
      at == LineOffset(s, pos)
      marker == <<Marker(ColumnOffset(s, pos))>>
      from == IF at > around THEN at - around ELSE 0
      to == IF at + around + 1 < Len(lines) THEN at + around + 1 ELSE Len(lines)
      shown[i \in from..to] ==
        IF i = to THEN <<>>
        ELSE <<lines[i + 1]>> \o (IF i = at THEN marker ELSE <<>>) \o shown[i + 1]
  IN (IF from <= to THEN shown[from] ELSE <<>>)
     \o (IF at >= Len(lines) THEN <<<<>>>> \o marker ELSE <<>>)
=============================================================================
