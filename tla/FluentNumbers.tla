--------------------------- MODULE FluentNumbers ---------------------------
(* core/value_types.py: FluentNumber, a number with the text that shows it and the
   number of fraction digits one sees; runtime/plural_rules.py, which takes the
   plural category from the three.                                              *)
EXTENDS LocaleText

DecimalSeparators == {".", ","}
NumericSegmentChars == {" ", "'", "(", ")", "+", ",", "-", ".", "_", NBSP, NarrowNBSP}

NoCap == -1

LeadingDigits(t) ==
  LET other == {i \in DOMAIN t : ~IsDigit(t[i])}
  IN IF other = {} THEN Len(t) ELSE Min(other) - 1

(* _compute_visible_precision: the digits right behind the last decimal symbol. *)
ComputeVisiblePrecision(text, symbol, cap) ==
  LET at == {i \in DOMAIN text : text[i] = symbol}
      count == LeadingDigits(SubSeq(text, Max(at) + 1, Len(text)))
  IN IF at = {} THEN 0
     ELSE IF cap # NoCap /\ count > cap THEN cap ELSE count

VisiblePrecisionFromValue(d) == d.scale

(* _iter_numeric_segments: the longest stretches of number characters, with a digit. *)
NumericSegments(text) ==
  LET isPart(c) == IsDigit(c) \/ c \in NumericSegmentChars
      stretches == SplitAt([i \in DOMAIN text |-> IF isPart(text[i]) THEN text[i] ELSE "end"], "end")
      hasDigit(t) == \E i \in DOMAIN t : IsDigit(t[i])
      kept == SelectSeq(stretches, hasDigit)
  IN [i \in DOMAIN kept |-> Strip(kept[i])]

(* _unwrap_parenthesized_negative *)
IsParenthesized(segment) ==
  segment # <<>> /\ segment[1] = "(" /\ segment[Len(segment)] = ")"

Unwrapped(segment) ==
  IF IsParenthesized(segment) THEN Strip(SubSeq(segment, 2, Len(segment) - 1)) ELSE segment

(* _normalize_numeric_text: digits, the first sign if nothing is before it, and the
   decimal symbol as a point; the rest of a segment's characters is dropped. *)
NormalizeNumericText(segment, symbol) ==
  FoldLeft(LAMBDA out, c : IF IsDigit(c) THEN Append(out, c)
                           ELSE IF c \in {"+", "-"} THEN IF out = <<>> THEN <<c>> ELSE out
                           ELSE IF c = symbol THEN Append(out, ".") ELSE out,
           <<>>, segment)

NoSymbol == "none"

(* _parse_numeric_segment *)
ParseNumericSegment(segment, symbol) ==
  [DecimalOf(NormalizeNumericText(Unwrapped(segment), symbol))
     EXCEPT !.neg = @ \/ IsParenthesized(segment)]

\* No amount equals NoNumber, negative or not.
Shows(segment, symbol, d) == Equal(ParseNumericSegment(segment, symbol), d)

(* The decimal separators of a segment, each once, in the order they appear. *)
SeparatorsOf(segment) ==
  FoldLeft(LAMBDA seen, c : IF c \in DecimalSeparators /\ c \notin Range(seen)
                            THEN Append(seen, c) ELSE seen,
           <<>>, segment)

(* What a segment says of the precision of d: nothing, or a number. *)
SegmentPrecision(segment, d) ==
  LET fitting == SelectSeq(SeparatorsOf(segment), LAMBDA c : Shows(segment, c, d))
  IN IF fitting # <<>> THEN <<ComputeVisiblePrecision(segment, fitting[1], NoCap)>>
     ELSE IF Shows(segment, NoSymbol, d) THEN <<0>> ELSE <<>>

(* _infer_visible_precision: the first segment that shows the value decides. *)
InferVisiblePrecision(d, text) ==
  LET showing == SelectSeq(NumericSegments(text), LAMBDA t : SegmentPrecision(t, d) # <<>>)
  IN IF showing # <<>> THEN SegmentPrecision(showing[1], d)[1] ELSE VisiblePrecisionFromValue(d)

FluentNumber(d, text, precision) == [value |-> d, formatted |-> text, precision |-> precision]

(* _make_fluent_number with a decimal symbol, as NUMBER and CURRENCY use it ... *)
MakeFormattedNumber(d, text, symbol, cap) ==
  FluentNumber(d, text, ComputeVisiblePrecision(text, symbol, cap))

(* ... and without one: make_fluent_number. *)
MakeFluentNumber(d, text) == FluentNumber(d, text, InferVisiblePrecision(d, text))

-----------------------------------------------------------------------------
(* plural_rules.py *)

\* Mutant: the value as it was given, whatever is shown of it.
SelectUnroundedCategory(number, code) ==
  IF ~IsStructurallyValid(code) \/ ~IsKnown(NormalizeLocale(code)) THEN "other"
  ELSE PluralCategory(number.value, LocaleOf(code).plural)

(* select_plural_category: the number as precision shows it, by the locale's rule;
   an unknown locale has the root's, which is always "other". *)
SelectPluralCategory(number, code) ==
  IF ~IsStructurallyValid(code) \/ ~IsKnown(NormalizeLocale(code)) THEN "other"
  ELSE PluralCategory(RoundTo(number.value, number.precision), LocaleOf(code).plural)
=============================================================================
