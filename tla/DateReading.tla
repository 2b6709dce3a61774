---------------------------- MODULE DateReading ----------------------------
(* DATETIME (runtime/functions.py, locale_formatting.py), and the parsers of
   parsing/dates.py, which turn the locale's patterns into strptime's
   (parsing/date_patterns.py) and try one after the other.

   A moment is a record of numbers.  In these texts the name of a month or a weekday is
   one character, and so is a directive in a strptime pattern.  Eras and time zones are
   left out.                                                                      *)
EXTENDS LocaleText

Styles == <<"short", "medium", "long", "full">>

NoStyle == "none"

Moment(y, m, d, weekday, hour, minute, second) ==
  [y |-> y, m |-> m, d |-> d, weekday |-> weekday, hour |-> hour, minute |-> minute,
   second |-> second]

SameDate(a, b) == a.y = b.y /\ a.m = b.m /\ a.d = b.d

SameMoment(a, b) ==
  SameDate(a, b) /\ a.hour = b.hour /\ a.minute = b.minute /\ a.second = b.second

-----------------------------------------------------------------------------
(* Python *)

MonthNames == <<"January", "February", "March", "April", "May", "June", "July", "August",
                "September", "October", "November", "December">>
MonthAbbreviations == <<"Jan", "Feb", "Mar", "Apr", "May", "Jun", "Jul", "Aug", "Sep", "Oct",
                        "Nov", "Dec">>
DayNames == <<"Monday", "Tuesday", "Wednesday", "Thursday", "Friday", "Saturday", "Sunday">>
Halves == <<"AM", "PM">>

DaysIn(m, y) ==
  IF m = 2 THEN IF (y % 4 = 0 /\ y % 100 # 0) \/ y % 400 = 0 THEN 29 ELSE 28
  ELSE IF m \in {4, 6, 9, 11} THEN 30 ELSE 31

NumberAt(t, i, n) ==
  LET digits == SubSeq(t, i, i + n - 1)
  IN IF i + n - 1 <= Len(t) /\ \A k \in DOMAIN digits : IsDigit(digits[k])
     THEN ValueOf(digits) ELSE -1

Spaces(t, i) ==
  LET ink == {k \in i..Len(t) : t[k] \notin SpaceChars}
      run == (IF ink = {} THEN Len(t) + 1 ELSE Min(ink)) - i
  IN [k \in 1..run |-> [length |-> run - k + 1, value |-> 0]]

Numeric(range, widths) == [range |-> range, widths |-> widths]

NumericDirectives ==
     ("%Y" :> Numeric(1..9999, <<4>>)) @@ ("%y" :> Numeric(0..99, <<2>>))
  @@ ("%m" :> Numeric(1..12, <<2, 1>>)) @@ ("%d" :> Numeric(1..31, <<2, 1>>))
  @@ ("%H" :> Numeric(0..23, <<2, 1>>)) @@ ("%I" :> Numeric(1..12, <<2, 1>>))
  @@ ("%M" :> Numeric(0..59, <<2, 1>>)) @@ ("%S" :> Numeric(0..59, <<2, 1>>))

NameDirectives == ("%B" :> MonthNames) @@ ("%b" :> MonthAbbreviations) @@ ("%A" :> DayNames)
                    @@ ("%a" :> <<>>) @@ ("%p" :> Halves)

Directives == DOMAIN NumericDirectives \cup DOMAIN NameDirectives

AnyChar == "any"

Numbers(t, i, numeric) ==
  SelectSeq([k \in DOMAIN numeric.widths |->
               [length |-> numeric.widths[k], value |-> NumberAt(t, i, numeric.widths[k])]],
            LAMBDA way : way.value \in numeric.range)

(* A day may have a space for its first digit. *)
PaddedDay(t, i) ==
  IF i <= Len(t) /\ t[i] = " "
  THEN SelectSeq(<<[length |-> 2, value |-> NumberAt(t, i + 1, 1)]>>, LAMBDA way : way.value \in 1..9)
  ELSE <<>>

(* The ways strptime's regular expression takes an element at place i, the one it tries
   first in front. *)
Ways(element, t, i) ==
  CASE element = "%d" -> Numbers(t, i, NumericDirectives[element]) \o PaddedDay(t, i)
    [] element \in DOMAIN NumericDirectives \ {"%d"} -> Numbers(t, i, NumericDirectives[element])
    [] element \in SpaceChars -> Spaces(t, i)
    [] element \in DOMAIN NameDirectives /\ i <= Len(t) ->
         LET names == NameDirectives[element]
         IN [j \in 1..Cardinality({k \in DOMAIN names : names[k] = t[i]}) |->
               [length |-> 1, value |-> CHOOSE k \in DOMAIN names : names[k] = t[i]]]
    [] OTHER -> IF i <= Len(t) /\ element \in {t[i], AnyChar}
                THEN <<[length |-> 1, value |-> 0]>> ELSE <<>>

(* What the elements from place k of a pattern on find in t from place i on, and where
   they end; nothing if they do not fit. *)
RECURSIVE MatchFrom(_, _, _, _)
MatchFrom(pattern, k, t, i) ==
  IF k > Len(pattern) THEN <<[end |-> i, found |-> {}]>>
  ELSE LET ways == Ways(pattern[k], t, i)
           rests == [j \in DOMAIN ways |-> MatchFrom(pattern, k + 1, t, i + ways[j].length)]
           working == {j \in DOMAIN ways : rests[j] # <<>>}
           first == Min(working)
       IN IF working = {} THEN <<>>
          ELSE <<[rests[first][1] EXCEPT !.found = @ \cup {<<pattern[k], ways[first].value>>}]>>

(* A run of spaces in the pattern is one place for spaces. *)
Collapsed(pattern) ==
  LET isSpace(i) == pattern[i] \in SpaceChars
      kept == SelectSeq([i \in DOMAIN pattern |-> i],
                        LAMBDA i : i = 1 \/ ~(isSpace(i) /\ isSpace(i - 1)))
  IN [k \in DOMAIN kept |-> pattern[kept[k]]]

IsDoubled(pattern) ==
  LET directives == SelectSeq(pattern, LAMBDA c : c \in Directives)
  IN Cardinality(Range(directives)) # Len(directives)

NoMoment == Moment(0, 0, 0, 0, 0, 0, 0)

Outcome(how, moment) == [how |-> how, moment |-> moment]
ValueError == Outcome("ValueError", NoMoment)

(* What the directives found make: later ones of the same kind are not there together. *)
MomentOf(found) ==
  LET value(names, default) ==
        LET f == {x \in found : x[1] \in names}
        IN IF f = {} THEN default ELSE (CHOOSE x \in f : TRUE)[2]
      short == value({"%y"}, 0)
      hour12 == (value({"%I"}, 12) % 12) + (IF value({"%p"}, 1) = 2 THEN 12 ELSE 0)
  IN Moment(value({"%Y"}, IF \E x \in found : x[1] = "%y"
                          THEN IF short <= 68 THEN 2000 + short ELSE 1900 + short
                          ELSE 1900),
            value({"%m", "%B", "%b"}, 1), value({"%d"}, 1), value({"%A", "%a"}, 1),
            value({"%H"}, hour12), value({"%M"}, 0), value({"%S"}, 0))

CheckedDay(moment) ==
  IF moment.d > DaysIn(moment.m, moment.y) THEN ValueError ELSE Outcome("ok", moment)

(* strptime: a directive that is there twice is an error of the regular expressions, and
   no ValueError. *)
Strptime(t, pattern) ==
  LET match == MatchFrom(Collapsed(pattern), 1, t, 1)
  IN IF IsDoubled(pattern) THEN Outcome("raised", NoMoment)
     ELSE IF match = <<>> THEN ValueError
     ELSE IF match[1].end # Len(t) + 1 THEN ValueError
     ELSE CheckedDay(MomentOf(match[1].found))

(* fromisoformat, for the dates yyyy-mm-dd and yyyymmdd, alone or with the times hh, hh:mm
   and hh:mm:ss behind one character: numbers have all their digits.              *)
IsoForms ==
  LET dates == << [length |-> 10, pattern |-> <<"%Y", "-", "%m", "-", "%d">>],
                  [length |-> 8, pattern |-> <<"%Y", "%m", "%d">>] >>
      times == << [length |-> 0, pattern |-> <<>>],
                  [length |-> 3, pattern |-> <<AnyChar, "%H">>],
                  [length |-> 6, pattern |-> <<AnyChar, "%H", ":", "%M">>],
                  [length |-> 9, pattern |-> <<AnyChar, "%H", ":", "%M", ":", "%S">>] >>
  IN {[length |-> dates[i].length + times[j].length,
       pattern |-> dates[i].pattern \o times[j].pattern] : i \in DOMAIN dates, j \in DOMAIN times}

IsoPatterns(t) == SetToSeq({form.pattern : form \in {f \in IsoForms : f.length = Len(t)}})

-----------------------------------------------------------------------------
(* date_patterns.py *)

Quote == "'"

Letters == {"y", "M", "L", "d", "E", "c", "H", "h", "k", "K", "m", "s", "a", "A", "t",
            "e", "g"}

(* The token at place i of a pattern, and the place behind it: two quotes are one, a
   quoted text is one token without its quotes, and so is a run of one letter.   *)
TokenAt(pattern, i) ==
  LET n == Len(pattern)
      isPair(k) == k < n /\ pattern[k] = Quote /\ pattern[k + 1] = Quote
      closing == {k \in (i + 1)..n : pattern[k] = Quote}
      close == IF closing = {} THEN n + 1 ELSE Min(closing)
      other == {k \in (i + 1)..n : pattern[k] # pattern[i]}
      next == IF other = {} THEN n + 1 ELSE Min(other)
  IN IF isPair(i) THEN [token |-> <<Quote>>, next |-> i + 2]
     ELSE IF pattern[i] = Quote
       THEN [token |-> SubSeq(pattern, i + 1, close - 1), next |-> close + 1]
     ELSE IF pattern[i] \in Letters THEN [token |-> SubSeq(pattern, i, next - 1), next |-> next]
     ELSE [token |-> <<pattern[i]>>, next |-> i + 1]

(* _tokenize_babel_pattern, for quoted texts without quotes in them *)
RECURSIVE TokensFrom(_, _)
TokensFrom(pattern, i) ==
  IF i > Len(pattern) THEN <<>>
  ELSE LET at == TokenAt(pattern, i)
       IN (IF at.token = <<>> THEN <<>> ELSE <<at.token>>) \o TokensFrom(pattern, at.next)

Tokens(pattern) == TokensFrom(pattern, 1)

Row(tokens, directive) == [t \in {Text(s) : s \in tokens} |-> directive]

(* _BABEL_TOKEN_MAP: a token that is a quoted text is looked up like any other. *)
BabelTokenMap ==
     Row({"yyyy", "y"}, "%Y") @@ Row({"yy"}, "%y")
  @@ Row({"MMMM", "LLLL"}, "%B") @@ Row({"MMM", "LLL"}, "%b")
  @@ Row({"MM", "M", "LL", "L"}, "%m") @@ Row({"dd", "d"}, "%d")
  @@ Row({"EEEE", "cccc"}, "%A") @@ Row({"EEE", "E", "ccc"}, "%a")
  @@ Row({"HH", "H", "kk", "k"}, "%H") @@ Row({"hh", "h", "KK", "K"}, "%I")
  @@ Row({"mm", "m"}, "%M") @@ Row({"ss", "s"}, "%S") @@ Row({"a"}, "%p")

(* _babel_to_strptime *)
BabelToStrptime(pattern) ==
  LET tokens == Tokens(pattern)
      part(t) == IF t \in DOMAIN BabelTokenMap THEN <<BabelTokenMap[t]>> ELSE t
  IN Strip(FlattenSeq([i \in DOMAIN tokens |-> part(tokens[i])]))

\* Mutant: a two-digit year is read with four digits only.
ExtractWideYears(formats) ==
  [i \in DOMAIN Styles |-> Swap(BabelToStrptime(formats[Styles[i]]), "%y", "%Y")]

(* _extract_cldr_patterns: a pattern with a short year is there with a long one too. *)
ExtractCldrPatterns(formats) ==
  LET both(p) == IF "%y" \in Range(p) THEN <<p, Swap(p, "%y", "%Y")>> ELSE <<p>>
  IN FlattenSeq([i \in DOMAIN Styles |-> both(BabelToStrptime(formats[Styles[i]]))])

(* What _get_date_patterns has for each locale, in its cache or not. *)
DatePatterns == [name \in DOMAIN Babel |-> ExtractCldrPatterns(Babel[name].dates)]

(* _get_date_patterns: none for an unknown locale.  A malformed code is not refused: Babel
   takes it, with what follows a dot left out.                                    *)
GetDatePatterns(code) ==
  IF IsKnown(NormalizeLocale(code)) THEN DatePatterns[code.name] ELSE <<>>

DatePlace == "{1}"
TimePlace == "{0}"

(* _extract_datetime_separator: what the medium style has between its two places. *)
ExtractDatetimeSeparator(locale) ==
  LET pattern == locale.datetimes["medium"]
      date == Find(pattern, <<DatePlace>>)
      time == Find(pattern, <<TimePlace>>)
      between == IF date < time THEN SubSeq(pattern, date + 1, time - 1)
                                ELSE SubSeq(pattern, time + 1, date - 1)
  IN [sep |-> IF between = <<>> THEN <<" ">> ELSE between, timeFirst |-> time < date]

TimeFormats == << <<"%H", ":", "%M", ":", "%S">>, <<"%H", ":", "%M">>,
                  <<"%I", ":", "%M", ":", "%S", " ", "%p">>, <<"%I", ":", "%M", " ", "%p">> >>

(* _get_datetime_patterns, without the first ones: the locale's datetime formats with
   their braces, which match no other text.                                      *)
DatetimePatterns ==
  LET combined(with, d, t) == IF with.timeFirst THEN t \o with.sep \o d ELSE d \o with.sep \o t
      all(dates, with) ==
        FlattenSeq([i \in DOMAIN dates |->
                      [j \in DOMAIN TimeFormats |-> combined(with, dates[i], TimeFormats[j])]])
  IN [name \in DOMAIN Babel |-> all(DatePatterns[name], ExtractDatetimeSeparator(Babel[name]))]

GetDatetimePatterns(code) ==
  IF IsKnown(NormalizeLocale(code)) THEN DatetimePatterns[code.name] ELSE <<>>

-----------------------------------------------------------------------------
(* dates.py *)

(* The first pattern strptime does not refuse; an error of another kind passes through. *)
RECURSIVE FirstTaken(_, _)
FirstTaken(t, patterns) ==
  IF patterns = <<>> THEN ValueError
  ELSE LET outcome == Strptime(t, Head(patterns))
       IN IF outcome.how # "ValueError" THEN outcome ELSE FirstTaken(t, Tail(patterns))

(* parse_date and parse_datetime: ISO 8601 first, then the locale's patterns. *)
ParseDate(t, code) == FirstTaken(t, IsoPatterns(t) \o GetDatePatterns(code))

ParseDatetime(t, code) == FirstTaken(t, IsoPatterns(t) \o GetDatetimePatterns(code))

-----------------------------------------------------------------------------
(* Babel: format_date and format_time *)

TwoDigits(n) == DigitText(n, 2)

FieldText(field, at, locale) ==
  LET hour12 == ((at.hour + 11) % 12) + 1
      is(s) == field = Text(s)
  IN CASE is("y") \/ is("yyyy") -> DigitText(at.y, 1)
       [] is("yy")   -> TwoDigits(at.y % 100)
       [] is("M")    -> DigitText(at.m, 1)
       [] is("MM")   -> TwoDigits(at.m)
       [] is("MMM")  -> <<locale.monthAbbreviations[at.m]>>
       [] is("MMMM") -> <<locale.monthNames[at.m]>>
       [] is("d")    -> DigitText(at.d, 1)
       [] is("dd")   -> TwoDigits(at.d)
       [] is("EEEE") -> <<locale.dayNames[at.weekday]>>
       [] is("H")    -> DigitText(at.hour, 1)
       [] is("HH")   -> TwoDigits(at.hour)
       [] is("h")    -> DigitText(hour12, 1)
       [] is("mm")   -> TwoDigits(at.minute)
       [] is("ss")   -> TwoDigits(at.second)
       [] is("a")    -> <<locale.halves[at.hour \div 12 + 1]>>

RECURSIVE FormatFrom(_, _, _, _)
FormatFrom(pattern, i, at, locale) ==
  IF i > Len(pattern) THEN <<>>
  ELSE LET here == TokenAt(pattern, i)
       IN (IF pattern[i] \in Letters THEN FieldText(here.token, at, locale) ELSE here.token)
          \o FormatFrom(pattern, here.next, at, locale)

FormatMoment(at, pattern, locale) == FormatFrom(pattern, 1, at, locale)

-----------------------------------------------------------------------------
(* datetime_format: the date in its style, and with a time style the two put into the
   places of the locale's pattern for the date style, its quotes kept.            *)
DatetimeFormat(at, code, dateStyle, timeStyle) ==
  LET locale == ContextOf(code)[1]
      date == FormatMoment(at, locale.dates[dateStyle], locale)
      time == FormatMoment(at, locale.times[timeStyle], locale)
      stands(c) == IF c = DatePlace THEN date ELSE IF c = TimePlace THEN time ELSE <<c>>
      pattern == locale.datetimes[dateStyle]
  IN IF ContextOf(code) = <<>> THEN [ok |-> FALSE, text |-> <<>>]
     ELSE [ok |-> TRUE,
           text |-> IF timeStyle = NoStyle THEN date
                    ELSE FlattenSeq([i \in DOMAIN pattern |-> stands(pattern[i])])]
=============================================================================
