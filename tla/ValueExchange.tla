--------------------------- MODULE ValueExchange ---------------------------
(* A form field, for amounts or for dates: the program shows a value in it with NUMBER,
   CURRENCY or DATETIME, a user may type into it, and the program reads what stands there
   with parse_decimal, parse_fluent_number, parse_currency, parse_date or parse_datetime,
   in the locale it printed in or another.                                         *)
EXTENDS ValuePrinting, ValueReading, DateReading

CONSTANTS
  Amounts,             \* Decimals the program shows
  Codes,               \* locale codes it uses, in any spelling
  NumberOptions,       \* arguments of NUMBER
  MoneyOptions,        \* arguments of CURRENCY
  Guesses,             \* arguments of parse_currency
  Moments,             \* points in time the program shows
  DateCodes,           \* locale codes it uses for them
  Keys,                \* kind of field -> what one stroke types
  MaxStrokes           \* bound: the strokes of one typed text

VARIABLES
  kind,                \* what the field is for: "amount" or "date"
  text,                \* what stands in the field
  shown,               \* the call that printed it, if one did
  strokes,             \* strokes since the field was emptied
  answer               \* what a parser made of it, if one did

vars == <<kind, text, shown, strokes, answer>>

Nothing == <<>>

Currencies == DOMAIN CurrencyDigits

Init ==
  /\ kind \in {"amount", "date"}
  /\ text = <<>>
  /\ shown = Nothing
  /\ strokes = 0
  /\ answer = Nothing

(* A value is shown in an empty field nobody typed into or read. *)
IsFor(of) == kind = of /\ text = <<>> /\ answer = Nothing

Fill(call, result) ==
  /\ text' = IF result.ok THEN result.number.formatted ELSE <<>>
  /\ shown' = IF result.ok THEN <<[call EXCEPT !.number = result.number]>> ELSE Nothing
  /\ UNCHANGED <<kind, strokes, answer>>

ShowNumber(d, code, options) ==
  Fill([of |-> "NUMBER", amount |-> d, code |-> code, options |-> options,
        currency |-> NoCurrency, number |-> Nothing],
       NumberFormat(d, code, options))

ShowMoney(d, code, currency, options) ==
  Fill([of |-> "CURRENCY", amount |-> d, code |-> code, options |-> options,
        currency |-> currency, number |-> Nothing],
       CurrencyFormat(d, code, currency, options))

ShowDate(at, code, dateStyle, timeStyle) ==
  LET result == DatetimeFormat(at, code, dateStyle, timeStyle)
  IN /\ text' = result.text
     /\ shown' = IF result.ok
                 THEN <<[of |-> "DATETIME", at |-> at, code |-> code, dateStyle |-> dateStyle,
                         timeStyle |-> timeStyle]>>
                 ELSE Nothing
     /\ UNCHANGED <<kind, strokes, answer>>

Type(key) ==
  /\ strokes < MaxStrokes /\ shown = Nothing /\ answer = Nothing
  /\ text' = text \o key
  /\ strokes' = strokes + 1
  /\ UNCHANGED <<kind, shown, answer>>

Answer(of, by, code, choice, result) ==
  /\ kind = of /\ answer = Nothing
  /\ answer' = <<[by |-> by, code |-> code, choice |-> choice, result |-> result]>>
  /\ UNCHANGED <<kind, text, shown, strokes>>

NoChoice == Choice(NoCurrency, FALSE)

ReadNumber(code) ==
  Answer("amount", "parse_decimal", code, NoChoice, ParseDecimal(text, code))

ReadDate(code) == Answer("date", "parse_date", code, NoChoice, ParseDate(text, code))

ReadDatetime(code) ==
  Answer("date", "parse_datetime", code, NoChoice, ParseDatetime(text, code))

ReadMoney(code, choice) ==
  Answer("amount", "parse_currency", code, choice, ParseCurrency(text, code, choice))

(* The field is emptied for the next amount: no call above keeps anything. *)
Empty ==
  /\ answer # Nothing
  /\ text' = <<>>
  /\ shown' = Nothing
  /\ strokes' = 0
  /\ answer' = Nothing
  /\ UNCHANGED kind

Next ==
  \/ /\ IsFor("amount")
     /\ \E d \in Amounts, code \in Codes, options \in NumberOptions : ShowNumber(d, code, options)
  \/ /\ IsFor("amount")
     /\ \E d \in Amounts, code \in Codes, currency \in Currencies, options \in MoneyOptions :
          ShowMoney(d, code, currency, options)
  \/ /\ IsFor("date")
     /\ \E at \in Moments, code \in DateCodes, dateStyle \in Range(Styles),
           timeStyle \in Range(Styles) \cup {NoStyle} : ShowDate(at, code, dateStyle, timeStyle)
  \/ \E key \in Keys[kind] : Type(key)
  \/ \E code \in Codes : ReadNumber(code)
  \/ \E code \in Codes, choice \in Guesses : ReadMoney(code, choice)
  \/ \E code \in DateCodes : ReadDate(code) \/ ReadDatetime(code)
  \/ Empty

Spec == Init /\ [][Next]_vars

-----------------------------------------------------------------------------
(* What the printed text stands for *)

FractionDigits(call) ==
  LET own == IF call.options.currencyDigits THEN CurrencyDigits[call.currency]
                                            ELSE LocaleOf(call.code).money.most
  IN IF call.of = "CURRENCY" THEN own
     ELSE IF call.options.pattern # NoPattern THEN call.options.pattern[1].most
     ELSE Max({call.options.least, call.options.most})

(* The amount as a reader of the text sees it: rounded, and without the fraction's last
   zeros beyond those asked for.                                                 *)
Printed(call) ==
  Reduced(RoundTo(call.amount, FractionDigits(call)),
          IF call.of = "CURRENCY" THEN FractionDigits(call)
          ELSE IF call.options.pattern # NoPattern THEN call.options.pattern[1].least
          ELSE call.options.least)

ReadBack(function, parsers) ==
  /\ shown # Nothing /\ answer # Nothing
  /\ shown[1].of = function /\ answer[1].by \in parsers
  /\ NormalizeLocale(answer[1].code) = NormalizeLocale(shown[1].code)

(* Locales whose minus no parser takes. *)
MinusIsLost(call) == call.amount.neg /\ LocaleOf(call.code).minus # "-"

(* NUMBER groups by three, and parse_decimal wants the locale's own groups. *)
GroupsAreForeign(call) ==
  /\ call.options.useGrouping
  /\ LocaleOf(call.code).sizes # <<3, 3>>
  /\ Printed(call).coef \div Pow10[Printed(call).scale] > 99999

(* What NUMBER prints is read back in the same locale, however the code is spelled, as
   the amount it shows; it is refused only for the two reasons above, and never taken
   for another amount (number_format, parse_decimal).                             *)
NumbersComeBack ==
  ReadBack("NUMBER", {"parse_decimal"}) /\ shown[1].options.pattern = NoPattern =>
    LET call == shown[1]
        result == answer[1].result
    IN IF MinusIsLost(call) \/ GroupsAreForeign(call) THEN ~result.ok
       ELSE result.ok /\ Equal(result.value, Printed(call))

(* A text parse_decimal accepts has its groups where the locale puts them: writing its
   digits with the locale's groups gives the same text again.  Texts with an empty group
   are left out, which the code does not look at (_validate_group_positions).     *)
GroupsAreChecked ==
  answer # Nothing /\ answer[1].by = "parse_decimal" /\ answer[1].result.ok =>
    LET locale == LocaleOf(answer[1].code)
        whole == IntegerPart(text, locale)
        parts == SplitAt(whole, locale.group)
    IN (\A i \in DOMAIN parts : IsDigits(parts[i])) /\ Len(parts) > 1 =>
         whole = Grouped(Delete(whole, locale.group), locale.sizes[1], locale.sizes[2],
                         locale.group)

(* A select expression on a number of NUMBER or CURRENCY takes the category of what the
   text shows, with its rounding and its zeros; and when parse_fluent_number reads the
   number back, it takes the same one (select_plural_category).                   *)
PluralSeesWhatIsPrinted ==
  shown # Nothing /\ shown[1].of # "DATETIME" =>
    LET call == shown[1]
        category == SelectPluralCategory(call.number, call.code)
    IN /\ category = PluralCategory(Printed(call), LocaleOf(call.code).plural)
       /\ call.options.pattern = NoPattern =>
            \A again \in Range(ParseFluentNumber(text, call.code)) :
               SelectPluralCategory(again, call.code) = category

Chosen(choice) == choice.infer \/ choice.default # NoCurrency

(* What CURRENCY prints is never read as another amount, nor as another currency unless
   the caller chose a default or the inference; with codes for symbols it is read back
   whatever the caller chose (currency_format, parse_currency).                   *)
MoneyComesBack ==
  ReadBack("CURRENCY", {"parse_currency"}) =>
    LET call == shown[1]
        result == answer[1].result
    IN /\ result.ok => /\ Equal(result.value, Printed(call))
                       /\ ~Chosen(answer[1].choice) \/ call.options.display = "code" =>
                            result.currency = call.currency
       /\ call.options.display = "code" /\ ~MinusIsLost(call) => result.ok

(* What is printed as an amount of a number or of money comes back as that amount. *)
AmountsComeBack == NumbersComeBack /\ MoneyComesBack

(* What DATETIME shows of a moment: two digits of a year stand for one from 1969 to 2068. *)
SeenMoment(call) ==
  LET tokens == Tokens(LocaleOf(call.code).dates[call.dateStyle])
      shortYear == Text("yy") \in Range(tokens)
      seconds == call.timeStyle \notin {NoStyle, "short"}
      time == call.timeStyle # NoStyle
  IN [call.at EXCEPT !.y = IF shortYear THEN CHOOSE y \in 1969..2068 : y % 100 = @ % 100 ELSE @,
                     !.hour = IF time THEN @ ELSE 0,
                     !.minute = IF time THEN @ ELSE 0,
                     !.second = IF seconds THEN @ ELSE 0]

(* A date pattern strptime can follow: names in English only, and neither in it nor in
   one tried before it a quoted text that looks like a field.                     *)
Followed(locale, style) ==
  LET pattern == locale.dates[style]
      place == CHOOSE i \in DOMAIN Styles : Styles[i] = style
      named == \E field \in {"MMM", "MMMM", "EEEE"} : Text(field) \in Range(Tokens(pattern))
  IN /\ named => locale.monthNames = MonthNames
     /\ \A i \in 1..place : ~IsDoubled(BabelToStrptime(locale.dates[Styles[i]]))

Spaced(pattern) == [i \in DOMAIN pattern |-> IF pattern[i] \in SpaceChars THEN " " ELSE pattern[i]]

(* Times are read in four formats, between the medium style's separators. *)
TimeIsFollowed(locale, dateStyle, timeStyle) ==
  LET pattern == BabelToStrptime(locale.times[timeStyle])
  IN /\ timeStyle # NoStyle
     /\ Spaced(pattern) \in Range(TimeFormats)
     /\ locale.datetimes[dateStyle] = locale.datetimes["medium"]

(* What DATETIME prints is never read as another date or time in the same locale,
   whichever style's pattern takes it, and it is read back where strptime can follow the
   styles it was printed in (datetime_format, parse_date, parse_datetime).       *)
DatesComeBack ==
  ReadBack("DATETIME", {"parse_date", "parse_datetime"}) =>
    LET call == shown[1]
        locale == LocaleOf(call.code)
        result == answer[1].result
        dateOnly == answer[1].by = "parse_date"
        same == IF dateOnly THEN SameDate(result.moment, SeenMoment(call))
                            ELSE SameMoment(result.moment, SeenMoment(call))
        followed == /\ Followed(locale, call.dateStyle)
                    /\ IF dateOnly THEN call.timeStyle = NoStyle
                       ELSE /\ call.timeStyle # NoStyle
                            /\ TimeIsFollowed(locale, call.dateStyle, call.timeStyle)
    IN /\ result.how = "ok" => same
       /\ followed => result.how = "ok"
=============================================================================
