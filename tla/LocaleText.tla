----------------------------- MODULE LocaleText -----------------------------
(* Texts with numbers in them, locale codes (core/locale_utils.py), and what the
   library asks of Babel about numbers.

   A text is a sequence of characters, and a character is a string: its own ASCII
   character, or a name for one that has none.  A Decimal is a sign, a coefficient
   and a scale; an int has scale 0.  A locale code is what its spellings differ in. *)
EXTENDS Integers, Sequences, FiniteSets, SequencesExt, TLC

CONSTANT
  Babel                \* what Babel knows: locale name -> record, see MCValueExchange

NBSP == "nbsp"
NarrowNBSP == "nnbsp"
MinusSign == "minus"

Text(string) == [i \in 1..Len(string) |-> SubSeq(string, i, i)]

DigitValue == [c \in {"0", "1", "2", "3", "4", "5", "6", "7", "8", "9"} |->
                 CHOOSE n \in 0..9 : ToString(n) = c]

IsDigit(c) == c \in DOMAIN DigitValue

SpaceChars == {" ", NBSP, NarrowNBSP}

Strip(t) ==
  LET ink == {i \in DOMAIN t : t[i] \notin SpaceChars}
  IN IF ink = {} THEN <<>> ELSE SubSeq(t, Min(ink), Max(ink))

Delete(t, c) == SelectSeq(t, LAMBDA x : x # c)

Swap(t, c, d) == [i \in DOMAIN t |-> IF t[i] = c THEN d ELSE t[i]]

(* The parts of t between the places where c is. *)
SplitAt(t, c) ==
  FoldLeft(LAMBDA parts, x : IF x = c THEN Append(parts, <<>>)
                                      ELSE [parts EXCEPT ![Len(parts)] = Append(@, x)],
           <<<<>>>>, t)

(* The first place where part stands in t, 0 if there is none. *)
Find(t, part) ==
  LET at == {i \in 1..(Len(t) - Len(part) + 1) : SubSeq(t, i, i + Len(part) - 1) = part}
  IN IF at = {} THEN 0 ELSE Min(at)

-----------------------------------------------------------------------------
(* Decimals *)

NoNumber == [neg |-> FALSE, coef |-> -1, scale |-> 0]

Decimal(neg, coef, scale) == [neg |-> neg, coef |-> coef, scale |-> scale]

Pow10 == [n \in 0..9 |-> 10^n]

(* The same amount without the fraction's last zeros, down to a least scale. *)
Reduced(d, least) ==
  LET scale == Min({n \in least..d.scale : d.coef % Pow10[d.scale - n] = 0})
  IN Decimal(d.neg, d.coef \div Pow10[d.scale - scale], scale)

Equal(a, b) ==
  /\ Reduced(a, 0).coef = Reduced(b, 0).coef
  /\ a.coef # 0 => Reduced(a, 0) = Reduced(b, 0)

(* quantize(), ROUND_HALF_EVEN *)
RoundTo(d, places) ==
  IF d.scale <= places
  THEN Decimal(d.neg, d.coef * Pow10[places - d.scale], places)
  ELSE LET unit == Pow10[d.scale - places]
           down == d.coef \div unit
           rest == 2 * (d.coef % unit)
           up == rest > unit \/ (rest = unit /\ down % 2 = 1)
       IN Decimal(d.neg, IF up THEN down + 1 ELSE down, places)

ValueOf(digits) == FoldLeft(LAMBDA n, c : 10 * n + DigitValue[c], 0, digits)

(* Decimal(text), for texts without exponents, underscores and special values. *)
DecimalOf(text) ==
  LET t == Strip(text)
      body == IF t # <<>> /\ t[1] \in {"+", "-"} THEN Tail(t) ELSE t
      digits == SelectSeq(body, IsDigit)
      dot == Find(body, <<".">>)
  IN IF digits = <<>> \/ Len(digits) # Len(body) - (IF dot = 0 THEN 0 ELSE 1)
     THEN NoNumber
     ELSE Decimal(t[1] = "-", ValueOf(digits), IF dot = 0 THEN 0 ELSE Len(body) - dot)

DigitText(n, width) ==
  LET t == Text(ToString(n)) IN [i \in 1..(width - Len(t)) |-> "0"] \o t

-----------------------------------------------------------------------------
(* Locale codes *)

Code(name, dash, upper) ==
  [name |-> name, dash |-> dash, upper |-> upper, wellFormed |-> TRUE]

NormalizeLocale(code) == [code EXCEPT !.dash = "_", !.upper = FALSE]

(* is_structurally_valid_locale_code *)
IsStructurallyValid(code) == code.wellFormed

(* Locale.parse: it wants underscores, and takes either case. *)
IsKnown(code) == code.dash = "_" /\ code.name \in DOMAIN Babel

LocaleOf(code) == Babel[code.name]

(* str(locale) *)
CanonicalCode(name) == Code(name, "_", TRUE)

(* LocaleContext.create_or_raise, without its cache *)
ContextOf(code) == IF IsStructurallyValid(code) /\ IsKnown(NormalizeLocale(code))
                   THEN <<LocaleOf(code)>> ELSE <<>>

-----------------------------------------------------------------------------
(* Babel *)

RECURSIVE Grouped(_, _, _, _)
Grouped(digits, primary, secondary, separator) ==
  IF Len(digits) <= primary THEN digits
  ELSE Grouped(SubSeq(digits, 1, Len(digits) - primary), secondary, secondary, separator)
       \o <<separator>> \o SubSeq(digits, Len(digits) - primary + 1, Len(digits))

RECURSIVE TrimZeros(_, _)
TrimZeros(digits, least) ==
  IF Len(digits) > least /\ digits[Len(digits)] = "0"
  THEN TrimZeros(SubSeq(digits, 1, Len(digits) - 1), least) ELSE digits

(* A number pattern: group sizes (0 for none), least and most fraction digits, and
   what stands before and behind the digits, where Placeholders may be.  *)
NumberPattern(sizes, least, most, prefix, suffix) ==
  [sizes |-> sizes, least |-> least, most |-> most, prefix |-> prefix, suffix |-> suffix]

CurrencySign == "cur"                      \* one U+00A4: the symbol
CurrencyCodeSign == "curcur"               \* two: the code
CurrencyNameSign == "curcurcur"            \* three: the name

NoGroups == <<0, 0>>

(* format_decimal *)
FormatDecimal(d, pattern, locale) ==
  LET rounded == RoundTo(d, pattern.most)
      whole == DigitText(rounded.coef \div Pow10[pattern.most], 1)
      fraction == IF pattern.most = 0 THEN <<>>
                  ELSE TrimZeros(DigitText(rounded.coef % Pow10[pattern.most], pattern.most),
                                 pattern.least)
  IN (IF d.neg THEN <<locale.minus>> ELSE <<>>)
     \o pattern.prefix
     \o (IF pattern.sizes = NoGroups THEN whole
         ELSE Grouped(whole, pattern.sizes[1], pattern.sizes[2], locale.group))
     \o (IF fraction = <<>> THEN <<>> ELSE <<locale.decimal>> \o fraction)
     \o pattern.suffix

(* get_currency_symbol, and the name for an amount: the code where there is none. *)
SymbolIn(currency, locale) ==
  IF currency \in DOMAIN locale.symbols THEN locale.symbols[currency] ELSE currency

NameIn(currency, locale) ==
  IF currency \in DOMAIN locale.names THEN locale.names[currency] ELSE currency

(* format_currency *)
FormatCurrency(d, currency, pattern, locale) ==
  LET stands(c) == CASE c = CurrencySign     -> SymbolIn(currency, locale)
                     [] c = CurrencyCodeSign -> currency
                     [] c = CurrencyNameSign -> NameIn(currency, locale)
                     [] OTHER                -> <<c>>
      text == FormatDecimal(d, pattern, locale)
  IN FlattenSeq([i \in DOMAIN text |-> stands(text[i])])

(* parse_decimal: any kind of space may stand for a group separator that is one. *)
BabelParseDecimal(text, locale) ==
  LET spaced == locale.group \in SpaceChars /\ Find(text, <<locale.group>>) = 0
      plain == IF spaced THEN SelectSeq(text, LAMBDA c : c \notin SpaceChars)
                         ELSE Delete(text, locale.group)
  IN DecimalOf(Swap(plain, locale.decimal, "."))

(* plural_form: i is the whole part, v the number of fraction digits. *)
PluralCategory(d, rule) ==
  LET i == d.coef \div Pow10[d.scale]
      v == d.scale
  IN CASE rule = "english" -> IF i = 1 /\ v = 0 THEN "one" ELSE "other"
       [] rule = "french"  -> IF i \in {0, 1} THEN "one" ELSE "other"
       [] rule = "russian" -> IF v # 0 THEN "other"
                              ELSE IF i % 10 = 1 /\ i % 100 # 11 THEN "one"
                              ELSE IF i % 10 \in 2..4 /\ i % 100 \notin 12..14 THEN "few"
                              ELSE "many"
=============================================================================
