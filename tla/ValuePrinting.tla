--------------------------- MODULE ValuePrinting ---------------------------
(* The built-in functions NUMBER and CURRENCY (runtime/functions.py): they take the
   locale's context or raise, format with it (runtime/locale_formatting.py), and wrap
   the text with the value and the number of fraction digits it shows.            *)
EXTENDS FluentNumbers

CONSTANTS
  MaxFormatDigits,     \* MAX_FORMAT_DIGITS
  CurrencyDigits       \* Babel: the fraction digits of a currency

NoPattern == <<>>

Raised == [ok |-> FALSE, number |-> FluentNumber(NoNumber, <<>>, 0)]

Made(number) == [ok |-> TRUE, number |-> number]

(* format_number_for_locale without a pattern: groups of three, whatever the locale
   uses, and a maximum that is raised to the minimum. *)
BuiltPattern(options) ==
  NumberPattern(IF options.useGrouping THEN <<3, 3>> ELSE NoGroups,
                options.least,
                IF options.most > options.least THEN options.most ELSE options.least,
                <<>>, <<>>)

DigitsAllowed(options) ==
  options.least \in 0..MaxFormatDigits /\ options.most \in 0..MaxFormatDigits

FractionCap(pattern) == IF pattern = NoPattern THEN NoCap ELSE pattern[1].most

(* number_format *)
NumberFormat(d, code, options) ==
  IF ContextOf(code) = <<>> \/ ~DigitsAllowed(options) THEN Raised
  ELSE LET locale == ContextOf(code)[1]
           pattern == IF options.pattern # NoPattern THEN options.pattern[1]
                                                     ELSE BuiltPattern(options)
       IN Made(MakeFormattedNumber(d, FormatDecimal(d, pattern, locale), locale.decimal,
                                   FractionCap(options.pattern)))

-----------------------------------------------------------------------------
(* get_iso_code_pattern_for_locale: every symbol's place becomes the code's. *)
IsoCodePattern(pattern) ==
  [pattern EXCEPT !.prefix = Swap(@, CurrencySign, CurrencyCodeSign),
                  !.suffix = Swap(@, CurrencySign, CurrencyCodeSign)]

NamePattern(pattern) ==
  [pattern EXCEPT !.prefix = <<>>, !.suffix = <<" ", CurrencyNameSign>>]

(* The pattern format_currency_for_locale gives Babel, for a display style.  A pattern
   of the caller's own comes first, and turns the currency's own digits off. *)
DisplayPattern(currency, locale, options) ==
  LET shape == CASE options.display = "symbol" -> locale.money
                 [] options.display = "code"   -> IsoCodePattern(locale.money)
                 [] options.display = "name"   -> NamePattern(locale.money)
      digits == CurrencyDigits[currency]
  IN IF options.pattern # NoPattern THEN options.pattern[1]
     ELSE IF options.currencyDigits THEN [shape EXCEPT !.least = digits, !.most = digits]
     ELSE shape

(* currency_format *)
CurrencyFormat(d, code, currency, options) ==
  IF ContextOf(code) = <<>> THEN Raised
  ELSE LET locale == ContextOf(code)[1]
           pattern == DisplayPattern(currency, locale, options)
           grouped == IF options.useGrouping THEN pattern
                                             ELSE [pattern EXCEPT !.sizes = NoGroups]
       IN Made(MakeFormattedNumber(d, FormatCurrency(d, currency, grouped, locale),
                                   locale.decimal, FractionCap(options.pattern)))
=============================================================================
