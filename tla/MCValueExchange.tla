-------------------------- MODULE MCValueExchange --------------------------
(* Seven locales for amounts that differ in separators, groups, minus, plural rule and
   symbols, one of them none the symbols are looked up in; six currencies, one without
   decimals, one whose symbol begins like a code, two that share a sign.  Five locales
   for dates; what a time zone prints is a word of the pattern here.              *)
EXTENDS ValueExchange

USD == Text("USD")
EUR == Text("EUR")
SEK == Text("SEK")
INR == Text("INR")
UYU == Text("UYU")
XOF == Text("XOF")

MCCurrencyDigits == [c \in {USD, EUR, SEK, INR, UYU, XOF} |-> IF c = XOF THEN 0 ELSE 2]

Euro == <<"euro">>

LeadingSymbol(sizes) == NumberPattern(sizes, 2, 2, <<CurrencySign>>, <<>>)
TrailingSymbol(sizes) == NumberPattern(sizes, 2, 2, <<>>, <<NBSP, CurrencySign>>)

Quoted(word) == <<Quote>> \o Text(word) \o <<Quote>>

FourStyles(short, medium, long, full) ==
  [short |-> short, medium |-> medium, long |-> long, full |-> full]

Between(separator) == <<DatePlace>> \o separator \o <<TimePlace>>

NativeMonths == [m \in 1..12 |-> "month" \o ToString(m)]
NativeDays == [d \in 1..7 |-> "day" \o ToString(d)]

English == [monthNames |-> MonthNames, monthAbbreviations |-> MonthAbbreviations,
            dayNames |-> DayNames, halves |-> Halves]
Native == [monthNames |-> NativeMonths, monthAbbreviations |-> NativeMonths,
           dayNames |-> NativeDays, halves |-> Halves]

DayClock(tail) == FourStyles(Text("HH:mm"), Text("HH:mm:ss"), Text("HH:mm:ss") \o tail,
                             Text("HH:mm:ss") \o tail)

Calendar(dates, times, datetimes, names) ==
  [dates |-> dates, times |-> times, datetimes |-> datetimes] @@ names

(* How five locales write dates: with two digits of a year or four, the day first or the
   month, the year first and quoted words that look like fields, the time in front.  *)
MCCalendars ==
  [en_us |-> Calendar(
      FourStyles(Text("M/d/yy"), Text("MMM d, y"), Text("MMMM d, y"), Text("EEEE, MMMM d, y")),
      FourStyles(Text("h:mm") \o <<NarrowNBSP, "a">>, Text("h:mm:ss") \o <<NarrowNBSP, "a">>,
                 Text("h:mm:ss a UTC"), Text("h:mm:ss a UTC")),
      FourStyles(Between(Text(", ")), Between(Text(", ")), Between(Text(" ") \o Quoted("at") \o <<" ">>),
                 Between(Text(" ") \o Quoted("at") \o <<" ">>)),
      English),
   de_de |-> Calendar(
      FourStyles(Text("dd.MM.yy"), Text("dd.MM.y"), Text("d. MMMM y"), Text("EEEE, d. MMMM y")),
      DayClock(Text(" UTC")),
      FourStyles(Between(Text(", ")), Between(Text(", ")), Between(Text(" ") \o Quoted("um") \o <<" ">>),
                 Between(Text(" ") \o Quoted("um") \o <<" ">>)),
      Native),
   lt_lt |-> LET long == Text("y ") \o Quoted("m") \o Text(". MMMM d ") \o Quoted("d") \o <<".">>
             IN Calendar(
                  FourStyles(Text("y-MM-dd"), Text("y-MM-dd"), long, long \o Text(", EEEE")),
                  DayClock(Text(" UTC")),
                  [style \in Range(Styles) |-> Between(<<" ">>)], Native),
   vi_vn |-> Calendar(
      FourStyles(Text("dd/MM/y"), Text("d MMM, y"), Text("d MMMM, y"), Text("EEEE, d MMMM, y")),
      DayClock(Text(" UTC")),
      FourStyles(<<TimePlace, ",", " ", DatePlace>>, <<TimePlace, " ", DatePlace>>,
                 <<TimePlace, " ", DatePlace>>, <<TimePlace, " ", DatePlace>>), Native),
   en_gb |-> Calendar(
      FourStyles(Text("dd/MM/y"), Text("d MMM y"), Text("d MMMM y"), Text("EEEE d MMMM y")),
      DayClock(Text(" UTC")),
      [style \in Range(Styles) |-> Between(Text(", "))], English)]

Locale(language, group, decimal, sizes, minus, plural, money, symbols, territory) ==
  [language |-> language, group |-> group, decimal |-> decimal, sizes |-> sizes,
   minus |-> minus, plural |-> plural, money |-> money, symbols |-> symbols,
   territory |-> territory, currencies |-> DOMAIN MCCurrencyDigits,
   names |-> (USD :> Text("US dollars")) @@ (SEK :> Text("kronor"))]

MCNumbers ==
  [en_us |-> Locale("en", ",", ".", <<3, 3>>, "-", "english", LeadingSymbol(<<3, 3>>),
                    (USD :> Dollar) @@ (EUR :> Euro) @@ (INR :> <<"rupee">>), USD),
   de_de |-> Locale("de", ".", ",", <<3, 3>>, "-", "english", TrailingSymbol(<<3, 3>>),
                    (USD :> Dollar) @@ (EUR :> Euro) @@ (INR :> <<"rupee">>), EUR),
   fr_fr |-> Locale("fr", NarrowNBSP, ",", <<3, 3>>, "-", "french", TrailingSymbol(<<3, 3>>),
                    (USD :> Text("$US")) @@ (EUR :> Euro) @@ (UYU :> Text("$UY"))
                      @@ (XOF :> Text("FCFA")), EUR),
   sv_se |-> Locale("sv", NBSP, ",", <<3, 3>>, MinusSign, "english", TrailingSymbol(<<3, 3>>),
                    (USD :> Text("US$")) @@ (EUR :> Euro) @@ (SEK :> Kr), SEK),
   hi_in |-> Locale("hi", ",", ".", <<3, 2>>, "-", "french", LeadingSymbol(<<3, 2>>),
                    (USD :> Dollar) @@ (EUR :> Euro) @@ (INR :> <<"rupee">>), INR),
   es_uy |-> Locale("es", ".", ",", <<3, 3>>, "-", "english", LeadingSymbol(<<3, 3>>),
                    (USD :> Text("US$")) @@ (UYU :> Dollar), UYU),
   ru_ru |-> Locale("ru", NBSP, ",", <<3, 3>>, "-", "russian", TrailingSymbol(<<3, 3>>),
                    (USD :> Dollar) @@ (EUR :> Euro) @@ (INR :> <<"rupee">>), EUR)]

(* The locales only dates are in have next to no symbols of their own. *)
MCBabel ==
  LET plain == Locale("und", ",", ".", <<3, 3>>, "-", "english", TrailingSymbol(<<3, 3>>),
                      EUR :> Euro, EUR)
      numbers(name) == IF name \in DOMAIN MCNumbers THEN MCNumbers[name] ELSE plain
      calendar(name) == IF name \in DOMAIN MCCalendars THEN MCCalendars[name]
                                                       ELSE MCCalendars.en_gb
  IN [name \in DOMAIN MCNumbers \cup DOMAIN MCCalendars |-> numbers(name) @@ calendar(name)]

Amount(coef, scale) == Decimal(FALSE, coef, scale)

MCAmounts ==
  {Amount(0, 0), Amount(1, 0), Amount(15, 1), Amount(25, 1), Amount(999, 3),
   Amount(99999, 1), Amount(1234567, 0), Decimal(TRUE, 1, 0), Decimal(TRUE, 12345, 1)}

MCCodes ==
  {Code(name, "_", FALSE) : name \in DOMAIN MCNumbers}
    \cup {Code("de_de", "-", TRUE), Code("xx_xx", "_", FALSE),
          [Code("en_us", "_", FALSE) EXCEPT !.wellFormed = FALSE]}

(* A pattern with a quoted digit behind it, as in "0.#'5'". *)
SuffixPattern == NumberPattern(NoGroups, 0, 1, <<>>, <<"5">>)

MCNumberOptions ==
  [least : {0, 2}, most : {0, 1, 3}, useGrouping : BOOLEAN, pattern : {NoPattern}]
    \cup {[least |-> 5, most |-> 0, useGrouping |-> TRUE, pattern |-> NoPattern],
          [least |-> 0, most |-> 3, useGrouping |-> TRUE, pattern |-> <<SuffixPattern>>]}

MCMoneyOptions ==
  [display : {"symbol", "code", "name"}, currencyDigits : {TRUE}, useGrouping : {TRUE},
   pattern : {NoPattern}]
    \cup {[display |-> "symbol", currencyDigits |-> FALSE, useGrouping |-> FALSE,
           pattern |-> NoPattern]}

MCGuesses ==
  {NoChoice, Choice(NoCurrency, TRUE), Choice(UYU, FALSE), Choice(Text("US"), FALSE)}

MCKeys ==
  [amount |-> {Text(t) : t \in {"1", "111", ",", ".", "-", "$", ",11", ",111"}},
   date |-> {Text(t) : t \in {"1/", "28.", "2025", "-01-28", "T14:30"}}]

MCMoments ==
  {Moment(2025, 1, 28, 2, 14, 30, 5), Moment(2024, 2, 29, 4, 0, 0, 0),
   Moment(2012, 11, 10, 6, 12, 5, 9), Moment(1968, 12, 31, 2, 23, 59, 0),
   Moment(2069, 1, 1, 2, 1, 0, 59)}

MCDateCodes ==
  {Code(name, "_", FALSE) : name \in DOMAIN MCCalendars}
    \cup {Code("en_us", "-", TRUE), Code("xx_xx", "_", FALSE),
          [Code("de_de", "_", FALSE) EXCEPT !.wellFormed = FALSE]}
=============================================================================
