---------------------------- MODULE ValueReading ----------------------------
(* Reading localized text back: parsing/numbers.py, parsing/currency.py and the maps
   of parsing/currency_maps.py.  The parsers return errors, they do not raise.     *)
EXTENDS FluentNumbers

Failed == [ok |-> FALSE, value |-> NoNumber, currency |-> <<>>]

Parsed(d, currency) == [ok |-> TRUE, value |-> d, currency |-> currency]

NumberOrFailed(d, currency) == IF d = NoNumber THEN Failed ELSE Parsed(d, currency)

-----------------------------------------------------------------------------
(* numbers.py *)

LStripSigns(t) ==
  LET ink == {i \in DOMAIN t : t[i] \notin {"+", "-"}}
  IN IF ink = {} THEN <<>> ELSE SubSeq(t, Min(ink), Len(t))

IntegerPart(text, locale) == Strip(LStripSigns(SplitAt(text, locale.decimal)[1]))

IsDigits(t) == t # <<>> /\ \A i \in DOMAIN t : IsDigit(t[i])

\* Mutant: the leftmost group is not looked at.
ValidateInnerPositions(text, locale) ==
  LET groups == SplitAt(IntegerPart(text, locale), locale.group)
      last == Len(groups)
  IN \/ last = 1
     \/ \E i \in 1..last : ~IsDigits(groups[i])
     \/ /\ Len(groups[last]) = locale.sizes[1]
        /\ \A i \in 2..(last - 1) : Len(groups[i]) = locale.sizes[2]

(* _validate_group_positions, where the second size is never 0. *)
ValidateGroupPositions(text, locale) ==
  LET groups == SplitAt(IntegerPart(text, locale), locale.group)
      last == Len(groups)
  IN \/ last = 1
     \/ \E i \in 1..last : ~IsDigits(groups[i])
     \/ /\ Len(groups[last]) = locale.sizes[1]
        /\ \A i \in 2..(last - 1) : Len(groups[i]) = locale.sizes[2]
        /\ Len(groups[1]) \in 1..locale.sizes[2]

(* parse_decimal *)
ParseDecimal(text, code) ==
  IF ContextOf(code) = <<>> THEN Failed
  ELSE LET locale == ContextOf(code)[1]
       IN IF ~ValidateGroupPositions(text, locale) THEN Failed
          ELSE NumberOrFailed(BabelParseDecimal(text, locale), <<>>)

(* parse_fluent_number *)
ParseFluentNumber(text, code) ==
  LET parsed == ParseDecimal(text, code)
  IN IF parsed.ok THEN <<MakeFluentNumber(parsed.value, text)>> ELSE <<>>

-----------------------------------------------------------------------------
(* currency_maps.py; of the tables, the rows that are not alike *)

Dollar == <<"$">>
Kr == <<"k", "r">>
Pound == <<"pound">>
Yen == <<"yen">>

FastUnambiguousSymbols ==
  (<<"euro">> :> Text("EUR")) @@ (<<"rupee">> :> Text("INR")) @@ (Text("Ft") :> Text("HUF"))

FastAmbiguousSymbols == {Dollar, Kr, <<"R">>, Text("R$"), Text("S/"), Yen, Pound}

AmbiguousSymbolLocaleResolution ==
     (<<Yen, "zh">> :> Text("CNY"))
  @@ (<<Dollar, "en_us">> :> Text("USD")) @@ (<<Dollar, "en_ca">> :> Text("CAD"))
  @@ (<<Dollar, "es_mx">> :> Text("MXN")) @@ (<<Pound, "en">> :> Text("GBP"))
  @@ (<<Pound, "ar_eg">> :> Text("EGP")) @@ (<<Pound, "ar">> :> Text("EGP"))

AmbiguousSymbolDefaults ==
     (Yen :> Text("JPY")) @@ (Pound :> Text("GBP")) @@ (Dollar :> Text("USD"))
  @@ (Kr :> Text("SEK")) @@ (<<"R">> :> Text("ZAR")) @@ (Text("R$") :> Text("BRL"))
  @@ (Text("S/") :> Text("PEN"))

FastLocaleCurrencies ==
     (Code("en_us", "_", FALSE) :> Text("USD")) @@ (Code("fr_ca", "_", FALSE) :> Text("CAD"))
  @@ (Code("de_de", "_", FALSE) :> Text("EUR")) @@ (Code("fr_fr", "_", FALSE) :> Text("EUR"))
  @@ (Code("sv_se", "_", FALSE) :> Text("SEK")) @@ (Code("da_dk", "_", FALSE) :> Text("DKK"))
  @@ (Code("hi_in", "_", FALSE) :> Text("INR")) @@ (Code("es_mx", "_", FALSE) :> Text("MXN"))

FastValidCodes ==
  {Text(c) : c \in {"USD", "EUR", "GBP", "JPY", "CNY", "CAD", "SEK", "NOK", "DKK", "HUF",
                    "INR", "EGP", "ZAR", "BRL", "PEN", "MXN"}}

SymbolLookupLocaleIds ==
  {"en_us", "en_gb", "en_ca", "de_de", "fr_fr", "fr_ca", "es_es", "es_mx", "pt_br", "ja_jp",
   "zh_cn", "ru_ru", "sv_se", "no_no", "da_dk", "hi_in", "lv_lv"}

Capitals == {"A", "B", "C", "D", "E", "F", "G", "H", "I", "J", "K", "L", "M", "N", "O", "P",
             "Q", "R", "S", "T", "U", "V", "W", "X", "Y", "Z"}

(* _is_valid_iso_4217_format *)
IsIsoFormat(t) == Len(t) = 3 /\ \A i \in 1..3 : t[i] \in Capitals

LookupLocales == SymbolLookupLocaleIds \cap DOMAIN Babel

(* _collect_all_currencies *)
AllCurrencies == UNION {Babel[name].currencies : name \in DOMAIN Babel}

(* _build_symbol_mappings: the currencies a symbol stands for in the lookup locales. *)
CodesOf(symbol) ==
  {c \in AllCurrencies : \E name \in LookupLocales : SymbolIn(c, Babel[name]) = symbol}

FullSymbols ==
  {t \in {SymbolIn(c, Babel[name]) : c \in AllCurrencies, name \in LookupLocales} :
     ~IsIsoFormat(t)}

FullUnambiguousSymbols ==
  [symbol \in {t \in FullSymbols : Cardinality(CodesOf(t)) = 1} |->
     CHOOSE c \in CodesOf(symbol) : TRUE]

FullAmbiguousSymbols == FullSymbols \ DOMAIN FullUnambiguousSymbols

(* _build_locale_currency_map: under str(locale), so that no lower-case code finds it. *)
FullLocaleCurrencies ==
  [code \in {CanonicalCode(name) : name \in {n \in DOMAIN Babel : Babel[n].territory # <<>>}} |->
     Babel[code.name].territory]

(* _get_currency_maps: the fast tier lies over the full one. *)
SymbolMap == FastUnambiguousSymbols @@ FullUnambiguousSymbols

AmbiguousSymbols == FullAmbiguousSymbols \cup FastAmbiguousSymbols

LocaleToCurrency == FastLocaleCurrencies @@ FullLocaleCurrencies

ValidIsoCodes == AllCurrencies \cup FastValidCodes

NoCurrency == <<>>

Lookup(f, key) == IF key \in DOMAIN f THEN f[key] ELSE NoCurrency

(* resolve_ambiguous_symbol: the locale, its language, or the symbol's default. *)
ResolveAmbiguousSymbol(symbol, code) ==
  LET rows == AmbiguousSymbolLocaleResolution
  IN IF symbol \notin FastAmbiguousSymbols THEN NoCurrency
     ELSE IF <<symbol, code.name>> \in DOMAIN rows THEN rows[<<symbol, code.name>>]
     ELSE IF <<symbol, Babel[code.name].language>> \in DOMAIN rows
     THEN rows[<<symbol, Babel[code.name].language>>]
     ELSE AmbiguousSymbolDefaults[symbol]

-----------------------------------------------------------------------------
(* currency.py *)

SymbolsAt(text, i) ==
  {t \in DOMAIN SymbolMap \cup AmbiguousSymbols :
     Len(t) <= Len(text) - i + 1 /\ SubSeq(text, i, i + Len(t) - 1) = t}

IsCodeAt(text, i) == Len(text) - i >= 2 /\ IsIsoFormat(SubSeq(text, i, i + 2))

(* _detect_currency_symbol: the first place where three capitals or a symbol stand,
   the capitals before any symbol and a longer symbol before a shorter one. *)
Detected(text) ==
  LET at == {i \in DOMAIN text : IsCodeAt(text, i) \/ SymbolsAt(text, i) # {}}
      i == Min(at)
      length == IF IsCodeAt(text, i) THEN 3 ELSE Max({Len(t) : t \in SymbolsAt(text, i)})
  IN IF at = {} THEN <<>> ELSE <<[first |-> i, last |-> i + length - 1]>>

(* The two ways to say what an ambiguous symbol means. *)
Choice(defaultCurrency, infer) == [default |-> defaultCurrency, infer |-> infer]

\* Mutant: an ambiguous symbol is resolved though nobody asked for it.
ResolveUnasked(found, code, choice) ==
  IF IsIsoFormat(found) THEN IF found \in ValidIsoCodes THEN found ELSE NoCurrency
  ELSE IF found \notin AmbiguousSymbols THEN Lookup(SymbolMap, found)
  ELSE IF choice.default # NoCurrency THEN choice.default
  ELSE ResolveAmbiguousSymbol(found, code)

(* _resolve_currency_code: NoCurrency is an error. *)
ResolveCurrencyCode(found, code, choice) ==
  IF IsIsoFormat(found) THEN IF found \in ValidIsoCodes THEN found ELSE NoCurrency
  ELSE IF found \notin AmbiguousSymbols THEN Lookup(SymbolMap, found)
  ELSE IF choice.default # NoCurrency
  THEN IF IsIsoFormat(choice.default) THEN choice.default ELSE NoCurrency
  ELSE IF ~choice.infer THEN NoCurrency
  ELSE IF ResolveAmbiguousSymbol(found, code) # NoCurrency
  THEN ResolveAmbiguousSymbol(found, code)
  ELSE Lookup(LocaleToCurrency, NormalizeLocale(code))

(* parse_currency: what is left of the text without the match is the amount, whose
   groups are not checked. *)
ParseCurrency(text, code, choice) ==
  IF ContextOf(code) = <<>> \/ Detected(text) = <<>> THEN Failed
  ELSE LET match == Detected(text)[1]
           currency == ResolveCurrencyCode(SubSeq(text, match.first, match.last), code, choice)
           rest == SubSeq(text, 1, match.first - 1) \o SubSeq(text, match.last + 1, Len(text))
       IN IF currency = NoCurrency THEN Failed
          ELSE NumberOrFailed(BabelParseDecimal(Strip(rest), ContextOf(code)[1]), currency)
=============================================================================
