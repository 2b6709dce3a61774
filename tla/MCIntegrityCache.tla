-------------------------- MODULE MCIntegrityCache --------------------------
(***************************************************************************)
(* Arguments that are easily taken for each other.  With faults, and in    *)
(* every mode of the cache, three keys for two places, one of them that of *)
(* two equal arguments which print differently, 1 and an IntEnum member,   *)
(* and an argument without a key; then arguments of each class with what   *)
(* resembles them, nested up to the limits.                                *)
(***************************************************************************)
EXTENDS IntegrityCache, CacheKeys

Plain(class, equals, text) ==
    [is |-> class, type |-> class, equals |-> equals, text |-> text, repr |-> text]
Container(class, items) == [is |-> class, type |-> class, items |-> items]
Number(value, text, precision) ==
    [is |-> "FluentNumber", type |-> "FluentNumber", items |-> <<value>>, text |-> text,
     precision |-> precision]
As(type, v) == [v EXCEPT !.type = type]

None == Plain("None", "None", "None")
One == Plain("int", "1", "1")
Two == Plain("int", "2", "2")
Low == [As("Level", One) EXCEPT !.repr = "<Level.LOW: 1>"]
True1 == Plain("bool", "1", "True")
Word(text) == [Plain("str", "", text) EXCEPT !.equals = "'" \o text \o "'", !.repr = "'" \o text \o "'"]
Exactly(text) == Plain("Decimal", text, text)
NaN(text) == Plain("Decimal", "NaN", text)
Float == Plain("other", "1.0", "1.0")
Pair == <<One, Two>>
Set(text, items) == [text |-> text] @@ Container("set", items)
At(key, order, value) == [key |-> key, order |-> order, value |-> value]
Ab == <<At("a", 1, One), At("b", 2, Two)>>
Noon(text) == Plain("datetime", text, text)

RECURSIVE Nested(_)
Nested(n) == IF n = 0 THEN One ELSE Container("list", <<Nested(n - 1)>>)

Wide == [i \in 1..7 |-> One]

Content(says, version) == [says |-> says, version |-> version]

Request(args, versions) ==
    LET says == {<<args[i].key, FormatValue(args[i].value)>> : i \in DOMAIN args}
    IN  [key |-> MakeKey(args, "==", NoKey), printed |-> MakeKey(args, "str", NoKey),
         exact |-> \A i \in DOMAIN args : IsExact(args[i].value),
         gives |-> {Content(says, version) : version \in versions}]

Of(values, versions) == {Request(<<At("x", 1, v)>>, versions) : v \in values}

AllSayOne == Of({One, Low, Word("1"), Exactly("1"), Float}, {"1", "2", "big"})

Loads == {
    Of({One, True1, Low, Exactly("1.00"), None, Word("None")}, {"1"}),
    Of({NaN("NaN"), NaN("-NaN"), Exactly("0"), Nested(3), Nested(4)}, {"1"}),
    Of({Container("list", Pair), Container("tuple", Pair), As("Point", Container("tuple", Pair))}, {"1"}),
    Of({Set("{1, 2}", Pair), Set("{2, 1}", Pair), Set("{2, 1}", Reverse(Pair)), Container("list", Wide)}, {"1"}),
    Of({Container("dict", Ab), Container("dict", Reverse(Ab)),
        As("OrderedDict", Container("dict", Ab)), Container("Mapping", Ab)}, {"1"}),
    Of({Number(One, "1.0", "1"), Number(Exactly("1"), "1.0", "1"), Number(One, "1.0", "None")}, {"1"}),
    Of({Noon("2026-01-01T12:00:00"), Noon("2026-01-01T12:00:00+00:00")}, {"1"})
      \cup {Request(Ab, {"1"}), Request(Reverse(Ab), {"1"})}}

AllModes == [strict : BOOLEAN, writeOnce : BOOLEAN, requests : {AllSayOne}, faulty : {TRUE}]
              \cup [strict : {TRUE}, writeOnce : {FALSE}, requests : Loads, faulty : {FALSE}]

MCRequests == AllSayOne \cup UNION Loads
MCKeys == {r.key : r \in MCRequests} \ {NoKey}
MCContents == UNION {r.gives : r \in MCRequests}
Sizes == [c \in MCContents |-> IF c.version = "big" THEN "oversize_skips" ELSE "fits"]
=============================================================================
