------------------------------ MODULE CacheKeys ------------------------------
(***************************************************************************)
(* The keys of the format cache (runtime/cache_keys.py).  A key is a tuple *)
(* of tagged values; here it is the sequence of its leaves and brackets,   *)
(* once as == compares it and once as str() prints it, since the cache     *)
(* finds entries by the one and verifies them by a digest of the other.    *)
(*                                                                         *)
(* A Python value is a record: `is' is the first class of make_hashable's  *)
(* patterns that it is an instance of, `type' its own class; a leaf has    *)
(* what == compares and what str() and repr() print; a container has its   *)
(* items in the order of iteration; a FluentNumber has the number in       *)
(* items, and its precision.                                               *)
(***************************************************************************)
EXTENDS Naturals, Sequences, FiniteSets, SequencesExt, FiniteSetsExt

CONSTANTS MaxKeyDepth,    \* MAX_DEPTH
          NodeBudget      \* HASHABLE_NODE_BUDGET

Containers == {"list", "tuple", "dict", "set", "frozenset", "Mapping", "Sequence"}
Maps == {"dict", "Mapping"}
Sets == {"set", "frozenset"}
Inner == Containers \cup {"FluentNumber"}
Leaves == {"None", "str", "bool", "int", "Decimal", "datetime", "date"}

Items(v) == IF v.is \in Maps THEN [i \in DOMAIN v.items |-> v.items[i].value]
            ELSE IF v.is \in Inner THEN v.items
            ELSE <<>>

RECURSIVE Nodes(_)
Nodes(v) == 1 + FoldLeft(LAMBDA n, item : n + Nodes(item), 0, Items(v))

RECURSIVE Depth(_)
Depth(v) == 1 + FoldLeft(LAMBDA n, item : Max({n, Depth(item)}), 0, Items(v))

RECURSIVE KnownThroughout(_)
KnownThroughout(v) ==
    /\ v.is \in Leaves \cup Inner
    /\ \A i \in DOMAIN Items(v) : KnownThroughout(Items(v)[i])

(* make_hashable() raises no TypeError.                                    *)
IsHashable(v) == KnownThroughout(v) /\ Depth(v) <= MaxKeyDepth /\ Nodes(v) <= NodeBudget

-----------------------------------------------------------------------------
\* Mutant: what is a sequence is tagged as one.
SequenceTag(v) ==
    IF v.is \in {"list", "tuple", "Sequence"} THEN <<"Sequence">> ELSE <<v.is>>

(* A tag for each class, but for texts and None, which stand for           *)
(* themselves; a bool, an int and a Decimal that are equal are told apart. *)
Tag(v) == IF v.is \in {"None", "str"} THEN <<>> ELSE <<v.is>>

(* All NaNs are one; a Decimal is its text, a point in time its ISO form   *)
(* with its zone.                                                          *)
Leaf(v, sight) ==
    CASE v.is = "Decimal" -> IF v.equals = "NaN" THEN <<"__NaN__">> ELSE <<v.text>>
      [] v.is \in {"datetime", "date"} -> <<v.text>>
      [] OTHER -> IF sight = "==" THEN <<v.equals>> ELSE <<v.repr>>

(* Mappings are sorted by their keys; a set is equal in any order and      *)
(* prints in that of its table.                                            *)
Sorted(items) == SortSeq(items, LAMBDA x, y : x.order < y.order)

RECURSIVE Hashable(_, _)
Hashable(v, sight) ==
    LET within(items) == [i \in DOMAIN items |-> Hashable(items[i], sight)]
        sorted == Sorted(v.items)
        parts ==
          CASE v.is \notin Inner -> <<Leaf(v, sight)>>
            [] v.is = "FluentNumber" ->
                 <<<<v.items[1].type>>, Hashable(v.items[1], sight), <<v.text>>, <<v.precision>>>>
            [] v.is \in Maps ->
                 [i \in DOMAIN sorted |-> <<sorted[i].key>> \o Hashable(sorted[i].value, sight)]
            [] v.is \in Sets /\ sight = "==" -> SetToSeq(ToSet(within(v.items)))
            [] OTHER -> within(v.items)
    IN  <<"(">> \o Tag(v) \o FlattenSeq(parts) \o <<")">>

-----------------------------------------------------------------------------
(* make_key(): the arguments sorted by name.  The message, the attribute,  *)
(* the locale and the isolation are the same in all calls here.            *)
MakeKey(args, sight, noKey) ==
    IF \E i \in DOMAIN args : ~IsHashable(args[i].value) THEN noKey
    ELSE LET sorted == Sorted(args)
         IN  FlattenSeq([i \in DOMAIN sorted |->
                           <<sorted[i].key>> \o Hashable(sorted[i].value, sight)])

(* What the resolver prints for a variable (_format_value); a container    *)
(* says its class only.                                                    *)
FormatValue(v) ==
    CASE v.is = "bool" -> IF v.text = "True" THEN "true" ELSE "false"
      [] v.is = "None" -> ""
      [] v.is \in Containers \ Sets -> "[" \o v.type \o "]"
      [] OTHER -> v.text

(* Values whose class and text can be told from the key: containers of the *)
(* class that the tag names, not of a subclass, and numbers.  A set prints *)
(* in an order that the key does not have.                                 *)
RECURSIVE IsExact(_)
IsExact(v) ==
    /\ v.is \in Containers => v.type = v.is /\ v.is \notin Sets
    /\ v.is = "Decimal" => v.equals # "NaN"
    /\ \A i \in DOMAIN Items(v) : IsExact(Items(v)[i])
=============================================================================
