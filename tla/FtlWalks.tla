------------------------------ MODULE FtlWalks ------------------------------
(* The walks over a syntax tree: syntax/visitor.py with the reference extractor and
   introspection/message.py's visitor built on it, syntax/validator.py, and the
   checks of syntax/serializer_validation.py.  Each counts its own depth.        *)
EXTENDS FtlGrammar

Values(named) == [i \in DOMAIN named |-> named[i].value]
Arguments(n) == IF n.arguments = None THEN [positional |-> <<>>, named |-> <<>>]
                ELSE n.arguments[1]
\* Mutant: the default alone.
DefaultValues(n) == {Pattern(v.value) : v \in {w \in ToSet(n.variants) : w.default}}

VariantValues(n) == {Pattern(v.value) : v \in ToSet(n.variants)}
IsCall(n) == n.t \in {"TermReference", "FunctionReference"}

-----------------------------------------------------------------------------
(* core/depth_guard.py: how often each walk enters its guard on the way to a node's parts *)

Weighted(weight, nodes) == {[by |-> weight, node |-> n] : n \in nodes}

Guarded(walk, n) ==
  LET positional == ToSet(Arguments(n).positional)
      named == ToSet(Values(Arguments(n).named))
  IN CASE walk = "extract"
            -> IF n.t = "MessageReference" THEN {}
               ELSE Weighted(IF n.t = "TermReference" THEN 2 ELSE 1, ToSet(Children(n)))
       [] walk # "extract" /\ n.t = "Pattern"
            -> Weighted(0, {el \in ToSet(n.elements) : el.t = "Placeable"})
       [] walk # "extract" /\ n.t = "Placeable" -> Weighted(1, {n.expression})
       [] walk # "extract" /\ n.t = "SelectExpression"
            -> Weighted(IF walk = "semantic" THEN 0 ELSE 1, {n.selector})
               \cup Weighted(IF walk \in {"validate", "introspect"} THEN 1 ELSE 0,
                             VariantValues(n))
       [] walk # "extract" /\ IsCall(n)
            -> Weighted(1, positional \cup
                 (IF walk \in {"validate", "semantic"} THEN {} ELSE named))
       [] OTHER -> {}

(* The deepest that a walk from this node goes. *)
RECURSIVE DepthBelow(_, _)
DepthBelow(walk, n) == Max({0} \cup {e.by + DepthBelow(walk, e.node) : e \in Guarded(walk, n)})

(* visit() guards the pattern that it is called for. *)
Depth(walk, entry) ==
  LET root == IF walk \in {"extract", "introspect"} THEN 1 ELSE 0
  IN root + Max({0} \cup {DepthBelow(walk, pattern) : pattern \in ToSet(Patterns(entry))})

-----------------------------------------------------------------------------
(* reference_extraction.py *)

RECURSIVE References(_)
References(n) ==
  (IF n.t \in {"MessageReference", "TermReference"}
   THEN {[t |-> n.t, id |-> n.id, attribute |-> n.attribute]} ELSE {})
  \cup UNION {References(e.node) : e \in Guarded("extract", n)}

ExtractReferences(entry) == UNION {References(p) : p \in ToSet(Patterns(entry))}

(* The value under None and each attribute under its name: of two attributes with one
   name, the later.                                                             *)
ExtractByAttribute(entry) ==
  LET attrs == entry.attributes
      last(name) == Max({i \in DOMAIN attrs : attrs[i].id = name})
      names == {attrs[i].id : i \in DOMAIN attrs}
      value == IF Value(entry) = None THEN {} ELSE {None}
  IN [name \in value \cup names |->
        References(Pattern(IF name = None THEN Value(entry)[1] ELSE attrs[last(name)].value))]

-----------------------------------------------------------------------------
(* introspection/message.py: what a message uses, a variable with where it stands *)

Inner(n) == IF n.t = "Placeable" THEN n.expression ELSE n

FunctionCall(n) ==
  LET args == Arguments(n)
      vars == SelectSeq([i \in DOMAIN args.positional |-> Inner(args.positional[i])],
                        LAMBDA arg : arg.t = "VariableReference")
  IN [t |-> "FunctionCall", id |-> n.id,
      positional |-> [i \in DOMAIN vars |-> vars[i].id],
      named |-> {arg.name : arg \in ToSet(args.named)}]

RECURSIVE Uses(_, _)
Uses(n, context) ==
  LET args == ToSet(Arguments(n).positional) \cup ToSet(Values(Arguments(n).named))
  IN CASE n.t = "Pattern" -> UNION {Uses(el, context) : el \in ToSet(n.elements)}
       [] n.t = "Placeable" -> Uses(n.expression, context)
       [] n.t = "SelectExpression"
            -> {[t |-> "Selector"]} \cup Uses(n.selector, "SELECTOR")
               \cup UNION {Uses(value, "VARIANT") : value \in VariantValues(n)}
       [] n.t = "VariableReference" -> {[t |-> "Variable", id |-> n.id, context |-> context]}
       [] n.t = "MessageReference"
            -> {[t |-> n.t, id |-> n.id, attribute |-> n.attribute]}
       [] n.t = "TermReference"
            -> {[t |-> n.t, id |-> n.id, attribute |-> n.attribute]}
               \cup UNION {Uses(arg, context) : arg \in args}
       [] n.t = "FunctionReference"
            -> {FunctionCall(n)} \cup UNION {Uses(arg, "FUNCTION_ARG") : arg \in args}
       [] OTHER -> {}

Introspect(entry) == UNION {Uses(p, "PATTERN") : p \in ToSet(Patterns(entry))}

VariableNames(entry) == {use.id : use \in {u \in Introspect(entry) : u.t = "Variable"}}

-----------------------------------------------------------------------------
(* validator.py *)

(* A number's key is its value, without zeros that say nothing. *)
KeyText(key) ==
  LET minus == SkipAll(key.raw, 0, {"-"})
      dot == SkipAll(key.raw, minus, Digits)
      int == Slice(key.raw, SkipAll(key.raw, minus, {"0"}), dot)
      fraction == Slice(key.raw, dot + 1, Len(key.raw))
      significant == Max({0} \cup {i \in DOMAIN fraction : fraction[i] # "0"})
  IN IF key.t = "Identifier" THEN [name |-> key.id]
     ELSE [minus |-> minus, int |-> int, fraction |-> SubSeq(fraction, 1, significant)]

NoneTwice(seq) == \A i, j \in DOMAIN seq : seq[i] = seq[j] => i = j

Complaints(n) ==
  CASE n.t = "SelectExpression" ->
         (IF n.selector.t = "Placeable" THEN {"PLACEABLE_SELECTOR"} ELSE {})
         \cup (IF n.variants = <<>> THEN {"SELECT_NO_VARIANTS"}
               ELSE (IF DefaultCount(n.variants) # 1 THEN {"SELECT_NO_DEFAULT"} ELSE {})
                    \cup IF NoneTwice([i \in DOMAIN n.variants |-> KeyText(n.variants[i].key)])
                         THEN {} ELSE {"VARIANT_DUPLICATE"})
    [] IsCall(n) ->
         (IF n.t = "TermReference" /\ Arguments(n).positional # <<>>
          THEN {"TERM_POSITIONAL_ARGS"} ELSE {})
         \cup (IF NoneTwice([i \in DOMAIN Arguments(n).named |-> Arguments(n).named[i].name])
               THEN {} ELSE {"NAMED_ARG_DUPLICATE"})
    [] OTHER -> {}

(* The walk goes where the guarded one does. *)
RECURSIVE SemanticErrors(_)
SemanticErrors(n) ==
  Complaints(n) \cup UNION {SemanticErrors(e.node) : e \in Guarded("semantic", n)}

Validate(entry) == UNION {SemanticErrors(p) : p \in ToSet(Patterns(entry))}

-----------------------------------------------------------------------------
(* serializer_validation.py *)

Names(n) ==
  CASE n.t \in {"VariableReference", "FunctionReference"} -> {n.id}
    [] n.t \in {"MessageReference", "TermReference"} -> {n.id} \cup ({n.attribute} \ {None})
    [] n.t = "SelectExpression" ->
         {v.key.id : v \in {w \in ToSet(n.variants) : w.key.t = "Identifier"}}
    [] OTHER -> {}

RECURSIVE CanSerialize(_)
CanSerialize(n) ==
  LET named == Arguments(n).named IN
  /\ \A name \in Names(n) : IsIdentifier(name)
  /\ n.t = "SelectExpression" => DefaultCount(n.variants) = 1
  /\ IsCall(n) =>
       /\ NoneTwice([i \in DOMAIN named |-> named[i].name])
       /\ \A arg \in ToSet(named) : IsIdentifier(arg.name) /\ IsLiteral(arg.value)
  /\ \A e \in Guarded("validate", n) : CanSerialize(e.node)

CanSerializeEntry(entry) ==
  /\ IsIdentifier(entry.id)
  /\ \A attr \in ToSet(entry.attributes) : IsIdentifier(attr.id)
  /\ \A p \in ToSet(Patterns(entry)) : CanSerialize(p)
=============================================================================
