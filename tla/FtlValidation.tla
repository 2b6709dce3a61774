---------------------------- MODULE FtlValidation ----------------------------
(* validation/resource.py: the passes of validate_resource() over a parsed resource,
   without those over the dependency graph, which are ReferenceGraph's.           *)
EXTENDS FtlWalks

IsDefinition(entry) == entry.t \in {"Message", "Term"}

(* _extract_syntax_errors: one for each junk, at its annotation. *)
SyntaxErrors(source, tree) ==
  {[code |-> junk.code, content |-> junk.content, at |-> CachedLineCol(source, junk.start)] :
     junk \in {e \in ToSet(tree) : e.t = "Junk"}}

(* _check_entry and _collect_entries: the same id again, an id that is known from other
   resources, the same attribute again.                                          *)
Warning(code, source, tree, i, context) ==
  [code |-> code, context |-> context, at |-> CachedLineCol(source, tree[i].start)]

SameId(tree, i, k) == tree[i].t = tree[k].t /\ tree[i].id = tree[k].id

StructureWarnings(source, tree, known) ==
  LET definitions == {i \in DOMAIN tree : IsDefinition(tree[i])}
      duplicates == {i \in definitions : \E k \in 1..(i - 1) :
                       k \in definitions /\ SameId(tree, i, k)}
      shadows == {i \in definitions : tree[i].id \in known[tree[i].t]}
      again(i) == {a \in DOMAIN tree[i].attributes : \E b \in 1..(a - 1) :
                     tree[i].attributes[b].id = tree[i].attributes[a].id}
      hollow == {i \in definitions : Value(tree[i]) = None /\ tree[i].attributes = <<>>}
  IN {Warning("DUPLICATE_ID", source, tree, i, <<tree[i].id>>) : i \in duplicates}
     \cup {Warning("SHADOW_WARNING", source, tree, i, <<tree[i].id>>) : i \in shadows}
     \cup UNION {{Warning("DUPLICATE_ATTRIBUTE", source, tree, i,
                          <<tree[i].id, tree[i].attributes[a].id>>) : a \in again(i)} :
                   i \in definitions}
     \cup {Warning("NO_VALUE_OR_ATTRS", source, tree, i, <<tree[i].id>>) : i \in hollow}

\* Mutant: of one id, the first.
KeptFirst(tree) ==
  {i \in DOMAIN tree : IsDefinition(tree[i]) /\
     \A k \in 1..(i - 1) : IsDefinition(tree[k]) => ~SameId(tree, i, k)}

(* The entries that are kept: of one id, the last. *)
Kept(tree) ==
  {i \in DOMAIN tree : IsDefinition(tree[i]) /\
     \A k \in (i + 1)..Len(tree) : IsDefinition(tree[k]) => ~SameId(tree, i, k)}

(* _check_undefined_references: by the entry referred to, whatever the attribute. *)
Target(ref) == IF ref.t = "MessageReference" THEN "Message" ELSE "Term"

UndefinedReferences(source, tree, known) ==
  LET defined(type) == {tree[i].id : i \in {k \in Kept(tree) : tree[k].t = type}} \cup known[type]
      undefined(i) == {ref \in ExtractReferences(tree[i]) : ref.id \notin defined(Target(ref))}
  IN UNION {{Warning("UNDEFINED_REFERENCE", source, tree, i, <<tree[i].id, ref>>) :
               ref \in undefined(i)} : i \in Kept(tree)}

(* The extraction of references may go too deep, and then validate_resource() raises. *)
CanValidate(tree) ==
  \A i \in DOMAIN tree : IsDefinition(tree[i]) =>
    /\ i \in Kept(tree) => Depth("extract", tree[i]) <= MaxDepth
    /\ Depth("semantic", tree[i]) <= MaxDepth

Warnings(source, tree, known) ==
  StructureWarnings(source, tree, known) \cup UndefinedReferences(source, tree, known)

IsValid(source, tree) ==
  /\ SyntaxErrors(source, tree) = {}
  /\ \A i \in DOMAIN tree : IsDefinition(tree[i]) => Validate(tree[i]) = {}
=============================================================================
