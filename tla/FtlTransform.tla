----------------------------- MODULE FtlTransform -----------------------------
(* syntax/visitor.py: ASTTransformer.  A transformer is a rule: what its visit method
   for one class of nodes returns.  Every other node is rebuilt from what the visits
   of its fields returned, or the whole transformation raises.  A field that holds
   one node takes any class: rules replace only what stands in lists.            *)
EXTENDS FtlTree, SequencesExt

Rule(class, does) == [class |-> class, does |-> does]

(* What a visit returns: None, one node, or a list of nodes. *)
Raised == [ok |-> FALSE]
Returned(shape, nodes) == [ok |-> TRUE, shape |-> shape, nodes |-> nodes]

Apply(rule, n) ==
  CASE rule.does = "remove" -> Returned("none", <<>>)
    [] rule.does = "double" -> Returned("list", <<n, n>>)
    [] rule.does = "replace" -> Returned("node", <<TextElement(<<"x">>)>>)

(* The fields that are visited: what shapes each may take, and which classes. *)
AnyClass == {}
One(node) == [nodes |-> <<node>>, shapes |-> {"node"}, classes |-> AnyClass]
Optional(nodes) == [nodes |-> nodes, shapes |-> {"none", "node"}, classes |-> AnyClass]
ListOf(classes, nodes) ==
  [nodes |-> nodes, shapes |-> {"none", "node", "list"}, classes |-> classes]

Inline == {"StringLiteral", "NumberLiteral", "VariableReference", "MessageReference",
           "TermReference", "FunctionReference", "Placeable"}

Fields(n) ==
  CASE n.t = "Resource" -> <<ListOf({"Message", "Term", "Comment", "Junk"}, n.entries)>>
    [] n.t = "Message" -> <<One(Identifier(n.id)),
                            Optional([i \in DOMAIN n.value |-> Pattern(n.value[i])]),
                            ListOf({"Attribute"}, n.attributes), Optional(n.comment)>>
    [] n.t = "Term" -> <<One(Identifier(n.id)), One(Pattern(n.value)),
                         ListOf({"Attribute"}, n.attributes), Optional(n.comment)>>
    [] n.t = "Pattern" -> <<ListOf({"TextElement", "Placeable"}, n.elements)>>
    [] n.t = "Placeable" -> <<One(n.expression)>>
    [] n.t = "SelectExpression" -> <<One(n.selector), ListOf({"Variant"}, n.variants)>>
    [] n.t = "Variant" -> <<One(n.key), One(Pattern(n.value))>>
    [] n.t = "FunctionReference" -> <<One(Identifier(n.id)), One(n.arguments[1])>>
    [] n.t = "MessageReference" -> <<One(Identifier(n.id)), Optional(Ident(n.attribute))>>
    [] n.t = "TermReference" -> <<One(Identifier(n.id)), Optional(Ident(n.attribute)),
                                  Optional(n.arguments)>>
    [] n.t = "VariableReference" -> <<One(Identifier(n.id))>>
    [] n.t = "CallArguments" -> <<ListOf(Inline, n.positional),
                                  ListOf({"NamedArgument"}, n.named)>>
    [] n.t = "NamedArgument" -> <<One(Identifier(n.name)), One(n.value)>>
    [] n.t = "Attribute" -> <<One(Identifier(n.id)), One(Pattern(n.value))>>
    [] OTHER -> <<>>

\* Mutant: no class checks itself.
CanAlwaysRebuild(n, new) == TRUE

(* replace(): a new node from the new fields; its __post_init__ may refuse it. *)
CanRebuild(n, new) ==
  CASE n.t = "SelectExpression" -> CanSelect(new[2])
    [] n.t = "Message" -> CanBeMessage(new[2], new[3])
    [] OTHER -> TRUE

Id(new) == IF new = None THEN None ELSE new[1].id
Els(new) == new[1].elements

Rebuild(n, new) ==
  CASE n.t = "Resource" -> Resource(new[1])
    [] n.t = "Message" -> [n EXCEPT !.id = Id(new[1]), !.attributes = new[3], !.comment = new[4],
                             !.value = IF new[2] = None THEN None ELSE <<Els(new[2])>>]
    [] n.t = "Term" -> [n EXCEPT !.id = Id(new[1]), !.value = Els(new[2]),
                          !.attributes = new[3], !.comment = new[4]]
    [] n.t = "Pattern" -> Pattern(new[1])
    [] n.t = "Placeable" -> Placeable(new[1][1])
    [] n.t = "SelectExpression" -> SelectExpression(new[1][1], new[2])
    [] n.t = "Variant" -> Variant(new[1][1], Els(new[2]), n.default)
    [] n.t = "FunctionReference" -> FunctionReference(Id(new[1]), new[2])
    [] n.t = "MessageReference" -> MessageReference(Id(new[1]), Id(new[2]))
    [] n.t = "TermReference" -> TermReference(Id(new[1]), Id(new[2]), new[3])
    [] n.t = "VariableReference" -> VariableReference(Id(new[1]))
    [] n.t = "CallArguments" -> CallArguments(new[1], new[2])
    [] n.t = "NamedArgument" -> NamedArgument(Id(new[1]), new[2][1])
    [] n.t = "Attribute" -> Attribute(Id(new[1]), Els(new[2]))
    [] OTHER -> n

(* The results that a field takes: _validate_scalar_result and its optional twin look at
   the shape only, _validate_element_type at the class of each node of a list.     *)
Fits(field, result) ==
  /\ result.ok
  /\ result.shape \in field.shapes
  /\ field.classes # AnyClass =>
       \A i \in DOMAIN result.nodes : result.nodes[i].t \in field.classes

Collect(field, done, result) ==
  IF done.ok /\ Fits(field, result) THEN Returned("list", done.nodes \o result.nodes) ELSE Raised

Renew(n, results) ==
  LET new == [i \in DOMAIN results |-> results[i].nodes]
  IN IF (\A i \in DOMAIN results : results[i].ok) /\ CanRebuild(n, new)
     THEN Returned("node", <<Rebuild(n, new)>>) ELSE Raised

(* visit(), at a depth that the guard allows; and the visits of a field's nodes. *)
RECURSIVE Visit(_, _, _)
VisitField(rule, field, d) ==
  FoldLeft(LAMBDA done, n : Collect(field, done, Visit(rule, n, d)),
           Returned("list", <<>>), field.nodes)

Visit(rule, n, d) ==
  CASE d >= MaxDepth -> Raised
    [] d < MaxDepth /\ n.t = rule.class -> Apply(rule, n)
    [] OTHER -> Renew(n, FoldLeft(LAMBDA done, field : Append(done, VisitField(rule, field, d + 1)),
                                  <<>>, Fields(n)))

Transform(rule, tree) == Visit(rule, Resource(tree), 0)
=============================================================================
