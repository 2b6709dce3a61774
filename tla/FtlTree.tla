------------------------------ MODULE FtlTree ------------------------------
(* syntax/ast.py: the immutable syntax tree, without the positions inside an
   entry.  A node is a record whose field t names its class; a Pattern is the
   sequence of its elements and an Identifier the sequence of its characters.
   A field that Python may leave None is a sequence of at most one, or the empty
   identifier.                                                                  *)
EXTENDS FtlCursor

CONSTANT MaxDepth    \* constants.py MAX_DEPTH: how deep a walk over a tree may go

None == <<>>

Letters == {"a", "b", "c", "d", "e", "f", "g", "h", "i", "j", "k", "l", "m", "n", "o", "p",
            "q", "r", "s", "t", "u", "v", "w", "x", "y", "z", "A", "B", "C", "D", "E", "F"}
Digits == {"0", "1", "2", "3", "4", "5", "6", "7", "8", "9"}
IdentifierChars == Letters \cup Digits \cup {"-", "_"}

(* core/identifier_validation.py: is_valid_identifier, without the length. *)
IsIdentifier(name) ==
  /\ name # <<>>
  /\ name[1] \in Letters
  /\ \A i \in DOMAIN name : name[i] \in IdentifierChars

TextElement(value) == [t |-> "TextElement", value |-> value]
Placeable(expression) == [t |-> "Placeable", expression |-> expression]
StringLiteral(value) == [t |-> "StringLiteral", value |-> value]
NumberLiteral(raw) == [t |-> "NumberLiteral", raw |-> raw]
VariableReference(id) == [t |-> "VariableReference", id |-> id]
MessageReference(id, attribute) ==
  [t |-> "MessageReference", id |-> id, attribute |-> attribute]
TermReference(id, attribute, arguments) ==
  [t |-> "TermReference", id |-> id, attribute |-> attribute, arguments |-> arguments]
FunctionReference(id, arguments) ==
  [t |-> "FunctionReference", id |-> id, arguments |-> arguments]
CallArguments(positional, named) ==
  [t |-> "CallArguments", positional |-> positional, named |-> named]
NamedArgument(name, value) == [t |-> "NamedArgument", name |-> name, value |-> value]
SelectExpression(selector, variants) ==
  [t |-> "SelectExpression", selector |-> selector, variants |-> variants]
Variant(key, value, default) ==
  [t |-> "Variant", key |-> key, value |-> value, default |-> default]
Attribute(id, value) == [t |-> "Attribute", id |-> id, value |-> value]
Identifier(id) == [t |-> "Identifier", id |-> id]
Pattern(elements) == [t |-> "Pattern", elements |-> elements]

(* An entry has its span [start, end) in the source.  A message's value is optional. *)
Message(id, value, attributes, start, end) ==
  [t |-> "Message", id |-> id, value |-> value, attributes |-> attributes,
   comment |-> None, start |-> start, end |-> end]
Term(id, value, attributes, start, end) ==
  [t |-> "Term", id |-> id, value |-> value, attributes |-> attributes,
   comment |-> None, start |-> start, end |-> end]
Comment(type, content, start, end) ==
  [t |-> "Comment", type |-> type, content |-> content, start |-> start, end |-> end]
Junk(content, code, start, end) ==
  [t |-> "Junk", content |-> content, code |-> code, start |-> start, end |-> end]
Resource(entries) == [t |-> "Resource", entries |-> entries]

IsLiteral(node) == node.t \in {"StringLiteral", "NumberLiteral"}

DefaultCount(variants) == Cardinality({i \in DOMAIN variants : variants[i].default})

(* __post_init__: what a select expression and a message need to exist. *)
CanSelect(variants) == variants # <<>> /\ DefaultCount(variants) = 1
CanBeMessage(value, attributes) == value # None \/ attributes # <<>>

(* The nodes in the fields of a node, in the order of the dataclass's fields: what
   generic_visit visits.  A node made by the parser has its span as last child, as
   far as the parser sets one; so has an Identifier.                             *)
Span == [t |-> "Span"]
Ident(id) == IF id = None THEN <<>> ELSE <<Identifier(id)>>

Children(n) ==
  CASE n.t = "Pattern" -> n.elements
    [] n.t = "Placeable" -> <<n.expression>>
    [] n.t = "SelectExpression" -> <<n.selector>> \o n.variants \o <<Span>>
    [] n.t = "Variant" -> <<n.key, Pattern(n.value)>>
    [] n.t = "VariableReference" -> Ident(n.id) \o <<Span>>
    [] n.t = "MessageReference" -> Ident(n.id) \o Ident(n.attribute) \o <<Span>>
    [] n.t = "TermReference" -> Ident(n.id) \o Ident(n.attribute) \o n.arguments \o <<Span>>
    [] n.t = "FunctionReference" -> Ident(n.id) \o n.arguments \o <<Span>>
    [] n.t = "CallArguments" -> n.positional \o n.named
    [] n.t = "NamedArgument" -> Ident(n.name) \o <<n.value>>
    [] n.t = "Attribute" -> Ident(n.id) \o <<Pattern(n.value), Span>>
    [] n.t = "Identifier" -> <<Span>>
    [] OTHER -> <<>>

Value(entry) == IF entry.t = "Message" THEN entry.value ELSE <<entry.value>>

(* The patterns of a message or term: its value and its attributes' values. *)
Patterns(entry) ==
  [i \in DOMAIN Value(entry) |-> Pattern(Value(entry)[i])]
  \o [i \in DOMAIN entry.attributes |-> Pattern(entry.attributes[i].value)]
=============================================================================
