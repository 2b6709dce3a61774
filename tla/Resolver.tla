------------------------------ MODULE Resolver ------------------------------
(***************************************************************************)
(* FluentResolver in one thread: the recursive descent over patterns and   *)
(* expressions as a machine with an explicit stack, so that every return,  *)
(* exception and finally clause is a step.  ctx is the ResolutionContext   *)
(* of the format call in progress; a custom function may call              *)
(* format_pattern again, which gets a context of its own and shares only   *)
(* the depth counter of GlobalDepthGuard and the bundle's cache.           *)
(*                                                                         *)
(* A text is a sequence of characters; a fallback is the one character     *)
(* Lost and an isolation mark one character, too.  A message or term with  *)
(* an attribute is a key of its own.  Expressions are records:             *)
(*   literal text | var name | message key | term key named positional |   *)
(*   call args does of | nest of | select on variants other                *)
(* and an element of a pattern is a text or an expression (a placeable).   *)
(***************************************************************************)
EXTENDS Naturals, Sequences, FiniteSets, SequencesExt

CONSTANTS Catalogs,    \* the resources to try: functions from keys to patterns
          Terms,       \* the keys that are terms
          NoPattern,   \* a message without a value, or without the attribute
          Args,        \* what every format call passes
          MaxDepth,    \* max_nesting_depth
          Budget,      \* max_expansion_size
          Isolating, Strict, Caching,
          MaxCalls     \* bound on the calls of format_pattern from outside

ASSUME ResolverAssumption ==
    /\ MaxDepth \in Nat \ {0} /\ Budget \in Nat /\ MaxCalls \in Nat
    /\ {Isolating, Strict, Caching} \subseteq BOOLEAN

VARIABLES catalog,    \* _messages and _terms
          global,     \* _global_resolution_depth
          ctx,        \* the ResolutionContext, the errors and args at hand
          control,    \* the frames of the calls in progress, innermost first
          now,        \* what happens next
          cache,      \* results that _cache holds
          answers     \* history: what the calls from outside returned

vars == <<catalog, global, ctx, control, now, cache, answers>>

Lost == <<"{}">>
Float == <<"float">>    \* a custom function's float, which has no text
Isolated(v) == IF Isolating THEN <<"<">> \o v \o <<">">> ELSE v
Error(kind, of) == [kind |-> kind, of |-> of]

Eval(e) == [is |-> "eval", expr |-> e]
Value(v) == [is |-> "value", value |-> v]
Raise(e) == [is |-> "raise", error |-> e]
Resolve(k) == [is |-> "resolve", key |-> k]
Run == [is |-> "run"]
Idle == [is |-> "idle"]

Fresh == [path |-> <<>>, seen |-> {}, depth |-> 0, chars |-> 0, errors |-> <<>>, args |-> Args]
Over(c) == c.chars > Budget
With(c, e) == [c EXCEPT !.errors = Append(@, e)]
Charge(c, v) == [c EXCEPT !.chars = @ + Len(v)]
Push(c, k) == [c EXCEPT !.path = Append(@, k), !.seen = @ \cup {k}]
\* Mutant: a key that was left stays in the lookup set.
PopSeen(c) == [c EXCEPT !.path = Front(@)]
Pop(c) == [c EXCEPT !.path = Front(@), !.seen = @ \ {Last(c.path)}]
MayEnter(c) == c.depth < MaxDepth
Enter(c) == [c EXCEPT !.depth = @ + 1]
Exit(c) == [c EXCEPT !.depth = @ - 1]
TooDeep == Error("depth", "expression")

Top == Head(control)
Rest == Tail(control)
Is(what) == now.is = what
At(frame) == control # <<>> /\ Top.at = frame
Evaluates(form) == Is("eval") /\ now.expr.form = form

Go(c, frames, next) ==
    /\ ctx' = c /\ control' = frames /\ now' = next
    /\ UNCHANGED <<catalog, cache, answers>>
Step(c, frames, next) == Go(c, frames, next) /\ UNCHANGED global

\* Where a value or an exception goes on after the frames above are gone.
Yield(c, v) == Step(c, control, Value(v))
Throw(e) == Step(ctx, control, Raise(e))

Init ==
    /\ catalog \in Catalogs
    /\ global = 0 /\ ctx = Fresh /\ control = <<>> /\ now = Idle
    /\ cache = {} /\ answers = <<>>

-----------------------------------------------------------------------------
(***************************************************************************)
(* format_pattern                                                          *)
(***************************************************************************)
Hits(k) == {r \in cache : r.key = k}
Begin(k, saved, frames) ==
    Step(Fresh, <<[at |-> "format", key |-> k, saved |-> saved]>> \o frames, Resolve(k))

Format(k) ==
    /\ Is("idle") /\ Len(answers) < MaxCalls
    /\ k \notin Terms /\ Hits(k) = {}
    /\ Begin(k, Fresh, <<>>)

FormatHit(k) ==
    /\ Is("idle") /\ Len(answers) < MaxCalls
    /\ \E r \in Hits(k) : answers' = Append(answers, r)
    /\ UNCHANGED <<catalog, global, ctx, control, now, cache>>

\* What a custom function makes of its own format_pattern: in strict mode the
\* FormattingIntegrityError passes through it.
Nested(r, c, frames) ==
    IF Strict /\ r.errors # <<>>
      THEN /\ ctx' = With(c, Error("failed", "")) /\ control' = frames /\ now' = Value(Lost)
      ELSE /\ ctx' = c /\ control' = frames /\ now' = Value(r.out)

EndFormat ==
    /\ Is("value") /\ At("format")
    /\ LET r == [key |-> Top.key, out |-> now.value, errors |-> ctx.errors] IN
        /\ cache' = IF Caching THEN (cache \ Hits(r.key)) \cup {r} ELSE cache
        /\ IF Rest = <<>>
             THEN /\ answers' = Append(answers, r)
                  /\ ctx' = Fresh /\ control' = <<>> /\ now' = Idle
             ELSE Nested(r, Top.saved, Rest) /\ UNCHANGED answers
    /\ UNCHANGED <<catalog, global>>

ClearCache ==
    /\ Is("idle") /\ cache # {} /\ cache' = {}
    /\ UNCHANGED <<catalog, global, ctx, control, now, answers>>

-----------------------------------------------------------------------------
(***************************************************************************)
(* resolve_message and _resolve_pattern                                    *)
(***************************************************************************)
StartPattern(c, p, frames) ==
    IF Over(c)
      THEN Go(With(c, Error("budget", "")), frames, Value(<<>>))
      ELSE Go(c, <<[at |-> "pattern", todo |-> p, out |-> <<>>]>> \o frames, Run)

Refusal(k) ==
    CASE catalog[k] = NoPattern -> {Error("value", k)}
      [] k \in ctx.seen -> {Error("cyclic", k)}
      [] Len(ctx.path) >= MaxDepth -> {Error("depth", k)}
      [] OTHER -> {}
GlobalRefusal(k) == IF global >= MaxDepth THEN {Error("global", k)} ELSE {}

ResolveMessage ==
    /\ Is("resolve")
    /\ Refusal(now.key) = {} /\ GlobalRefusal(now.key) = {}
    /\ global' = global + 1
    /\ StartPattern(Push(ctx, now.key), catalog[now.key],
                    <<[at |-> "message", global |-> global]>> \o control)

ResolveRefused ==
    /\ Is("resolve")
    /\ \E e \in IF Refusal(now.key) # {} THEN Refusal(now.key) ELSE GlobalRefusal(now.key) :
         Yield(With(ctx, e), Lost)

LeaveMessage ==
    /\ Is("value") /\ At("message")
    /\ global' = Top.global
    /\ Go(Pop(ctx), Rest, now)

Element == Head(Top.todo)
Emit(frame, text) == [frame EXCEPT !.todo = Tail(@), !.out = @ \o text]

EndPattern ==
    /\ Is("run") /\ At("pattern") /\ Top.todo = <<>>
    /\ Step(ctx, Rest, Value(Top.out))

\* Mutant: a text that does not fit is left out without a word.
TextCut ==
    /\ Is("run") /\ At("pattern") /\ Top.todo # <<>> /\ Element.form = "text"
    /\ LET c == Charge(ctx, Element.text) IN
        IF Over(c) THEN Step(c, Rest, Value(Top.out))
                   ELSE Step(c, <<Emit(Top, Element.text)>> \o Rest, Run)

Text ==
    /\ Is("run") /\ At("pattern") /\ Top.todo # <<>> /\ Element.form = "text"
    /\ LET c == Charge(ctx, Element.text) IN
        IF Over(c) THEN Step(With(c, Error("budget", "")), Rest, Value(Top.out))
                   ELSE Step(c, <<Emit(Top, Element.text)>> \o Rest, Run)

Placeable ==
    /\ Is("run") /\ At("pattern") /\ Top.todo # <<>> /\ Element.form # "text"
    /\ IF MayEnter(ctx)
         THEN Step(Enter(ctx), <<[at |-> "placeable"]>> \o control, Eval(Element))
         ELSE Step(With(ctx, TooDeep), <<Emit(Top, Lost)>> \o Rest, Run)

\* The pattern under the placeable's frame, and the frames below it.
Pattern == control[2]
Below == SubSeq(control, 3, Len(control))
FailPlaceable(c, e) == Step(With(c, e), <<Emit(Pattern, Lost)>> \o Below, Run)

PlaceableValue ==
    /\ Is("value") /\ At("placeable") /\ now.value # Float
    /\ LET before == Exit(ctx)
           c == Charge(before, now.value) IN
        IF ~Over(c) THEN Step(c, <<Emit(Pattern, Isolated(now.value))>> \o Below, Run)
        ELSE Step(IF Over(before) THEN c ELSE With(c, Error("budget", "")),
                  Below, Value(Pattern.out))

PlaceableRaises ==
    /\ At("placeable")
    /\ \/ Is("raise") /\ FailPlaceable(Exit(ctx), now.error)
       \/ Is("value") /\ now.value = Float /\ FailPlaceable(Exit(ctx), Error("float", ""))

-----------------------------------------------------------------------------
(***************************************************************************)
(* _resolve_expression                                                     *)
(***************************************************************************)
Literal == Evaluates("literal") /\ Yield(ctx, now.expr.text)

Variable ==
    /\ Evaluates("var")
    /\ IF now.expr.name \in DOMAIN ctx.args THEN Yield(ctx, ctx.args[now.expr.name])
       ELSE Throw(Error("variable", now.expr.name))

MessageReference ==
    /\ Evaluates("message")
    /\ IF now.expr.key \in DOMAIN catalog THEN Step(ctx, control, Resolve(now.expr.key))
       ELSE Throw(Error("message", now.expr.key))

Guard(frame, e) ==
    IF MayEnter(ctx) THEN Step(Enter(ctx), <<frame>> \o control, Eval(e)) ELSE Throw(TooDeep)

Nest == Evaluates("nest") /\ Guard([at |-> "nest"], now.expr.of)
LeaveNest == At("nest") /\ (Is("value") \/ Is("raise")) /\ Step(Exit(ctx), Rest, now)

\* Frames that evaluate arguments: what is left and what was found.
Arguments(e, todo) == [at |-> e.form, expr |-> e, todo |-> todo, got |-> <<>>]
Got(frame, v) == [frame EXCEPT !.todo = Tail(@), !.got = Append(@, v)]

\* What a term is passed, and what its pattern sees of the values of that: the named ones.
Passed(e) == [i \in DOMAIN e.named |-> e.named[i].value] \o e.positional
Bound(e, values) == [n \in {e.named[i].name : i \in DOMAIN e.named} |->
                       values[CHOOSE i \in DOMAIN e.named : e.named[i].name = n]]

TermReference ==
    /\ Evaluates("term")
    /\ LET e == now.expr IN
        IF e.key \notin DOMAIN catalog \/ catalog[e.key] = NoPattern
          THEN Throw(Error("term", e.key))
        ELSE \/ \E x \in Refusal(e.key) : Yield(With(ctx, x), Lost)
             \/ /\ Refusal(e.key) = {}
                /\ Step(ctx, <<Arguments(e, Passed(e))>> \o control, Run)

Call ==
    /\ Evaluates("call")
    /\ IF MayEnter(ctx) THEN Step(Enter(ctx), <<Arguments(now.expr, now.expr.args)>> \o control, Run)
       ELSE Throw(TooDeep)

AtArguments == At("term") \/ At("call")

\* All arguments of a call are under one guard, each of a term's under its own.
NextArgument ==
    /\ Is("run") /\ AtArguments /\ Top.todo # <<>>
    /\ IF At("call") THEN Step(ctx, control, Eval(Element))
       ELSE IF MayEnter(ctx) THEN Step(Enter(ctx), control, Eval(Element))
       ELSE Step(ctx, Rest, Raise(TooDeep))

ArgumentValue ==
    /\ Is("value") /\ AtArguments
    /\ Step(IF At("term") THEN Exit(ctx) ELSE ctx, <<Got(Top, now.value)>> \o Rest, Run)

\* Mutant: the guard is not left when an argument raises.
ArgumentRaisesInside == Is("raise") /\ AtArguments /\ Step(ctx, Rest, now)

ArgumentRaises == Is("raise") /\ AtArguments /\ Step(Exit(ctx), Rest, now)

\* A term sees the named arguments it is passed and nothing else.
EnterTerm ==
    /\ Is("run") /\ At("term") /\ Top.todo = <<>>
    /\ LET e == Top.expr
           c == IF e.positional = <<>> THEN ctx ELSE With(ctx, Error("positional", e.key)) IN
        StartPattern(Push([c EXCEPT !.args = Bound(e, Top.got)], e.key), catalog[e.key],
                     <<[at |-> "body", args |-> ctx.args]>> \o Rest)
    /\ UNCHANGED global

LeaveTerm ==
    /\ Is("value") /\ At("body")
    /\ Step([Pop(ctx) EXCEPT !.args = Top.args], Rest, now)

\* A custom function with all its arguments: it returns, raises a
\* FrozenFluentError or another exception, returns a float, or formats a message.
Applies(does) == Is("run") /\ At("call") /\ Top.todo = <<>> /\ Top.expr.does = does
Joined(values) == <<"f">> \o FlattenSeq(values)

FunctionReturns == Applies("return") /\ Step(Exit(ctx), Rest, Value(Joined(Top.got)))
FunctionFloat == Applies("float") /\ Step(Exit(ctx), Rest, Value(Float))
FunctionRefuses == Applies("refuse") /\ Step(Exit(ctx), Rest, Raise(Error("function", "")))
FunctionFails == Applies("fail") /\ Step(With(Exit(ctx), Error("failed", "")), Rest, Value(Lost))

FunctionFormats ==
    /\ Applies("format")
    /\ IF Hits(Top.expr.of) = {} THEN Begin(Top.expr.of, Exit(ctx), Rest)
       ELSE /\ \E r \in Hits(Top.expr.of) : Nested(r, Exit(ctx), Rest)
            /\ UNCHANGED <<catalog, global, cache, answers>>

Select ==
    /\ Evaluates("select")
    /\ IF MayEnter(ctx)
         THEN Go(Enter(ctx), <<[at |-> "select", expr |-> now.expr]>> \o control, Eval(now.expr.on))
         ELSE StartPattern(With(ctx, TooDeep), now.expr.other, control)
    /\ UNCHANGED global

Variant(e, v) == IF v \in DOMAIN e.variants THEN e.variants[v] ELSE e.other

SelectorValue ==
    /\ Is("value") /\ At("select")
    /\ IF now.value = Float THEN Go(Exit(ctx), Rest, Raise(Error("float", "")))
       ELSE StartPattern(Exit(ctx), Variant(Top.expr, now.value), Rest)
    /\ UNCHANGED global

\* Mutant: the selector is tried again.
SelectorRetried ==
    /\ Is("raise") /\ At("select")
    /\ Step(ctx, control, Eval(Top.expr.on))

SelectorRaises ==
    /\ Is("raise") /\ At("select")
    /\ StartPattern(With(Exit(ctx), now.error), Top.expr.other, Rest)
    /\ UNCHANGED global

-----------------------------------------------------------------------------
Resolving ==
    \/ EndFormat \/ ResolveMessage \/ ResolveRefused \/ LeaveMessage
    \/ EndPattern \/ Text \/ Placeable \/ PlaceableValue \/ PlaceableRaises
    \/ Literal \/ Variable \/ MessageReference \/ Nest \/ LeaveNest
    \/ TermReference \/ EnterTerm \/ LeaveTerm
    \/ Call \/ NextArgument \/ ArgumentValue \/ ArgumentRaises
    \/ FunctionReturns \/ FunctionFloat \/ FunctionRefuses \/ FunctionFails \/ FunctionFormats
    \/ Select \/ SelectorValue \/ SelectorRaises

Next == Resolving \/ ClearCache \/ \E k \in DOMAIN catalog : Format(k) \/ FormatHit(k)

Spec == Init /\ [][Next]_vars
LiveSpec == Spec /\ WF_vars(Resolving)

-----------------------------------------------------------------------------

\* The frames of the format call in progress, and those under a guard of it.
Own == {i \in DOMAIN control : \A j \in 1 .. i : control[j].at # "format"}
Frames(S, kinds) == Cardinality({i \in S : control[i].at \in kinds})
Guarded == Frames(Own, {"placeable", "nest", "select", "call"})
           + Cardinality({i \in Own : control[i].at = "term" /\ ~(i = 1 /\ Is("run"))})

\* The recursion is bounded by the configured depth alone, also when custom
\* functions call format_pattern, each time with a fresh context.
StackBounded == Len(control) <= (MaxDepth + 1) * (4 * MaxDepth + 2)

\* Whatever was refused, raised or cut short on the way, the resolution path,
\* its lookup set, the expression depth and the depth shared by nested format
\* calls count exactly the calls in progress: every finally clause and every
\* guard's exit ran once; so the depth bounds the stack.
Balanced ==
    /\ ctx.seen = {ctx.path[i] : i \in DOMAIN ctx.path}
    /\ Cardinality(ctx.seen) = Len(ctx.path)
    /\ Len(ctx.path) = Frames(Own, {"message", "body"})
    /\ ctx.depth = Guarded
    /\ global = Frames(DOMAIN control, {"message"})
    /\ StackBounded

\* Every format call returns, with cycles, exceptions and nested calls.
Terminates == ~Is("idle") ~> Is("idle")

=============================================================================
