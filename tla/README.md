# A TLA+ model of FTLLexEngine

FTLLexEngine parses and formats Fluent (FTL) messages, and reads back the numbers,
money and dates that it prints. Three things make it hard. One bundle is used by
many threads, answers are cached, a localization creates bundles on demand behind a
lock of its own, and formatting runs code of the application in the middle of a
recursive descent that must not lose an error. A parser that recovers from every
error, a serializer and half a dozen walks of the same tree have to agree. And what
is printed in one locale has to be read as the same thing, or refused. These modules
model all three. `PROJECT.json` maps every definition to its lines.

## The system

| Component | State | Operations | Interacts with | Hard | Correct when |
|---|---|---|---|---|---|
| `RWLock` (`runtime/rwlock.py`) | four fields under one `Condition` | read, write, with timeouts, nested reads | every bundle and localization | lost wake-ups, timeouts, writer preference, reentrancy | readers and writers exclude each other, counters agree, nobody sleeps past his turn |
| Format cache (`runtime/cache*.py`) | an `OrderedDict` in LRU order, counters, audit log | get, put, clear, stats | a bundle's format calls | corruption, write-once, key equality | a hit is what was put for that key; the counters add up |
| `FluentBundle` (`runtime/bundle*.py`) | messages, terms, dependencies, function registry, resolver, cache | format, add_resource, add_function, clear_cache, queries | RWLock, cache, resolver | several dictionaries change one after the other; writes that fail half-way | a format sees one content; the cache is never stale; a failed write leaves no trace |
| Resolver (`runtime/resolver*.py`, `resolution_context.py`, `core/depth_guard.py`) | resolution path, depth, budget, errors; a global depth | resolve_message and what it calls | bundle, function registry, custom functions | exceptions at every level, cycles, limits, calls back into the bundle | context balanced, errors never lost, recursion bounded |
| `FluentLocalization` (`localization/orchestrator*.py`) | bundles per locale, pending functions, load results | format and queries along the chain, add_resource, add_function | bundles, RWLock, application callback | bundles created lazily by several threads, two kinds of locks | one bundle per locale, nothing lost, functions reach every bundle |
| Boot (`localization/boot.py`, `loading.py`) | one-shot flag, load results | boot, boot_simple, the loaders | localization | partial failure of loads, two threads | what boot returns is validated |
| `AsyncFluentBundle` | none of its own | FluentBundle's on worker threads | bundle | cancellation | as FluentBundle |
| Parser (`syntax/parser/`, `cursor.py`, `position.py`) | a cursor, the entries so far, a pending comment, the depth flag | parse, parse_stream, the rules | tree | recovery after junk, comments that wait for their entry, depth | every character in one entry, progress, positions right |
| Serializer (`syntax/serializer*.py`) | none between calls | serialize, its checks | tree, parser | what has to be quoted, indented or separated depends on neighbours | its output parses to the same content and is stable |
| Tree walks (`syntax/visitor.py`, `reference_extraction.py`, `validator.py`, `introspection/message.py`, `validation/resource.py`) | none between calls | visit, transform, extract, introspect, validate | tree | several walks of one tree that each know its shape | they agree |
| Reference graph (`core/reference_graph.py`, `validation/resource_graph.py`) | a work stack | detect_cycles, chain lengths | validate_resource, bundle | completeness under search limits, a graph of old and new entries | cycles reported are exactly the cycles; chains are measured exactly |
| Locale contexts, introspection cache (`runtime/locale_context.py`, `introspection/message.py`, `cache_management.py`) | a bounded LRU table, a weak dictionary, each with a lock | create, introspect_message, clear | every bundle of the process | two threads miss the same key | every answer is the table's; the bound holds |
| Numbers, money, dates out (`runtime/functions.py`, `locale_formatting.py`, `plural_rules.py`, `core/value_types.py`) | none | NUMBER, CURRENCY, DATETIME, plural selection | Babel, resolver | rounding, grouping, visible digits | the plural category is that of what the reader sees |
| Numbers, money, dates in (`parsing/`) | tables made from Babel | parse_decimal, parse_fluent_number, parse_currency, parse_date, parse_datetime | Babel, strptime | separators of other locales, ambiguous symbols, two-digit years | what is printed is read as the same, or refused |
| Function registry (`runtime/function_bridge.py`, `function_metadata.py`) | functions, signatures, frozen flag | register, copy, freeze, call | bundle, resolver | copy on write | a bundle's change does not reach others |
| Diagnostics, integrity exceptions, ISO introspection, package surface | immutable values | constructors, lookups | everything | none | - |

A format call enters the bundle's read lock, looks into the cache, walks the
message with the resolver, puts the result into the cache and leaves. A write
takes the write lock, changes the dictionaries and clears the cache. A
localization finds or creates a bundle per locale under its own lock and calls
the bundle; some of its calls keep their lock meanwhile. Custom functions run
inside all of that and may call the library again. The built-in functions take a
locale context out of the cache that all bundles share. Parsing, serializing,
validating and reading values happen outside of every lock, on immutable trees.

## The modules

### Threads, caches, bundles

- **`ReadWriteMutex`** is the abstract lock: who reads and who writes.
  **`RWLock`** is the code: one step is one section under the condition's lock,
  from a method's first test to its return or `wait()`. `sleeping` is the
  condition's wait set, `deadline` the state of a timeout. `ImplementsMutex` is
  the refinement. `MCRWLock` instantiates it; `RWLockProofs` proves it.
- **`IntegrityCache`** has one step per call, because each holds the cache's `Lock`
  throughout. A digest is what it digests; a key is what dict equality sees, with
  its printed form beside it, because the code hashes the one and digests the
  other. **`CacheKeys`** makes both out of Python values, and says what a value prints.
  `CorruptContent` and `SwapEntries` are memory faults. Statistics count as the code counts.
  `Replayed` is the LRU order that the audit log tells. `IntegrityCacheProofs` proves it.
- **`FluentBundle`** uses the lock that `ReadWriteMutex` promises, and makes every
  dictionary access between two lock operations a step. `committed` is history:
  the content the last successful write left. `FluentBundleProofs` proves it.
- **`Resolver`** is one thread's descent as a machine with an explicit stack.
  `ctx` is the ResolutionContext with the error list and the arguments at hand,
  `control` the Python frames (each with what its `finally`, `except` or guard
  needs), `now` what is being evaluated, returned or raised. A nested
  `format_pattern` saves `ctx` in its frame, so only `global` and `cache` are
  shared, as in the code. **`ResolverMeaning`** says, by rules alone, what a resource means
  without limits and failures and what its patterns refer to; the answers and the errors
  are compared with that. `MCResolver` holds resources, and the meaning of those as
  recursive functions. `ResolverProofs` has the proofs.
- **`Localization`** treats a bundle as an atomic object, which `FluentBundle` shows
  it to be, and has the walk along the chain, lazy creation with its second check
  under the write lock, and functions that wait for bundles. `heap` are the bundle
  objects; a thread holds references to them beyond the locks. `LocalizationProofs` proves it.
- **`LockOrder`** forgets data and keeps the lock operations of every call of a
  localization and its bundles, with the application's code inside; a thread is a
  stack of calls. It is the composition in which deadlock can be seen.
- **`Boot`** is `boot()` with the construction it causes: the guard's two steps,
  every outcome of every load, the three checks. `BootProofs` proves it.
- **`MemoTable`** is the abstract cache: a caller asks, and gets in one step the object
  that a table has for his key, or a new one that goes into it. **`SharedCaches`** is
  the code of the two caches of the process: a look under the lock, the making of
  an object without it, a second look and the storing under it again; LRU order and
  eviction for the one, garbage collection for the other. Objects are their
  identities, and an address may be used again once nobody holds it. The refinement
  maps `memo` to `cached`, and `apart` to the threads that make an object for
  themselves alone. `SharedCachesProofs` proves it.

### Text and trees

Characters are characters here: strings are sequences of one-character strings, and
every offset is the code's offset.

- **`FtlCursor`** has the cursor's movements and the three ways from an offset to a
  line and a column. **`FtlTree`** has the classes of nodes and what their
  constructors refuse. **`FtlGrammar`** has the rules; a rule's result is
  `ParseResult`, or failure. **`FtlParser`** is the loop of `parse()`, one iteration
  a step, with junk, pending comments and the two limits, and the chunks of
  `parse_stream()`.
- **`FtlSerializer`** makes the text of a tree. **`FtlWalks`** has the walks: references,
  references by attribute, introspection, depths as each walk counts them, the
  semantic validator. **`FtlTransform`** is `ASTTransformer` with its checks.
  **`FtlValidation`** has the passes of `validate_resource` over the entries, and
  **`ReferenceGraph`** the last one: it builds the dependency graph of a resource on
  top of a bundle and runs the two iterative searches over it; a step takes one item from
  the work stack, or one neighbour of the node it entered (`todo` is the rest of that
  loop), in every order of the neighbours. Cycles and chains by their definition are in the
  module, too; `MCReferenceGraph` has the resources. `ReferenceGraphProofs` proves it.
- **`FtlToolchain`** composes them: a source is parsed; then its tree is serialized
  and parsed again, or the source is parsed as a stream. `MCSyntax` has the sources.

### Values

- **`LocaleText`** has locale codes, and what the code takes from Babel for each: separators,
  group sizes, patterns, plural rule, symbols. Babel's functions are
  external: they are modelled by what they do for such data.
- **`FluentNumbers`** is arithmetic on decimals with their scale, the inference of the
  visible precision from a text, and plural selection. **`ValuePrinting`** is NUMBER and
  CURRENCY, **`ValueReading`** `parse_decimal`, `parse_fluent_number` and
  `parse_currency`, **`DateReading`** DATETIME, `parse_date` and `parse_datetime` with
  the translation of CLDR patterns for `strptime`.
- **`ValueExchange`** composes them: a form field into which the program prints or a
  user types, and which is read in the same locale or another. `MCValueExchange` has ten
  locales.

## What the runs show

| Run | Bounds | Shows |
|---|---|---|
| `rwlock` | 4 threads, nesting 2 | counters, no lost wake-up, writer preference, refinement of the abstract lock (exclusion with it); no call is forgotten: queued writers are served, readers of a free lock too, timeouts end |
| `cache` | 3 keys, one of them with two spellings, 2 slots, 4 calls, one fault, log of 4; strict or not, write-once or not; 7 more sets of similar arguments | hits are genuine and say what the caller's own arguments say, counters agree, the audit log and the statistics explain what is cached and how much, write-once holds |
| `bundle` | 3 threads, 2 messages, 1 term, 2 functions, 3 writes | formats atomic, cache fresh, failed writes leave no trace |
| `resolver` | 24 elements times 6 in one message, 3 other entries in several shapes; depth 3, budget 4, 2 calls | context balanced and stack bounded, no silent loss, cycles real, every call returns |
| `localization` | 3 threads, 2 locales, 3 changes | nothing acknowledged lost, functions reach every bundle, answers justified |
| `lock_order` | 3 threads, a localization and 1 bundle, 3 writes, calls 3 deep | every call returns when functions call their own bundle |
| `boot` | 2 locales x 2 resources, 2 ids, strict or not, any number of calls | what boot returns was validated, once |
| `validation` | 4 entries, or 2 with attributes over a bundle of 2, with an attribute or without; 6 cycles, stack of 6 | cycles and chains exact, also the cycles of the bundle that results; work stack bounded; a search never gets stuck |
| `syntax` | 24000 sources of up to 4 lines or tokens; nesting 5, depth 9, 4 entries of junk | every character once, progress, faithful formatting, streams, walks, validators, positions and transformers agree |
| `shared_caches` | 2 threads, 3 locales for 2 places, 1 message, 5 addresses | the bound and the order of the LRU cache; every answer is that of an atomic table |
| `values` | 10 locales, 9 amounts, 6 currencies, 5 moments, 3 strokes | printed amounts and dates come back as what they show; groups are checked; plural rules see the printed number |

The cache's and the boot's modes, and the cache's requests, are variables that `Init` chooses and no step changes,
so that one run covers all of them. `TypeOK` of the modules with proofs is proved, and is no
property of a run.

Why the bounds are enough: the lock's interesting cases need a reader, a queued
writer, a second queued writer and a nested reader (four threads); a deadlock needs
two locks and one waiting thread on each side; a cache of two entries for three
keys evicts, updates and refuses; two locales have a first, a last and a fallback;
depth 3 and budget 4 let every limit be reached both by the element that crosses
it and by a nested one; some of the graphs exceed six cycles or a stack of six, and
most do not. A race of the shared caches is one of two threads, and five addresses
let both hold an object, both make one, and one be free. The parser's decisions
depend on a line and its two neighbours, or on a token and what surrounds it, so that
the sources have three or four of them, every one next to every other, and a list
of deep ones for the limits. The locales differ in what the code asks about:
separators, group sizes, minus, symbols, the order of day, month and year, quoted
words; the amounts lie on both sides of each group and of each rounding.
`MaxWrites`, `MaxChanges`, `MaxCalls`, `MaxHold` and `MaxStrokes` bound
counters and appear in guards. Where there is a proof (see below) it removes the bounds:
on threads, messages, functions, locales, keys and writes, on the resources and
limits of the resolver and of the reference graph.

`CHECK_DEADLOCK FALSE` is set where the system comes to rest: `Resolver` after
`MaxCalls` calls, `FtlToolchain` at the end of a source. `ReferenceGraph` instead
stutters when both searches are over, so that TLC's deadlock check finds a search that
is stuck. Symmetry is over threads, and over keys or objects that nothing tells
apart, and only in runs without liveness.

### A disagreement between code and text

`lock_order_chain` ends in a counterexample: a function that formats through the
localization can block for ever. `PROJECT.json` quotes the sentence.

Seen while modelling, and not worth a run each. Each was read in the code; those marked
with * the models show as well, as the exception that a property has to make.

Runtime:

- Keys that are equal and print differently (`1` and `1.0`, say) raise a corruption
  alarm in a strict cache: the digest is of the printed key (`cache_keys.py:148`,
  against the docstring at `cache.py:230`).
- A key does not tell a subclass of a container from its base, nor one NaN from another,
  while the resolver prints the class of the one and the sign of the other: after an
  `OrderedDict`, a `dict` with the same items prints as `[OrderedDict]`, against the comment at
  `value_types.py:229`.* `IsExact` excludes them.
- A result that depends on the depth of the surrounding calls is cached under a key
  without it: a fallback made near the limit answers later calls
  (`bundle_formatting.py:206`, against `tests/test_runtime_cache_property.py:655`).
- A callable that the first of several bundles refuses stays pending and breaks the
  creation of later bundles (`orchestrator_formatting.py:214`).
- `function_registry` hands out the live registry: registering on it changes what is
  formatted without the lock and without clearing the cache (`bundle_lifecycle.py:157`).
- `IntegrityCache.clear()` leaves no audit record, so that `AuditExplainsCache` needs
  `~cleared`.*
- Isolation marks are not charged to the expansion budget, and a budget overflow in
  the first element returns the empty string.*
- Two functions of two bundles that format in each other's bundle can block behind
  two queued writers, as in `lock_order_chain`.
- `boot()` tests and sets its flag in two steps: threads that race all boot.*
- A load that `add_resource` rejects leaves its locale with a bundle.
- `get_shared_registry` gives different registries to concurrent first callers, since
  `functools.lru_cache` calls its function without its lock (`functions.py:472`).
- A second look of `LocaleContext.create` that finds an entry leaves its place in the LRU
  order as it is*; the introspection cache goes by equality, not identity as
  `docs/DOC_04_Introspection.md:56` says.
- A chain of exactly `MAX_DEPTH` references passes validation and is refused by the
  resolver (`resource_graph.py:232`); a cycle through an attribute of an entry that is
  loaded already is not seen by validation, whose graph has no such node.* `InView` in
  `PredictsCycles` excludes it.

Syntax:

- Parser, serializer, its validation, introspection and reference extraction count levels of
  nesting differently, although each says that it has the same limit: with limit 100 for
  all, the deepest nesting accepted is 100, 99, 50, 49 and 24. The parser's depth flag
  stays set for the rest of a parse.
- A malformed comment line is emitted before the comment that is pending: `# c` and then
  `#### m` come out as junk and comment (`core.py:436`).* `InSourceOrder` in the formatting
  properties excludes it.
- `parse_stream` cuts at blank lines, also those inside of a pattern, so that such a pattern
  comes out as an entry and junk.* Blank lines of a pattern are not kept by formatting
  either, and a literal `}` becomes `{ "}" }`.*
- The serializer writes FTL that does not parse for trees that no parse makes: a message
  with attributes and an empty pattern, a variant whose text begins with `[x]` or `*[`
  (against `docs/DOC_03_Parsing.md:298`).
- The extraction by attribute keeps the last of two attributes of the same name.* A
  transformer may make duplicate named arguments*, and its scalar fields are not checked.
- Errors' contexts use `splitlines()`, line offsets count `"\n"` only: they differ at
  form feeds and the like.
- The validator normalizes numeric keys in the context of `decimal`, and takes two keys that
  differ after 28 digits for one.

Values:

- NUMBER always groups by three and three (`locale_formatting.py:74`), `parse_decimal` wants the
  groups of the locale: `123,456`, as printed in hi-IN, is refused
  (`docs/PARSING_GUIDE.md`, the roundtrip rule).* `GroupsAreForeign` excludes it.
- In locales whose minus is U+2212 printed negative amounts cannot be read.*
  `MinusIsLost` excludes it.
- The comment in `_validate_group_positions` that Babel rejects non-digits independently does
  not hold for empty groups: `1,,234` is taken. Groups after the decimal mark, and of
  `parse_currency`, are not looked at.
- The precision of `0.000` typed in de-DE is 3, and a quoted digit in a pattern's suffix counts
  as a visible one up to the pattern's maximum.*
- Inference from the locale comes after the table of ambiguous symbols: `kr 100` in da-DK
  is SEK, `$` in es-UY is USD; keys of the full map are not found by their lower-case
  lookup.
- A default currency is checked for its form only; symbols that begin with three
  capitals (`FCFA`, `MOP$`) are taken for codes.*
- A quoted literal that equals a field (Lithuanian `y 'm'. MMMM d 'd'.`) becomes a directive;
  a directive twice makes `strptime` raise `re.error` out of `parse_date`, whose docstring
  says that errors are returned.* Month names are read in English only*, times only between
  the medium style's separators*.
- Eras: the code looks localized eras up by the code as it was given, strips `Common Era`
  before `Before Common Era`, and forgets that a year is BC. `parse_date` does not
  reject malformed locale codes, as the parsers of numbers do.

## Fairness

`RWLock`: weak fairness of a woken thread's loop, since the interpreter schedules a
runnable thread; of releases, and `[]<>(readerThreads[t] = 0 \/ pc[t] # "outside")`, since `with`
blocks end unless their body is stuck in the lock's own loop; never of acquisition. `LockOrder`: weak fairness of every thread's own
steps; writes are bounded, because writer preference does let an endless stream of
writers starve readers. `Resolver`: weak fairness of its next step; a custom
function is assumed to return or raise. The other modules need none: they have safety
properties only; that a parse ends is `EveryTurnAdvances`, an action property.

## Proofs

`RWLockProofs`, for any finite set of threads and any nesting bound. The invariant
`IInv` adds to the types and the properties what they rest on: a thread in a loop
holds nothing and has not both loops, a thread asleep has a reason to be, the
counters are the cardinalities of the sets they stand for, and the exclusion of
readers and writer is stated on the sets. The two acquire loops and the last
release have a lemma each. From it: `TypeCorrect`, `Exclusion`, `Counters`,
`Wakeups`, `Preference` (an action property) and `Refinement`. `MutualExclusion` and
`NoSelfWait` are conjuncts of `IInv`; no run states them, since `ImplementsMutex`
fails with the one, and TLC's deadlock check or `NoCallIsForgotten` with the other.

`FluentBundleProofs`, for any threads, ids, terms, functions and resources. The
invariant says for every point of a write what has already changed, who may be
inside the lock then, what a reader has seen so far is what the dictionaries hold,
that entries of the cache are current unless a writer is at work, and that between
writes the content is `committed`. From it: `TypeCorrect`, `Freshness`, `Atomicity`,
`Dependencies` and `Rollback`.

`SharedCachesProofs`, for any threads, locales, messages, addresses and bound. The
invariant adds to the types and to the bound of the LRU cache (whose order lists every
key once) where a thread can be with which key, and that an object which a thread has
made and not stored is nobody else's and is not in the table: without that the second
thread's step would not be a step of the abstract table. From it: `Bounded` and
`Refinement`.

`LocalizationProofs`, for any threads, messages, functions and changes, and any length of
the chain. The invariant ties a bundle object to the point of the call that builds or uses
it: the writer can be read off the program counters, no two locales have the same
object, a bundle under construction is its locale's only one, is empty, and has the
pending functions its loop is past; a bundle of the chain lacks a pending function only
until the loop of `add_function` reaches it; what a walk has seen is still there, and it
has missed nothing in the locales it is past. `ResourcesKept` alone is not inductive: a
second bundle for one locale would take the messages away. From it: `Kept`,
`CoveredFunctions` and `CurrentWalks`.

`BootProofs`, for any finite set of threads, any chain, resources and ids. The invariant
says for every phase of `boot()` what its thread has checked by then, that each load has
its result and its effect, and that those past the guard are no more than there are
threads. `Boot.cfg` checks one thread; the theorem covers any number
of them. From it: `ValidBoot` and `OneShot`.

`IntegrityCacheProofs`, for any keys, contents, sizes and number of calls. The invariant
says whose checksum an entry carries (its own key's, unless two entries have changed
places) and that the LRU order is what replaying the log gives. `Replayed` recurs over
the log; what it gives after one more record is proved by the least length at which two
recursive functions could differ. `HitsAreGenuine` needs two hypotheses about the
requests, which the theorem states and the module's assumptions do not: where memory may
fail, keys that print alike are equal (`PrintsTellKeys`); and a request is called exact
only if its key and its print tell what formatting makes of it (`KeysTellContents`). The
code digests `str(key)` (`cache_keys.py:151`), so two different keys that print alike
have one digest, and a swap of their entries in memory goes unnoticed. The
instance of the run satisfies both. From it: `Accounting`, `Audit`, `EntriesAreKept` and
`GenuineHits`.

`ResolverProofs`, for any resources, arguments, limits and modes. What holds of the
stack of frames has to hold again when the frames on top of it are gone, by a
return, a refusal or an exception that unwinds several of them. Therefore the invariant
says it of every suffix of the stack: each frame lies on one that can have called it, and
the context that a nested `format_pattern` saved fits the frames below. `Sums` relates the
kinds of frames, since the bound on the whole stack follows from that on the shared depth
only through them. From it: `BalancedDepth`.

Two more invariants of the resolver put something beside each frame that the code does not
keep. For `NoLoss` it is a goal (`Goal`): the expression or the pattern that the frame is
there for, with its arguments. While a format call has no error, every result that is right
for a frame's goal is one that the frame below can go on to its own goal with (`Linked`),
and what is evaluated now is right for the innermost one (`Expects`); so nothing needs to
be said of the whole recursion at once. A nested format call begins anew, and its frame
says what the interrupted call will do with the result (`Returns`): a function in a strict
bundle gets it only without errors, in another bundle it never learns of them. For
`RealCycles` it is the path of the frame's pattern: each of its keys leads to all later
ones (`Chained`), and what a frame has left to do is part of the last one (`Belongs`); so a
reference to a key on the path closes a cycle of references.

What a text means recurs over the resource, and no prover here does induction over data.
The relations of the meaning and of the references are therefore constants, and the
theorems assume rules of them (`MeaningRules`, `MentionRules`), not a definition. Every
rule says only that a result follows from others, none that one does not. So there are
relations with these rules, the least of them are the meaning and the references, and
what the theorems say of all such relations they say of the least: an answer without
errors has a derivation by the rules. The rules leave out what always leaves an error
(an unknown reference, a float in a text, positional arguments of a term); the fewer rules,
the stronger the theorem. TLC compares the answers with the recursive functions of
`MCResolver`, which compute the least relations for resources where no reference is cyclic.

`ReferenceGraphProofs`, for any finite resources, any limits and every order of the
neighbours. The work stack mixes markers and nodes to enter: the invariant says
that its markers are the current path (`Layered`), and that every successor of a node on
the path is dealt with, is next on the path, is still in the loop, or waits above its
node's marker (`Handled`). Dealt with means in the search that all cycles beyond it are
recorded (`Exhausted`), in the measurement that it is measured or on the path. So a node
that is left is exhausted, and a start that was visited can be skipped: each of its
cycles is a cycle of the node that the earlier search began with, reached along the way and
once around (`WayAround`), begun at another node (`TurnedCycle`). The chains are the longest by
the least counterexample. From it: `SearchExact`, `CyclesPredicted`, `ChainsLongest` and
`NoReentry`: the branch that the code marks `pragma: no cover` is dead, and the
measurement rightly has none.

All rest on the named assumptions of the modules' constants, and on nothing else but the two
hypotheses of `GenuineHits` and the rules of `NoLoss` and `RealCycles`. Only model-checked:
all liveness; the lock order; and everything about text, trees and values, whose modules
have recursive operators.

## Not modelled, and why

- Wording of diagnostics, the fields of exceptions, re-exports: no state and no decision.
- Babel's data and algorithms, `strptime`, `datetime`: external, and in the models only as
  far as the code calls them.
- ISO introspection: lookups in Babel's tables behind `functools` caches; also the other
  `functools` caches that `clear_module_caches` clears.
- Cancellation in `AsyncFluentBundle`: the worker thread goes on and the model's threads are those
  workers. The sums of statistics across bundles.
- The signatures in the function registry and the names that it makes of Python's; the type guards of
  `parsing/guards.py`; arguments that change while their call runs.
- Limits on the length of a source, a string, a number and a name; the 300 characters of the
  parser's lookahead.
- Numbering systems other than latn, eras, time zones, custom date patterns.
- Float values other than their refusal, the missing-Babel branch of selection, and
  the clamping of depth to Python's recursion limit.
- That a walk along the fallback chain is one atomic step: it is not, and no text
  says so; `WalksAreCurrent` states what does hold.
- The registry that a bundle hands out can be changed without the bundle's lock;
  the model has the bundle's own operations only.
- `PathResourceLoader`: checks of strings and of the file system.
- The fuzzers, scripts and examples beside the library: tools that call it.

## Plan

Done, in this order: lock, cache, bundle, localization, lock order, boot, resolver,
reference graph; the syntax modules, the shared caches, the values; proofs about the lock,
the bundle, the shared caches, the localization, the boot sequence, the format cache, the
resolver (its stack, its answers, its complaints about cycles) and the reference graph. Next:

1. The step from `FluentBundle`'s calls to the atomic bundle of `Localization`, as a
   refinement.
2. Cancellation in `AsyncFluentBundle`, as an action of `FluentBundle`'s threads.
