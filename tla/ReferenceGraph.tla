--------------------------- MODULE ReferenceGraph ---------------------------
(***************************************************************************)
(* What validate_resource makes of the references of a resource: the       *)
(* dependency graph of its entries and of those the bundle already has,    *)
(* the bounded search for its cycles (detect_cycles) and the longest chain *)
(* from each node (_compute_longest_paths).  Both searches are iterative:  *)
(* a step takes one item from the work stack, or one neighbour of the node *)
(* it entered.  Sets of strings have no order one can rely on, so that     *)
(* neighbours come in any order.                                           *)
(*                                                                         *)
(* An entry is a function from its parts ("value", or an attribute) to the *)
(* references in them; a node and a reference are a pair <<id, part>>, an  *)
(* id has its "msg:" or "term:" prefix.  Cycles that are rotations of each *)
(* other are one set of edges, as they are one canonical tuple in the code.*)
(***************************************************************************)
EXTENDS Naturals, Sequences, FiniteSets, SequencesExt

CONSTANTS Resources,   \* the pairs [local, known] to validate
          MaxCycles,   \* MAX_DETECTED_CYCLES
          MaxStack     \* MAX_GRAPH_DFS_STACK

FiniteEntries(entries) ==
    /\ IsFiniteSet(DOMAIN entries)
    /\ \A id \in DOMAIN entries :
          /\ IsFiniteSet(DOMAIN entries[id])
          /\ \A part \in DOMAIN entries[id] : IsFiniteSet(entries[id][part])

ASSUME ReferenceGraphAssumption ==
    /\ MaxCycles \in Nat \ {0} /\ MaxStack \in Nat \ {0}
    /\ \A r \in Resources : FiniteEntries(r.local) /\ FiniteEntries(r.known)

VARIABLES local,     \* the entries of the resource
          known,     \* the entries of the bundle
          pc,        \* "search", "measure" or "done"
          stack,     \* the work stack, its top last
          todo,      \* what the loop over a node's neighbours has not reached
          path,      \* path of the search; a history in the measurement
          active,    \* rec_stack of the search, in_stack of the measurement
          visited,   \* globally_visited
          cycles,    \* cycles and seen_canonical
          longest,   \* longest_path
          lost       \* history: whether the stack limit kept a node out

vars == <<local, known, pc, stack, todo, path, active, visited, cycles, longest, lost>>

-----------------------------------------------------------------------------
(* The graph.                                                              *)

NodesOf(entries) == UNION {{<<id, part>> : part \in DOMAIN entries[id]} : id \in DOMAIN entries}

\* A known entry has one set of references, of its value and its attributes.
Dependencies(entry) == UNION {entry[part] : part \in DOMAIN entry}

\* Mutant: the references of the bundle's own entries are not followed.
LocalGraph ==
    [n \in NodesOf(local) |-> {r \in local[n[1]][n[2]] : r[1] \in DOMAIN local \cup DOMAIN known}]

\* build_dependency_graph.  A reference counts when its id is known, whether or
\* not it has the attribute; what is no key of the graph has no dependencies.
Graph ==
    LET own == NodesOf(local)
        other == {<<id, "value">> : id \in DOMAIN known} \ own
    IN  [n \in own \cup other |->
            IF n \in own THEN {r \in local[n[1]][n[2]] : r[1] \in DOMAIN local \cup DOMAIN known}
                         ELSE Dependencies(known[n[1]])]

Successors(g, n) == IF n \in DOMAIN g THEN g[n] ELSE {}
Neighbors(n) == Successors(Graph, n)

Entering(n) == [node |-> n, entering |-> TRUE]
Exiting(n) == [node |-> n, entering |-> FALSE]
Top == Last(stack)

Init ==
    /\ \E r \in Resources : local = r.local /\ known = r.known
    /\ pc = "search"
    /\ stack = <<>> /\ todo = {} /\ path = <<>> /\ active = {} /\ visited = {}
    /\ cycles = {} /\ longest = <<>> /\ lost = FALSE

inputs == <<local, known>>

-----------------------------------------------------------------------------
(* detect_cycles                                                           *)

Searching == pc = "search" /\ Cardinality(cycles) < MaxCycles

StartSearch ==
    /\ Searching /\ stack = <<>>
    /\ \E n \in DOMAIN Graph \ visited : stack' = <<Entering(n)>>
    /\ path' = <<>> /\ active' = {}
    /\ UNCHANGED <<inputs, pc, todo, visited, cycles, longest, lost>>

Popping == Searching /\ stack # <<>> /\ todo = {}

Enter ==
    /\ Popping /\ Top.entering /\ Top.node \notin active
    /\ path' = Append(path, Top.node) /\ active' = active \cup {Top.node}
    /\ visited' = visited \cup {Top.node}
    /\ stack' = Append(Front(stack), Exiting(Top.node))
    /\ todo' = Neighbors(Top.node)
    /\ UNCHANGED <<inputs, pc, cycles, longest, lost>>

\* The path from n on, closed by the step back to n.
CycleThrough(p, n) ==
    LET from == CHOOSE i \in DOMAIN p : p[i] = n
    IN  {<<p[i], p[i + 1]>> : i \in from .. (Len(p) - 1)} \cup {<<Last(p), n>>}

AppendCycle(n) ==
    /\ n \in active
    /\ cycles' = cycles \cup {CycleThrough(path, n)}
    /\ UNCHANGED <<stack, lost>>

\* Mutant: a node that any start has visited is not entered again.
QueueUnvisited(n) ==
    /\ n \notin active
    /\ stack' = IF n \in visited THEN stack ELSE Append(stack, Entering(n))
    /\ UNCHANGED <<cycles, lost>>

Queue(n) ==
    /\ n \notin active
    /\ IF Len(stack) >= MaxStack THEN lost' = TRUE /\ UNCHANGED stack
                                 ELSE stack' = Append(stack, Entering(n)) /\ UNCHANGED lost
    /\ UNCHANGED cycles

\* One neighbour; the loop over the neighbours ends with the last cycle allowed.
Explore ==
    /\ Searching
    /\ \E n \in todo : todo' = todo \ {n} /\ (AppendCycle(n) \/ Queue(n))
    /\ UNCHANGED <<inputs, pc, path, active, visited, longest>>

Leave ==
    /\ Popping /\ ~Top.entering
    /\ path' = Front(path) /\ active' = active \ {Top.node} /\ stack' = Front(stack)
    /\ UNCHANGED <<inputs, pc, todo, visited, cycles, longest, lost>>

EndSearch ==
    /\ pc = "search"
    /\ ~Searching \/ (stack = <<>> /\ DOMAIN Graph \subseteq visited)
    /\ pc' = "measure" /\ stack' = <<>> /\ todo' = {} /\ path' = <<>> /\ active' = {}
    /\ UNCHANGED <<inputs, visited, cycles, longest, lost>>

-----------------------------------------------------------------------------
(* _compute_longest_paths                                                  *)

StartMeasure ==
    /\ pc = "measure" /\ stack = <<>>
    /\ \E n \in DOMAIN Graph \ DOMAIN longest : stack' = <<Entering(n)>>
    /\ UNCHANGED <<inputs, pc, todo, path, active, visited, cycles, longest, lost>>

Measuring == pc = "measure" /\ stack # <<>> /\ todo = {}

SkipMeasured ==
    /\ Measuring /\ Top.entering /\ Top.node \in DOMAIN longest
    /\ stack' = Front(stack)
    /\ UNCHANGED <<inputs, pc, todo, path, active, visited, cycles, longest, lost>>

Descend ==
    /\ Measuring /\ Top.entering /\ Top.node \notin DOMAIN longest
    /\ path' = Append(path, Top.node) /\ active' = active \cup {Top.node}
    /\ stack' = Append(Front(stack), Exiting(Top.node))
    /\ todo' = Neighbors(Top.node) \ (DOMAIN longest \cup active')
    /\ UNCHANGED <<inputs, pc, visited, cycles, longest, lost>>

Extend ==
    /\ pc = "measure"
    /\ \E n \in todo : todo' = todo \ {n} /\ stack' = Append(stack, Entering(n))
    /\ UNCHANGED <<inputs, pc, path, active, visited, cycles, longest, lost>>

\* The chains that begin with n and one of its measured neighbours.
Chains(n) == {<<n>> \o longest[m] : m \in Neighbors(n) \cap DOMAIN longest} \cup {<<n>>}

\* Mutant: any chain will do.
MeasureAny ==
    /\ Measuring /\ ~Top.entering
    /\ \E c \in Chains(Top.node) : longest' = [n \in DOMAIN longest \cup {Top.node} |->
                                       IF n = Top.node THEN c ELSE longest[n]]
    /\ path' = Front(path) /\ active' = active \ {Top.node} /\ stack' = Front(stack)
    /\ UNCHANGED <<inputs, pc, todo, visited, cycles, lost>>

Measure ==
    /\ Measuring /\ ~Top.entering
    /\ \E c \in Chains(Top.node) :
         /\ \A d \in Chains(Top.node) : Len(d) <= Len(c)
         /\ longest' = [n \in DOMAIN longest \cup {Top.node} |->
                            IF n = Top.node THEN c ELSE longest[n]]
    /\ path' = Front(path) /\ active' = active \ {Top.node} /\ stack' = Front(stack)
    /\ UNCHANGED <<inputs, pc, todo, visited, cycles, lost>>

EndMeasure ==
    /\ pc = "measure" /\ stack = <<>> /\ DOMAIN Graph \subseteq DOMAIN longest
    /\ pc' = "done"
    /\ UNCHANGED <<inputs, stack, todo, path, active, visited, cycles, longest, lost>>

\* Only a finished validation comes to rest.
Finished == pc = "done" /\ UNCHANGED vars

Next == \/ StartSearch \/ Enter \/ Explore \/ Leave \/ EndSearch
        \/ StartMeasure \/ SkipMeasured \/ Descend \/ Extend \/ Measure \/ EndMeasure \/ Finished

Spec == Init /\ [][Next]_vars

-----------------------------------------------------------------------------
(* The cycles and the chains of a graph, by their definition.              *)

Nodes(g) == DOMAIN g \cup UNION {g[n] : n \in DOMAIN g}

\* The simple paths from n, by their length.
Extensions(g, p) == {Append(p, m) : m \in Successors(g, Last(p)) \ Range(p)}
PathsFrom(g, n) ==
    LET longestPath == Cardinality(Nodes(g))
        paths[i \in 1 .. longestPath] ==
            IF i = 1 THEN {<<n>>} ELSE UNION {Extensions(g, p) : p \in paths[i - 1]}
    IN  UNION {paths[i] : i \in 1 .. longestPath}

Closed(g) == {p \in UNION {PathsFrom(g, n) : n \in DOMAIN g} : p[1] \in Successors(g, Last(p))}
CyclesOf(g) == {CycleThrough(p, p[1]) : p \in Closed(g)}

\* What the bundle refers to once the resource is added to it.
Loaded == [id \in DOMAIN local \cup DOMAIN known |-> IF id \in DOMAIN local THEN local[id] ELSE known[id]]
LoadedGraph == [n \in NodesOf(Loaded) |-> Loaded[n[1]][n[2]] \cap NodesOf(Loaded)]

-----------------------------------------------------------------------------

\* Whatever the limits and the order of the neighbours, each cycle reported is
\* one of the graph, and all of them are reported unless a limit was met; and the
\* markers that leave a node, which are pushed without a look at the limit, do
\* not take the work stack beyond it.
SearchIsExact ==
    /\ pc = "search" => Len(stack) <= MaxStack
    /\ pc = "done" => /\ cycles \subseteq CyclesOf(Graph)
                      /\ \/ cycles = CyclesOf(Graph)
                         \/ Cardinality(cycles) = MaxCycles
                         \/ lost

\* An attribute of an entry that the bundle has already is no node of the graph.
InView(n) == n \in NodesOf(local) \/ n[2] = "value"

\* known_msg_deps "enables detection of cross-resource cycles involving
\* dependencies OF known entries": each cycle of the bundle as it will be after
\* add_resource is found, through values and the attributes of the resource.
PredictsCycles ==
    pc = "done" =>
        \/ \A C \in CyclesOf(LoadedGraph) : (\A step \in C : InView(step[1])) => C \in cycles
        \/ Cardinality(cycles) = MaxCycles
        \/ lost

\* Every chain measured is one of the graph, without a repeated node; in a graph
\* without cycles it is the longest.
ChainsAreLongest ==
    pc = "done" =>
        \A n \in DOMAIN longest :
            LET paths == PathsFrom(Graph, n) IN
            /\ longest[n] \in paths
            /\ CyclesOf(Graph) = {} => \A p \in paths : Len(p) <= Len(longest[n])
=============================================================================
