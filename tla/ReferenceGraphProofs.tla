------------------------ MODULE ReferenceGraphProofs ------------------------
(***************************************************************************)
(* Proofs about ReferenceGraph, for any finite resources and any limits:   *)
(* the search finds the cycles there are unless a limit stops it, also     *)
(* those of the bundle that results, the chains measured are the longest,  *)
(* and no node is entered twice on one path.                               *)
(***************************************************************************)
EXTENDS ReferenceGraph, FiniteSetTheorems, SequenceTheorems, WellFoundedInduction, TLAPS

\* A path of the graph that meets no node twice.
SimplePath(g, p) ==
    /\ p \in Seq(Nodes(g))
    /\ \A i \in 1 .. (Len(p) - 1) : p[i + 1] \in Successors(g, p[i])
    /\ \A i, j \in 1 .. Len(p) : p[i] = p[j] => i = j

SimplePaths(g) == UNION {PathsFrom(g, n) : n \in DOMAIN g}

Begins(p, q) == Len(q) <= Len(p) /\ \A i \in 1 .. Len(q) : p[i] = q[i]

\* Every cycle that closes a simple path beginning with q is among cs.
Exhausted(g, q, cs) ==
    \A p \in SimplePaths(g) : Begins(p, q) =>
        \A n \in Successors(g, Last(p)) \cap Range(p) : CycleThrough(p, n) \in cs

Items(g) == [node : Nodes(g), entering : BOOLEAN]

TypeOK ==
    /\ \E r \in Resources : local = r.local /\ known = r.known
    /\ pc \in {"search", "measure", "done"}
    /\ stack \in Seq(Items(Graph))
    /\ todo \subseteq Nodes(Graph)
    /\ visited \subseteq Nodes(Graph)
    /\ IsFiniteSet(cycles) /\ Cardinality(cycles) <= MaxCycles
    /\ lost \in BOOLEAN

\* Item i of the work stack lies above the k-th marker on it and below the next.
Above(w, e, k, i) == e[k] < i /\ (k < Len(w) => i < e[k + 1])

\* The markers on the stack s, at the positions e, are the nodes of the path w;
\* what lies above a marker is a successor of its node off the path up to there.
Layered(g, s, w, e) ==
    /\ e \in [1 .. Len(w) -> 1 .. Len(s)]
    /\ \A k \in 1 .. Len(w) : s[e[k]] = Exiting(w[k])
    /\ \A j, k \in 1 .. Len(w) : j < k => e[j] < e[k]
    /\ \A i \in 1 .. Len(s) :
          \/ \E k \in 1 .. Len(w) : i = e[k]
          \/ /\ s[i].entering
             /\ \E k \in 1 .. Len(w) :
                   /\ Above(w, e, k, i)
                   /\ s[i].node \in Successors(g, w[k])
                   /\ \A j \in 1 .. k : w[j] # s[i].node
          \/ w = <<>> /\ Len(s) = 1 /\ s[i].entering /\ s[i].node \in DOMAIN g

\* Each successor m of the k-th node of the path is dealt with, which is what
\* <<k, m>> \in X means, or it waits on the stack, is being visited, or has yet
\* to be looked at.
Handled(g, s, w, e, rest, X) ==
    \A k \in 1 .. Len(w) : \A m \in Successors(g, w[k]) :
        \/ <<k, m>> \in X
        \/ \E i \in 1 .. Len(s) : s[i] = Entering(m) /\ Above(w, e, k, i)
        \/ k < Len(w) /\ m = w[k + 1]
        \/ k = Len(w) /\ m \in rest

\* Dealt with in the search: the cycle it closes is recorded, or all beyond it is
\* explored.
Explored(g, w, cs) ==
    {x \in (1 .. Len(w)) \X Nodes(g) :
        LET q == SubSeq(w, 1, x[1]) IN
        IF x[2] \in Range(q) THEN CycleThrough(q, x[2]) \in cs
                             ELSE Exhausted(g, Append(q, x[2]), cs)}

\* Dealt with in the measurement.
Measured(g, w, done) ==
    {x \in (1 .. Len(w)) \X Nodes(g) : x[2] \in done \/ \E j \in 1 .. x[1] : w[j] = x[2]}

PathInv ==
    /\ SimplePath(Graph, path)
    /\ active = Range(path)
    /\ todo # {} => path # <<>> /\ todo \subseteq Successors(Graph, Last(path))
    /\ pc = "measure" => todo \cap active = {}
    /\ pc = "done" => stack = <<>> /\ path = <<>>

\* No limit has been met.
Clean == ~lost /\ Cardinality(cycles) < MaxCycles

StackInv ==
    \E e \in [1 .. Len(path) -> 1 .. Len(stack)] :
        /\ Layered(Graph, stack, path, e)
        /\ pc = "search" /\ Clean =>
              Handled(Graph, stack, path, e, todo, Explored(Graph, path, cycles))
        /\ pc = "measure" =>
              Handled(Graph, stack, path, e, todo, Measured(Graph, path, DOMAIN longest))

\* A visited node is on a simple path that begins where the search is done, or
\* where it is now.
VisitedInv ==
    pc = "search" /\ Clean =>
        \A n \in visited :
            \E q \in SimplePaths(Graph) :
                /\ Last(q) = n
                /\ \/ Exhausted(Graph, <<q[1]>>, cycles)
                   \/ path # <<>> /\ q[1] = path[1]

CyclesInv ==
    /\ pc = "search" => Len(stack) <= MaxStack
    /\ cycles \subseteq CyclesOf(Graph)
    /\ pc # "search" => \/ cycles = CyclesOf(Graph)
                        \/ Cardinality(cycles) = MaxCycles
                        \/ lost

LongestInv ==
    /\ pc = "search" => longest = <<>>
    /\ DOMAIN longest \subseteq Nodes(Graph) \ active
    /\ \A n \in DOMAIN longest :
          /\ SimplePath(Graph, longest[n]) /\ longest[n] # <<>> /\ longest[n][1] = n
          /\ Range(longest[n]) \subseteq DOMAIN longest
    /\ CyclesOf(Graph) = {} =>
          \A n \in DOMAIN longest : \A m \in Successors(Graph, n) :
              m \in DOMAIN longest /\ Len(longest[m]) < Len(longest[n])

IInv == TypeOK /\ PathInv /\ StackInv /\ VisitedInv /\ CyclesInv /\ LongestInv

\* Where the code has a branch for a node that is being visited already
\* ("pragma: no cover") there is no such node; and where the measurement has no
\* such branch it needs none.
ReentryIsDead == stack # <<>> /\ Top.entering => Top.node \notin active

-----------------------------------------------------------------------------
(* Sequences, paths and their cycles.                                      *)

LEMMA LeastNatural ==
    ASSUME NEW S \in SUBSET Nat, S # {}
    PROVE  \E n \in S : \A m \in S : n <= m
<1>1. PICK n \in S : \A m \in S : <<m, n>> \notin OpToRel(<, Nat)
  BY NatLessThanWellFounded, WFMin
<1>2. \A m \in S : ~(m < n)
  BY <1>1 DEF OpToRel
<1>3. QED
  BY <1>2

LEMMA FrontLast ==
    ASSUME NEW S, NEW s \in Seq(S), s # <<>>
    PROVE  /\ Len(s) \in Nat \ {0}
           /\ Front(s) \in Seq(S) /\ Len(Front(s)) = Len(s) - 1
           /\ \A i \in 1 .. (Len(s) - 1) : Front(s)[i] = s[i]
           /\ Last(s) = s[Len(s)] /\ Last(s) \in S
<1>1. Len(s) \in Nat \ {0} /\ \A i \in 1 .. Len(s) : s[i] \in S
  OBVIOUS
<1>2. PICK n \in Nat : n = Len(s) - 1
  BY <1>1
<1>3. /\ SubSeq(s, 1, n) \in Seq(S)
      /\ Len(SubSeq(s, 1, n)) = IF 1 <= n THEN n - 1 + 1 ELSE 0
      /\ \A i \in 1 .. (n - 1 + 1) : SubSeq(s, 1, n)[i] = s[1 + i - 1]
  BY <1>1, <1>2, SubSeqProperties
<1> DEFINE f == SubSeq(s, 1, n)
<1>4. Len(f) = n /\ \A i \in 1 .. n : f[i] = s[i]
  <2> HIDE DEF f
  <2>1. Len(f) = (IF 1 <= n THEN n - 1 + 1 ELSE 0) /\ \A i \in 1 .. (n - 1 + 1) : f[i] = s[1 + i - 1]
    BY <1>3 DEF f
  <2>2. n - 1 + 1 = n /\ \A i \in 1 .. n : 1 + i - 1 = i
    OBVIOUS
  <2>3. QED
    BY <2>1, <2>2
<1>5. f = Front(s) /\ Last(s) = s[Len(s)] /\ f \in Seq(S)
  BY <1>2, <1>3 DEF Front, Last
<1> HIDE DEF f
<1>6. QED
  BY <1>1, <1>2, <1>4, <1>5

LEMMA Upto ==
    ASSUME NEW S, NEW s \in Seq(S), NEW k \in 1 .. Len(s)
    PROVE  /\ SubSeq(s, 1, k) \in Seq(S) /\ Len(SubSeq(s, 1, k)) = k
           /\ \A i \in 1 .. k : SubSeq(s, 1, k)[i] = s[i]
<1>1. k \in Nat /\ \A i \in 1 .. k : s[i] \in S
  OBVIOUS
<1>2. QED
  BY <1>1, SubSeqProperties

LEMMA SuccessorsAreNodes ==
    ASSUME NEW g, NEW n
    PROVE  /\ Successors(g, n) \subseteq Nodes(g)
           /\ Successors(g, n) # {} => n \in DOMAIN g
           /\ DOMAIN g \subseteq Nodes(g)
BY DEF Successors, Nodes

\* What a path is made of.
LEMMA PathElements ==
    ASSUME NEW g, NEW p, SimplePath(g, p)
    PROVE  /\ p \in Seq(Nodes(g)) /\ Len(p) \in Nat /\ DOMAIN p = 1 .. Len(p)
           /\ \A i \in 1 .. Len(p) : p[i] \in Nodes(g)
           /\ Range(p) = {p[i] : i \in 1 .. Len(p)}
           /\ p # <<>> <=> Len(p) >= 1
BY DEF SimplePath, Range

LEMMA PathFront ==
    ASSUME NEW g, NEW p, SimplePath(g, p), p # <<>>
    PROVE  /\ SimplePath(g, Front(p)) /\ Len(Front(p)) = Len(p) - 1
           /\ \A i \in 1 .. (Len(p) - 1) : Front(p)[i] = p[i]
           /\ Last(p) = p[Len(p)] /\ Last(p) \in Nodes(g)
           /\ Range(Front(p)) = Range(p) \ {Last(p)}
<1>1. p \in Seq(Nodes(g)) /\ Len(p) \in Nat \ {0}
  BY PathElements
<1>2. /\ Front(p) \in Seq(Nodes(g)) /\ Len(Front(p)) = Len(p) - 1
      /\ \A i \in 1 .. (Len(p) - 1) : Front(p)[i] = p[i]
      /\ Last(p) = p[Len(p)] /\ Last(p) \in Nodes(g)
  BY <1>1, FrontLast
<1>3. SimplePath(g, Front(p))
  <2>1. \A i \in 1 .. (Len(Front(p)) - 1) : Front(p)[i + 1] \in Successors(g, Front(p)[i])
    <3> SUFFICES ASSUME NEW i \in 1 .. (Len(Front(p)) - 1)
                 PROVE  Front(p)[i + 1] \in Successors(g, Front(p)[i])
      OBVIOUS
    <3>1. i \in 1 .. (Len(p) - 1) /\ i + 1 \in 1 .. (Len(p) - 1)
      BY <1>1, <1>2
    <3>2. QED
      BY <1>2, <3>1 DEF SimplePath
  <2>2. \A i, j \in 1 .. Len(Front(p)) : Front(p)[i] = Front(p)[j] => i = j
    <3> SUFFICES ASSUME NEW i \in 1 .. Len(Front(p)), NEW j \in 1 .. Len(Front(p)), Front(p)[i] = Front(p)[j]
                 PROVE  i = j
      OBVIOUS
    <3>1. i \in 1 .. (Len(p) - 1) /\ j \in 1 .. (Len(p) - 1) /\ i \in 1 .. Len(p) /\ j \in 1 .. Len(p)
      BY <1>1, <1>2
    <3>2. QED
      BY <1>2, <3>1 DEF SimplePath
  <2>3. QED
    BY <1>2, <2>1, <2>2 DEF SimplePath
<1>4. Range(Front(p)) = {p[i] : i \in 1 .. (Len(p) - 1)}
  BY <1>2, <1>3, PathElements
<1>5. Range(p) = {p[i] : i \in 1 .. Len(p)}
  BY PathElements
<1>6. \A i \in 1 .. (Len(p) - 1) : p[i] # p[Len(p)]
  BY <1>1 DEF SimplePath
<1>7. Range(Front(p)) = Range(p) \ {Last(p)}
  BY <1>1, <1>2, <1>4, <1>5, <1>6
<1>8. QED
  BY <1>2, <1>3, <1>7

LEMMA PathAppend ==
    ASSUME NEW g, NEW p, SimplePath(g, p), NEW n \in Nodes(g), n \notin Range(p),
           p # <<>> => n \in Successors(g, Last(p))
    PROVE  /\ SimplePath(g, Append(p, n)) /\ Len(Append(p, n)) = Len(p) + 1
           /\ \A i \in 1 .. Len(p) : Append(p, n)[i] = p[i]
           /\ Append(p, n)[Len(p) + 1] = n /\ Last(Append(p, n)) = n
           /\ Range(Append(p, n)) = Range(p) \cup {n}
<1> DEFINE q == Append(p, n)
<1>1. p \in Seq(Nodes(g)) /\ Len(p) \in Nat /\ Range(p) = {p[i] : i \in 1 .. Len(p)}
  BY PathElements
<1>2. /\ q \in Seq(Nodes(g)) /\ Len(q) = Len(p) + 1
      /\ \A i \in 1 .. Len(p) : q[i] = p[i]
      /\ q[Len(p) + 1] = n
  BY <1>1, AppendProperties
<1> HIDE DEF q
<1>3. \A i \in 1 .. (Len(q) - 1) : q[i + 1] \in Successors(g, q[i])
  <2> SUFFICES ASSUME NEW i \in 1 .. (Len(q) - 1) PROVE q[i + 1] \in Successors(g, q[i])
    OBVIOUS
  <2>1. i \in 1 .. Len(p) /\ q[i] = p[i]
    BY <1>1, <1>2
  <2>2. CASE i = Len(p)
    <3>1. p # <<>> /\ Last(p) = p[i] /\ q[i + 1] = n
      BY <1>1, <1>2, <2>1, <2>2 DEF Last
    <3>2. QED
      BY <2>1, <3>1
  <2>3. CASE i # Len(p)
    <3>1. i \in 1 .. (Len(p) - 1) /\ i + 1 \in 1 .. Len(p)
      BY <1>1, <2>1, <2>3
    <3>2. QED
      BY <1>2, <2>1, <3>1 DEF SimplePath
  <2>4. QED
    BY <2>2, <2>3
<1>4. \A i, j \in 1 .. Len(q) : q[i] = q[j] => i = j
  <2>1. \A i \in 1 .. Len(p) : p[i] # n
    BY <1>1
  <2>2. \A i \in 1 .. Len(q) : i \in 1 .. Len(p) \/ i = Len(p) + 1
    BY <1>1, <1>2
  <2>3. \A i, j \in 1 .. Len(p) : p[i] = p[j] => i = j
    BY DEF SimplePath
  <2>4. QED
    BY <1>2, <2>1, <2>2, <2>3
<1>5. SimplePath(g, q)
  BY <1>2, <1>3, <1>4 DEF SimplePath
<1>6. Range(q) = {q[i] : i \in 1 .. Len(q)}
  BY <1>5, PathElements
<1>7. 1 .. Len(q) = (1 .. Len(p)) \cup {Len(p) + 1}
  BY <1>1, <1>2
<1>8. Range(q) = Range(p) \cup {n}
  BY <1>1, <1>2, <1>6, <1>7
<1>9. Last(q) = n
  BY <1>2 DEF Last
<1>10. QED
  BY <1>2, <1>5, <1>8, <1>9 DEF q

\* A part of a path.
LEMMA PathPart ==
    ASSUME NEW g, NEW p, SimplePath(g, p), NEW a \in 1 .. Len(p), NEW b \in a .. Len(p)
    PROVE  /\ SimplePath(g, SubSeq(p, a, b)) /\ Len(SubSeq(p, a, b)) = b - a + 1
           /\ \A i \in 1 .. (b - a + 1) : SubSeq(p, a, b)[i] = p[a + i - 1]
           /\ SubSeq(p, a, b) # <<>>
           /\ Last(SubSeq(p, a, b)) = p[b]
<1> DEFINE q == SubSeq(p, a, b)
<1>1. p \in Seq(Nodes(g)) /\ Len(p) \in Nat /\ \A i \in 1 .. Len(p) : p[i] \in Nodes(g)
  BY PathElements
<1>2. a \in Nat /\ b \in Nat /\ a >= 1 /\ a <= b /\ b <= Len(p)
  BY <1>1
<1>3. \A i \in a .. b : p[i] \in Nodes(g)
  BY <1>1, <1>2
<1>4. q \in Seq(Nodes(g)) /\ Len(q) = b - a + 1 /\ \A i \in 1 .. (b - a + 1) : q[i] = p[a + i - 1]
  BY <1>2, <1>3, SubSeqProperties
<1> HIDE DEF q
<1>5. \A i \in 1 .. (Len(q) - 1) : q[i + 1] \in Successors(g, q[i])
  <2> SUFFICES ASSUME NEW i \in 1 .. (Len(q) - 1) PROVE q[i + 1] \in Successors(g, q[i])
    OBVIOUS
  <2>1. i \in 1 .. (b - a + 1) /\ i + 1 \in 1 .. (b - a + 1) /\ a + i - 1 \in 1 .. (Len(p) - 1)
        /\ a + (i + 1) - 1 = (a + i - 1) + 1
    BY <1>2, <1>4
  <2>2. p[(a + i - 1) + 1] \in Successors(g, p[a + i - 1])
    BY <2>1 DEF SimplePath
  <2>3. QED
    BY <1>4, <2>1, <2>2
<1>6. \A i, j \in 1 .. Len(q) : q[i] = q[j] => i = j
  <2> SUFFICES ASSUME NEW i \in 1 .. Len(q), NEW j \in 1 .. Len(q), q[i] = q[j] PROVE i = j
    OBVIOUS
  <2>0. i \in 1 .. (b - a + 1) /\ j \in 1 .. (b - a + 1)
    BY <1>4
  <2>1. a + i - 1 \in 1 .. Len(p) /\ a + j - 1 \in 1 .. Len(p) /\ p[a + i - 1] = p[a + j - 1]
    BY <1>1, <1>2, <1>4, <2>0
  <2>2. a + i - 1 = a + j - 1
    BY <2>1 DEF SimplePath
  <2>3. QED
    BY <1>2, <2>2
<1>7. Len(q) \in 1 .. (b - a + 1) /\ a + Len(q) - 1 = b
  BY <1>2, <1>4
<1>8. q # <<>> /\ Last(q) = p[b]
  BY <1>2, <1>4, <1>7 DEF Last
<1>9. QED
  BY <1>4, <1>5, <1>6, <1>8 DEF SimplePath, q

\* The simple paths are what PathsFrom builds, one node at a time.
PathsOf(g, n, i) == {p \in Seq(Nodes(g)) : SimplePath(g, p) /\ Len(p) = i /\ p[1] = n}

LEMMA OneNode ==
    ASSUME NEW g, NEW n \in Nodes(g)
    PROVE  PathsOf(g, n, 1) = {<<n>>}
<1>1. <<n>> \in PathsOf(g, n, 1)
  BY DEF PathsOf, SimplePath
<1>2. ASSUME NEW p \in PathsOf(g, n, 1) PROVE p = <<n>>
  BY DEF PathsOf
<1>3. QED
  BY <1>1, <1>2

LEMMA OneNodeMore ==
    ASSUME NEW g, NEW n \in Nodes(g), NEW i \in Nat \ {0}
    PROVE  UNION {Extensions(g, p) : p \in PathsOf(g, n, i)} = PathsOf(g, n, i + 1)
<1>1. ASSUME NEW p \in PathsOf(g, n, i), NEW q \in Extensions(g, p)
      PROVE  q \in PathsOf(g, n, i + 1)
  <2>1. SimplePath(g, p) /\ Len(p) = i /\ p[1] = n
    BY DEF PathsOf
  <2>2. PICK m \in Successors(g, Last(p)) \ Range(p) : q = Append(p, m)
    BY DEF Extensions
  <2>3. m \in Nodes(g)
    BY SuccessorsAreNodes
  <2>4. SimplePath(g, q) /\ Len(q) = i + 1 /\ \A j \in 1 .. Len(p) : q[j] = p[j]
    BY <2>1, <2>2, <2>3, PathAppend
  <2>5. q \in Seq(Nodes(g)) /\ q[1] = n
    BY <2>1, <2>4, PathElements
  <2>6. QED
    BY <2>4, <2>5 DEF PathsOf
<1>2. ASSUME NEW q \in PathsOf(g, n, i + 1)
      PROVE  \E p \in PathsOf(g, n, i) : q \in Extensions(g, p)
  <2>1. q \in Seq(Nodes(g)) /\ SimplePath(g, q) /\ Len(q) = i + 1 /\ q[1] = n /\ q # <<>>
    BY DEF PathsOf
  <2>2. /\ SimplePath(g, Front(q)) /\ Len(Front(q)) = i
        /\ \A j \in 1 .. i : Front(q)[j] = q[j]
        /\ Last(q) = q[i + 1] /\ Range(Front(q)) = Range(q) \ {Last(q)}
    BY <2>1, PathFront
  <2>3. Front(q) \in Seq(Nodes(g)) /\ Front(q)[1] = n /\ 1 \in 1 .. i
    BY <2>1, <2>2, PathElements
  <2>4. Front(q) \in PathsOf(g, n, i)
    BY <2>2, <2>3 DEF PathsOf
  <2>5. Last(Front(q)) = q[i] /\ q[i + 1] \in Successors(g, q[i])
    BY <2>1, <2>2 DEF Last, SimplePath
  <2>6. q[i + 1] \in Nodes(g)
    BY <2>5, SuccessorsAreNodes
  <2>7. q = Append(Front(q), q[i + 1])
    <3> DEFINE f == Front(q)
               r == Append(f, q[i + 1])
    <3>1. f \in Seq(Nodes(g)) /\ Len(f) = i /\ \A j \in 1 .. i : f[j] = q[j]
      BY <2>2, <2>3
    <3> HIDE DEF f
    <3>2. r \in Seq(Nodes(g)) /\ Len(r) = i + 1 /\ (\A j \in 1 .. i : r[j] = f[j]) /\ r[i + 1] = q[i + 1]
      BY <2>6, <3>1, AppendProperties
    <3> HIDE DEF r
    <3>3. \A j \in 1 .. (i + 1) : r[j] = q[j]
      BY <3>1, <3>2
    <3>4. q = r
      BY <2>1, <3>2, <3>3, SeqEqual
    <3>5. QED
      BY <3>4 DEF f, r
  <2>8. q[i + 1] \notin Range(Front(q))
    BY <2>2
  <2>9. q \in Extensions(g, Front(q))
    BY <2>5, <2>7, <2>8 DEF Extensions
  <2>10. QED
    BY <2>4, <2>9
<1>3. QED
  BY <1>1, <1>2

BuildsPaths(f, g, n, size) ==
    f = [i \in 1 .. size |-> IF i = 1 THEN {<<n>>} ELSE UNION {Extensions(g, p) : p \in f[i - 1]}]

LEMMA PathsAreBuilt ==
    ASSUME NEW g, NEW n \in Nodes(g), NEW size \in Nat
    PROVE  /\ BuildsPaths([i \in 1 .. size |-> PathsOf(g, n, i)], g, n, size)
           /\ \A f : BuildsPaths(f, g, n, size) => \A i \in 1 .. size : f[i] = PathsOf(g, n, i)
<1>1. BuildsPaths([i \in 1 .. size |-> PathsOf(g, n, i)], g, n, size)
  <2> DEFINE f == [i \in 1 .. size |-> PathsOf(g, n, i)]
  <2>1. ASSUME NEW i \in 1 .. size
        PROVE  f[i] = IF i = 1 THEN {<<n>>} ELSE UNION {Extensions(g, p) : p \in f[i - 1]}
    <3>1. CASE i = 1
      BY <3>1, OneNode
    <3>2. CASE i # 1
      <4>1. i - 1 \in Nat \ {0} /\ i - 1 \in 1 .. size /\ (i - 1) + 1 = i
        BY <3>2
      <4>2. UNION {Extensions(g, p) : p \in PathsOf(g, n, i - 1)} = PathsOf(g, n, (i - 1) + 1)
        BY <4>1, OneNodeMore
      <4>3. f[i - 1] = PathsOf(g, n, i - 1)
        BY <4>1
      <4>4. QED
        BY <3>2, <4>1, <4>2, <4>3
    <3>3. QED
      BY <3>1, <3>2
  <2>2. f = [i \in 1 .. size |-> f[i]]
    OBVIOUS
  <2> HIDE DEF f
  <2>3. f = [i \in 1 .. size |-> IF i = 1 THEN {<<n>>} ELSE UNION {Extensions(g, p) : p \in f[i - 1]}]
    BY <2>1, <2>2
  <2>4. QED
    BY <2>3 DEF BuildsPaths, f
<1>2. ASSUME NEW f, BuildsPaths(f, g, n, size), NEW j \in 1 .. size, f[j] # PathsOf(g, n, j)
      PROVE  FALSE
  <2> DEFINE Wrong == {i \in Nat : i \in 1 .. size /\ f[i] # PathsOf(g, n, i)}
  <2>1. PICK i \in Wrong : \A k \in Wrong : i <= k
    <3>1. j \in Wrong
      BY <1>2
    <3>2. Wrong \in SUBSET Nat /\ Wrong # {}
      BY <3>1
    <3> HIDE DEF Wrong
    <3>3. QED
      BY <3>2, LeastNatural
  <2>2. i \in 1 .. size /\ f[i] # PathsOf(g, n, i)
    BY <2>1
  <2>3. f[i] = IF i = 1 THEN {<<n>>} ELSE UNION {Extensions(g, p) : p \in f[i - 1]}
    BY <1>2, <2>2 DEF BuildsPaths
  <2>4. i # 1
    BY <2>2, <2>3, OneNode
  <2>5. i - 1 \in Nat \ {0} /\ i - 1 \in 1 .. size /\ (i - 1) + 1 = i /\ i - 1 \notin Wrong
    BY <2>1, <2>2, <2>4
  <2>6. f[i - 1] = PathsOf(g, n, i - 1)
    BY <2>5
  <2>7. UNION {Extensions(g, p) : p \in PathsOf(g, n, i - 1)} = PathsOf(g, n, i)
    BY <2>5, OneNodeMore
  <2>8. QED
    BY <2>2, <2>3, <2>4, <2>6, <2>7
<1>3. QED
  BY <1>1, <1>2

\* No path is longer than there are nodes.
LEMMA PathsAreShort ==
    ASSUME NEW g, NEW p, SimplePath(g, p), IsFiniteSet(Nodes(g))
    PROVE  Len(p) <= Cardinality(Nodes(g)) /\ Cardinality(Nodes(g)) \in Nat
<1>1. p \in Seq(Nodes(g)) /\ Len(p) \in Nat /\ p \in [1 .. Len(p) -> Nodes(g)]
  BY PathElements
<1>2. p \in Injection(1 .. Len(p), Nodes(g))
  BY <1>1 DEF SimplePath, Injection, IsInjective
<1>3. Cardinality(1 .. Len(p)) <= Cardinality(Nodes(g)) /\ Cardinality(Nodes(g)) \in Nat
  BY <1>2, FS_Injection, FS_CardinalityType
<1>4. Cardinality(1 .. Len(p)) = Len(p)
  BY <1>1, FS_Interval
<1>5. QED
  BY <1>3, <1>4

LEMMA PathsAre ==
    ASSUME NEW g, IsFiniteSet(Nodes(g)), NEW n \in Nodes(g), NEW p
    PROVE  p \in PathsFrom(g, n) <=> SimplePath(g, p) /\ p # <<>> /\ p[1] = n
<1> DEFINE size == Cardinality(Nodes(g))
           built == CHOOSE f : BuildsPaths(f, g, n, size)
<1>1. size \in Nat
  BY FS_CardinalityType
<1>2. PathsFrom(g, n) = UNION {built[i] : i \in 1 .. size}
  BY DEF PathsFrom, BuildsPaths
<1> HIDE DEF size
<1>3. BuildsPaths(built, g, n, size)
  BY <1>1, PathsAreBuilt
<1> HIDE DEF built
<1>4. \A i \in 1 .. size : built[i] = PathsOf(g, n, i)
  BY <1>1, <1>3, PathsAreBuilt
<1>5. ASSUME NEW i \in 1 .. size, p \in PathsOf(g, n, i)
      PROVE  SimplePath(g, p) /\ p # <<>> /\ p[1] = n
  BY <1>5 DEF PathsOf
<1>6. ASSUME SimplePath(g, p), p # <<>>, p[1] = n
      PROVE  Len(p) \in 1 .. size /\ p \in PathsOf(g, n, Len(p))
  <2>1. Len(p) <= size /\ Len(p) \in Nat /\ p # <<>> /\ p \in Seq(Nodes(g))
    BY <1>6, PathsAreShort, PathElements DEF size
  <2>2. QED
    BY <1>1, <1>6, <2>1 DEF PathsOf
<1>7. QED
  BY <1>2, <1>4, <1>5, <1>6

LEMMA SimplePathsAre ==
    ASSUME NEW g, IsFiniteSet(Nodes(g)), NEW p
    PROVE  p \in SimplePaths(g) <=> SimplePath(g, p) /\ p # <<>> /\ p[1] \in DOMAIN g
<1>1. \A n \in DOMAIN g : n \in Nodes(g)
  BY SuccessorsAreNodes
<1>2. \A n \in DOMAIN g : p \in PathsFrom(g, n) <=> SimplePath(g, p) /\ p # <<>> /\ p[1] = n
  BY <1>1, PathsAre
<1>3. p \in SimplePaths(g) <=> \E n \in DOMAIN g : p \in PathsFrom(g, n)
  BY DEF SimplePaths
<1>4. QED
  BY <1>2, <1>3

\* The cycle that closes a path at its j-th node.
LEMMA CycleAt ==
    ASSUME NEW g, NEW p, SimplePath(g, p), NEW j \in 1 .. Len(p)
    PROVE  CycleThrough(p, p[j]) =
               {<<p[i], p[i + 1]>> : i \in j .. (Len(p) - 1)} \cup {<<p[Len(p)], p[j]>>}
<1>1. DOMAIN p = 1 .. Len(p)
  BY PathElements
<1>2. (CHOOSE i \in DOMAIN p : p[i] = p[j]) = j
  BY <1>1 DEF SimplePath
<1>3. QED
  BY <1>2 DEF CycleThrough, Last

\* The cycles of a graph are those of its simple paths that can be closed.
LEMMA CyclesAre ==
    ASSUME NEW g, IsFiniteSet(Nodes(g)), NEW C
    PROVE  C \in CyclesOf(g) <=>
               \E p : /\ SimplePath(g, p) /\ p # <<>> /\ p[1] \in Successors(g, Last(p))
                      /\ C = CycleThrough(p, p[1])
<1>1. \A p : p \in SimplePaths(g) <=> SimplePath(g, p) /\ p # <<>> /\ p[1] \in DOMAIN g
  BY SimplePathsAre
<1>2. ASSUME NEW p, SimplePath(g, p), p # <<>>, p[1] \in Successors(g, Last(p))
      PROVE  p[1] \in DOMAIN g
  <2>1. Len(p) \in Nat /\ Len(p) >= 1
    BY <1>2, PathElements
  <2>2. CASE Len(p) = 1
    BY <1>2, <2>2, SuccessorsAreNodes DEF Last
  <2>3. CASE Len(p) # 1
    <3>1. PICK k \in Nat : k = Len(p)
      BY <2>1
    <3>2. 1 \in 1 .. (k - 1)
      BY <2>1, <2>3, <3>1
    <3>3. p[1 + 1] \in Successors(g, p[1])
      BY <1>2, <3>1, <3>2 DEF SimplePath
    <3>4. QED
      BY <3>3, SuccessorsAreNodes
  <2>4. QED
    BY <2>2, <2>3
<1>3. \A p : p \in Closed(g) <=> SimplePath(g, p) /\ p # <<>> /\ p[1] \in Successors(g, Last(p))
  BY <1>1, <1>2 DEF Closed, SimplePaths
<1>4. QED
  BY <1>3 DEF CyclesOf

\* Closing a path at any of its nodes gives a cycle of the graph.
LEMMA ClosingIsACycle ==
    ASSUME NEW g, IsFiniteSet(Nodes(g)), NEW p, SimplePath(g, p),
           NEW n \in Successors(g, Last(p)) \cap Range(p)
    PROVE  CycleThrough(p, n) \in CyclesOf(g)
<1>1. PICK j \in 1 .. Len(p) : p[j] = n
  BY PathElements
<1>2. Len(p) \in Nat /\ p # <<>> /\ j \in Nat /\ j >= 1 /\ j <= Len(p) /\ Len(p) \in j .. Len(p)
  BY <1>1, PathElements
<1> DEFINE c == SubSeq(p, j, Len(p))
<1>3. /\ SimplePath(g, c) /\ Len(c) = Len(p) - j + 1
      /\ \A i \in 1 .. (Len(p) - j + 1) : c[i] = p[j + i - 1]
      /\ c # <<>> /\ Last(c) = p[Len(p)]
  BY <1>2, PathPart
<1> HIDE DEF c
<1>4. c[1] = n /\ Last(c) = Last(p) /\ 1 \in 1 .. Len(c) /\ c[Len(c)] = p[Len(p)]
  BY <1>1, <1>2, <1>3 DEF Last
<1>5. CycleThrough(c, c[1]) = {<<c[i], c[i + 1]>> : i \in 1 .. (Len(c) - 1)} \cup {<<c[Len(c)], c[1]>>}
  BY <1>3, <1>4, CycleAt
<1>6. CycleThrough(p, p[j]) = {<<p[i], p[i + 1]>> : i \in j .. (Len(p) - 1)} \cup {<<p[Len(p)], p[j]>>}
  BY CycleAt
<1>7. {<<c[i], c[i + 1]>> : i \in 1 .. (Len(c) - 1)} = {<<p[i], p[i + 1]>> : i \in j .. (Len(p) - 1)}
  <2>1. ASSUME NEW i \in 1 .. (Len(c) - 1)
        PROVE  j + i - 1 \in j .. (Len(p) - 1) /\ c[i] = p[j + i - 1] /\ c[i + 1] = p[(j + i - 1) + 1]
    <3>1. i \in 1 .. (Len(p) - j + 1) /\ i + 1 \in 1 .. (Len(p) - j + 1) /\ j + (i + 1) - 1 = (j + i - 1) + 1
          /\ j + i - 1 \in j .. (Len(p) - 1)
      BY <1>2, <1>3
    <3>2. QED
      BY <1>3, <3>1
  <2>2. ASSUME NEW k \in j .. (Len(p) - 1)
        PROVE  \E i \in 1 .. (Len(c) - 1) : k = j + i - 1
    <3>1. k - j + 1 \in 1 .. (Len(c) - 1) /\ k = j + (k - j + 1) - 1
      BY <1>2, <1>3
    <3>2. QED
      BY <3>1
  <2>3. \A i \in 1 .. (Len(c) - 1) : <<c[i], c[i + 1]>> \in {<<p[k], p[k + 1]>> : k \in j .. (Len(p) - 1)}
    BY <2>1
  <2>4. ASSUME NEW k \in j .. (Len(p) - 1)
        PROVE  <<p[k], p[k + 1]>> \in {<<c[i], c[i + 1]>> : i \in 1 .. (Len(c) - 1)}
    <3>1. PICK i \in 1 .. (Len(c) - 1) : k = j + i - 1
      BY <2>2
    <3>2. c[i] = p[k] /\ c[i + 1] = p[k + 1]
      BY <2>1, <3>1
    <3>3. QED
      BY <3>2
  <2>5. QED
    BY <2>3, <2>4
<1>8. CycleThrough(c, c[1]) = CycleThrough(p, n)
  BY <1>1, <1>4, <1>5, <1>6, <1>7
<1>9. QED
  BY <1>3, <1>4, <1>8, CyclesAre

\* A cycle can be begun at any of its nodes.
LEMMA TurnedCycle ==
    ASSUME NEW g, NEW p, SimplePath(g, p), p # <<>>, p[1] \in Successors(g, Last(p)),
           NEW c \in 1 .. Len(p)
    PROVE  \E r : /\ SimplePath(g, r) /\ r # <<>> /\ r[1] = p[c] /\ r[1] \in Successors(g, Last(r))
                  /\ CycleThrough(r, r[1]) = CycleThrough(p, p[1])
                  /\ Range(r) = Range(p)
<1> DEFINE L == Len(p)
           t == L - c + 1
           r == [i \in 1 .. L |-> IF i <= t THEN p[c + i - 1] ELSE p[i - t]]
<1>1. p \in Seq(Nodes(g)) /\ L \in Nat /\ L >= 1 /\ \A i \in 1 .. L : p[i] \in Nodes(g)
  BY PathElements
<1>2. Last(p) = p[L]
  BY DEF Last
<1> HIDE DEF L
<1>3. c \in 1 .. L
  BY DEF L
<1>4. t \in 1 .. L /\ t = L - c + 1
  BY <1>1, <1>3
<1>5. \A i \in 1 .. L : IF i <= t THEN c + i - 1 \in c .. L ELSE i - t \in 1 .. (c - 1)
  BY <1>1, <1>3
<1>6. \A i \in 1 .. L : r[i] = IF i <= t THEN p[c + i - 1] ELSE p[i - t]
  OBVIOUS
<1>7. r \in [1 .. L -> Nodes(g)]
  <2> SUFFICES ASSUME NEW i \in 1 .. L PROVE (IF i <= t THEN p[c + i - 1] ELSE p[i - t]) \in Nodes(g)
    OBVIOUS
  <2>1. IF i <= t THEN c + i - 1 \in 1 .. L ELSE i - t \in 1 .. L
    BY <1>1, <1>3
  <2>2. QED
    BY <1>1, <2>1
<1> HIDE DEF r, t
<1>8. r \in Seq(Nodes(g)) /\ Len(r) = L /\ r # <<>>
  BY <1>1, <1>7, SeqDef
<1>9. /\ \A i \in 1 .. (L - 1) : p[i + 1] \in Successors(g, p[i])
      /\ \A i, j \in 1 .. L : p[i] = p[j] => i = j
      /\ p[1] \in Successors(g, p[L])
  BY <1>2 DEF SimplePath, L
\* Where an edge of the one is in the other.
<1>10. ASSUME NEW i \in 1 .. (L - 1)
       PROVE  \/ /\ c + i - 1 \in 1 .. (L - 1)
                 /\ r[i] = p[c + i - 1] /\ r[i + 1] = p[(c + i - 1) + 1]
              \/ i = t /\ r[i] = p[L] /\ r[i + 1] = p[1]
              \/ /\ i - t \in 1 .. (L - 1)
                 /\ i - t < c - 1
                 /\ r[i] = p[i - t] /\ r[i + 1] = p[(i - t) + 1]
  <2>1. i \in 1 .. L /\ i + 1 \in 1 .. L
    BY <1>1
  <2>2. CASE i < t
    <3>1. i <= t /\ i + 1 <= t /\ c + i - 1 \in 1 .. (L - 1) /\ c + (i + 1) - 1 = (c + i - 1) + 1
      BY <1>1, <1>3, <1>4, <2>1, <2>2
    <3>2. QED
      BY <1>6, <2>1, <3>1
  <2>3. CASE i = t
    <3>1. i <= t /\ ~(i + 1 <= t) /\ c + i - 1 = L /\ (i + 1) - t = 1
      BY <1>1, <1>3, <1>4, <2>1, <2>3
    <3>2. r[i] = p[c + i - 1] /\ r[i + 1] = p[(i + 1) - t]
      BY <1>6, <2>1, <3>1
    <3>3. QED
      BY <2>3, <3>1, <3>2
  <2>4. CASE i > t
    <3>1. ~(i <= t) /\ ~(i + 1 <= t) /\ i - t \in 1 .. (L - 1) /\ i - t < c - 1 /\ (i + 1) - t = (i - t) + 1
      BY <1>1, <1>3, <1>4, <2>1, <2>4
    <3>2. r[i] = p[i - t] /\ r[i + 1] = p[(i + 1) - t]
      BY <1>6, <2>1, <3>1
    <3>3. QED
      BY <3>1, <3>2
  <2>5. QED
    BY <1>4, <2>1, <2>2, <2>3, <2>4
<1>11. r[1] = p[c]
  BY <1>1, <1>3, <1>4, <1>6
<1>12. \/ t = L /\ c = 1 /\ r[L] = p[L]
       \/ t # L /\ c > 1 /\ r[L] = p[c - 1]
  BY <1>1, <1>3, <1>4, <1>6
<1>13. \A i \in 1 .. (L - 1) : r[i + 1] \in Successors(g, r[i])
  BY <1>9, <1>10
<1>14. \A i, j \in 1 .. L : r[i] = r[j] => i = j
  <2> SUFFICES ASSUME NEW i \in 1 .. L, NEW j \in 1 .. L, r[i] = r[j] PROVE i = j
    OBVIOUS
  <2> DEFINE Of(k) == IF k <= t THEN c + k - 1 ELSE k - t
  <2>1. Of(i) \in 1 .. L /\ Of(j) \in 1 .. L
    BY <1>1, <1>3, <1>4
  <2>2. p[Of(i)] = p[Of(j)]
    BY <1>6
  <2>3. Of(i) = Of(j)
    <3> HIDE DEF Of
    <3>1. QED
      BY <1>9, <2>1, <2>2
  <2>4. QED
    BY <1>1, <1>3, <1>4, <2>3
<1>15. SimplePath(g, r)
  BY <1>8, <1>13, <1>14 DEF SimplePath
<1>16. r[1] \in Successors(g, r[L])
  <2>1. CASE c = 1
    BY <1>3, <1>9, <1>11, <1>12, <2>1
  <2>2. CASE c # 1
    <3>1. c - 1 \in 1 .. (L - 1) /\ (c - 1) + 1 = c
      BY <1>1, <1>3, <2>2
    <3>2. QED
      BY <1>9, <1>11, <1>12, <2>2, <3>1
  <2>3. QED
    BY <2>1, <2>2
<1>17. CycleThrough(r, r[1]) = {<<r[i], r[i + 1]>> : i \in 1 .. (L - 1)} \cup {<<r[L], r[1]>>}
  <2>1. 1 \in 1 .. Len(r)
    BY <1>1, <1>8
  <2>2. CycleThrough(r, r[1]) = {<<r[i], r[i + 1]>> : i \in 1 .. (Len(r) - 1)} \cup {<<r[Len(r)], r[1]>>}
    BY <1>15, <2>1, CycleAt
  <2>3. QED
    BY <1>8, <2>2
<1>18. CycleThrough(p, p[1]) = {<<p[i], p[i + 1]>> : i \in 1 .. (L - 1)} \cup {<<p[L], p[1]>>}
  <2>1. 1 \in 1 .. Len(p)
    BY <1>1 DEF L
  <2>2. QED
    BY <2>1, CycleAt DEF L
<1>19. \A i \in 1 .. (L - 1) : <<r[i], r[i + 1]>> \in CycleThrough(p, p[1])
  BY <1>10, <1>18
<1>20. <<r[L], r[1]>> \in CycleThrough(p, p[1])
  <2>1. CASE c = 1
    BY <1>11, <1>12, <1>18, <2>1
  <2>2. CASE c # 1
    <3>1. c - 1 \in 1 .. (L - 1) /\ (c - 1) + 1 = c /\ r[L] = p[c - 1]
      BY <1>1, <1>3, <1>12, <2>2
    <3>2. QED
      BY <1>11, <1>18, <3>1
  <2>3. QED
    BY <2>1, <2>2
<1>21. ASSUME NEW k \in 1 .. (L - 1) PROVE <<p[k], p[k + 1]>> \in CycleThrough(r, r[1])
  <2>1. CASE k < c - 1
    <3>1. k + t \in 1 .. (L - 1) /\ ~(k + t <= t) /\ ~((k + t) + 1 <= t) /\ (k + t) - t = k
          /\ ((k + t) + 1) - t = k + 1 /\ k + t \in 1 .. L /\ (k + t) + 1 \in 1 .. L
      BY <1>1, <1>3, <1>4, <2>1
    <3>2. r[k + t] = p[k] /\ r[(k + t) + 1] = p[k + 1]
      BY <1>6, <3>1
    <3>3. QED
      BY <1>17, <3>1, <3>2
  <2>2. CASE k = c - 1
    <3>1. r[L] = p[k] /\ r[1] = p[k + 1]
      BY <1>1, <1>3, <1>11, <1>12, <2>2
    <3>2. QED
      BY <1>17, <3>1
  <2>3. CASE k > c - 1
    <3>1. k - c + 1 \in 1 .. (L - 1) /\ k - c + 1 <= t /\ (k - c + 1) + 1 <= t /\ c + (k - c + 1) - 1 = k
          /\ c + ((k - c + 1) + 1) - 1 = k + 1 /\ k - c + 1 \in 1 .. L /\ (k - c + 1) + 1 \in 1 .. L
      BY <1>1, <1>3, <1>4, <2>3
    <3>2. r[k - c + 1] = p[k] /\ r[(k - c + 1) + 1] = p[k + 1]
      BY <1>6, <3>1
    <3>3. QED
      BY <1>17, <3>1, <3>2
  <2>4. QED
    BY <1>1, <1>3, <2>1, <2>2, <2>3
<1>22. <<p[L], p[1]>> \in CycleThrough(r, r[1])
  <2>1. CASE t = L
    BY <1>3, <1>11, <1>12, <1>17, <2>1
  <2>2. CASE t # L
    <3>1. t \in 1 .. (L - 1) /\ t \in 1 .. L /\ t + 1 \in 1 .. L /\ t <= t /\ ~(t + 1 <= t) /\ c + t - 1 = L /\ (t + 1) - t = 1
      BY <1>1, <1>3, <1>4, <2>2
    <3>2. r[t] = p[L] /\ r[t + 1] = p[1]
      BY <1>6, <3>1
    <3>3. QED
      BY <1>17, <3>1, <3>2
  <2>3. QED
    BY <2>1, <2>2
<1>23. CycleThrough(r, r[1]) = CycleThrough(p, p[1])
  <2>1. CycleThrough(r, r[1]) \subseteq CycleThrough(p, p[1])
    BY <1>17, <1>19, <1>20
  <2>2. CycleThrough(p, p[1]) \subseteq CycleThrough(r, r[1])
    BY <1>18, <1>21, <1>22
  <2>3. QED
    BY <2>1, <2>2
<1>24. Range(r) = Range(p)
  <2>1. Range(r) = {r[i] : i \in 1 .. L} /\ Range(p) = {p[i] : i \in 1 .. L}
    BY <1>8, <1>15, PathElements DEF L
  <2>2. \A i \in 1 .. L : \E k \in 1 .. L : r[i] = p[k]
    <3> SUFFICES ASSUME NEW i \in 1 .. L PROVE \E k \in 1 .. L : r[i] = p[k]
      OBVIOUS
    <3>1. IF i <= t THEN c + i - 1 \in 1 .. L ELSE i - t \in 1 .. L
      BY <1>1, <1>3, <1>4
    <3>2. QED
      BY <1>6, <3>1
  <2>3. \A k \in 1 .. L : \E i \in 1 .. L : r[i] = p[k]
    <3> SUFFICES ASSUME NEW k \in 1 .. L PROVE \E i \in 1 .. L : r[i] = p[k]
      OBVIOUS
    <3>1. CASE k >= c
      <4>1. k - c + 1 \in 1 .. L /\ k - c + 1 <= t /\ c + (k - c + 1) - 1 = k
        BY <1>1, <1>3, <1>4, <3>1
      <4>2. QED
        BY <1>6, <4>1
    <3>2. CASE ~(k >= c)
      <4>1. k + t \in 1 .. L /\ ~(k + t <= t) /\ (k + t) - t = k
        BY <1>1, <1>3, <1>4, <3>2
      <4>2. QED
        BY <1>6, <4>1
    <3>3. QED
      BY <3>1, <3>2
  <2>4. QED
    BY <2>1, <2>2, <2>3
<1>25. Last(r) = r[L]
  BY <1>8 DEF Last
<1>26. QED
  BY <1>8, <1>11, <1>15, <1>16, <1>23, <1>24, <1>25

\* A way to a cycle, and once around it.
LEMMA WayAround ==
    ASSUME NEW g, NEW q, SimplePath(g, q), q # <<>>, NEW r, SimplePath(g, r), r # <<>>,
           q[Len(q)] = r[1], \A i \in 1 .. (Len(q) - 1) : q[i] \notin Range(r)
    PROVE  \E p : /\ SimplePath(g, p) /\ p # <<>> /\ p[1] = q[1] /\ Last(p) = Last(r)
                  /\ Range(r) \subseteq Range(p)
                  /\ CycleThrough(p, r[1]) = CycleThrough(r, r[1])
<1> DEFINE a == Len(q) - 1
           L == Len(r)
           f == Front(q)
           p == f \o r
<1>1. /\ Len(q) \in Nat /\ Len(q) >= 1 /\ L \in Nat /\ L >= 1 /\ r \in Seq(Nodes(g))
      /\ \A i \in 1 .. L : r[i] \in Range(r)
      /\ Last(r) = r[L]
  BY PathElements DEF Last
<1>2. f \in Seq(Nodes(g)) /\ SimplePath(g, f) /\ Len(f) = a /\ \A i \in 1 .. a : f[i] = q[i]
  BY PathFront, PathElements
<1>3. a \in Nat /\ Len(q) = a + 1
  BY <1>1
<1>4. /\ \A i \in 1 .. a : q[i + 1] \in Successors(g, q[i])
      /\ \A i, j \in 1 .. (a + 1) : q[i] = q[j] => i = j
      /\ \A i \in 1 .. (L - 1) : r[i + 1] \in Successors(g, r[i])
      /\ \A i, j \in 1 .. L : r[i] = r[j] => i = j
      /\ q[a + 1] = r[1]
      /\ \A i \in 1 .. a : q[i] \notin Range(r)
  BY <1>1, <1>3 DEF SimplePath
<1> HIDE DEF a, L, f
<1>0. /\ p \in Seq(Nodes(g)) /\ Len(p) = Len(f) + Len(r)
      /\ \A i \in 1 .. Len(f) + Len(r) : p[i] = IF i <= Len(f) THEN f[i] ELSE r[i - Len(f)]
  <2>1. f \in Seq(Nodes(g)) /\ r \in Seq(Nodes(g))
    BY <1>1, <1>2
  <2> HIDE DEF a, L, f
  <2>2. QED
    BY ONLY <2>1, ConcatProperties
<1> HIDE DEF p
<1>5. /\ p \in Seq(Nodes(g)) /\ Len(p) = a + L
      /\ \A i \in 1 .. (a + L) : p[i] = IF i <= a THEN f[i] ELSE r[i - a]
  BY <1>0, <1>2 DEF L
<1>6. \A i \in 1 .. a : p[i] = q[i]
  BY <1>1, <1>2, <1>3, <1>5
<1>7. \A i \in 1 .. L : p[a + i] = r[i]
  <2> SUFFICES ASSUME NEW i \in 1 .. L PROVE p[a + i] = r[i]
    OBVIOUS
  <2>1. a + i \in 1 .. (a + L) /\ ~(a + i <= a) /\ (a + i) - a = i
    BY <1>1, <1>3
  <2>2. QED
    BY <1>5, <2>1
<1>8. \A i \in 1 .. (a + 1) : p[i] = q[i]
  <2> SUFFICES ASSUME NEW i \in 1 .. (a + 1) PROVE p[i] = q[i]
    OBVIOUS
  <2>1. CASE i = a + 1
    BY <1>1, <1>4, <1>7, <2>1
  <2>2. CASE i # a + 1
    <3>1. i \in 1 .. a
      BY <1>3, <2>2
    <3>2. QED
      BY <1>6, <3>1
  <2>3. QED
    BY <2>1, <2>2
<1>9. ASSUME NEW i \in 1 .. (a + L - 1) PROVE p[i + 1] \in Successors(g, p[i])
  <2>1. CASE i <= a
    <3>1. i \in 1 .. a /\ i \in 1 .. (a + 1) /\ i + 1 \in 1 .. (a + 1)
      BY <1>3, <2>1
    <3>2. QED
      BY <1>4, <1>8, <3>1
  <2>2. CASE ~(i <= a)
    <3>1. i - a \in 1 .. (L - 1) /\ i - a \in 1 .. L /\ (i - a) + 1 \in 1 .. L
          /\ a + (i - a) = i /\ a + ((i - a) + 1) = i + 1
      BY <1>1, <1>3, <2>2
    <3>2. p[i] = r[i - a] /\ p[i + 1] = r[(i - a) + 1]
      BY <1>7, <3>1
    <3>3. QED
      BY <1>4, <3>1, <3>2
  <2>3. QED
    BY <2>1, <2>2
<1>10. ASSUME NEW i \in 1 .. (a + L), NEW j \in 1 .. (a + L), p[i] = p[j] PROVE i = j
  <2>0. \A k \in 1 .. (a + L) : \/ k \in 1 .. a /\ p[k] = q[k] /\ p[k] \notin Range(r)
                                \/ k - a \in 1 .. L /\ k > a /\ p[k] = r[k - a] /\ p[k] \in Range(r)
    <3> SUFFICES ASSUME NEW k \in 1 .. (a + L)
                 PROVE  \/ k \in 1 .. a /\ p[k] = q[k] /\ p[k] \notin Range(r)
                        \/ k - a \in 1 .. L /\ k > a /\ p[k] = r[k - a] /\ p[k] \in Range(r)
      OBVIOUS
    <3>1. CASE k <= a
      <4>1. k \in 1 .. a
        BY <1>3, <3>1
      <4>2. QED
        BY <1>4, <1>6, <4>1
    <3>2. CASE ~(k <= a)
      <4>1. k - a \in 1 .. L /\ k > a /\ a + (k - a) = k
        BY <1>1, <1>3, <3>2
      <4>2. p[k] = r[k - a]
        BY <1>7, <4>1
      <4>3. QED
        BY <1>1, <4>1, <4>2
    <3>3. QED
      BY <3>1, <3>2
  <2>1. CASE p[i] \in Range(r)
    <3>1. i - a \in 1 .. L /\ j - a \in 1 .. L /\ r[i - a] = r[j - a]
      BY <1>10, <2>0, <2>1
    <3>2. i - a = j - a
      BY <1>4, <3>1
    <3>3. QED
      BY <1>3, <3>2
  <2>2. CASE p[i] \notin Range(r)
    <3>1. i \in 1 .. a /\ j \in 1 .. a /\ q[i] = q[j]
      BY <1>10, <2>0, <2>2
    <3>2. i \in 1 .. (a + 1) /\ j \in 1 .. (a + 1)
      BY <1>3, <3>1
    <3>3. QED
      BY <1>4, <3>1, <3>2
  <2>3. QED
    BY <2>1, <2>2
<1>11. SimplePath(g, p)
  <2>1. Len(p) = a + L /\ a + L \in Nat /\ p \in Seq(Nodes(g))
    BY <1>1, <1>3, <1>5
  <2>2. \A i \in 1 .. (Len(p) - 1) : p[i + 1] \in Successors(g, p[i])
    BY <1>1, <1>3, <1>9, <2>1
  <2>3. \A i, j \in 1 .. Len(p) : p[i] = p[j] => i = j
    BY <1>10, <2>1
  <2>4. QED
    BY <2>1, <2>2, <2>3 DEF SimplePath
<1>12. Len(p) = a + L /\ a + 1 \in 1 .. Len(p) /\ p[a + 1] = r[1] /\ p[Len(p)] = r[L] /\ p[1] = q[1] /\ p # <<>>
  <2>1. 1 \in 1 .. L /\ L \in 1 .. L /\ 1 \in 1 .. (a + 1)
    BY <1>1, <1>3
  <2>2. QED
    BY <1>1, <1>3, <1>5, <1>7, <1>8, <2>1
<1>13. Last(p) = Last(r)
  BY <1>1, <1>12 DEF Last
<1>14. Range(r) \subseteq Range(p)
  <2>1. Range(r) = {r[i] : i \in 1 .. L} /\ Range(p) = {p[i] : i \in 1 .. Len(p)}
    BY <1>11, PathElements DEF L
  <2>2. \A i \in 1 .. L : a + i \in 1 .. Len(p)
    BY <1>1, <1>3, <1>5
  <2>3. QED
    BY <1>7, <2>1, <2>2
<1>15. CycleThrough(p, r[1]) = {<<p[i], p[i + 1]>> : i \in (a + 1) .. (Len(p) - 1)} \cup {<<r[L], r[1]>>}
  <2>0. \A j \in 1 .. Len(p) :
            CycleThrough(p, p[j]) = {<<p[i], p[i + 1]>> : i \in j .. (Len(p) - 1)} \cup {<<p[Len(p)], p[j]>>}
    BY <1>11, CycleAt
  <2>1. CycleThrough(p, p[a + 1]) =
            {<<p[i], p[i + 1]>> : i \in (a + 1) .. (Len(p) - 1)} \cup {<<p[Len(p)], p[a + 1]>>}
    <3>1. a + 1 \in 1 .. Len(p)
      BY <1>12
    <3>2. QED
      BY <2>0, <3>1
  <2> DEFINE E == {<<p[i], p[i + 1]>> : i \in (a + 1) .. (Len(p) - 1)}
  <2> HIDE DEF E
  <2>2. CycleThrough(p, p[a + 1]) = E \cup {<<p[Len(p)], p[a + 1]>>}
    BY <2>1 DEF E
  <2>3. p[Len(p)] = r[L] /\ p[a + 1] = r[1]
    BY <1>12
  <2>4. CycleThrough(p, r[1]) = E \cup {<<r[L], r[1]>>}
    BY <2>2, <2>3
  <2>5. QED
    BY <2>4 DEF E
<1>16. CycleThrough(r, r[1]) = {<<r[i], r[i + 1]>> : i \in 1 .. (L - 1)} \cup {<<r[L], r[1]>>}
  BY <1>1, CycleAt DEF L
<1>17. \A i \in (a + 1) .. (Len(p) - 1) :
           i - a \in 1 .. (L - 1) /\ p[i] = r[i - a] /\ p[i + 1] = r[(i - a) + 1]
  <2> SUFFICES ASSUME NEW i \in (a + 1) .. (Len(p) - 1)
               PROVE  i - a \in 1 .. (L - 1) /\ p[i] = r[i - a] /\ p[i + 1] = r[(i - a) + 1]
    OBVIOUS
  <2>0. i \in (a + 1) .. (a + L - 1)
    <3>1. Len(p) = a + L
      BY <1>12
    <3>2. QED
      BY <1>1, <1>3, <3>1
  <2>1. i - a \in 1 .. (L - 1) /\ i - a \in 1 .. L /\ (i - a) + 1 \in 1 .. L
        /\ a + (i - a) = i /\ a + ((i - a) + 1) = i + 1
    BY <1>1, <1>3, <2>0
  <2>2. QED
    BY <1>7, <2>1
<1>18. \A i \in 1 .. (L - 1) : \E k \in (a + 1) .. (Len(p) - 1) : k - a = i
  <2> SUFFICES ASSUME NEW i \in 1 .. (L - 1) PROVE \E k \in (a + 1) .. (Len(p) - 1) : k - a = i
    OBVIOUS
  <2>1. a + i \in (a + 1) .. (Len(p) - 1) /\ (a + i) - a = i
    BY <1>1, <1>3, <1>5
  <2>2. QED
    BY <2>1
<1>19. {<<p[i], p[i + 1]>> : i \in (a + 1) .. (Len(p) - 1)} = {<<r[i], r[i + 1]>> : i \in 1 .. (L - 1)}
  BY <1>17, <1>18
<1>20. QED
  BY <1>11, <1>12, <1>13, <1>14, <1>15, <1>16, <1>19

\* The first node of a path in a set.
LEMMA FirstMeeting ==
    ASSUME NEW g, NEW q, SimplePath(g, q), q # <<>>, NEW S, Last(q) \in S
    PROVE  \E p : /\ SimplePath(g, p) /\ p # <<>> /\ p[1] = q[1] /\ p[Len(p)] \in S
                  /\ \A i \in 1 .. (Len(p) - 1) : p[i] \notin S
<1> DEFINE Meets == {i \in Nat : i \in 1 .. Len(q) /\ q[i] \in S}
<1>1. Len(q) \in Nat /\ Len(q) >= 1
  BY PathElements
<1>2. PICK k \in Meets : \A i \in Meets : k <= i
  <2>1. Len(q) \in Meets
    BY <1>1 DEF Last
  <2>2. Meets \in SUBSET Nat /\ Meets # {}
    BY <2>1
  <2> HIDE DEF Meets
  <2>3. QED
    BY <2>2, LeastNatural
<1>3. k \in Nat /\ k \in 1 .. Len(q) /\ q[k] \in S /\ \A i \in 1 .. (k - 1) : q[i] \notin S
  BY <1>1, <1>2
<1>4. 1 \in 1 .. Len(q) /\ k \in 1 .. Len(q)
  BY <1>1, <1>3
<1> DEFINE p == SubSeq(q, 1, k)
<1>5. SimplePath(g, p) /\ Len(p) = k - 1 + 1 /\ (\A i \in 1 .. (k - 1 + 1) : p[i] = q[1 + i - 1]) /\ p # <<>>
  BY <1>4, PathPart
<1> HIDE DEF p
<1>6. Len(p) = k /\ \A i \in 1 .. k : p[i] = q[i]
  BY <1>3, <1>5
<1>7. QED
  BY <1>3, <1>5, <1>6

\* Where all that is to be explored from some start of each node is explored,
\* all cycles are found.
LEMMA NoCycleIsMissed ==
    ASSUME NEW g, IsFiniteSet(Nodes(g)), NEW cs,
           \A n \in DOMAIN g : \E q \in SimplePaths(g) : Last(q) = n /\ Exhausted(g, <<q[1]>>, cs)
    PROVE  CyclesOf(g) \subseteq cs
<1> SUFFICES ASSUME NEW C \in CyclesOf(g) PROVE C \in cs
  OBVIOUS
<1>1. PICK p : /\ SimplePath(g, p) /\ p # <<>> /\ p[1] \in Successors(g, Last(p))
               /\ C = CycleThrough(p, p[1])
  BY CyclesAre
<1>2. Last(p) \in DOMAIN g /\ Last(p) \in Range(p)
  <2>1. Last(p) \in DOMAIN g
    BY <1>1, SuccessorsAreNodes
  <2>2. Len(p) \in 1 .. Len(p) /\ Range(p) = {p[i] : i \in 1 .. Len(p)}
    BY <1>1, PathElements
  <2>3. QED
    BY <2>1, <2>2 DEF Last
<1>3. PICK q \in SimplePaths(g) : Last(q) = Last(p) /\ Exhausted(g, <<q[1]>>, cs)
  BY <1>2
<1>4. SimplePath(g, q) /\ q # <<>> /\ q[1] \in DOMAIN g
  BY SimplePathsAre
<1>5. PICK w : /\ SimplePath(g, w) /\ w # <<>> /\ w[1] = q[1] /\ w[Len(w)] \in Range(p)
               /\ \A i \in 1 .. (Len(w) - 1) : w[i] \notin Range(p)
  BY <1>2, <1>3, <1>4, FirstMeeting
<1>6. PICK c \in 1 .. Len(p) : p[c] = w[Len(w)]
  BY <1>1, <1>5, PathElements
<1>7. PICK r : /\ SimplePath(g, r) /\ r # <<>> /\ r[1] = p[c] /\ r[1] \in Successors(g, Last(r))
               /\ CycleThrough(r, r[1]) = CycleThrough(p, p[1])
               /\ Range(r) = Range(p)
  BY <1>1, TurnedCycle
<1>8. PICK v : /\ SimplePath(g, v) /\ v # <<>> /\ v[1] = w[1] /\ Last(v) = Last(r)
               /\ Range(r) \subseteq Range(v)
               /\ CycleThrough(v, r[1]) = CycleThrough(r, r[1])
  BY <1>5, <1>6, <1>7, WayAround
<1>9. v \in SimplePaths(g)
  BY <1>4, <1>5, <1>8, SimplePathsAre
<1>10. Begins(v, <<q[1]>>)
  <2>1. Len(v) \in Nat /\ Len(v) >= 1
    BY <1>8, PathElements
  <2>2. QED
    BY <1>5, <1>8, <2>1 DEF Begins
<1>11. r[1] \in Range(v)
  <2>1. 1 \in 1 .. Len(r) /\ Range(r) = {r[i] : i \in 1 .. Len(r)}
    BY <1>7, PathElements
  <2>2. QED
    BY <1>8, <2>1
<1>12. CycleThrough(v, r[1]) \in cs
  BY <1>3, <1>7, <1>8, <1>9, <1>10, <1>11 DEF Exhausted
<1>13. QED
  BY <1>1, <1>7, <1>8, <1>12

-----------------------------------------------------------------------------
(* The work stack.                                                         *)

\* What is known of a work stack whose markers are the nodes of a path.
Stacked(g, s, w, e) ==
    /\ s \in Seq(Items(g)) /\ SimplePath(g, w)
    /\ Layered(g, s, w, e)

LEMMA StackElements ==
    ASSUME NEW g, NEW s, NEW w, NEW e, Stacked(g, s, w, e)
    PROVE  /\ s \in Seq(Items(g)) /\ Len(s) \in Nat
           /\ \A i \in 1 .. Len(s) : s[i].node \in Nodes(g) /\ s[i].entering \in BOOLEAN
                                     /\ s[i] = [node |-> s[i].node, entering |-> s[i].entering]
           /\ w \in Seq(Nodes(g)) /\ Len(w) \in Nat /\ (w = <<>> <=> Len(w) = 0)
           /\ \A k \in 1 .. Len(w) : e[k] \in 1 .. Len(s) /\ e[k] \in Nat
           /\ \A k \in 1 .. Len(w) : e[k] <= Len(s) /\ (k < Len(w) => k + 1 \in 1 .. Len(w) /\ e[k] < e[k + 1])
<1>1. s \in Seq(Items(g)) /\ Len(s) \in Nat
  BY DEF Stacked
<1>2. w \in Seq(Nodes(g)) /\ Len(w) \in Nat /\ (w = <<>> <=> Len(w) = 0)
  BY PathElements DEF Stacked
<1>3. \A i \in 1 .. Len(s) : s[i] \in Items(g)
  BY <1>1
<1>4. e \in [1 .. Len(w) -> 1 .. Len(s)]
  BY DEF Stacked, Layered
<1>5. \A k \in 1 .. Len(w) : e[k] \in 1 .. Len(s) /\ e[k] \in Nat /\ e[k] <= Len(s)
  BY <1>1, <1>4
<1>6. \A j, k \in 1 .. Len(w) : j < k => e[j] < e[k]
  BY DEF Stacked, Layered
<1>7. \A k \in 1 .. Len(w) : k < Len(w) => k + 1 \in 1 .. Len(w) /\ e[k] < e[k + 1]
  BY <1>2, <1>6
<1>8. QED
  BY <1>1, <1>2, <1>3, <1>5, <1>7 DEF Items

LEMMA TopEntering ==
    ASSUME NEW g, NEW s, NEW w, NEW e, Stacked(g, s, w, e), s # <<>>, Last(s).entering
    PROVE  /\ w = <<>> => Last(s).node \in DOMAIN g
           /\ w # <<>> => Last(s).node \in Successors(g, Last(w))
           /\ Last(s).node \in Nodes(g)
           /\ Last(s).node \notin Range(w)
           /\ Last(s) = Entering(Last(s).node)
           /\ \A k \in 1 .. Len(w) : e[k] < Len(s)
           /\ w = <<>> => Len(s) = 1
<1> DEFINE i == Len(s)
<1>1. /\ i \in Nat /\ i \in 1 .. i /\ Last(s) = s[i] /\ w \in Seq(Nodes(g)) /\ Len(w) \in Nat
      /\ \A k \in 1 .. Len(w) : e[k] \in Nat /\ e[k] <= i /\ (k < Len(w) => k + 1 \in 1 .. Len(w))
      /\ (w = <<>> <=> Len(w) = 0)
      /\ Last(s).node \in Nodes(g) /\ Last(s) = Entering(Last(s).node)
  <2>1. i \in Nat /\ i >= 1 /\ Last(s) = s[i]
    BY StackElements DEF Last
  <2>2. i \in 1 .. i
    BY <2>1
  <2>3. s[i].node \in Nodes(g) /\ s[i].entering \in BOOLEAN
        /\ s[i] = [node |-> s[i].node, entering |-> s[i].entering]
    BY <2>2, StackElements
  <2>4. Last(s).node \in Nodes(g) /\ Last(s) = Entering(Last(s).node)
    <3>1. s[i].entering = TRUE
      BY <2>1, <2>3
    <3>2. QED
      BY <2>1, <2>3, <3>1 DEF Entering
  <2>5. QED
    BY <2>1, <2>2, <2>4, StackElements
<1>2. \A k \in 1 .. Len(w) : e[k] # i
  <2>1. \A k \in 1 .. Len(w) : s[e[k]] = Exiting(w[k])
    BY DEF Stacked, Layered
  <2>2. \A n : Exiting(n).entering = FALSE
    BY DEF Exiting
  <2>3. s[i].entering
    BY <1>1
  <2> HIDE DEF i
  <2>4. QED
    BY <2>1, <2>2, <2>3
<1>3. \/ \E k \in 1 .. Len(w) : /\ Above(w, e, k, i)
                                /\ s[i].node \in Successors(g, w[k])
                                /\ \A j \in 1 .. k : w[j] # s[i].node
      \/ w = <<>> /\ Len(s) = 1 /\ s[i].node \in DOMAIN g
  BY <1>1, <1>2 DEF Stacked, Layered
<1> HIDE DEF i
<1>4. Range(w) = {w[j] : j \in 1 .. Len(w)}
  BY PathElements DEF Stacked
<1>5. CASE \E k \in 1 .. Len(w) : /\ Above(w, e, k, i)
                                  /\ s[i].node \in Successors(g, w[k])
                                  /\ \A j \in 1 .. k : w[j] # s[i].node
  <2>1. PICK k \in 1 .. Len(w) : /\ Above(w, e, k, i)
                                 /\ s[i].node \in Successors(g, w[k])
                                 /\ \A j \in 1 .. k : w[j] # s[i].node
    BY <1>5
  <2>2. k = Len(w)
    <3>1. ~(k < Len(w))
      BY <1>1, <2>1 DEF Above
    <3>2. QED
      BY <1>1, <3>1
  <2>3. w # <<>> /\ Last(w) = w[k]
    BY <1>1, <2>2 DEF Last
  <2>4. QED
    BY <1>1, <1>2, <1>4, <2>1, <2>2, <2>3 DEF i
<1>6. CASE w = <<>> /\ Len(s) = 1 /\ s[i].node \in DOMAIN g
  BY <1>1, <1>4, <1>6 DEF i
<1>7. QED
  BY <1>3, <1>5, <1>6

LEMMA TopExiting ==
    ASSUME NEW g, NEW s, NEW w, NEW e, Stacked(g, s, w, e), s # <<>>, ~Last(s).entering
    PROVE  /\ w # <<>> /\ Len(w) \in 1 .. Len(w) /\ e[Len(w)] = Len(s)
           /\ Last(s).node = Last(w)
           /\ \A k \in 1 .. Len(w) : k < Len(w) => e[k] < Len(s)
<1>1. /\ Len(s) \in Nat /\ Len(s) \in 1 .. Len(s) /\ Last(s) = s[Len(s)]
      /\ w \in Seq(Nodes(g)) /\ Len(w) \in Nat
      /\ \A k \in 1 .. Len(w) : e[k] \in Nat /\ e[k] <= Len(s)
      /\ \A k \in 1 .. Len(w) : k < Len(w) => k + 1 \in 1 .. Len(w) /\ e[k] < e[k + 1]
  BY StackElements DEF Last
<1>2. PICK k \in 1 .. Len(w) : Len(s) = e[k]
  BY <1>1 DEF Stacked, Layered
<1>3. k = Len(w)
  <2>1. CASE k < Len(w)
    BY <1>1, <1>2, <2>1
  <2>2. QED
    BY <1>1, <2>1
<1>4. s[Len(s)] = Exiting(w[k])
  BY <1>2 DEF Stacked, Layered
<1>5. w # <<>> /\ Last(w) = w[k]
  BY <1>1, <1>3 DEF Last
<1>6. \A j \in 1 .. Len(w) : j < Len(w) => e[j] < Len(s)
  BY <1>1, <1>2, <1>3 DEF Stacked, Layered
<1>7. QED
  BY <1>1, <1>2, <1>3, <1>4, <1>5, <1>6 DEF Exiting

\* Entering the node on the top of the stack.
LEMMA EnterLayers ==
    ASSUME NEW g, NEW s, NEW w, NEW e, Stacked(g, s, w, e), s # <<>>, Last(s).entering,
           NEW X, NEW Y, NEW rest,
           \A k \in 1 .. Len(w) : \A m \in Nodes(g) : <<k, m>> \in X => <<k, m>> \in Y,
           \A m \in Successors(g, Last(s).node) : m \in rest \/ <<Len(w) + 1, m>> \in Y
    PROVE  \E f \in [1 .. Len(Append(w, Last(s).node)) -> 1 .. Len(s)] :
              /\ Stacked(g, Append(Front(s), Exiting(Last(s).node)), Append(w, Last(s).node), f)
              /\ Handled(g, s, w, e, {}, X) =>
                     Handled(g, Append(Front(s), Exiting(Last(s).node)), Append(w, Last(s).node), f, rest, Y)
<1> DEFINE n == Last(s).node
           t == Append(Front(s), Exiting(n))
           v == Append(w, n)
           f == [k \in 1 .. (Len(w) + 1) |-> IF k <= Len(w) THEN e[k] ELSE Len(s)]
<1>1. /\ Len(s) \in Nat /\ Len(s) >= 1 /\ s \in Seq(Items(g))
      /\ w \in Seq(Nodes(g)) /\ Len(w) \in Nat /\ (w = <<>> <=> Len(w) = 0)
      /\ \A k \in 1 .. Len(w) : e[k] \in 1 .. Len(s) /\ e[k] \in Nat
      /\ \A k \in 1 .. Len(w) : k < Len(w) => k + 1 \in 1 .. Len(w) /\ e[k] < e[k + 1]
  BY StackElements
<1>2. /\ w # <<>> => n \in Successors(g, Last(w))
      /\ n \in Nodes(g) /\ n \notin Range(w) /\ Last(s) = Entering(n)
      /\ \A k \in 1 .. Len(w) : e[k] < Len(s)
      /\ w = <<>> => Len(s) = 1
  BY TopEntering
<1>3. Exiting(n) \in Items(g)
  BY <1>2 DEF Exiting, Items
<1>4. s[Len(s)] = Last(s)
  BY DEF Last
<1> HIDE DEF n
<1>5. /\ t \in Seq(Items(g)) /\ Len(t) = Len(s) /\ t[Len(s)] = Exiting(n)
      /\ \A i \in 1 .. (Len(s) - 1) : t[i] = s[i]
  <2> DEFINE r == Front(s)
  <2>1. r \in Seq(Items(g)) /\ Len(r) = Len(s) - 1 /\ \A i \in 1 .. (Len(s) - 1) : r[i] = s[i]
    BY <1>1, FrontLast
  <2> HIDE DEF r
  <2>2. /\ Append(r, Exiting(n)) \in Seq(Items(g)) /\ Len(Append(r, Exiting(n))) = Len(r) + 1
        /\ \A i \in 1 .. Len(r) : Append(r, Exiting(n))[i] = r[i]
        /\ Append(r, Exiting(n))[Len(r) + 1] = Exiting(n)
    BY <1>3, <2>1, AppendProperties
  <2>3. t = Append(r, Exiting(n))
    BY DEF r
  <2> HIDE DEF t
  <2>4. (Len(s) - 1) + 1 = Len(s)
    BY <1>1
  <2>5. QED
    BY <2>1, <2>2, <2>3, <2>4
<1>6. /\ SimplePath(g, v) /\ Len(v) = Len(w) + 1 /\ v[Len(w) + 1] = n
      /\ \A k \in 1 .. Len(w) : v[k] = w[k]
  BY <1>2, PathAppend DEF Stacked
<1> HIDE DEF t, v
<1>7. /\ \A k \in 1 .. Len(w) : k \in 1 .. (Len(w) + 1) /\ f[k] = e[k]
      /\ f[Len(w) + 1] = Len(s)
      /\ f \in [1 .. Len(v) -> 1 .. Len(s)]
      /\ 1 .. Len(v) = 1 .. Len(w) \cup {Len(w) + 1}
  BY <1>1, <1>6
<1> HIDE DEF f
<1>8. ASSUME NEW k \in 1 .. Len(w), NEW i \in 1 .. (Len(s) - 1), Above(w, e, k, i)
      PROVE  Above(v, f, k, i)
  <2>1. i < Len(s) /\ f[k] = e[k]
    BY <1>1, <1>7
  <2>2. CASE k < Len(w)
    <3>1. k + 1 \in 1 .. Len(w) /\ f[k + 1] = e[k + 1]
      BY <1>1, <1>7, <2>2
    <3>2. QED
      BY <1>8, <2>1, <2>2, <3>1 DEF Above
  <2>3. CASE ~(k < Len(w))
    <3>1. k + 1 = Len(w) + 1
      BY <1>1, <2>3
    <3>2. QED
      BY <1>7, <1>8, <2>1, <3>1 DEF Above
  <2>4. QED
    BY <2>2, <2>3
<1>9. Layered(g, t, v, f)
  <2>1. \A k \in 1 .. Len(v) : t[f[k]] = Exiting(v[k])
    <3>1. \A k \in 1 .. Len(w) : e[k] \in 1 .. (Len(s) - 1) /\ s[e[k]] = Exiting(w[k])
      BY <1>1, <1>2 DEF Stacked, Layered
    <3>2. \A k \in 1 .. Len(w) : t[f[k]] = Exiting(v[k])
      BY <1>5, <1>6, <1>7, <3>1
    <3>3. t[f[Len(w) + 1]] = Exiting(v[Len(w) + 1])
      BY <1>5, <1>6, <1>7
    <3>4. QED
      BY <1>7, <3>2, <3>3
  <2>2. \A j, k \in 1 .. Len(v) : j < k => f[j] < f[k]
    <3>1. \A j, k \in 1 .. Len(w) : j < k => e[j] < e[k]
      BY DEF Stacked, Layered
    <3>2. \A k \in 1 .. Len(w) : ~(Len(w) + 1 < k) /\ k # Len(w) + 1
      BY <1>1
    <3>3. ~(Len(w) + 1 < Len(w) + 1)
      BY <1>1
    <3>4. QED
      BY <1>2, <1>7, <3>1, <3>2, <3>3
  <2>3. ASSUME NEW i \in 1 .. Len(t)
        PROVE  \/ \E k \in 1 .. Len(v) : i = f[k]
               \/ /\ t[i].entering
                  /\ \E k \in 1 .. Len(v) :
                        /\ Above(v, f, k, i)
                        /\ t[i].node \in Successors(g, v[k])
                        /\ \A j \in 1 .. k : v[j] # t[i].node
    <3>1. CASE i = Len(s)
      BY <1>7, <3>1
    <3>2. CASE i # Len(s)
      <4>1. i \in 1 .. (Len(s) - 1) /\ t[i] = s[i] /\ i \in 1 .. Len(s) /\ Len(s) # 1
        BY <1>1, <1>5, <3>2
      <4>2. w # <<>>
        BY <1>2, <4>1
      <4>3. \/ \E k \in 1 .. Len(w) : i = e[k]
            \/ /\ s[i].entering
               /\ \E k \in 1 .. Len(w) :
                     /\ Above(w, e, k, i)
                     /\ s[i].node \in Successors(g, w[k])
                     /\ \A j \in 1 .. k : w[j] # s[i].node
        BY <4>1, <4>2 DEF Stacked, Layered
      <4>4. CASE \E k \in 1 .. Len(w) : i = e[k]
        BY <1>7, <4>4
      <4>5. CASE s[i].entering /\ \E k \in 1 .. Len(w) :
                     /\ Above(w, e, k, i)
                     /\ s[i].node \in Successors(g, w[k])
                     /\ \A j \in 1 .. k : w[j] # s[i].node
        <5>1. PICK k \in 1 .. Len(w) : /\ Above(w, e, k, i)
                                       /\ s[i].node \in Successors(g, w[k])
                                       /\ \A j \in 1 .. k : w[j] # s[i].node
          BY <4>5
        <5>2. Above(v, f, k, i)
          BY <1>8, <4>1, <5>1
        <5>3. \A j \in 1 .. k : j \in 1 .. Len(w)
          BY <1>1
        <5>4. QED
          BY <1>6, <1>7, <4>1, <4>5, <5>1, <5>2, <5>3
      <4>6. QED
        BY <4>3, <4>4, <4>5
    <3>3. QED
      BY <3>1, <3>2
  <2>4. f \in [1 .. Len(v) -> 1 .. Len(t)]
    BY <1>5, <1>7
  <2>5. QED
    BY <2>1, <2>2, <2>3, <2>4 DEF Layered
<1>10. Stacked(g, t, v, f)
  BY <1>5, <1>6, <1>9 DEF Stacked
<1>11. ASSUME Handled(g, s, w, e, {}, X) PROVE Handled(g, t, v, f, rest, Y)
  <2> SUFFICES ASSUME NEW k \in 1 .. Len(v), NEW m \in Successors(g, v[k])
               PROVE  \/ <<k, m>> \in Y
                      \/ \E i \in 1 .. Len(t) : t[i] = Entering(m) /\ Above(v, f, k, i)
                      \/ k < Len(v) /\ m = v[k + 1]
                      \/ k = Len(v) /\ m \in rest
    BY DEF Handled
  <2>0. m \in Nodes(g)
    BY SuccessorsAreNodes
  <2>1. CASE k = Len(w) + 1
    BY <1>6, <2>1 DEF n
  <2>2. CASE k \in 1 .. Len(w)
    <3>1. v[k] = w[k] /\ k < Len(v)
      BY <1>1, <1>6, <2>2
    <3>2. \/ <<k, m>> \in X
          \/ \E i \in 1 .. Len(s) : s[i] = Entering(m) /\ Above(w, e, k, i)
          \/ k < Len(w) /\ m = w[k + 1]
      BY <1>11, <2>2, <3>1 DEF Handled
    <3>3. CASE <<k, m>> \in X
      BY <2>0, <2>2, <3>3
    <3>4. CASE \E i \in 1 .. Len(s) : s[i] = Entering(m) /\ Above(w, e, k, i)
      <4>1. PICK i \in 1 .. Len(s) : s[i] = Entering(m) /\ Above(w, e, k, i)
        BY <3>4
      <4>2. CASE i = Len(s)
        <5>1. m = n
          BY <1>2, <1>4, <4>1, <4>2 DEF Entering
        <5>2. ~(k < Len(w))
          BY <1>1, <2>2, <4>1, <4>2 DEF Above
        <5>3. k + 1 = Len(w) + 1
          BY <1>1, <2>2, <5>2
        <5>4. QED
          BY <1>6, <3>1, <5>1, <5>3
      <4>3. CASE i # Len(s)
        <5>1. i \in 1 .. (Len(s) - 1) /\ i \in 1 .. Len(t) /\ t[i] = s[i]
          BY <1>1, <1>5, <4>3
        <5>2. QED
          BY <1>8, <2>2, <4>1, <5>1
      <4>4. QED
        BY <4>2, <4>3
    <3>5. CASE k < Len(w) /\ m = w[k + 1]
      BY <1>1, <1>6, <2>2, <3>1, <3>5
    <3>6. QED
      BY <3>2, <3>3, <3>4, <3>5
  <2>3. QED
    BY <1>7, <2>1, <2>2
<1>12. QED
  BY <1>7, <1>10, <1>11 DEF n, t, v

\* A neighbour is put on the stack.
LEMMA PushLayers ==
    ASSUME NEW g, NEW s, NEW w, NEW e, Stacked(g, s, w, e), w # <<>>,
           NEW m \in Successors(g, Last(w)), m \notin Range(w),
           NEW X, NEW Y, NEW rest,
           \A k \in 1 .. Len(w) : \A x \in Nodes(g) : <<k, x>> \in X => <<k, x>> \in Y
    PROVE  /\ Stacked(g, Append(s, Entering(m)), w, e)
           /\ e \in [1 .. Len(w) -> 1 .. Len(Append(s, Entering(m)))]
           /\ Handled(g, s, w, e, rest, X) => Handled(g, Append(s, Entering(m)), w, e, rest \ {m}, Y)
<1> DEFINE t == Append(s, Entering(m))
           L == Len(w)
<1>1. /\ Len(s) \in Nat /\ s \in Seq(Items(g))
      /\ w \in Seq(Nodes(g)) /\ L \in Nat /\ L >= 1
      /\ \A k \in 1 .. L : e[k] \in 1 .. Len(s) /\ e[k] \in Nat /\ e[k] <= Len(s)
  BY StackElements
<1>2. m \in Nodes(g) /\ Entering(m) \in Items(g)
  BY SuccessorsAreNodes DEF Entering, Items
<1>3. /\ t \in Seq(Items(g)) /\ Len(t) = Len(s) + 1 /\ t[Len(s) + 1] = Entering(m)
      /\ \A i \in 1 .. Len(s) : t[i] = s[i]
  BY <1>1, <1>2, AppendProperties
<1> HIDE DEF t
<1>4. 1 .. Len(t) = 1 .. Len(s) \cup {Len(s) + 1} /\ \A i \in 1 .. Len(s) : i \in 1 .. Len(t)
  BY <1>1, <1>3
<1>5. Last(w) = w[L] /\ L \in 1 .. L /\ ~(L < L)
  BY <1>1 DEF Last
<1>6. Above(w, e, L, Len(s) + 1)
  BY <1>1, <1>5 DEF Above
<1>7. e \in [1 .. L -> 1 .. Len(t)]
  BY <1>4 DEF Stacked, Layered
<1>8. Layered(g, t, w, e)
  <2>1. \A k \in 1 .. L : t[e[k]] = Exiting(w[k])
    BY <1>1, <1>3 DEF Stacked, Layered
  <2>2. \A j, k \in 1 .. L : j < k => e[j] < e[k]
    BY DEF Stacked, Layered
  <2>3. ASSUME NEW i \in 1 .. Len(t)
        PROVE  \/ \E k \in 1 .. L : i = e[k]
               \/ /\ t[i].entering
                  /\ \E k \in 1 .. L :
                        /\ Above(w, e, k, i)
                        /\ t[i].node \in Successors(g, w[k])
                        /\ \A j \in 1 .. k : w[j] # t[i].node
    <3>1. CASE i = Len(s) + 1
      <4>1. t[i].entering /\ t[i].node = m
        BY <1>3, <3>1 DEF Entering
      <4>2. \A j \in 1 .. L : w[j] # m
        BY <1>1 DEF Range
      <4>3. QED
        BY <1>5, <1>6, <3>1, <4>1, <4>2
    <3>2. CASE i \in 1 .. Len(s)
      <4>1. \/ \E k \in 1 .. L : i = e[k]
            \/ /\ s[i].entering
               /\ \E k \in 1 .. L :
                     /\ Above(w, e, k, i)
                     /\ s[i].node \in Successors(g, w[k])
                     /\ \A j \in 1 .. k : w[j] # s[i].node
        BY <3>2 DEF Stacked, Layered
      <4>2. t[i] = s[i]
        BY <1>3, <3>2
      <4>3. QED
        BY <4>1, <4>2
    <3>3. QED
      BY <1>4, <3>1, <3>2
  <2>4. QED
    BY <1>7, <2>1, <2>2, <2>3 DEF Layered
<1>9. Stacked(g, t, w, e)
  BY <1>3, <1>8 DEF Stacked
<1>10. ASSUME Handled(g, s, w, e, rest, X) PROVE Handled(g, t, w, e, rest \ {m}, Y)
  <2> SUFFICES ASSUME NEW k \in 1 .. L, NEW x \in Successors(g, w[k])
               PROVE  \/ <<k, x>> \in Y
                      \/ \E i \in 1 .. Len(t) : t[i] = Entering(x) /\ Above(w, e, k, i)
                      \/ k < L /\ x = w[k + 1]
                      \/ k = L /\ x \in rest \ {m}
    BY DEF Handled
  <2>0. x \in Nodes(g)
    BY SuccessorsAreNodes
  <2>1. \/ <<k, x>> \in X
        \/ \E i \in 1 .. Len(s) : s[i] = Entering(x) /\ Above(w, e, k, i)
        \/ k < L /\ x = w[k + 1]
        \/ k = L /\ x \in rest
    BY <1>10 DEF Handled
  <2>2. CASE \E i \in 1 .. Len(s) : s[i] = Entering(x) /\ Above(w, e, k, i)
    BY <1>3, <1>4, <2>2
  <2>3. CASE k = L /\ x \in rest
    <3>1. CASE x = m
      <4>1. Len(s) + 1 \in 1 .. Len(t)
        BY <1>4
      <4>2. QED
        BY <1>3, <1>6, <2>3, <3>1, <4>1
    <3>2. CASE x # m
      BY <2>3, <3>2
    <3>3. QED
      BY <3>1, <3>2
  <2>4. QED
    BY <2>0, <2>1, <2>2, <2>3
<1>11. QED
  BY <1>7, <1>9, <1>10 DEF t

\* A neighbour is dealt with at once.
LEMMA TakeLayers ==
    ASSUME NEW g, NEW s, NEW w, NEW e, NEW m, NEW X, NEW Y, NEW rest,
           \A k \in 1 .. Len(w) : \A x \in Nodes(g) : <<k, x>> \in X => <<k, x>> \in Y,
           <<Len(w), m>> \in Y, Handled(g, s, w, e, rest, X)
    PROVE  Handled(g, s, w, e, rest \ {m}, Y)
<1>1. \A k \in 1 .. Len(w) : \A x \in Successors(g, w[k]) : x \in Nodes(g)
  BY SuccessorsAreNodes
<1>2. QED
  BY <1>1 DEF Handled

\* What is not a marker is yet to be entered, and next to a node of the path.
LEMMA ItemsBelong ==
    ASSUME NEW g, NEW s, NEW w, NEW e, Stacked(g, s, w, e), w # <<>>, NEW i \in 1 .. Len(s)
    PROVE  \/ \E k \in 1 .. Len(w) : i = e[k]
           \/ /\ s[i].entering
              /\ \E k \in 1 .. Len(w) :
                    /\ Above(w, e, k, i)
                    /\ s[i].node \in Successors(g, w[k])
                    /\ \A j \in 1 .. k : w[j] # s[i].node
<1>1. Layered(g, s, w, e)
  BY DEF Stacked
<1>2. \/ \E k \in 1 .. Len(w) : i = e[k]
      \/ /\ s[i].entering
         /\ \E k \in 1 .. Len(w) :
               /\ Above(w, e, k, i)
               /\ s[i].node \in Successors(g, w[k])
               /\ \A j \in 1 .. k : w[j] # s[i].node
      \/ w = <<>> /\ Len(s) = 1 /\ s[i].entering /\ s[i].node \in DOMAIN g
  BY <1>1 DEF Layered
<1>3. QED
  BY <1>2

\* Leaving the node whose marker is on the top of the stack.
LEMMA LeaveLayers ==
    ASSUME NEW g, NEW s, NEW w, NEW e, Stacked(g, s, w, e), s # <<>>, ~Last(s).entering,
           NEW X, NEW Y,
           \A k \in 1 .. (Len(w) - 1) : \A x \in Nodes(g) : <<k, x>> \in X => <<k, x>> \in Y,
           Len(w) > 1 => <<Len(w) - 1, Last(w)>> \in Y
    PROVE  \E f \in [1 .. Len(Front(w)) -> 1 .. Len(Front(s))] :
              /\ Stacked(g, Front(s), Front(w), f)
              /\ Handled(g, s, w, e, {}, X) => Handled(g, Front(s), Front(w), f, {}, Y)
<1> DEFINE t == Front(s)
           v == Front(w)
           L == Len(w)
           f == [k \in 1 .. (L - 1) |-> e[k]]
<1>1. /\ Len(s) \in Nat /\ Len(s) >= 1 /\ s \in Seq(Items(g))
      /\ w \in Seq(Nodes(g)) /\ L \in Nat
      /\ \A k \in 1 .. L : e[k] \in 1 .. Len(s) /\ e[k] \in Nat /\ e[k] <= Len(s)
      /\ \A k \in 1 .. L : k < L => k + 1 \in 1 .. L
  BY StackElements
<1>2. /\ w # <<>> /\ L \in 1 .. L /\ L >= 1 /\ e[L] = Len(s) /\ Last(w) = w[L]
      /\ \A k \in 1 .. L : k < L => e[k] < Len(s)
  BY <1>1, TopExiting DEF Last
<1>3. /\ t \in Seq(Items(g)) /\ Len(t) = Len(s) - 1
      /\ \A i \in 1 .. (Len(s) - 1) : t[i] = s[i]
  BY <1>1, FrontLast
<1>4. SimplePath(g, v) /\ Len(v) = L - 1 /\ \A k \in 1 .. (L - 1) : v[k] = w[k]
  BY <1>2, PathFront DEF Stacked
<1> HIDE DEF t, v
<1>5. /\ \A k \in 1 .. (L - 1) : k \in 1 .. L /\ k < L /\ f[k] = e[k] /\ e[k] \in 1 .. (Len(s) - 1)
      /\ f \in [1 .. Len(v) -> 1 .. Len(t)]
      /\ L - 1 \in Nat
  <2> HIDE DEF L
  <2>1. L - 1 \in Nat
    BY <1>1, <1>2
  <2>2. \A k \in 1 .. (L - 1) : k \in 1 .. L /\ k < L /\ f[k] = e[k]
    BY <1>1
  <2>3. \A k \in 1 .. (L - 1) : e[k] \in 1 .. (Len(s) - 1)
    BY <1>1, <1>2, <2>2
  <2>4. f \in [1 .. (L - 1) -> 1 .. (Len(s) - 1)]
    BY <2>3
  <2>5. QED
    BY <1>3, <1>4, <2>1, <2>2, <2>3, <2>4
<1> HIDE DEF f, L
<1>6. ASSUME NEW k \in 1 .. L, NEW i \in 1 .. (Len(s) - 1), Above(w, e, k, i)
      PROVE  k \in 1 .. (L - 1) /\ Above(v, f, k, i)
  <2>1. k # L
    BY <1>1, <1>2, <1>6 DEF Above
  <2>2. k \in 1 .. (L - 1)
    BY <1>1, <2>1
  <2>3. e[k] < i /\ f[k] = e[k]
    BY <1>5, <1>6, <2>2 DEF Above
  <2>4. ASSUME k < Len(v) PROVE i < f[k + 1]
    <3>1. k + 1 \in 1 .. (L - 1) /\ k < L
      BY <1>1, <1>4, <2>2, <2>4
    <3>2. i < e[k + 1]
      BY <1>6, <3>1 DEF Above, L
    <3>3. QED
      BY <1>5, <3>1, <3>2
  <2>5. QED
    BY <2>2, <2>3, <2>4 DEF Above
<1>7. Layered(g, t, v, f)
  <2>1. \A k \in 1 .. Len(v) : t[f[k]] = Exiting(v[k])
    <3>1. \A k \in 1 .. L : s[e[k]] = Exiting(w[k])
      BY DEF Stacked, Layered, L
    <3>2. QED
      BY <1>3, <1>4, <1>5, <3>1
  <2>2. \A j, k \in 1 .. Len(v) : j < k => f[j] < f[k]
    BY <1>4, <1>5 DEF Stacked, Layered, L
  <2>3. ASSUME NEW i \in 1 .. Len(t)
        PROVE  \/ \E k \in 1 .. Len(v) : i = f[k]
               \/ /\ t[i].entering
                  /\ \E k \in 1 .. Len(v) :
                        /\ Above(v, f, k, i)
                        /\ t[i].node \in Successors(g, v[k])
                        /\ \A j \in 1 .. k : v[j] # t[i].node
    <3>1. i \in 1 .. (Len(s) - 1) /\ i \in 1 .. Len(s) /\ t[i] = s[i] /\ i # Len(s)
      BY <1>1, <1>3
    <3>2. \/ \E k \in 1 .. L : i = e[k]
          \/ /\ s[i].entering
             /\ \E k \in 1 .. L :
                   /\ Above(w, e, k, i)
                   /\ s[i].node \in Successors(g, w[k])
                   /\ \A j \in 1 .. k : w[j] # s[i].node
      BY <1>2, <3>1, ItemsBelong DEF L
    <3>3. CASE \E k \in 1 .. L : i = e[k]
      <4>1. PICK k \in 1 .. L : i = e[k]
        BY <3>3
      <4>2. k \in 1 .. (L - 1)
        BY <1>1, <1>2, <3>1, <4>1
      <4>3. QED
        BY <1>4, <1>5, <4>1, <4>2
    <3>4. CASE s[i].entering /\ \E k \in 1 .. L :
                   /\ Above(w, e, k, i)
                   /\ s[i].node \in Successors(g, w[k])
                   /\ \A j \in 1 .. k : w[j] # s[i].node
      <4>1. PICK k \in 1 .. L : /\ Above(w, e, k, i)
                                /\ s[i].node \in Successors(g, w[k])
                                /\ \A j \in 1 .. k : w[j] # s[i].node
        BY <3>4
      <4>2. k \in 1 .. (L - 1) /\ Above(v, f, k, i)
        BY <1>6, <3>1, <4>1
      <4>3. \A j \in 1 .. k : j \in 1 .. (L - 1)
        BY <1>5, <4>2
      <4>4. QED
        BY <1>4, <3>1, <3>4, <4>1, <4>2, <4>3
    <3>5. QED
      BY <3>2, <3>3, <3>4
  <2>4. QED
    BY <1>5, <2>1, <2>2, <2>3 DEF Layered
<1>8. Stacked(g, t, v, f)
  BY <1>3, <1>4, <1>7 DEF Stacked
<1>9. ASSUME Handled(g, s, w, e, {}, X) PROVE Handled(g, t, v, f, {}, Y)
  <2> SUFFICES ASSUME NEW k \in 1 .. Len(v), NEW m \in Successors(g, v[k])
               PROVE  \/ <<k, m>> \in Y
                      \/ \E i \in 1 .. Len(t) : t[i] = Entering(m) /\ Above(v, f, k, i)
                      \/ k < Len(v) /\ m = v[k + 1]
                      \/ k = Len(v) /\ m \in {}
    BY DEF Handled
  <2>0. m \in Nodes(g) /\ k \in 1 .. (L - 1) /\ v[k] = w[k] /\ k \in 1 .. L /\ k < L /\ k # L
    BY <1>4, <1>5, SuccessorsAreNodes
  <2>1. \/ <<k, m>> \in X
        \/ \E i \in 1 .. Len(s) : s[i] = Entering(m) /\ Above(w, e, k, i)
        \/ k < L /\ m = w[k + 1]
    BY <1>9, <2>0 DEF Handled, L
  <2>2. CASE <<k, m>> \in X
    BY <2>0, <2>2 DEF L
  <2>3. CASE \E i \in 1 .. Len(s) : s[i] = Entering(m) /\ Above(w, e, k, i)
    <3>1. PICK i \in 1 .. Len(s) : s[i] = Entering(m) /\ Above(w, e, k, i)
      BY <2>3
    <3>2. i # Len(s)
      <4>1. s[Len(s)] = Last(s)
        BY DEF Last
      <4>2. QED
        BY <3>1, <4>1 DEF Entering
    <3>3. i \in 1 .. (Len(s) - 1) /\ i \in 1 .. Len(t) /\ t[i] = s[i]
      BY <1>1, <1>3, <3>2
    <3>4. QED
      BY <1>6, <2>0, <3>1, <3>3
  <2>4. CASE m = w[k + 1]
    <3>1. CASE k = L - 1
      <4>1. L > 1 /\ k + 1 = L
        BY <1>1, <2>0, <3>1
      <4>2. QED
        BY <1>2, <2>4, <3>1, <4>1 DEF L
    <3>2. CASE k # L - 1
      <4>1. k + 1 \in 1 .. (L - 1) /\ k < Len(v)
        BY <1>1, <1>4, <2>0, <3>2
      <4>2. QED
        BY <1>4, <2>4, <4>1
    <3>3. QED
      BY <3>1, <3>2
  <2>5. QED
    BY <2>1, <2>2, <2>3, <2>4
<1>10. QED
  BY <1>5, <1>8, <1>9 DEF t, v

\* All successors of a node that is left are dealt with.
LEMMA LeftIsHandled ==
    ASSUME NEW g, NEW s, NEW w, NEW e, Stacked(g, s, w, e), s # <<>>, ~Last(s).entering,
           NEW X, Handled(g, s, w, e, {}, X)
    PROVE  \A m \in Successors(g, Last(w)) : <<Len(w), m>> \in X
<1>1. w # <<>> /\ Len(w) \in 1 .. Len(w) /\ e[Len(w)] = Len(s) /\ Len(w) \in Nat /\ Len(s) \in Nat
  BY TopExiting, StackElements
<1>2. Last(w) = w[Len(w)]
  BY DEF Last
<1>3. \A i \in 1 .. Len(s) : ~Above(w, e, Len(w), i)
  BY <1>1 DEF Above
<1>4. ~(Len(w) < Len(w))
  BY <1>1
<1>5. QED
  BY <1>1, <1>2, <1>3, <1>4 DEF Handled

\* The node on the top of the stack is dealt with already.
LEMMA SkipLayers ==
    ASSUME NEW g, NEW s, NEW w, NEW e, Stacked(g, s, w, e), s # <<>>, Last(s).entering,
           NEW X, NEW Y,
           \A k \in 1 .. Len(w) : \A x \in Nodes(g) : <<k, x>> \in X => <<k, x>> \in Y,
           w # <<>> => <<Len(w), Last(s).node>> \in Y
    PROVE  /\ Stacked(g, Front(s), w, e)
           /\ e \in [1 .. Len(w) -> 1 .. Len(Front(s))]
           /\ Handled(g, s, w, e, {}, X) => Handled(g, Front(s), w, e, {}, Y)
<1> DEFINE t == Front(s)
           L == Len(w)
<1>1. /\ Len(s) \in Nat /\ Len(s) >= 1 /\ s \in Seq(Items(g))
      /\ w \in Seq(Nodes(g)) /\ L \in Nat /\ (w = <<>> <=> L = 0)
      /\ \A k \in 1 .. L : e[k] \in 1 .. Len(s) /\ e[k] \in Nat
      /\ \A k \in 1 .. L : k < L => k + 1 \in 1 .. L
  BY StackElements
<1>2. /\ Last(s) = Entering(Last(s).node)
      /\ \A k \in 1 .. L : e[k] < Len(s)
      /\ w = <<>> => Len(s) = 1
      /\ Last(s) = s[Len(s)]
  BY TopEntering DEF Last
<1>3. /\ t \in Seq(Items(g)) /\ Len(t) = Len(s) - 1
      /\ \A i \in 1 .. (Len(s) - 1) : t[i] = s[i]
  BY <1>1, FrontLast
<1> HIDE DEF t
<1>4. \A k \in 1 .. L : e[k] \in 1 .. (Len(s) - 1)
  BY <1>1, <1>2
<1>5. e \in [1 .. L -> 1 .. Len(t)]
  BY <1>3, <1>4 DEF Stacked, Layered
<1>6. \A i \in 1 .. Len(t) : i \in 1 .. Len(s) /\ i \in 1 .. (Len(s) - 1)
  BY <1>1, <1>3
<1>7. Layered(g, t, w, e)
  <2>1. \A k \in 1 .. L : t[e[k]] = Exiting(w[k])
    BY <1>3, <1>4 DEF Stacked, Layered
  <2>2. \A j, k \in 1 .. L : j < k => e[j] < e[k]
    BY DEF Stacked, Layered
  <2>3. ASSUME NEW i \in 1 .. Len(t)
        PROVE  \/ \E k \in 1 .. L : i = e[k]
               \/ /\ t[i].entering
                  /\ \E k \in 1 .. L :
                        /\ Above(w, e, k, i)
                        /\ t[i].node \in Successors(g, w[k])
                        /\ \A j \in 1 .. k : w[j] # t[i].node
    <3>1. i \in 1 .. Len(s) /\ t[i] = s[i] /\ Len(s) # 1
      BY <1>1, <1>3, <1>6
    <3>2. w # <<>>
      BY <1>2, <3>1
    <3>3. QED
      BY <3>1, <3>2 DEF Stacked, Layered
  <2>4. QED
    BY <1>5, <2>1, <2>2, <2>3 DEF Layered
<1>8. Stacked(g, t, w, e)
  BY <1>3, <1>7 DEF Stacked
<1>9. ASSUME Handled(g, s, w, e, {}, X) PROVE Handled(g, t, w, e, {}, Y)
  <2> SUFFICES ASSUME NEW k \in 1 .. L, NEW m \in Successors(g, w[k])
               PROVE  \/ <<k, m>> \in Y
                      \/ \E i \in 1 .. Len(t) : t[i] = Entering(m) /\ Above(w, e, k, i)
                      \/ k < L /\ m = w[k + 1]
                      \/ k = L /\ m \in {}
    BY DEF Handled
  <2>0. m \in Nodes(g)
    BY SuccessorsAreNodes
  <2>1. \/ <<k, m>> \in X
        \/ \E i \in 1 .. Len(s) : s[i] = Entering(m) /\ Above(w, e, k, i)
        \/ k < L /\ m = w[k + 1]
    BY <1>9 DEF Handled
  <2>2. CASE \E i \in 1 .. Len(s) : s[i] = Entering(m) /\ Above(w, e, k, i)
    <3>1. PICK i \in 1 .. Len(s) : s[i] = Entering(m) /\ Above(w, e, k, i)
      BY <2>2
    <3>2. CASE i = Len(s)
      <4>1. m = Last(s).node
        BY <1>2, <3>1, <3>2 DEF Entering
      <4>2. ~(k < L)
        BY <1>1, <3>1, <3>2 DEF Above
      <4>3. k = L /\ w # <<>>
        BY <1>1, <4>2
      <4>4. QED
        BY <4>1, <4>3
    <3>3. CASE i # Len(s)
      <4>1. i \in 1 .. Len(t) /\ t[i] = s[i]
        BY <1>1, <1>3, <3>3
      <4>2. QED
        BY <3>1, <4>1
    <3>4. QED
      BY <3>2, <3>3
  <2>3. QED
    BY <2>0, <2>1, <2>2
<1>10. QED
  BY <1>5, <1>8, <1>9 DEF t

-----------------------------------------------------------------------------
(* What is dealt with.                                                     *)

LEMMA MoreIsExhausted ==
    ASSUME NEW g, NEW q, NEW cs, NEW ds, cs \subseteq ds, Exhausted(g, q, cs)
    PROVE  Exhausted(g, q, ds)
BY DEF Exhausted

LEMMA ExploredIs ==
    ASSUME NEW g, NEW w, NEW cs, NEW k \in 1 .. Len(w), NEW m \in Nodes(g)
    PROVE  <<k, m>> \in Explored(g, w, cs) <=>
               IF m \in Range(SubSeq(w, 1, k)) THEN CycleThrough(SubSeq(w, 1, k), m) \in cs
                                                ELSE Exhausted(g, Append(SubSeq(w, 1, k), m), cs)
BY DEF Explored

\* What is dealt with stays so as cycles are added and the path grows or shrinks.
LEMMA ExploredStays ==
    ASSUME NEW g, NEW w, SimplePath(g, w), NEW v, SimplePath(g, v), NEW cs, NEW ds, cs \subseteq ds,
           NEW k \in 1 .. Len(w), k \in 1 .. Len(v), \A i \in 1 .. k : w[i] = v[i],
           NEW m \in Nodes(g), <<k, m>> \in Explored(g, w, cs)
    PROVE  <<k, m>> \in Explored(g, v, ds)
<1>1. w \in Seq(Nodes(g)) /\ v \in Seq(Nodes(g)) /\ k \in Nat
  BY PathElements
<1> DEFINE a == SubSeq(w, 1, k)
           b == SubSeq(v, 1, k)
<1>2. a \in Seq(Nodes(g)) /\ Len(a) = k /\ \A i \in 1 .. k : a[i] = w[i]
  BY <1>1, Upto
<1>3. b \in Seq(Nodes(g)) /\ Len(b) = k /\ \A i \in 1 .. k : b[i] = v[i]
  BY <1>1, Upto
<1>4. a = b
  <2> HIDE DEF a, b
  <2>1. \A i \in 1 .. k : a[i] = b[i]
    BY <1>2, <1>3
  <2>2. QED
    BY <1>2, <1>3, <2>1, SeqEqual
<1>5. IF m \in Range(a) THEN CycleThrough(a, m) \in cs ELSE Exhausted(g, Append(a, m), cs)
  BY ExploredIs
<1>6. <<k, m>> \in Explored(g, v, ds) <=>
          IF m \in Range(b) THEN CycleThrough(b, m) \in ds ELSE Exhausted(g, Append(b, m), ds)
  BY ExploredIs
<1> HIDE DEF a, b
<1>7. QED
  BY <1>4, <1>5, <1>6, MoreIsExhausted

LEMMA WholePath ==
    ASSUME NEW g, NEW w, SimplePath(g, w), w # <<>>
    PROVE  SubSeq(w, 1, Len(w)) = w /\ Len(w) \in 1 .. Len(w) /\ Len(w) \in Nat
<1>1. w \in Seq(Nodes(g)) /\ Len(w) \in Nat /\ Len(w) >= 1
  BY PathElements
<1>2. Len(w) \in 1 .. Len(w)
  BY <1>1
<1> DEFINE a == SubSeq(w, 1, Len(w))
<1>3. a \in Seq(Nodes(g)) /\ Len(a) = Len(w) /\ \A i \in 1 .. Len(w) : a[i] = w[i]
  BY <1>1, <1>2, Upto
<1> HIDE DEF a
<1>4. a = w
  BY <1>1, <1>3, SeqEqual
<1>5. QED
  BY <1>1, <1>2, <1>4 DEF a

\* A neighbour on the path is dealt with when its cycle is recorded.
LEMMA ClosedIsExplored ==
    ASSUME NEW g, NEW w, SimplePath(g, w), w # <<>>, NEW m \in Nodes(g), m \in Range(w),
           NEW cs, CycleThrough(w, m) \in cs
    PROVE  <<Len(w), m>> \in Explored(g, w, cs)
BY WholePath, ExploredIs

\* Once all neighbours of its last node are dealt with, so is a path.
LEMMA LeftIsExhausted ==
    ASSUME NEW g, IsFiniteSet(Nodes(g)), NEW w, SimplePath(g, w), w # <<>>, NEW cs,
           \A m \in Successors(g, Last(w)) : <<Len(w), m>> \in Explored(g, w, cs)
    PROVE  Exhausted(g, w, cs)
<1> DEFINE L == Len(w)
<1>1. w \in Seq(Nodes(g)) /\ L \in Nat /\ L >= 1 /\ Last(w) = w[L] /\ L \in 1 .. L
      /\ Range(w) = {w[i] : i \in 1 .. L}
  BY PathElements DEF Last
<1>2. \A m \in Successors(g, w[L]) : IF m \in Range(w) THEN CycleThrough(w, m) \in cs
                                                        ELSE Exhausted(g, Append(w, m), cs)
  BY <1>1, WholePath, ExploredIs, SuccessorsAreNodes
<1> HIDE DEF L
<1> SUFFICES ASSUME NEW p \in SimplePaths(g), Begins(p, w),
                    NEW n \in Successors(g, Last(p)) \cap Range(p)
             PROVE  CycleThrough(p, n) \in cs
  BY DEF Exhausted
<1>3. SimplePath(g, p) /\ p # <<>>
  BY SimplePathsAre
<1>4. p \in Seq(Nodes(g)) /\ Len(p) \in Nat /\ Last(p) = p[Len(p)]
  BY <1>3, PathElements DEF Last
<1>5. L <= Len(p) /\ \A i \in 1 .. L : p[i] = w[i]
  BY DEF Begins, L
<1>6. CASE Len(p) = L
  <2>1. p = w
    <3>1. Len(p) = Len(w) /\ \A i \in 1 .. Len(p) : p[i] = w[i]
      BY <1>5, <1>6 DEF L
    <3>2. QED
      BY <1>1, <1>4, <3>1, SeqEqual
  <2>2. QED
    BY <1>1, <1>2, <2>1
<1>7. CASE Len(p) # L
  <2>1. L + 1 \in 1 .. Len(p) /\ L \in 1 .. (Len(p) - 1) /\ L \in 1 .. Len(p)
    BY <1>1, <1>4, <1>5, <1>7
  <2> DEFINE m == p[L + 1]
  <2>2. m \in Successors(g, w[L]) /\ m \in Nodes(g)
    <3>1. p[L + 1] \in Successors(g, p[L])
      BY <1>3, <2>1 DEF SimplePath
    <3>2. p[L] = w[L]
      BY <1>1, <1>5
    <3>3. QED
      BY <3>1, <3>2, SuccessorsAreNodes
  <2>3. m \notin Range(w)
    <3>1. ASSUME NEW i \in 1 .. L, w[i] = m PROVE FALSE
      <4>1. i \in 1 .. Len(p) /\ p[i] = p[L + 1] /\ i # L + 1
        BY <1>1, <1>4, <1>5, <3>1
      <4>2. QED
        BY <1>3, <2>1, <4>1 DEF SimplePath
    <3>2. QED
      BY <1>1, <3>1
  <2>4. Exhausted(g, Append(w, m), cs)
    BY <1>2, <2>2, <2>3
  <2>5. /\ Len(Append(w, m)) = L + 1
        /\ \A i \in 1 .. L : Append(w, m)[i] = w[i]
        /\ Append(w, m)[L + 1] = m
    BY <1>1, <2>2, AppendProperties DEF L
  <2> DEFINE a == Append(w, m)
  <2> HIDE DEF a
  <2>6. Len(a) = L + 1 /\ (\A i \in 1 .. L : a[i] = w[i]) /\ a[L + 1] = p[L + 1]
    BY <2>5 DEF a
  <2>7. L + 1 <= Len(p) /\ 1 .. (L + 1) = 1 .. L \cup {L + 1}
    BY <1>1, <2>1
  <2>8. \A i \in 1 .. (L + 1) : p[i] = a[i]
    BY <1>5, <2>6, <2>7
  <2>9. Begins(p, a)
    BY <2>6, <2>7, <2>8 DEF Begins
  <2>10. QED
    BY <2>4, <2>9 DEF Exhausted, a
<1>8. QED
  BY <1>6, <1>7

LEMMA ExhaustedIsExplored ==
    ASSUME NEW g, NEW w, SimplePath(g, w), Len(w) > 1, NEW cs, Exhausted(g, w, cs)
    PROVE  <<Len(w) - 1, Last(w)>> \in Explored(g, Front(w), cs)
<1> DEFINE L == Len(w)
           f == Front(w)
<1>1. L \in Nat /\ w \in Seq(Nodes(g)) /\ (w # <<>> <=> L >= 1)
  BY PathElements
<1>2. w # <<>> /\ L > 1
  BY <1>1
<1>3. /\ SimplePath(g, f) /\ Len(f) = L - 1 /\ \A i \in 1 .. (L - 1) : f[i] = w[i]
      /\ Last(w) = w[L] /\ Last(w) \in Nodes(g) /\ Range(f) = Range(w) \ {Last(w)}
  BY <1>2, PathFront
<1> HIDE DEF f, L
<1>4. L - 1 \in 1 .. Len(f) /\ f # <<>> /\ f \in Seq(Nodes(g)) /\ L - 1 >= 1
  BY <1>1, <1>2, <1>3, PathElements
<1>5. SubSeq(f, 1, L - 1) = f
  BY <1>3, <1>4, WholePath
<1>6. Last(w) \notin Range(f)
  BY <1>3
<1>7. Append(f, Last(w)) = w
  <2> DEFINE a == Append(f, Last(w))
  <2>1. /\ a \in Seq(Nodes(g)) /\ Len(a) = Len(f) + 1
        /\ \A i \in 1 .. Len(f) : a[i] = f[i]
        /\ a[Len(f) + 1] = Last(w)
    BY <1>3, <1>4, AppendProperties
  <2> HIDE DEF a
  <2>2. Len(a) = L /\ a[L] = w[L] /\ (\A i \in 1 .. (L - 1) : a[i] = w[i]) /\ Len(w) = L
        /\ 1 .. L = 1 .. (L - 1) \cup {L}
    BY <1>1, <1>2, <1>3, <2>1 DEF L
  <2>3. \A i \in 1 .. Len(a) : a[i] = w[i]
    BY <2>2
  <2>4. a = w
    BY <1>1, <2>1, <2>2, <2>3, SeqEqual
  <2>5. QED
    BY <2>4 DEF a
<1>8. <<L - 1, Last(w)>> \in Explored(g, f, cs) <=>
          IF Last(w) \in Range(SubSeq(f, 1, L - 1)) THEN CycleThrough(SubSeq(f, 1, L - 1), Last(w)) \in cs
          ELSE Exhausted(g, Append(SubSeq(f, 1, L - 1), Last(w)), cs)
  BY <1>3, <1>4, ExploredIs
<1>9. <<L - 1, Last(w)>> \in Explored(g, f, cs)
  BY <1>5, <1>6, <1>7, <1>8
<1>10. QED
  BY <1>9 DEF f, L

-----------------------------------------------------------------------------
(* The graphs are finite.                                                  *)

LEMMA ImageIsFinite ==
    ASSUME NEW f, IsFiniteSet(DOMAIN f)
    PROVE  IsFiniteSet({f[x] : x \in DOMAIN f})
<1> DEFINE T == {f[x] : x \in DOMAIN f}
           h == [x \in DOMAIN f |-> f[x]]
<1>1. h \in Surjection(DOMAIN f, T)
  BY DEF Surjection
<1>2. QED
  BY <1>1, FS_Surjection

LEMMA NodesOfAreFinite ==
    ASSUME NEW entries, FiniteEntries(entries)
    PROVE  IsFiniteSet(NodesOf(entries))
<1> DEFINE f == [id \in DOMAIN entries |-> {<<id, part>> : part \in DOMAIN entries[id]}]
<1>1. ASSUME NEW id \in DOMAIN entries PROVE IsFiniteSet(f[id])
  <2> DEFINE h == [part \in DOMAIN entries[id] |-> <<id, part>>]
  <2>1. IsFiniteSet(DOMAIN h)
    BY DEF FiniteEntries
  <2>2. IsFiniteSet({h[part] : part \in DOMAIN h})
    <3> HIDE DEF h
    <3>1. QED
      BY <2>1, ImageIsFinite
  <2>3. {h[part] : part \in DOMAIN h} = f[id]
    OBVIOUS
  <2>4. QED
    BY <2>2, <2>3
<1>2. IsFiniteSet(DOMAIN f) /\ DOMAIN f = DOMAIN entries
  BY DEF FiniteEntries
<1>3. NodesOf(entries) = UNION {f[id] : id \in DOMAIN f}
  BY DEF NodesOf
<1> HIDE DEF f
<1>4. IsFiniteSet({f[id] : id \in DOMAIN f})
  BY <1>2, ImageIsFinite
<1>5. \A T \in {f[id] : id \in DOMAIN f} : IsFiniteSet(T)
  BY <1>1, <1>2
<1>6. QED
  BY <1>3, <1>4, <1>5, FS_UNION

LEMMA DependenciesAreFinite ==
    ASSUME NEW entries, FiniteEntries(entries), NEW id \in DOMAIN entries
    PROVE  IsFiniteSet(Dependencies(entries[id]))
<1>1. IsFiniteSet({entries[id][part] : part \in DOMAIN entries[id]})
  BY ImageIsFinite DEF FiniteEntries
<1>2. \A T \in {entries[id][part] : part \in DOMAIN entries[id]} : IsFiniteSet(T)
  BY DEF FiniteEntries
<1>3. QED
  BY <1>1, <1>2, FS_UNION DEF Dependencies

LEMMA NodesAreFinite ==
    ASSUME NEW g, IsFiniteSet(DOMAIN g), \A n \in DOMAIN g : IsFiniteSet(g[n])
    PROVE  IsFiniteSet(Nodes(g))
<1>1. IsFiniteSet({g[n] : n \in DOMAIN g})
  BY ImageIsFinite
<1>2. IsFiniteSet(UNION {g[n] : n \in DOMAIN g})
  BY <1>1, FS_UNION
<1>3. QED
  BY <1>2, FS_Union DEF Nodes

LEMMA GraphIsFinite ==
    ASSUME TypeOK
    PROVE  IsFiniteSet(Nodes(Graph)) /\ IsFiniteSet(Nodes(LoadedGraph))
<1>1. FiniteEntries(local) /\ FiniteEntries(known)
  BY ReferenceGraphAssumption DEF TypeOK
<1> DEFINE own == NodesOf(local)
           other == {<<id, "value">> : id \in DOMAIN known} \ own
           Refs(n) == {r \in local[n[1]][n[2]] : r[1] \in DOMAIN local \cup DOMAIN known}
<1>2. /\ DOMAIN Graph = own \cup other
      /\ \A n \in own : Graph[n] = Refs(n)
      /\ \A n \in other : Graph[n] = Dependencies(known[n[1]])
  BY DEF Graph
<1>3. IsFiniteSet(own)
  BY <1>1, NodesOfAreFinite
<1>4. IsFiniteSet(other)
  <2> DEFINE h == [id \in DOMAIN known |-> <<id, "value">>]
  <2>1. IsFiniteSet(DOMAIN h)
    BY <1>1 DEF FiniteEntries
  <2>2. IsFiniteSet({h[id] : id \in DOMAIN h})
    <3> HIDE DEF h
    <3>1. QED
      BY <2>1, ImageIsFinite
  <2>3. {h[id] : id \in DOMAIN h} = {<<id, "value">> : id \in DOMAIN known}
    OBVIOUS
  <2>4. QED
    BY <2>2, <2>3, FS_Difference
<1>5. \A n \in own : IsFiniteSet(Refs(n))
  <2>1. \A n \in own : n[1] \in DOMAIN local /\ n[2] \in DOMAIN local[n[1]]
    BY DEF NodesOf
  <2>2. \A n \in own : IsFiniteSet(local[n[1]][n[2]])
    BY <1>1, <2>1 DEF FiniteEntries
  <2>3. \A n : Refs(n) \in SUBSET local[n[1]][n[2]]
    OBVIOUS
  <2> HIDE DEF own, Refs
  <2>4. QED
    BY <2>2, <2>3, FS_Subset
<1>6. \A n \in other : IsFiniteSet(Dependencies(known[n[1]]))
  BY <1>1, DependenciesAreFinite
<1>7. IsFiniteSet(Nodes(Graph))
  <2> HIDE DEF own, other, Refs
  <2>1. IsFiniteSet(DOMAIN Graph)
    BY <1>2, <1>3, <1>4, FS_Union
  <2>2. \A n \in DOMAIN Graph : IsFiniteSet(Graph[n])
    BY <1>2, <1>5, <1>6
  <2>3. QED
    BY <2>1, <2>2, NodesAreFinite
<1>8. IsFiniteSet(Nodes(LoadedGraph))
  <2>1. FiniteEntries(Loaded)
    <3>1. IsFiniteSet(DOMAIN local \cup DOMAIN known)
      BY <1>1, FS_Union DEF FiniteEntries
    <3>2. QED
      BY <1>1, <3>1 DEF Loaded, FiniteEntries
  <2>2. IsFiniteSet(DOMAIN LoadedGraph) /\ DOMAIN LoadedGraph = NodesOf(Loaded)
    BY <2>1, NodesOfAreFinite DEF LoadedGraph
  <2>3. \A n \in DOMAIN LoadedGraph : LoadedGraph[n] \in SUBSET NodesOf(Loaded)
    BY DEF LoadedGraph
  <2>4. \A n \in DOMAIN LoadedGraph : IsFiniteSet(LoadedGraph[n])
    BY <2>2, <2>3, FS_Subset
  <2>5. QED
    BY <2>2, <2>4, NodesAreFinite
<1>9. QED
  BY <1>7, <1>8

-----------------------------------------------------------------------------
(* The search keeps the invariant.                                         *)

LEMMA SameGraph ==
    ASSUME UNCHANGED inputs
    PROVE  Graph' = Graph /\ LoadedGraph' = LoadedGraph
           /\ \A n : Neighbors(n) = Successors(Graph, n)
BY DEF inputs, Graph, LoadedGraph, Loaded, NodesOf, Dependencies, Neighbors

LEMMA StackIs ==
    ASSUME IInv
    PROVE  \E e \in [1 .. Len(path) -> 1 .. Len(stack)] :
              /\ Stacked(Graph, stack, path, e)
              /\ pc = "search" /\ Clean =>
                    Handled(Graph, stack, path, e, todo, Explored(Graph, path, cycles))
              /\ pc = "measure" =>
                    Handled(Graph, stack, path, e, todo, Measured(Graph, path, DOMAIN longest))
BY DEF IInv, TypeOK, PathInv, StackInv, Stacked

LEMMA EmptyStack ==
    ASSUME IInv, stack = <<>>
    PROVE  path = <<>> /\ todo = {} /\ active = {}
<1>1. SimplePath(Graph, path)
  BY DEF IInv, PathInv
<1>2. Len(path) \in Nat /\ (path # <<>> <=> Len(path) >= 1) /\ Range(path) = {path[i] : i \in 1 .. Len(path)}
  BY <1>1, PathElements
<1>3. PICK e \in [1 .. Len(path) -> 1 .. Len(stack)] : TRUE
  BY StackIs
<1>4. path = <<>>
  <2>1. CASE Len(path) >= 1
    <3>1. 1 \in 1 .. Len(path)
      BY <1>2, <2>1
    <3>2. e[1] \in 1 .. Len(stack)
      BY <1>3, <3>1
    <3>3. QED
      BY <3>2
  <2>2. QED
    BY <1>2, <2>1
<1>5. QED
  BY <1>2, <1>4 DEF IInv, PathInv

\* Nothing on the stack, or one node to begin with.
LEMMA FreshStack ==
    ASSUME NEW g, NEW s, s = <<>> \/ \E n \in DOMAIN g : s = <<Entering(n)>>
    PROVE  /\ s \in Seq(Items(g)) /\ SimplePath(g, <<>>) /\ Range(<<>>) = {}
           /\ \E e \in [1 .. Len(<<>>) -> 1 .. Len(s)] :
                 /\ Layered(g, s, <<>>, e)
                 /\ \A rest, X : Handled(g, s, <<>>, e, rest, X)
<1> DEFINE e == [k \in 1 .. Len(<<>>) |-> 1]
<1>1. 1 .. Len(<<>>) = {}
  OBVIOUS
<1>2. e \in [1 .. Len(<<>>) -> 1 .. Len(s)]
  BY <1>1
<1> HIDE DEF e
<1>3. s \in Seq(Items(g))
  <2>1. CASE s = <<>>
    BY <2>1
  <2>2. CASE \E n \in DOMAIN g : s = <<Entering(n)>>
    <3>1. PICK n \in DOMAIN g : s = <<Entering(n)>>
      BY <2>2
    <3>2. Entering(n) \in Items(g)
      BY <3>1, SuccessorsAreNodes DEF Items, Entering
    <3>3. QED
      BY <3>1, <3>2
  <2>3. QED
    BY <2>1, <2>2
<1>4. SimplePath(g, <<>>) /\ Range(<<>>) = {}
  BY DEF SimplePath, Range
<1>5. ASSUME NEW i \in 1 .. Len(s)
      PROVE  Len(s) = 1 /\ s[i].entering /\ s[i].node \in DOMAIN g
  BY DEF Entering
<1>6. Layered(g, s, <<>>, e)
  BY <1>1, <1>2, <1>5 DEF Layered
<1>7. \A rest, X : Handled(g, s, <<>>, e, rest, X)
  BY <1>1 DEF Handled
<1>8. QED
  BY <1>2, <1>3, <1>4, <1>6, <1>7

LEMMA StartSearchKeeps ==
    ASSUME IInv, StartSearch
    PROVE  IInv'
<1>0. /\ pc = "search" /\ stack = <<>> /\ path' = <<>> /\ active' = {}
      /\ UNCHANGED <<inputs, pc, todo, visited, cycles, longest, lost>>
  BY DEF StartSearch, Searching
<1>1. Graph' = Graph
  BY <1>0, SameGraph
<1>2. /\ path = <<>> /\ todo = {} /\ active = {} /\ path' = <<>> /\ active' = {} /\ todo' = {}
      /\ pc' = "search" /\ pc = "search"
      /\ visited' = visited /\ cycles' = cycles /\ longest' = longest /\ lost' = lost /\ UNCHANGED inputs
  BY <1>0, EmptyStack
<1>3. PICK n \in DOMAIN Graph : stack' = <<Entering(n)>>
  BY DEF StartSearch
<1>4. /\ stack' \in Seq(Items(Graph)) /\ SimplePath(Graph, <<>>) /\ Range(<<>>) = {}
      /\ \E e \in [1 .. Len(<<>>) -> 1 .. Len(stack')] :
            /\ Layered(Graph, stack', <<>>, e)
            /\ \A rest, X : Handled(Graph, stack', <<>>, e, rest, X)
  BY <1>3, FreshStack
<1>5. TypeOK'
  BY <1>1, <1>2, <1>4 DEF IInv, TypeOK, inputs
<1>6. PathInv'
  BY <1>1, <1>2, <1>4 DEF PathInv
<1>7. StackInv'
  <2>1. PICK e \in [1 .. Len(path') -> 1 .. Len(stack')] :
            /\ Layered(Graph, stack', path', e)
            /\ \A rest, X : Handled(Graph, stack', path', e, rest, X)
    BY <1>2, <1>4
  <2>2. Handled(Graph, stack', path', e, todo', Explored(Graph, path', cycles'))
    BY <2>1
  <2>3. pc' # "measure"
    BY <1>2
  <2>4. QED
    BY <1>1, <2>1, <2>2, <2>3 DEF StackInv
<1>8. VisitedInv'
  BY <1>1, <1>2 DEF IInv, VisitedInv, Clean
<1>9. CyclesInv'
  <2>1. Len(stack') <= MaxStack
    BY <1>3, ReferenceGraphAssumption
  <2>2. QED
    BY <1>1, <1>2, <2>1 DEF IInv, CyclesInv
<1>10. LongestInv'
  BY <1>1, <1>2 DEF IInv, LongestInv
<1>11. QED
  BY <1>5, <1>6, <1>7, <1>8, <1>9, <1>10 DEF IInv

\* The top of the stack is a node to enter, next to the end of the path.
LEMMA TopToEnter ==
    ASSUME IInv, stack # <<>>, Top.entering
    PROVE  /\ path = <<>> => Top.node \in DOMAIN Graph
           /\ path # <<>> => Top.node \in Successors(Graph, Last(path))
           /\ Top.node \in Nodes(Graph) /\ Top.node \notin active
<1>1. PICK e : Stacked(Graph, stack, path, e)
  BY StackIs
<1>2. Last(stack).entering
  BY DEF Top
<1>3. /\ path = <<>> => Last(stack).node \in DOMAIN Graph
      /\ path # <<>> => Last(stack).node \in Successors(Graph, Last(path))
      /\ Last(stack).node \in Nodes(Graph) /\ Last(stack).node \notin Range(path)
  BY <1>1, <1>2, TopEntering
<1>4. QED
  BY <1>3 DEF Top, IInv, PathInv

\* The path with the node on the top of the stack.
LEMMA LongerPath ==
    ASSUME IInv, stack # <<>>, Top.entering
    PROVE  LET v == Append(path, Top.node) IN
           /\ SimplePath(Graph, v) /\ v # <<>> /\ Len(v) = Len(path) + 1
           /\ Range(v) = Range(path) \cup {Top.node} /\ Last(v) = Top.node
           /\ \A i \in 1 .. Len(path) : v[i] = path[i] /\ i \in 1 .. Len(v)
           /\ path # <<>> => v[1] = path[1]
           /\ v \in SimplePaths(Graph)
<1> DEFINE n == Top.node
           v == Append(path, n)
<1>1. SimplePath(Graph, path) /\ active = Range(path)
  BY DEF IInv, PathInv
<1>2. Len(path) \in Nat /\ (path # <<>> <=> Len(path) >= 1)
  BY <1>1, PathElements
<1>3. /\ path = <<>> => n \in DOMAIN Graph
      /\ path # <<>> => n \in Successors(Graph, Last(path))
      /\ n \in Nodes(Graph) /\ n \notin active
  BY TopToEnter
<1> HIDE DEF n
<1>4. /\ SimplePath(Graph, v) /\ Len(v) = Len(path) + 1
      /\ \A i \in 1 .. Len(path) : v[i] = path[i]
      /\ v[Len(path) + 1] = n /\ Last(v) = n
      /\ Range(v) = Range(path) \cup {n}
  BY <1>1, <1>3, PathAppend
<1> HIDE DEF v
<1>5. v # <<>> /\ \A i \in 1 .. Len(path) : i \in 1 .. Len(v)
  BY <1>2, <1>4, PathElements
<1>6. path # <<>> => v[1] = path[1]
  BY <1>2, <1>4
<1>7. v[1] \in DOMAIN Graph
  <2>1. CASE path = <<>>
    BY <1>2, <1>3, <1>4, <2>1
  <2>2. CASE path # <<>>
    <3>1. 1 \in 1 .. (Len(v) - 1)
      BY <1>2, <1>4, <2>2
    <3>2. v[1 + 1] \in Successors(Graph, v[1])
      BY <1>4, <3>1 DEF SimplePath
    <3>3. QED
      BY <3>2, SuccessorsAreNodes
  <2>3. QED
    BY <2>1, <2>2
<1>8. IsFiniteSet(Nodes(Graph))
  BY GraphIsFinite DEF IInv
<1>9. v \in SimplePaths(Graph)
  BY <1>4, <1>5, <1>7, <1>8, SimplePathsAre
<1>10. QED
  BY <1>4, <1>5, <1>6, <1>9 DEF n, v

LEMMA EnterKeeps ==
    ASSUME IInv, Enter
    PROVE  IInv'
<1> DEFINE n == Top.node
<1>1. /\ pc = "search" /\ pc' = pc /\ stack # <<>> /\ todo = {} /\ Top.entering
      /\ path' = Append(path, n) /\ active' = active \cup {n} /\ visited' = visited \cup {n}
      /\ stack' = Append(Front(stack), Exiting(n))
      /\ todo' = Neighbors(n)
      /\ UNCHANGED <<inputs, cycles, longest, lost>>
  BY DEF Enter, Popping, Searching
<1>2. Graph' = Graph /\ todo' = Successors(Graph, n) /\ cycles' = cycles
  BY <1>1, SameGraph
<1>3. /\ SimplePath(Graph, path') /\ path' # <<>> /\ Len(path') = Len(path) + 1
      /\ Range(path') = Range(path) \cup {n} /\ Last(path') = n
      /\ \A i \in 1 .. Len(path) : path'[i] = path[i] /\ i \in 1 .. Len(path')
      /\ path # <<>> => path'[1] = path[1]
      /\ path' \in SimplePaths(Graph)
  BY <1>1, LongerPath
<1>4. n \in Nodes(Graph) /\ SimplePath(Graph, path) /\ active = Range(path)
  BY <1>1, TopToEnter DEF IInv, PathInv
<1>5. PICK e \in [1 .. Len(path) -> 1 .. Len(stack)] :
          /\ Stacked(Graph, stack, path, e)
          /\ Clean => Handled(Graph, stack, path, e, {}, Explored(Graph, path, cycles))
  BY <1>1, StackIs
<1> HIDE DEF n
<1>6. PICK f \in [1 .. Len(path') -> 1 .. Len(stack)] :
          /\ Stacked(Graph, stack', path', f)
          /\ Clean => Handled(Graph, stack', path', f, todo', Explored(Graph, path', cycles))
  <2> DEFINE X == Explored(Graph, path, cycles)
             Y == Explored(Graph, path', cycles)
  <2>1. ASSUME NEW k \in 1 .. Len(path), NEW m \in Nodes(Graph), <<k, m>> \in X
        PROVE  <<k, m>> \in Y
    <3>1. k \in 1 .. Len(path') /\ Len(path) \in Nat
      BY <1>3, <1>4, PathElements
    <3>2. \A i \in 1 .. k : path[i] = path'[i]
      BY <1>3, <3>1
    <3>3. QED
      BY <1>3, <1>4, <2>1, <3>1, <3>2, ExploredStays
  <2>2. Last(stack).entering /\ Last(stack).node = n
    BY <1>1 DEF Top, n
  <2>3. \A m \in Successors(Graph, n) : m \in todo' \/ <<Len(path) + 1, m>> \in Y
    BY <1>2
  <2> HIDE DEF X, Y
  <2>4. \E f \in [1 .. Len(Append(path, n)) -> 1 .. Len(stack)] :
           /\ Stacked(Graph, Append(Front(stack), Exiting(n)), Append(path, n), f)
           /\ Handled(Graph, stack, path, e, {}, X) =>
                Handled(Graph, Append(Front(stack), Exiting(n)), Append(path, n), f, todo', Y)
    BY <1>1, <1>5, <2>1, <2>2, <2>3, EnterLayers
  <2>5. PICK f \in [1 .. Len(path') -> 1 .. Len(stack)] :
           /\ Stacked(Graph, stack', path', f)
           /\ Handled(Graph, stack, path, e, {}, X) => Handled(Graph, stack', path', f, todo', Y)
    BY <1>1, <2>4
  <2>6. QED
    BY <1>5, <2>5 DEF X, Y
<1>7. Len(stack') = Len(stack) /\ stack' \in Seq(Items(Graph))
  <2>1. stack \in Seq(Items(Graph))
    BY DEF IInv, TypeOK
  <2>2. Front(stack) \in Seq(Items(Graph)) /\ Len(Front(stack)) = Len(stack) - 1 /\ Len(stack) \in Nat
    BY <1>1, <2>1, FrontLast
  <2>3. Exiting(n) \in Items(Graph)
    BY <1>4 DEF Exiting, Items
  <2>4. stack' \in Seq(Items(Graph)) /\ Len(stack') = Len(Front(stack)) + 1
    BY <1>1, <2>2, <2>3, AppendProperties
  <2>5. QED
    BY <2>2, <2>4
<1>8. TypeOK'
  <2>1. todo' \subseteq Nodes(Graph) /\ visited' \subseteq Nodes(Graph)
    BY <1>1, <1>2, <1>4, SuccessorsAreNodes DEF IInv, TypeOK
  <2>2. QED
    BY <1>1, <1>2, <1>7, <2>1 DEF IInv, TypeOK, inputs
<1>9. PathInv'
  BY <1>1, <1>2, <1>3, <1>4 DEF PathInv
<1>10. StackInv'
  <2>1. Clean' => Clean
    BY <1>1 DEF Clean
  <2>2. QED
    BY <1>1, <1>2, <1>6, <1>7, <2>1 DEF StackInv, Stacked
<1>11. VisitedInv'
  <2> SUFFICES ASSUME Clean', NEW x \in visited'
               PROVE  \E q \in SimplePaths(Graph) :
                         /\ Last(q) = x
                         /\ \/ Exhausted(Graph, <<q[1]>>, cycles)
                            \/ path' # <<>> /\ q[1] = path'[1]
    BY <1>2 DEF VisitedInv
  <2>1. CASE x = n
    BY <1>3, <2>1
  <2>2. CASE x \in visited
    <3>1. Clean
      BY <1>1 DEF Clean
    <3>2. PICK q \in SimplePaths(Graph) :
              /\ Last(q) = x
              /\ Exhausted(Graph, <<q[1]>>, cycles) \/ (path # <<>> /\ q[1] = path[1])
      BY <1>1, <2>2, <3>1 DEF IInv, VisitedInv
    <3>3. QED
      BY <1>3, <3>2
  <2>3. QED
    BY <1>1, <2>1, <2>2
<1>12. CyclesInv'
  BY <1>1, <1>2, <1>7 DEF IInv, CyclesInv
<1>13. LongestInv'
  <2>1. longest = <<>> /\ longest' = <<>>
    BY <1>1 DEF IInv, LongestInv
  <2>2. DOMAIN longest' = {}
    BY <2>1
  <2>3. QED
    BY <1>1, <1>2, <2>1, <2>2 DEF LongestInv
<1>14. QED
  BY <1>8, <1>9, <1>10, <1>11, <1>12, <1>13 DEF IInv

LEMMA ExploreKeeps ==
    ASSUME IInv, Explore
    PROVE  IInv'
<1>1. PICK n \in todo : todo' = todo \ {n} /\ (AppendCycle(n) \/ Queue(n))
  BY DEF Explore
<1>2. /\ pc = "search" /\ pc' = pc /\ path' = path /\ active' = active /\ visited' = visited /\ longest' = longest
      /\ UNCHANGED inputs
      /\ Cardinality(cycles) < MaxCycles
  BY DEF Explore, Searching
<1>3. Graph' = Graph
  BY <1>2, SameGraph
<1>4. /\ path # <<>> /\ n \in Successors(Graph, Last(path)) /\ n \in Nodes(Graph)
      /\ SimplePath(Graph, path) /\ active = Range(path)
  BY <1>1, SuccessorsAreNodes DEF IInv, PathInv
<1>5. PICK e \in [1 .. Len(path) -> 1 .. Len(stack)] :
          /\ Stacked(Graph, stack, path, e)
          /\ Clean => Handled(Graph, stack, path, e, todo, Explored(Graph, path, cycles))
  BY <1>2, StackIs
<1>6. PathInv'
  BY <1>1, <1>2, <1>3, <1>4 DEF IInv, PathInv
<1>7. LongestInv'
  BY <1>2, <1>3 DEF IInv, LongestInv
<1>8. CASE AppendCycle(n)
  <2> DEFINE C == CycleThrough(path, n)
  <2>1. n \in Range(path) /\ cycles' = cycles \cup {C} /\ stack' = stack /\ lost' = lost
    BY <1>4, <1>8 DEF AppendCycle
  <2>2. C \in CyclesOf(Graph)
    <3>1. IsFiniteSet(Nodes(Graph))
      BY GraphIsFinite DEF IInv
    <3>2. QED
      BY <1>4, <2>1, <3>1, ClosingIsACycle
  <2> HIDE DEF C
  <2>3. /\ IsFiniteSet(cycles') /\ Cardinality(cycles') <= MaxCycles
        /\ Cardinality(cycles) \in Nat
    <3>1. IsFiniteSet(cycles) /\ Cardinality(cycles) \in Nat
      BY FS_CardinalityType DEF IInv, TypeOK
    <3>2. IsFiniteSet(cycles') /\ Cardinality(cycles') =
              IF C \in cycles THEN Cardinality(cycles) ELSE Cardinality(cycles) + 1
      BY <2>1, <3>1, FS_AddElement
    <3>3. QED
      BY <1>2, <3>1, <3>2, ReferenceGraphAssumption
  <2>4. Clean' => Clean
    BY <1>2, <2>1 DEF Clean
  <2>5. TypeOK'
    BY <1>1, <1>2, <1>3, <2>1, <2>3 DEF IInv, TypeOK, inputs
  <2>6. ASSUME Clean
        PROVE  Handled(Graph, stack, path, e, todo \ {n}, Explored(Graph, path, cycles'))
    <3>1. \A k \in 1 .. Len(path) : \A m \in Nodes(Graph) :
              <<k, m>> \in Explored(Graph, path, cycles) => <<k, m>> \in Explored(Graph, path, cycles')
      <4> SUFFICES ASSUME NEW k \in 1 .. Len(path), NEW m \in Nodes(Graph),
                          <<k, m>> \in Explored(Graph, path, cycles)
                   PROVE  <<k, m>> \in Explored(Graph, path, cycles')
        OBVIOUS
      <4>1. cycles \subseteq cycles'
        BY <2>1
      <4>2. QED
        BY <1>4, <4>1, ExploredStays
    <3>2. <<Len(path), n>> \in Explored(Graph, path, cycles')
      <4>1. CycleThrough(path, n) \in cycles'
        BY <2>1 DEF C
      <4>2. QED
        BY <1>4, <2>1, <4>1, ClosedIsExplored
    <3> DEFINE X == Explored(Graph, path, cycles)
               Y == Explored(Graph, path, cycles')
    <3>3. Handled(Graph, stack, path, e, todo, X)
      BY <1>5, <2>6
    <3> HIDE DEF X, Y
    <3>4. Handled(Graph, stack, path, e, todo \ {n}, Y)
      BY <3>1, <3>2, <3>3, TakeLayers DEF X, Y
    <3>5. QED
      BY <3>4 DEF Y
  <2>7. StackInv'
    BY <1>1, <1>2, <1>3, <1>5, <2>1, <2>4, <2>6 DEF StackInv, Stacked
  <2>8. VisitedInv'
    <3> SUFFICES ASSUME Clean', NEW x \in visited
                 PROVE  \E q \in SimplePaths(Graph) :
                           /\ Last(q) = x
                           /\ \/ Exhausted(Graph, <<q[1]>>, cycles')
                              \/ path # <<>> /\ q[1] = path[1]
      BY <1>2, <1>3 DEF VisitedInv
    <3>1. PICK q \in SimplePaths(Graph) :
              /\ Last(q) = x
              /\ Exhausted(Graph, <<q[1]>>, cycles) \/ (path # <<>> /\ q[1] = path[1])
      BY <1>2, <2>4 DEF IInv, VisitedInv
    <3>2. cycles \subseteq cycles'
      BY <2>1
    <3>3. Exhausted(Graph, <<q[1]>>, cycles) => Exhausted(Graph, <<q[1]>>, cycles')
      BY <3>2, MoreIsExhausted
    <3>4. QED
      BY <3>1, <3>3
  <2>9. CyclesInv'
    BY <1>2, <1>3, <2>1, <2>2 DEF IInv, CyclesInv
  <2>10. QED
    BY <1>6, <1>7, <2>5, <2>7, <2>8, <2>9 DEF IInv
<1>9. CASE Queue(n) /\ Len(stack) >= MaxStack
  <2>1. lost' = TRUE /\ stack' = stack /\ cycles' = cycles
    BY <1>9 DEF Queue
  <2>2. ~Clean'
    BY <2>1 DEF Clean
  <2>3. TypeOK'
    BY <1>1, <1>2, <1>3, <2>1 DEF IInv, TypeOK, inputs
  <2>4. StackInv'
    BY <1>2, <1>3, <1>5, <2>1, <2>2 DEF StackInv, Stacked
  <2>5. VisitedInv'
    BY <2>2 DEF VisitedInv
  <2>6. CyclesInv'
    BY <1>2, <1>3, <2>1 DEF IInv, CyclesInv
  <2>7. QED
    BY <1>6, <1>7, <2>3, <2>4, <2>5, <2>6 DEF IInv
<1>10. CASE Queue(n) /\ ~(Len(stack) >= MaxStack)
  <2>1. n \notin Range(path) /\ lost' = lost /\ stack' = Append(stack, Entering(n)) /\ cycles' = cycles
    BY <1>4, <1>10 DEF Queue
  <2>2. stack \in Seq(Items(Graph)) /\ Len(stack) \in Nat /\ Entering(n) \in Items(Graph)
    BY <1>4 DEF IInv, TypeOK, Items, Entering
  <2>3. stack' \in Seq(Items(Graph)) /\ Len(stack') = Len(stack) + 1
    BY <2>1, <2>2, AppendProperties
  <2>4. TypeOK'
    BY <1>1, <1>2, <1>3, <2>1, <2>3 DEF IInv, TypeOK, inputs
  <2>5. /\ Stacked(Graph, stack', path, e)
        /\ e \in [1 .. Len(path) -> 1 .. Len(stack')]
        /\ Clean => Handled(Graph, stack', path, e, todo \ {n}, Explored(Graph, path, cycles))
    <3> DEFINE X == Explored(Graph, path, cycles)
    <3> HIDE DEF X
    <3>1. \A k \in 1 .. Len(path) : \A m \in Nodes(Graph) : <<k, m>> \in X => <<k, m>> \in X
      OBVIOUS
    <3>2. /\ Stacked(Graph, Append(stack, Entering(n)), path, e)
          /\ e \in [1 .. Len(path) -> 1 .. Len(Append(stack, Entering(n)))]
          /\ Handled(Graph, stack, path, e, todo, X) =>
               Handled(Graph, Append(stack, Entering(n)), path, e, todo \ {n}, X)
      BY <1>4, <1>5, <2>1, <3>1, PushLayers
    <3>3. QED
      BY <1>5, <2>1, <3>2 DEF X
  <2>6. StackInv'
    <3>1. Clean' => Clean
      BY <2>1 DEF Clean
    <3>2. QED
      BY <1>1, <1>2, <1>3, <2>1, <2>5, <3>1 DEF StackInv, Stacked
  <2>7. VisitedInv'
    BY <1>2, <1>3, <2>1 DEF IInv, VisitedInv, Clean
  <2>8. CyclesInv'
    <3>1. Len(stack') <= MaxStack
      BY <1>10, <2>2, <2>3, ReferenceGraphAssumption
    <3>2. QED
      BY <1>2, <1>3, <2>1, <3>1 DEF IInv, CyclesInv
  <2>9. QED
    BY <1>6, <1>7, <2>4, <2>6, <2>7, <2>8 DEF IInv
<1>11. QED
  BY <1>1, <1>8, <1>9, <1>10

\* Popping the marker of the node the path ends with.
LEMMA ShorterPath ==
    ASSUME IInv, stack # <<>>, ~Top.entering
    PROVE  /\ path # <<>> /\ Top.node = Last(path)
           /\ SimplePath(Graph, path) /\ active = Range(path)
           /\ SimplePath(Graph, Front(path)) /\ Len(Front(path)) = Len(path) - 1
           /\ Len(path) \in Nat
           /\ \A i \in 1 .. (Len(path) - 1) : Front(path)[i] = path[i]
           /\ Range(Front(path)) = active \ {Top.node}
           /\ Front(stack) \in Seq(Items(Graph)) /\ Len(Front(stack)) <= Len(stack)
<1>1. SimplePath(Graph, path) /\ active = Range(path)
  BY DEF IInv, PathInv
<1>2. PICK e : Stacked(Graph, stack, path, e)
  BY StackIs
<1>3. ~Last(stack).entering
  BY DEF Top
<1>4. path # <<>> /\ Last(stack).node = Last(path)
  BY <1>2, <1>3, TopExiting
<1>5. stack \in Seq(Items(Graph))
  BY DEF IInv, TypeOK
<1>6. Front(stack) \in Seq(Items(Graph)) /\ Len(Front(stack)) = Len(stack) - 1 /\ Len(stack) \in Nat
  BY <1>5, FrontLast
<1>7. /\ SimplePath(Graph, Front(path)) /\ Len(Front(path)) = Len(path) - 1
      /\ \A i \in 1 .. (Len(path) - 1) : Front(path)[i] = path[i]
      /\ Range(Front(path)) = Range(path) \ {Last(path)}
  BY <1>1, <1>4, PathFront
<1>8. Len(path) \in Nat
  BY <1>1, PathElements
<1>9. Len(Front(stack)) <= Len(stack)
  BY <1>6
<1>10. QED
  BY <1>1, <1>4, <1>6, <1>7, <1>8, <1>9 DEF Top

LEMMA LeaveKeeps ==
    ASSUME IInv, Leave
    PROVE  IInv'
<1>1. /\ pc = "search" /\ pc' = pc /\ stack # <<>> /\ todo = {} /\ ~Top.entering
      /\ path' = Front(path) /\ active' = active \ {Top.node} /\ stack' = Front(stack)
      /\ todo' = {} /\ visited' = visited /\ cycles' = cycles /\ longest' = longest /\ lost' = lost
      /\ UNCHANGED inputs
  BY DEF Leave, Popping, Searching
<1>2. Graph' = Graph
  BY <1>1, SameGraph
<1>3. /\ path # <<>> /\ Top.node = Last(path)
      /\ SimplePath(Graph, path) /\ active = Range(path)
      /\ SimplePath(Graph, path') /\ Len(path') = Len(path) - 1
      /\ Len(path) \in Nat
      /\ \A i \in 1 .. (Len(path) - 1) : path'[i] = path[i]
      /\ Range(path') = active'
      /\ stack' \in Seq(Items(Graph)) /\ Len(stack') <= Len(stack)
  BY <1>1, ShorterPath
<1>4. PICK e \in [1 .. Len(path) -> 1 .. Len(stack)] :
          /\ Stacked(Graph, stack, path, e)
          /\ Clean => Handled(Graph, stack, path, e, {}, Explored(Graph, path, cycles))
  BY <1>1, StackIs
<1>5. ~Last(stack).entering
  BY <1>1 DEF Top
<1>6. Clean => Exhausted(Graph, path, cycles)
  <2> SUFFICES ASSUME Clean PROVE Exhausted(Graph, path, cycles)
    OBVIOUS
  <2> DEFINE X == Explored(Graph, path, cycles)
  <2>1. Handled(Graph, stack, path, e, {}, X)
    BY <1>4
  <2> HIDE DEF X
  <2>2. \A m \in Successors(Graph, Last(path)) : <<Len(path), m>> \in X
    BY <1>1, <1>4, <1>5, <2>1, LeftIsHandled
  <2>3. IsFiniteSet(Nodes(Graph))
    BY GraphIsFinite DEF IInv
  <2>4. QED
    BY <1>3, <2>2, <2>3, LeftIsExhausted DEF X
<1>7. PICK f \in [1 .. Len(path') -> 1 .. Len(stack')] :
          /\ Stacked(Graph, stack', path', f)
          /\ Clean => Handled(Graph, stack', path', f, {}, Explored(Graph, path', cycles))
  <2> DEFINE X == Explored(Graph, path, cycles)
             Y == IF Clean THEN Explored(Graph, path', cycles)
                           ELSE Nat \X Nodes(Graph)
  <2>1. ASSUME NEW k \in 1 .. (Len(path) - 1), NEW m \in Nodes(Graph), <<k, m>> \in X
        PROVE  <<k, m>> \in Y
    <3>1. k \in 1 .. Len(path) /\ k \in 1 .. Len(path') /\ k \in Nat
      BY <1>3
    <3>2. \A i \in 1 .. k : path[i] = path'[i]
      BY <1>3, <3>1
    <3>3. <<k, m>> \in Explored(Graph, path', cycles)
      BY <1>3, <2>1, <3>1, <3>2, ExploredStays
    <3>4. QED
      BY <3>1, <3>3
  <2>2. ASSUME Len(path) > 1 PROVE <<Len(path) - 1, Last(path)>> \in Y
    <3>0. Last(path) \in Nodes(Graph)
      BY <1>3, PathFront
    <3>1. Len(path) - 1 \in Nat /\ Last(path) \in Nodes(Graph)
      BY <1>3, <2>2, <3>0
    <3>2. Clean => <<Len(path) - 1, Last(path)>> \in Explored(Graph, path', cycles)
      BY <1>1, <1>3, <1>6, <2>2, ExhaustedIsExplored
    <3>3. QED
      BY <3>1, <3>2
  <2>3. Clean => Handled(Graph, stack, path, e, {}, X)
    BY <1>4
  <2>4. Clean => Y = Explored(Graph, path', cycles)
    OBVIOUS
  <2> HIDE DEF X, Y
  <2>5. \E f \in [1 .. Len(Front(path)) -> 1 .. Len(Front(stack))] :
           /\ Stacked(Graph, Front(stack), Front(path), f)
           /\ Handled(Graph, stack, path, e, {}, X) => Handled(Graph, Front(stack), Front(path), f, {}, Y)
    BY <1>1, <1>4, <1>5, <2>1, <2>2, LeaveLayers
  <2>6. PICK f \in [1 .. Len(path') -> 1 .. Len(stack')] :
           /\ Stacked(Graph, stack', path', f)
           /\ Handled(Graph, stack, path, e, {}, X) => Handled(Graph, stack', path', f, {}, Y)
    BY <1>1, <2>5
  <2>7. QED
    BY <2>3, <2>4, <2>6
<1>8. TypeOK'
  BY <1>1, <1>2, <1>3 DEF IInv, TypeOK, inputs
<1>9. PathInv'
  BY <1>1, <1>2, <1>3 DEF PathInv
<1>10. Clean' <=> Clean
  BY <1>1 DEF Clean
<1>11. StackInv'
  BY <1>1, <1>2, <1>7, <1>10 DEF StackInv, Stacked
<1>12. VisitedInv'
  <2> SUFFICES ASSUME Clean, NEW x \in visited
               PROVE  \E q \in SimplePaths(Graph) :
                         /\ Last(q) = x
                         /\ \/ Exhausted(Graph, <<q[1]>>, cycles)
                            \/ path' # <<>> /\ q[1] = path'[1]
    BY <1>1, <1>2, <1>10 DEF VisitedInv
  <2>1. PICK q \in SimplePaths(Graph) :
            /\ Last(q) = x
            /\ Exhausted(Graph, <<q[1]>>, cycles) \/ q[1] = path[1]
    BY <1>1 DEF IInv, VisitedInv
  <2>2. CASE Len(path) = 1
    <3>1. path = <<path[1]>>
      <4>1. path \in Seq(Nodes(Graph))
        BY <1>3, PathElements
      <4>2. QED
        BY <2>2, <4>1
    <3>2. Exhausted(Graph, <<path[1]>>, cycles)
      BY <1>6, <3>1
    <3>3. QED
      BY <2>1, <3>2
  <2>3. CASE Len(path) # 1
    <3>1. Len(path) >= 1
      BY <1>3, PathElements
    <3>2. 1 \in 1 .. (Len(path) - 1)
      BY <1>3, <2>3, <3>1
    <3>3. path'[1] = path[1] /\ path' # <<>>
      BY <1>3, <3>2, PathElements
    <3>4. QED
      BY <2>1, <3>3
  <2>4. QED
    BY <2>2, <2>3
<1>13. CyclesInv'
  <2>1. Len(stack') <= MaxStack
    <3>1. stack \in Seq(Items(Graph)) /\ Len(stack) <= MaxStack
      BY <1>1 DEF IInv, TypeOK, CyclesInv
    <3>2. Len(stack) \in Nat /\ Len(stack') \in Nat
      BY <1>3, <3>1
    <3>3. QED
      BY <1>3, <3>1, <3>2, ReferenceGraphAssumption
  <2>2. QED
    BY <1>1, <1>2, <2>1 DEF IInv, CyclesInv
<1>14. LongestInv'
  <2>1. DOMAIN longest \subseteq Nodes(Graph) \ active'
    BY <1>1 DEF IInv, LongestInv
  <2>2. QED
    BY <1>1, <1>2, <2>1 DEF IInv, LongestInv
<1>15. QED
  BY <1>8, <1>9, <1>11, <1>12, <1>13, <1>14 DEF IInv

LEMMA EndSearchKeeps ==
    ASSUME IInv, EndSearch
    PROVE  IInv'
<1>1. /\ pc = "search" /\ pc' = "measure" /\ stack' = <<>> /\ todo' = {} /\ path' = <<>> /\ active' = {}
      /\ visited' = visited /\ cycles' = cycles /\ longest' = longest /\ lost' = lost
      /\ UNCHANGED inputs
  BY DEF EndSearch
<1>2. Graph' = Graph
  BY <1>1, SameGraph
<1>3. /\ stack' \in Seq(Items(Graph)) /\ SimplePath(Graph, <<>>) /\ Range(<<>>) = {}
      /\ \E e \in [1 .. Len(<<>>) -> 1 .. Len(stack')] :
            /\ Layered(Graph, stack', <<>>, e)
            /\ \A rest, X : Handled(Graph, stack', <<>>, e, rest, X)
  BY <1>1, FreshStack
<1>4. TypeOK'
  BY <1>1, <1>2, <1>3 DEF IInv, TypeOK, inputs
<1>5. PathInv'
  BY <1>1, <1>2, <1>3 DEF PathInv
<1>6. StackInv'
  BY <1>1, <1>2, <1>3 DEF StackInv
<1>7. VisitedInv'
  BY <1>1 DEF VisitedInv
<1>8. cycles = CyclesOf(Graph) \/ Cardinality(cycles) = MaxCycles \/ lost
  <2>1. CASE ~Searching
    <3>1. Cardinality(cycles) \in Nat /\ Cardinality(cycles) <= MaxCycles /\ ~(Cardinality(cycles) < MaxCycles)
      BY <1>1, <2>1, FS_CardinalityType DEF Searching, IInv, TypeOK
    <3>2. QED
      BY <3>1, ReferenceGraphAssumption
  <2>2. CASE Searching /\ stack = <<>> /\ DOMAIN Graph \subseteq visited
    <3>1. CASE lost
      BY <3>1
    <3>2. CASE ~lost
      <4>1. path = <<>> /\ Clean
        BY <2>2, <3>2, EmptyStack DEF Clean, Searching
      <4>2. \A n \in DOMAIN Graph : \E q \in SimplePaths(Graph) :
                Last(q) = n /\ Exhausted(Graph, <<q[1]>>, cycles)
        BY <1>1, <2>2, <4>1 DEF IInv, VisitedInv
      <4>3. IsFiniteSet(Nodes(Graph))
        BY GraphIsFinite DEF IInv
      <4>4. CyclesOf(Graph) \subseteq cycles
        BY <4>2, <4>3, NoCycleIsMissed
      <4>5. QED
        BY <4>4 DEF IInv, CyclesInv
    <3>3. QED
      BY <3>1, <3>2
  <2>3. QED
    BY <2>1, <2>2 DEF EndSearch
<1>9. CyclesInv'
  BY <1>1, <1>2, <1>8 DEF IInv, CyclesInv
<1>10. LongestInv'
  BY <1>1, <1>2 DEF IInv, LongestInv
<1>11. QED
  BY <1>4, <1>5, <1>6, <1>7, <1>9, <1>10 DEF IInv

-----------------------------------------------------------------------------
(* The measurement keeps the invariant.                                    *)

LEMMA MeasuredIs ==
    ASSUME NEW g, NEW w, NEW done, NEW k \in 1 .. Len(w), NEW m \in Nodes(g)
    PROVE  <<k, m>> \in Measured(g, w, done) <=> m \in done \/ \E j \in 1 .. k : w[j] = m
BY DEF Measured

LEMMA StartMeasureKeeps ==
    ASSUME IInv, StartMeasure
    PROVE  IInv'
<1>1. /\ pc = "measure" /\ pc' = pc /\ stack = <<>>
      /\ todo' = todo /\ path' = path /\ active' = active /\ visited' = visited
      /\ cycles' = cycles /\ longest' = longest /\ lost' = lost /\ UNCHANGED inputs
  BY DEF StartMeasure
<1>2. Graph' = Graph
  BY <1>1, SameGraph
<1>3. path = <<>> /\ todo = {} /\ active = {}
  BY <1>1, EmptyStack
<1>4. PICK n \in DOMAIN Graph : stack' = <<Entering(n)>>
  BY DEF StartMeasure
<1>5. /\ stack' \in Seq(Items(Graph))
      /\ \E e \in [1 .. Len(<<>>) -> 1 .. Len(stack')] :
            /\ Layered(Graph, stack', <<>>, e)
            /\ \A rest, X : Handled(Graph, stack', <<>>, e, rest, X)
  BY <1>4, FreshStack
<1>6. TypeOK'
  BY <1>1, <1>2, <1>5 DEF IInv, TypeOK, inputs
<1>7. PathInv'
  BY <1>1, <1>2 DEF IInv, PathInv
<1>8. StackInv'
  <2>1. path' = <<>>
    BY <1>1, <1>3
  <2>2. PICK e \in [1 .. Len(path') -> 1 .. Len(stack')] :
            /\ Layered(Graph, stack', path', e)
            /\ \A rest, X : Handled(Graph, stack', path', e, rest, X)
    BY <1>5, <2>1
  <2>3. Handled(Graph, stack', path', e, todo', Measured(Graph, path', DOMAIN longest'))
    BY <2>2
  <2>4. pc' # "search"
    BY <1>1
  <2>5. QED
    BY <1>2, <2>2, <2>3, <2>4 DEF StackInv
<1>9. VisitedInv' /\ CyclesInv' /\ LongestInv'
  BY <1>1, <1>2 DEF IInv, VisitedInv, CyclesInv, LongestInv
<1>10. QED
  BY <1>6, <1>7, <1>8, <1>9 DEF IInv

LEMMA SkipMeasuredKeeps ==
    ASSUME IInv, SkipMeasured
    PROVE  IInv'
<1>1. /\ pc = "measure" /\ pc' = pc /\ stack # <<>> /\ todo = {}
      /\ Top.entering /\ Top.node \in DOMAIN longest /\ stack' = Front(stack)
      /\ todo' = todo /\ path' = path /\ active' = active /\ visited' = visited
      /\ cycles' = cycles /\ longest' = longest /\ lost' = lost /\ UNCHANGED inputs
  BY DEF SkipMeasured, Measuring
<1>2. Graph' = Graph
  BY <1>1, SameGraph
<1>3. SimplePath(Graph, path) /\ stack \in Seq(Items(Graph)) /\ Top.node \in Nodes(Graph)
  BY <1>1, TopToEnter DEF IInv, PathInv, TypeOK
<1>4. PICK e \in [1 .. Len(path) -> 1 .. Len(stack)] :
          /\ Stacked(Graph, stack, path, e)
          /\ Handled(Graph, stack, path, e, {}, Measured(Graph, path, DOMAIN longest))
  BY <1>1, StackIs
<1>5. /\ Stacked(Graph, stack', path, e)
      /\ e \in [1 .. Len(path) -> 1 .. Len(stack')]
      /\ Handled(Graph, stack', path, e, {}, Measured(Graph, path, DOMAIN longest))
  <2> DEFINE X == Measured(Graph, path, DOMAIN longest)
  <2>1. path # <<>> => <<Len(path), Last(stack).node>> \in X
    <3>1. Len(path) \in Nat /\ (path # <<>> <=> Len(path) >= 1)
      BY <1>3, PathElements
    <3>2. path # <<>> => Len(path) \in 1 .. Len(path)
      BY <3>1
    <3>3. QED
      BY <1>1, <1>3, <3>2, MeasuredIs DEF Top
  <2>2. Last(stack).entering
    BY <1>1 DEF Top
  <2> HIDE DEF X
  <2>3. /\ Stacked(Graph, Front(stack), path, e)
        /\ e \in [1 .. Len(path) -> 1 .. Len(Front(stack))]
        /\ Handled(Graph, stack, path, e, {}, X) => Handled(Graph, Front(stack), path, e, {}, X)
    BY <1>1, <1>4, <2>1, <2>2, SkipLayers
  <2>4. QED
    BY <1>1, <1>4, <2>3 DEF X
<1>6. TypeOK'
  BY <1>1, <1>2, <1>5 DEF IInv, TypeOK, inputs, Stacked
<1>7. PathInv'
  BY <1>1, <1>2 DEF IInv, PathInv
<1>8. StackInv'
  BY <1>1, <1>2, <1>5 DEF StackInv, Stacked
<1>9. VisitedInv' /\ CyclesInv' /\ LongestInv'
  BY <1>1, <1>2 DEF IInv, VisitedInv, CyclesInv, LongestInv
<1>10. QED
  BY <1>6, <1>7, <1>8, <1>9 DEF IInv

LEMMA DescendKeeps ==
    ASSUME IInv, Descend
    PROVE  IInv'
<1> DEFINE n == Top.node
<1>1. /\ pc = "measure" /\ pc' = pc /\ stack # <<>> /\ todo = {} /\ Top.entering /\ n \notin DOMAIN longest
      /\ path' = Append(path, n) /\ active' = active \cup {n}
      /\ stack' = Append(Front(stack), Exiting(n))
      /\ todo' = Neighbors(n) \ (DOMAIN longest \cup active')
      /\ visited' = visited /\ cycles' = cycles /\ longest' = longest /\ lost' = lost /\ UNCHANGED inputs
  BY DEF Descend, Measuring
<1>2. Graph' = Graph /\ todo' = Successors(Graph, n) \ (DOMAIN longest \cup active')
  BY <1>1, SameGraph
<1>3. /\ SimplePath(Graph, path') /\ path' # <<>> /\ Len(path') = Len(path) + 1
      /\ Range(path') = Range(path) \cup {n} /\ Last(path') = n
      /\ \A i \in 1 .. Len(path) : path'[i] = path[i] /\ i \in 1 .. Len(path')
  BY <1>1, LongerPath
<1>4. n \in Nodes(Graph) /\ SimplePath(Graph, path) /\ active = Range(path)
  BY <1>1, TopToEnter DEF IInv, PathInv
<1>5. PICK e \in [1 .. Len(path) -> 1 .. Len(stack)] :
          /\ Stacked(Graph, stack, path, e)
          /\ Handled(Graph, stack, path, e, {}, Measured(Graph, path, DOMAIN longest))
  BY <1>1, StackIs
<1> HIDE DEF n
<1>6. Len(path) \in Nat /\ Len(path') \in 1 .. Len(path')
      /\ Range(path') = {path'[j] : j \in 1 .. Len(path')} /\ active' = Range(path')
  <2>1. Len(path) \in Nat /\ Range(path') = {path'[j] : j \in 1 .. Len(path')}
    BY <1>3, <1>4, PathElements
  <2>2. Len(path') \in 1 .. Len(path')
    BY <1>3, <2>1
  <2>3. QED
    BY <1>1, <1>3, <1>4, <2>1, <2>2
<1>7. PICK f \in [1 .. Len(path') -> 1 .. Len(stack)] :
          /\ Stacked(Graph, stack', path', f)
          /\ Handled(Graph, stack', path', f, todo', Measured(Graph, path', DOMAIN longest))
  <2> DEFINE X == Measured(Graph, path, DOMAIN longest)
             Y == Measured(Graph, path', DOMAIN longest)
  <2>1. ASSUME NEW k \in 1 .. Len(path), NEW m \in Nodes(Graph), <<k, m>> \in X
        PROVE  <<k, m>> \in Y
    <3>1. m \in DOMAIN longest \/ \E j \in 1 .. k : path[j] = m
      BY <2>1, MeasuredIs
    <3>2. k \in 1 .. Len(path') /\ \A j \in 1 .. k : path'[j] = path[j]
      BY <1>3, <1>6
    <3>3. m \in DOMAIN longest \/ \E j \in 1 .. k : path'[j] = m
      BY <3>1, <3>2
    <3>4. QED
      BY <3>2, <3>3, MeasuredIs
  <2>2. Last(stack).entering /\ Last(stack).node = n
    BY <1>1 DEF Top, n
  <2>3. ASSUME NEW m \in Successors(Graph, n), m \notin todo'
        PROVE  <<Len(path) + 1, m>> \in Y
    <3>1. m \in Nodes(Graph) /\ m \in DOMAIN longest \cup active'
      BY <1>2, <2>3, SuccessorsAreNodes
    <3>2. m \in DOMAIN longest \/ \E j \in 1 .. Len(path') : path'[j] = m
      BY <1>6, <3>1
    <3>3. QED
      BY <1>3, <1>6, <3>1, <3>2, MeasuredIs
  <2> HIDE DEF X, Y
  <2>4. \E f \in [1 .. Len(Append(path, n)) -> 1 .. Len(stack)] :
           /\ Stacked(Graph, Append(Front(stack), Exiting(n)), Append(path, n), f)
           /\ Handled(Graph, stack, path, e, {}, X) =>
                Handled(Graph, Append(Front(stack), Exiting(n)), Append(path, n), f, todo', Y)
    BY <1>1, <1>5, <2>1, <2>2, <2>3, EnterLayers
  <2>5. PICK f \in [1 .. Len(path') -> 1 .. Len(stack)] :
           /\ Stacked(Graph, stack', path', f)
           /\ Handled(Graph, stack, path, e, {}, X) => Handled(Graph, stack', path', f, todo', Y)
    BY <1>1, <2>4
  <2>6. QED
    BY <1>5, <2>5 DEF X, Y
<1>8. Len(stack') = Len(stack) /\ stack' \in Seq(Items(Graph))
  <2>1. stack \in Seq(Items(Graph))
    BY DEF IInv, TypeOK
  <2>2. Front(stack) \in Seq(Items(Graph)) /\ Len(Front(stack)) = Len(stack) - 1 /\ Len(stack) \in Nat
    BY <1>1, <2>1, FrontLast
  <2>3. Exiting(n) \in Items(Graph)
    BY <1>4 DEF Exiting, Items
  <2>4. stack' \in Seq(Items(Graph)) /\ Len(stack') = Len(Front(stack)) + 1
    BY <1>1, <2>2, <2>3, AppendProperties
  <2>5. QED
    BY <2>2, <2>4
<1>9. TypeOK'
  <2>1. todo' \subseteq Nodes(Graph)
    BY <1>2, SuccessorsAreNodes
  <2>2. QED
    BY <1>1, <1>2, <1>8, <2>1 DEF IInv, TypeOK, inputs
<1>10. PathInv'
  <2>1. pc' = "measure" /\ todo' \subseteq Successors(Graph, Last(path')) /\ todo' \cap active' = {}
    BY <1>1, <1>2, <1>3
  <2>2. QED
    BY <1>2, <1>3, <1>6, <2>1 DEF PathInv
<1>11. StackInv'
  BY <1>1, <1>2, <1>7, <1>8 DEF StackInv, Stacked
<1>12. VisitedInv' /\ CyclesInv'
  BY <1>1, <1>2 DEF IInv, VisitedInv, CyclesInv
<1>13. LongestInv'
  <2>1. DOMAIN longest \subseteq Nodes(Graph) \ active'
    BY <1>1 DEF IInv, LongestInv
  <2>2. QED
    BY <1>1, <1>2, <2>1 DEF IInv, LongestInv
<1>14. QED
  BY <1>9, <1>10, <1>11, <1>12, <1>13 DEF IInv

LEMMA ExtendKeeps ==
    ASSUME IInv, Extend
    PROVE  IInv'
<1>1. PICK n \in todo : todo' = todo \ {n} /\ stack' = Append(stack, Entering(n))
  BY DEF Extend
<1>2. /\ pc = "measure" /\ pc' = pc /\ path' = path /\ active' = active /\ visited' = visited
      /\ cycles' = cycles /\ longest' = longest /\ lost' = lost /\ UNCHANGED inputs
  BY DEF Extend
<1>3. Graph' = Graph
  BY <1>2, SameGraph
<1>4. /\ path # <<>> /\ n \in Successors(Graph, Last(path)) /\ n \in Nodes(Graph)
      /\ SimplePath(Graph, path) /\ active = Range(path) /\ n \notin Range(path)
  BY <1>1, <1>2, SuccessorsAreNodes DEF IInv, PathInv
<1>5. PICK e \in [1 .. Len(path) -> 1 .. Len(stack)] :
          /\ Stacked(Graph, stack, path, e)
          /\ Handled(Graph, stack, path, e, todo, Measured(Graph, path, DOMAIN longest))
  BY <1>2, StackIs
<1>6. /\ Stacked(Graph, stack', path, e)
      /\ e \in [1 .. Len(path) -> 1 .. Len(stack')]
      /\ Handled(Graph, stack', path, e, todo', Measured(Graph, path, DOMAIN longest))
  <2> DEFINE X == Measured(Graph, path, DOMAIN longest)
  <2> HIDE DEF X
  <2>1. \A k \in 1 .. Len(path) : \A m \in Nodes(Graph) : <<k, m>> \in X => <<k, m>> \in X
    OBVIOUS
  <2>2. /\ Stacked(Graph, Append(stack, Entering(n)), path, e)
        /\ e \in [1 .. Len(path) -> 1 .. Len(Append(stack, Entering(n)))]
        /\ Handled(Graph, stack, path, e, todo, X) =>
             Handled(Graph, Append(stack, Entering(n)), path, e, todo \ {n}, X)
    BY <1>4, <1>5, <2>1, PushLayers
  <2>3. QED
    BY <1>1, <1>5, <2>2 DEF X
<1>7. TypeOK'
  BY <1>1, <1>2, <1>3, <1>6 DEF IInv, TypeOK, inputs, Stacked
<1>8. PathInv'
  BY <1>1, <1>2, <1>3 DEF IInv, PathInv
<1>9. StackInv'
  BY <1>2, <1>3, <1>6 DEF StackInv, Stacked
<1>10. VisitedInv' /\ CyclesInv' /\ LongestInv'
  BY <1>2, <1>3 DEF IInv, VisitedInv, CyclesInv, LongestInv
<1>11. QED
  BY <1>7, <1>8, <1>9, <1>10 DEF IInv

\* A node before a path.
LEMMA PathBefore ==
    ASSUME NEW g, NEW p, SimplePath(g, p), p # <<>>, NEW n, p[1] \in Successors(g, n), n \notin Range(p)
    PROVE  LET c == <<n>> \o p IN
           /\ SimplePath(g, c) /\ c # <<>> /\ c[1] = n /\ Len(c) = Len(p) + 1
           /\ Range(c) = Range(p) \cup {n}
<1> DEFINE c == <<n>> \o p
           L == Len(p)
<1>1. /\ p \in Seq(Nodes(g)) /\ L \in Nat /\ L >= 1 /\ Range(p) = {p[i] : i \in 1 .. L}
      /\ n \in Nodes(g)
  BY PathElements, SuccessorsAreNodes
<1>2. /\ c \in Seq(Nodes(g)) /\ Len(c) = L + 1 /\ c[1] = n
      /\ \A i \in 1 .. L : c[i + 1] = p[i]
  <2>1. <<n>> \in Seq(Nodes(g)) /\ Len(<<n>>) = 1 /\ <<n>>[1] = n
    BY <1>1
  <2>2. /\ c \in Seq(Nodes(g)) /\ Len(c) = 1 + L
        /\ \A i \in 1 .. (1 + L) : c[i] = IF i <= 1 THEN <<n>>[i] ELSE p[i - 1]
    BY <1>1, <2>1, ConcatProperties
  <2>3. \A i \in 1 .. L : i + 1 \in 1 .. (1 + L) /\ ~(i + 1 <= 1) /\ (i + 1) - 1 = i
    BY <1>1
  <2>4. c[1] = n
    BY <1>1, <2>1, <2>2
  <2>5. \A i \in 1 .. L : c[i + 1] = p[i]
    BY <2>2, <2>3
  <2>6. QED
    BY <1>1, <2>2, <2>4, <2>5
<1> HIDE DEF c
<1>3. /\ \A i \in 1 .. (L - 1) : p[i + 1] \in Successors(g, p[i])
      /\ \A i, j \in 1 .. L : p[i] = p[j] => i = j
      /\ \A i \in 1 .. L : p[i] \in Range(p)
  BY <1>1 DEF SimplePath
<1>4. ASSUME NEW i \in 1 .. (L + 1)
      PROVE  i = 1 \/ (i - 1 \in 1 .. L /\ c[i] = p[i - 1])
  <2>1. i = 1 \/ (i - 1 \in 1 .. L /\ (i - 1) + 1 = i)
    BY <1>1
  <2>2. QED
    BY <1>2, <2>1
<1>5. ASSUME NEW i \in 1 .. (Len(c) - 1)
      PROVE  c[i + 1] \in Successors(g, c[i])
  <2>1. i \in 1 .. L /\ i \in 1 .. (L + 1) /\ 1 \in 1 .. L
    BY <1>1, <1>2
  <2>2. c[i + 1] = p[i]
    BY <1>2, <2>1
  <2>3. CASE i = 1
    BY <1>2, <2>2, <2>3
  <2>4. CASE i # 1
    <3>1. i - 1 \in 1 .. (L - 1) /\ (i - 1) + 1 = i
      BY <1>1, <2>1, <2>4
    <3>2. p[i] \in Successors(g, p[i - 1])
      BY <1>3, <3>1
    <3>3. QED
      BY <1>4, <2>1, <2>2, <2>4, <3>2
  <2>5. QED
    BY <2>3, <2>4
<1>6. ASSUME NEW i \in 1 .. Len(c), NEW j \in 1 .. Len(c), c[i] = c[j]
      PROVE  i = j
  <2>1. i \in 1 .. (L + 1) /\ j \in 1 .. (L + 1)
    BY <1>2
  <2>2. CASE i = 1
    BY <1>2, <1>3, <1>4, <1>6, <2>1, <2>2
  <2>3. CASE j = 1
    BY <1>2, <1>3, <1>4, <1>6, <2>1, <2>3
  <2>4. CASE i # 1 /\ j # 1
    <3>1. i - 1 \in 1 .. L /\ j - 1 \in 1 .. L /\ p[i - 1] = p[j - 1]
      BY <1>4, <1>6, <2>1, <2>4
    <3>2. i - 1 = j - 1
      BY <1>3, <3>1
    <3>3. QED
      BY <2>1, <3>2
  <2>5. QED
    BY <2>2, <2>3, <2>4
<1>7. SimplePath(g, c) /\ c # <<>>
  <2>1. SimplePath(g, c)
    BY <1>2, <1>5, <1>6 DEF SimplePath
  <2>2. QED
    BY <1>1, <1>2, <2>1, PathElements
<1>8. Range(c) = Range(p) \cup {n}
  <2>1. Range(c) = {c[i] : i \in 1 .. (L + 1)}
    BY <1>2, <1>7, PathElements
  <2>2. ASSUME NEW x \in Range(c) PROVE x \in Range(p) \cup {n}
    <3>1. PICK i \in 1 .. (L + 1) : x = c[i]
      BY <2>1
    <3>2. QED
      BY <1>2, <1>3, <1>4, <3>1
  <2>3. ASSUME NEW x \in Range(p) PROVE x \in Range(c)
    <3>1. PICK i \in 1 .. L : x = p[i]
      BY <1>1
    <3>2. i + 1 \in 1 .. (L + 1) /\ c[i + 1] = x
      BY <1>1, <1>2, <3>1
    <3>3. QED
      BY <2>1, <3>2
  <2>4. n \in Range(c)
    <3>1. 1 \in 1 .. (L + 1)
      BY <1>1
    <3>2. QED
      BY <1>2, <2>1, <3>1
  <2>5. QED
    BY <2>2, <2>3, <2>4
<1>9. QED
  BY <1>2, <1>7, <1>8 DEF c

LEMMA MeasureKeeps ==
    ASSUME IInv, Measure
    PROVE  IInv'
<1> DEFINE n == Top.node
<1>1. /\ pc = "measure" /\ pc' = pc /\ stack # <<>> /\ todo = {} /\ ~Top.entering
      /\ path' = Front(path) /\ active' = active \ {n} /\ stack' = Front(stack)
      /\ todo' = {} /\ visited' = visited /\ cycles' = cycles /\ lost' = lost /\ UNCHANGED inputs
  BY DEF Measure, Measuring
<1>2. PICK c \in Chains(n) :
          /\ \A d \in Chains(n) : Len(d) <= Len(c)
          /\ longest' = [x \in DOMAIN longest \cup {n} |-> IF x = n THEN c ELSE longest[x]]
  BY DEF Measure
<1>3. Graph' = Graph /\ Neighbors(n) = Successors(Graph, n)
  BY <1>1, SameGraph
<1>4. /\ path # <<>> /\ n = Last(path)
      /\ SimplePath(Graph, path) /\ active = Range(path)
      /\ SimplePath(Graph, path') /\ Len(path') = Len(path) - 1
      /\ Len(path) \in Nat
      /\ \A i \in 1 .. (Len(path) - 1) : path'[i] = path[i]
      /\ Range(path') = active'
      /\ stack' \in Seq(Items(Graph))
  BY <1>1, ShorterPath
<1>5. PICK e \in [1 .. Len(path) -> 1 .. Len(stack)] :
          /\ Stacked(Graph, stack, path, e)
          /\ Handled(Graph, stack, path, e, {}, Measured(Graph, path, DOMAIN longest))
  BY <1>1, StackIs
<1>6. ~Last(stack).entering
  BY <1>1 DEF Top
<1>7. n \in Nodes(Graph) /\ n \in active /\ Len(path) \in 1 .. Len(path)
      /\ Range(path) = {path[j] : j \in 1 .. Len(path)}
  <2>1. /\ Last(path) = path[Len(path)] /\ Last(path) \in Nodes(Graph)
        /\ Range(path) = {path[j] : j \in 1 .. Len(path)} /\ Len(path) >= 1
    BY <1>4, PathFront, PathElements
  <2>2. Len(path) \in 1 .. Len(path)
    BY <1>4, <2>1
  <2>3. QED
    BY <1>4, <2>1, <2>2
<1> HIDE DEF n
<1>8. /\ DOMAIN longest' = DOMAIN longest \cup {n} /\ longest'[n] = c
      /\ \A x \in DOMAIN longest : x # n => longest'[x] = longest[x]
  BY <1>2
<1>9. n \notin DOMAIN longest
  BY <1>7 DEF IInv, LongestInv
<1>10. PICK f \in [1 .. Len(path') -> 1 .. Len(stack')] :
          /\ Stacked(Graph, stack', path', f)
          /\ Handled(Graph, stack', path', f, {}, Measured(Graph, path', DOMAIN longest'))
  <2> DEFINE X == Measured(Graph, path, DOMAIN longest)
             Y == Measured(Graph, path', DOMAIN longest')
  <2>1. ASSUME NEW k \in 1 .. (Len(path) - 1), NEW m \in Nodes(Graph), <<k, m>> \in X
        PROVE  <<k, m>> \in Y
    <3>1. k \in 1 .. Len(path) /\ k \in 1 .. Len(path') /\ \A j \in 1 .. k : path'[j] = path[j]
      BY <1>4
    <3>2. m \in DOMAIN longest \/ \E j \in 1 .. k : path[j] = m
      BY <2>1, <3>1, MeasuredIs
    <3>3. m \in DOMAIN longest' \/ \E j \in 1 .. k : path'[j] = m
      BY <1>8, <3>1, <3>2
    <3>4. QED
      BY <3>1, <3>3, MeasuredIs
  <2>2. ASSUME Len(path) > 1 PROVE <<Len(path) - 1, Last(path)>> \in Y
    <3>1. Len(path) - 1 \in 1 .. Len(path')
      BY <1>4, <2>2
    <3>2. Last(path) \in DOMAIN longest' /\ Last(path) \in Nodes(Graph)
      BY <1>4, <1>7, <1>8
    <3>3. QED
      BY <3>1, <3>2, MeasuredIs
  <2> HIDE DEF X, Y
  <2>3. \E f \in [1 .. Len(Front(path)) -> 1 .. Len(Front(stack))] :
           /\ Stacked(Graph, Front(stack), Front(path), f)
           /\ Handled(Graph, stack, path, e, {}, X) => Handled(Graph, Front(stack), Front(path), f, {}, Y)
    BY <1>1, <1>5, <1>6, <2>1, <2>2, LeaveLayers
  <2>4. PICK f \in [1 .. Len(path') -> 1 .. Len(stack')] :
           /\ Stacked(Graph, stack', path', f)
           /\ Handled(Graph, stack, path, e, {}, X) => Handled(Graph, stack', path', f, {}, Y)
    BY <1>1, <2>3
  <2>5. QED
    BY <1>5, <2>4 DEF X, Y
\* The chain is a path of the graph through nodes that are measured.
<1>11. /\ SimplePath(Graph, c) /\ c # <<>> /\ c[1] = n
       /\ Range(c) \subseteq DOMAIN longest'
  <2>1. CASE c = <<n>>
    <3>1. SimplePath(Graph, c) /\ c # <<>> /\ c[1] = n
      <4>1. c \in PathsOf(Graph, n, 1)
        BY <1>7, <2>1, OneNode
      <4>2. QED
        BY <2>1, <4>1 DEF PathsOf
    <3>2. Range(c) = {n}
      BY <2>1 DEF Range
    <3>3. QED
      BY <1>8, <3>1, <3>2
  <2>2. CASE c # <<n>>
    <3>1. PICK m \in Successors(Graph, n) \cap DOMAIN longest : c = <<n>> \o longest[m]
      BY <1>2, <1>3, <2>2 DEF Chains
    <3>2. /\ SimplePath(Graph, longest[m]) /\ longest[m] # <<>> /\ longest[m][1] = m
          /\ Range(longest[m]) \subseteq DOMAIN longest
      BY <3>1 DEF IInv, LongestInv
    <3>3. n \notin Range(longest[m])
      BY <1>9, <3>2
    <3>4. /\ SimplePath(Graph, c) /\ c # <<>> /\ c[1] = n
          /\ Range(c) = Range(longest[m]) \cup {n}
      BY <3>1, <3>2, <3>3, PathBefore
    <3>5. QED
      BY <1>8, <3>2, <3>4
  <2>3. QED
    BY <2>1, <2>2
\* Without cycles all neighbours are measured, and the chain is longer than theirs.
<1>12. ASSUME CyclesOf(Graph) = {}, NEW m \in Successors(Graph, n)
       PROVE  m \in DOMAIN longest /\ Len(longest[m]) < Len(c)
  <2> DEFINE X == Measured(Graph, path, DOMAIN longest)
  <2>1. <<Len(path), m>> \in X
    <3>1. Handled(Graph, stack, path, e, {}, X)
      BY <1>5
    <3> HIDE DEF X
    <3>2. QED
      BY <1>1, <1>4, <1>5, <1>6, <1>12, <3>1, LeftIsHandled
  <2>2. m \in Nodes(Graph)
    BY SuccessorsAreNodes
  <2>3. m \in DOMAIN longest \/ m \in Range(path)
    <3>1. m \in DOMAIN longest \/ \E j \in 1 .. Len(path) : path[j] = m
      <4>1. Len(path) \in 1 .. Len(path)
        BY <1>7
      <4>2. QED
        BY <2>1, <2>2, <4>1, MeasuredIs
    <3>2. QED
      BY <1>7, <3>1
  <2>4. m \notin Range(path)
    <3>1. SUFFICES ASSUME m \in Range(path) PROVE FALSE
      OBVIOUS
    <3>2. IsFiniteSet(Nodes(Graph))
      BY GraphIsFinite DEF IInv
    <3>3. CycleThrough(path, m) \in CyclesOf(Graph)
      BY <1>4, <1>12, <3>1, <3>2, ClosingIsACycle
    <3>4. QED
      BY <1>12, <3>3
  <2>5. SimplePath(Graph, longest[m]) /\ longest[m] # <<>> /\ longest[m][1] = m
        /\ Range(longest[m]) \subseteq DOMAIN longest
    BY <2>3, <2>4 DEF IInv, LongestInv
  <2>6. Len(<<n>> \o longest[m]) = Len(longest[m]) + 1 /\ Len(longest[m]) \in Nat
    <3>1. n \notin Range(longest[m])
      BY <1>9, <2>5
    <3>2. QED
      BY <1>12, <2>5, <3>1, PathBefore, PathElements
  <2>7. <<n>> \o longest[m] \in Chains(n)
    BY <1>3, <1>12, <2>3, <2>4 DEF Chains
  <2>8. Len(<<n>> \o longest[m]) <= Len(c) /\ Len(c) \in Nat
    BY <1>2, <1>11, <2>7, PathElements
  <2>9. QED
    BY <2>3, <2>4, <2>6, <2>8
<1>13. TypeOK'
  BY <1>1, <1>3, <1>4 DEF IInv, TypeOK, inputs
<1>14. PathInv'
  BY <1>1, <1>3, <1>4 DEF PathInv
<1>15. StackInv'
  BY <1>1, <1>3, <1>10 DEF StackInv, Stacked
<1>16. VisitedInv' /\ CyclesInv'
  BY <1>1, <1>3 DEF IInv, VisitedInv, CyclesInv
<1>17. LongestInv'
  <2>1. pc' # "search"
    BY <1>1
  <2>2. DOMAIN longest' \subseteq Nodes(Graph) \ active'
    BY <1>1, <1>7, <1>8 DEF IInv, LongestInv
  <2>3. ASSUME NEW x \in DOMAIN longest'
        PROVE  /\ SimplePath(Graph, longest'[x]) /\ longest'[x] # <<>> /\ longest'[x][1] = x
               /\ Range(longest'[x]) \subseteq DOMAIN longest'
    <3>1. CASE x = n
      BY <1>8, <1>11, <3>1
    <3>2. CASE x # n
      <4>1. x \in DOMAIN longest /\ longest'[x] = longest[x]
        BY <1>8, <2>3, <3>2
      <4>2. /\ SimplePath(Graph, longest[x]) /\ longest[x] # <<>> /\ longest[x][1] = x
            /\ Range(longest[x]) \subseteq DOMAIN longest
        BY <4>1 DEF IInv, LongestInv
      <4>3. QED
        BY <1>8, <4>1, <4>2
    <3>3. QED
      BY <3>1, <3>2
  <2>4. ASSUME CyclesOf(Graph) = {}, NEW x \in DOMAIN longest', NEW m \in Successors(Graph, x)
        PROVE  m \in DOMAIN longest' /\ Len(longest'[m]) < Len(longest'[x])
    <3>1. CASE x = n
      <4>1. m \in DOMAIN longest /\ Len(longest[m]) < Len(c)
        BY <1>12, <2>4, <3>1
      <4>2. m # n
        BY <1>9, <4>1
      <4>3. QED
        BY <1>8, <3>1, <4>1, <4>2
    <3>2. CASE x # n
      <4>1. x \in DOMAIN longest /\ longest'[x] = longest[x]
        BY <1>8, <2>4, <3>2
      <4>2. m \in DOMAIN longest /\ Len(longest[m]) < Len(longest[x])
        BY <2>4, <4>1 DEF IInv, LongestInv
      <4>3. m # n
        BY <1>9, <4>2
      <4>4. QED
        BY <1>8, <4>1, <4>2, <4>3
    <3>3. QED
      BY <3>1, <3>2
  <2>5. QED
    BY <1>3, <2>1, <2>2, <2>3, <2>4 DEF LongestInv
<1>18. QED
  BY <1>13, <1>14, <1>15, <1>16, <1>17 DEF IInv

LEMMA EndMeasureKeeps ==
    ASSUME IInv, EndMeasure
    PROVE  IInv'
<1>1. /\ pc = "measure" /\ pc' = "done" /\ stack = <<>> /\ stack' = stack
      /\ todo' = todo /\ path' = path /\ active' = active /\ visited' = visited
      /\ cycles' = cycles /\ longest' = longest /\ lost' = lost /\ UNCHANGED inputs
  BY DEF EndMeasure
<1>2. Graph' = Graph
  BY <1>1, SameGraph
<1>3. path = <<>> /\ todo = {} /\ active = {}
  BY <1>1, EmptyStack
<1>4. TypeOK'
  BY <1>1, <1>2 DEF IInv, TypeOK, inputs
<1>5. PathInv'
  BY <1>1, <1>2, <1>3 DEF IInv, PathInv
<1>6. StackInv'
  BY <1>1, <1>2 DEF IInv, StackInv
<1>7. VisitedInv' /\ CyclesInv' /\ LongestInv'
  BY <1>1, <1>2 DEF IInv, VisitedInv, CyclesInv, LongestInv
<1>8. QED
  BY <1>4, <1>5, <1>6, <1>7 DEF IInv

LEMMA StutteringKeeps ==
    ASSUME IInv, UNCHANGED vars
    PROVE  IInv'
<1>1. /\ pc' = pc /\ stack' = stack /\ todo' = todo /\ path' = path /\ active' = active
      /\ visited' = visited /\ cycles' = cycles /\ longest' = longest /\ lost' = lost
      /\ local' = local /\ known' = known
  BY DEF vars
<1>2. Graph' = Graph
  BY <1>1, SameGraph DEF inputs
<1>3. TypeOK'
  BY <1>1, <1>2 DEF IInv, TypeOK
<1>4. PathInv'
  BY <1>1, <1>2 DEF IInv, PathInv
<1>5. StackInv'
  BY <1>1, <1>2 DEF IInv, StackInv, Clean
<1>6. VisitedInv' /\ CyclesInv' /\ LongestInv'
  BY <1>1, <1>2 DEF IInv, VisitedInv, CyclesInv, LongestInv, Clean
<1>7. QED
  BY <1>3, <1>4, <1>5, <1>6 DEF IInv

LEMMA InitEstablishes ==
    ASSUME Init
    PROVE  IInv
<1>1. /\ pc = "search" /\ stack = <<>> /\ todo = {} /\ path = <<>> /\ active = {} /\ visited = {}
      /\ cycles = {} /\ longest = <<>> /\ lost = FALSE
      /\ \E r \in Resources : local = r.local /\ known = r.known
  BY DEF Init
<1>2. /\ <<>> \in Seq(Items(Graph)) /\ SimplePath(Graph, <<>>) /\ Range(<<>>) = {}
      /\ \E e \in [1 .. Len(<<>>) -> 1 .. Len(<<>>)] :
            /\ Layered(Graph, <<>>, <<>>, e)
            /\ \A rest, X : Handled(Graph, <<>>, <<>>, e, rest, X)
  BY FreshStack
<1>3. TypeOK
  <2>1. IsFiniteSet(cycles) /\ Cardinality(cycles) <= MaxCycles
    BY <1>1, FS_EmptySet, ReferenceGraphAssumption
  <2>2. QED
    BY <1>1, <1>2, <2>1 DEF TypeOK
<1>4. PathInv
  BY <1>1, <1>2 DEF PathInv
<1>5. StackInv
  <2>1. PICK e \in [1 .. Len(path) -> 1 .. Len(stack)] :
            /\ Layered(Graph, stack, path, e)
            /\ \A rest, X : Handled(Graph, stack, path, e, rest, X)
    BY <1>1, <1>2
  <2>2. Handled(Graph, stack, path, e, todo, Explored(Graph, path, cycles))
    BY <2>1
  <2>3. QED
    BY <1>1, <2>1, <2>2 DEF StackInv
<1>6. VisitedInv
  BY <1>1 DEF VisitedInv
<1>7. CyclesInv
  <2>1. Len(stack) <= MaxStack
    BY <1>1, ReferenceGraphAssumption
  <2>2. QED
    BY <1>1, <2>1 DEF CyclesInv
<1>8. LongestInv
  <2>1. DOMAIN longest = {}
    BY <1>1
  <2>2. QED
    BY <1>1, <2>1 DEF LongestInv
<1>9. QED
  BY <1>3, <1>4, <1>5, <1>6, <1>7, <1>8 DEF IInv

LEMMA StepKeeps ==
    ASSUME IInv, [Next]_vars
    PROVE  IInv'
<1>1. CASE StartSearch
  BY <1>1, StartSearchKeeps
<1>2. CASE Enter
  BY <1>2, EnterKeeps
<1>3. CASE Explore
  BY <1>3, ExploreKeeps
<1>4. CASE Leave
  BY <1>4, LeaveKeeps
<1>5. CASE EndSearch
  BY <1>5, EndSearchKeeps
<1>6. CASE StartMeasure
  BY <1>6, StartMeasureKeeps
<1>7. CASE SkipMeasured
  BY <1>7, SkipMeasuredKeeps
<1>8. CASE Descend
  BY <1>8, DescendKeeps
<1>9. CASE Extend
  BY <1>9, ExtendKeeps
<1>10. CASE Measure
  BY <1>10, MeasureKeeps
<1>11. CASE EndMeasure
  BY <1>11, EndMeasureKeeps
<1>12. CASE Finished
  BY <1>12, StutteringKeeps DEF Finished
<1>13. CASE UNCHANGED vars
  BY <1>13, StutteringKeeps
<1>14. QED
  BY <1>1, <1>2, <1>3, <1>4, <1>5, <1>6, <1>7, <1>8, <1>9, <1>10, <1>11, <1>12, <1>13 DEF Next

-----------------------------------------------------------------------------
(* What holds of every run.                                                *)

\* The stack is the path and what waits beside it; what is visited is explored,
\* or reached from where the search is; the measured chains are paths that shrink
\* along every reference of a graph without cycles.
THEOREM Invariance == Spec => []IInv
<1>1. Init => IInv
  BY InitEstablishes
<1>2. IInv /\ [Next]_vars => IInv'
  BY StepKeeps
<1>3. QED
  BY <1>1, <1>2, PTL DEF Spec

\* For all limits, resources and orders of the neighbours: each cycle reported is
\* one of the graph, all are reported unless a limit was met, and the work stack
\* stays within its limit.
THEOREM SearchExact == Spec => []SearchIsExact
<1>1. IInv => SearchIsExact
  BY DEF IInv, CyclesInv, SearchIsExact
<1>2. QED
  BY <1>1, Invariance, PTL

\* No node is taken from the work stack while it is being visited: the branch of
\* _visit_entering_node for that case is dead, and _compute_longest_paths, which
\* has none, never measures a node twice.
THEOREM NoReentry == Spec => []ReentryIsDead
<1>1. IInv => ReentryIsDead
  BY TopToEnter DEF ReentryIsDead
<1>2. QED
  BY <1>1, Invariance, PTL

\* What is left of a path of two nodes or more without the first of them.
LEMMA PathAfter ==
    ASSUME NEW g, NEW p, SimplePath(g, p), Len(p) > 1
    PROVE  \E q : /\ SimplePath(g, q) /\ q # <<>> /\ q[1] \in Successors(g, p[1])
                  /\ Len(q) = Len(p) - 1
<1> DEFINE q == SubSeq(p, 2, Len(p))
<1>1. Len(p) \in Nat
  BY PathElements
<1>2. 2 \in 1 .. Len(p) /\ Len(p) \in 2 .. Len(p) /\ 1 \in 1 .. (Len(p) - 1) /\ Len(p) - 2 + 1 = Len(p) - 1
      /\ 2 + 1 - 1 = 2 /\ 1 + 1 = 2
  BY <1>1
<1>3. SimplePath(g, q) /\ Len(q) = Len(p) - 2 + 1 /\ q # <<>>
      /\ \A i \in 1 .. (Len(p) - 2 + 1) : q[i] = p[2 + i - 1]
  <2>1. 2 \in 1 .. Len(p) /\ Len(p) \in 2 .. Len(p)
    BY <1>2
  <2>2. ASSUME NEW a \in 1 .. Len(p), NEW b \in a .. Len(p)
        PROVE  /\ SimplePath(g, SubSeq(p, a, b)) /\ Len(SubSeq(p, a, b)) = b - a + 1
               /\ \A i \in 1 .. (b - a + 1) : SubSeq(p, a, b)[i] = p[a + i - 1]
               /\ SubSeq(p, a, b) # <<>>
               /\ Last(SubSeq(p, a, b)) = p[b]
    BY PathPart
  <2>3. QED
    BY <2>1, <2>2
<1>4. q[1] = p[2]
  BY <1>2, <1>3
<1>5. p[2] \in Successors(g, p[1])
  BY <1>2 DEF SimplePath
<1>6. QED
  BY <1>2, <1>3, <1>4, <1>5

\* Chains that shrink along every reference are the longest paths there are.
LEMMA ShrinkingIsLongest ==
    ASSUME NEW g, NEW f,
           \A n \in DOMAIN f : /\ SimplePath(g, f[n]) /\ f[n] # <<>>
                               /\ \A m \in Successors(g, n) : m \in DOMAIN f /\ Len(f[m]) < Len(f[n])
    PROVE  \A p : SimplePath(g, p) /\ p # <<>> /\ p[1] \in DOMAIN f => Len(p) <= Len(f[p[1]])
<1> DEFINE Longer(p) == SimplePath(g, p) /\ p # <<>> /\ p[1] \in DOMAIN f /\ ~(Len(p) <= Len(f[p[1]]))
           S == {l \in Nat : \E p : Longer(p) /\ Len(p) = l}
<1>1. SUFFICES ASSUME NEW p, Longer(p) PROVE FALSE
  OBVIOUS
<1>2. Len(p) \in S
  BY <1>1, PathElements
<1>3. PICK l \in S : \A k \in S : l <= k
  BY <1>2, LeastNatural
<1>4. PICK r : Longer(r) /\ Len(r) = l
  BY <1>3
<1>5. /\ SimplePath(g, f[r[1]]) /\ f[r[1]] # <<>>
      /\ \A m \in Successors(g, r[1]) : m \in DOMAIN f /\ Len(f[m]) < Len(f[r[1]])
  BY <1>4
<1>6. Len(f[r[1]]) \in Nat /\ Len(f[r[1]]) >= 1 /\ l \in Nat /\ l > Len(f[r[1]])
  BY <1>4, <1>5, PathElements
<1>7. PICK q : SimplePath(g, q) /\ q # <<>> /\ q[1] \in Successors(g, r[1]) /\ Len(q) = l - 1
  <2>1. Len(r) > 1
    BY <1>4, <1>6
  <2>2. QED
    BY <1>4, <2>1, PathAfter
<1>8. q[1] \in DOMAIN f /\ Len(f[q[1]]) < Len(f[r[1]])
  BY <1>5, <1>7
<1>9. Len(f[q[1]]) \in Nat
  BY <1>8, PathElements
<1>10. Longer(q)
  BY <1>6, <1>7, <1>8, <1>9
<1>11. l - 1 \in S
  BY <1>6, <1>7, <1>10
<1>12. QED
  BY <1>3, <1>6, <1>11

\* For all resources and orders of the neighbours: what is measured are paths of
\* the graph, and without cycles the longest ones.
THEOREM ChainsLongest == Spec => []ChainsAreLongest
<1>1. ASSUME IInv PROVE ChainsAreLongest
  <2>1. IsFiniteSet(Nodes(Graph))
    BY <1>1, GraphIsFinite DEF IInv
  <2>2. ASSUME NEW n \in DOMAIN longest
        PROVE  n \in Nodes(Graph) /\ longest[n] \in PathsFrom(Graph, n)
    <3>1. n \in Nodes(Graph) /\ SimplePath(Graph, longest[n]) /\ longest[n] # <<>> /\ longest[n][1] = n
      BY <1>1 DEF IInv, LongestInv
    <3>2. QED
      BY <2>1, <3>1, PathsAre
  <2>3. ASSUME CyclesOf(Graph) = {}, NEW n \in DOMAIN longest, NEW p \in PathsFrom(Graph, n)
        PROVE  Len(p) <= Len(longest[n])
    <3>1. SimplePath(Graph, p) /\ p # <<>> /\ p[1] = n
      BY <2>1, <2>2, PathsAre
    <3>2. \A x \in DOMAIN longest :
              /\ SimplePath(Graph, longest[x]) /\ longest[x] # <<>>
              /\ \A m \in Successors(Graph, x) : m \in DOMAIN longest /\ Len(longest[m]) < Len(longest[x])
      BY <1>1, <2>3 DEF IInv, LongestInv
    <3>3. QED
      BY <3>1, <3>2, ShrinkingIsLongest
  <2>4. QED
    BY <2>2, <2>3 DEF ChainsAreLongest
<1>2. QED
  BY <1>1, Invariance, PTL

-----------------------------------------------------------------------------
(* The bundle that results.                                                *)

\* What a node of the bundle refers to, it refers to in the graph that was
\* searched, which may know it by one of the bundle's entries.
LEMMA LoadedIsSearched ==
    ASSUME NEW n, InView(n), NEW m \in Successors(LoadedGraph, n)
    PROVE  m \in Successors(Graph, n)
<1> DEFINE own == NodesOf(local)
           other == {<<id, "value">> : id \in DOMAIN known} \ own
<1>1. /\ DOMAIN Graph = own \cup other
      /\ \A x \in own : Graph[x] = {r \in local[x[1]][x[2]] : r[1] \in DOMAIN local \cup DOMAIN known}
      /\ \A x \in other : Graph[x] = Dependencies(known[x[1]])
  BY DEF Graph
<1>2. n \in NodesOf(Loaded) /\ m \in Loaded[n[1]][n[2]] /\ m \in NodesOf(Loaded)
  BY DEF Successors, LoadedGraph
<1>3. /\ DOMAIN Loaded = DOMAIN local \cup DOMAIN known
      /\ \A id \in DOMAIN local : Loaded[id] = local[id]
      /\ \A id \in DOMAIN known : id \notin DOMAIN local => Loaded[id] = known[id]
  BY DEF Loaded
<1>4. PICK id \in DOMAIN Loaded : \E part \in DOMAIN Loaded[id] : n = <<id, part>>
  BY <1>2 DEF NodesOf
<1>5. PICK part \in DOMAIN Loaded[id] : n = <<id, part>>
  BY <1>4
<1>6. m[1] \in DOMAIN Loaded
  BY <1>2 DEF NodesOf
<1>7. n[1] = id /\ n[2] = part
  BY <1>5
<1>8. n \in DOMAIN Graph /\ m \in Graph[n]
  <2>1. CASE id \in DOMAIN local
    <3>1. n \in own
      BY <1>3, <1>5, <2>1 DEF NodesOf
    <3>2. m \in local[n[1]][n[2]] /\ m[1] \in DOMAIN local \cup DOMAIN known
      BY <1>2, <1>3, <1>6, <1>7, <2>1
    <3>3. QED
      BY <1>1, <3>1, <3>2
  <2>2. CASE id \notin DOMAIN local
    <3>1. n \notin own
      BY <1>7, <2>2 DEF NodesOf
    <3>2. n \in other /\ id \in DOMAIN known /\ Loaded[id] = known[id]
      <4>1. id \in DOMAIN known /\ Loaded[id] = known[id]
        BY <1>3, <2>2
      <4>2. n = <<id, "value">>
        BY <1>5, <1>7, <3>1 DEF InView
      <4>3. QED
        BY <3>1, <4>1, <4>2
    <3>3. m \in known[id][part] /\ part \in DOMAIN known[id]
      BY <1>2, <1>5, <1>7, <3>2
    <3>4. m \in Dependencies(known[id])
      BY <3>3 DEF Dependencies
    <3>5. QED
      BY <1>1, <1>7, <3>2, <3>4
  <2>3. QED
    BY <2>1, <2>2
<1>9. QED
  BY <1>8 DEF Successors

LEMMA LoadedCycles ==
    ASSUME TypeOK, NEW C \in CyclesOf(LoadedGraph), \A step \in C : InView(step[1])
    PROVE  C \in CyclesOf(Graph)
<1>1. IsFiniteSet(Nodes(Graph)) /\ IsFiniteSet(Nodes(LoadedGraph))
  BY GraphIsFinite
<1>2. PICK p : /\ SimplePath(LoadedGraph, p) /\ p # <<>> /\ p[1] \in Successors(LoadedGraph, Last(p))
               /\ C = CycleThrough(p, p[1])
  BY <1>1, CyclesAre
<1> DEFINE L == Len(p)
<1>3. p \in Seq(Nodes(LoadedGraph)) /\ L \in Nat /\ L >= 1 /\ Last(p) = p[L]
  BY <1>2, PathElements DEF Last
<1>4. 1 \in 1 .. L /\ 1 .. L = 1 .. (L - 1) \cup {L}
  BY <1>3
<1>5. C = {<<p[i], p[i + 1]>> : i \in 1 .. (L - 1)} \cup {<<p[L], p[1]>>}
  BY <1>2, <1>4, CycleAt
\* Each node of the cycle refers to the next one in the graph, too.
<1>6. /\ \A i \in 1 .. (L - 1) : p[i + 1] \in Successors(Graph, p[i])
      /\ p[1] \in Successors(Graph, p[L])
  <2>1. /\ \A i \in 1 .. (L - 1) : <<p[i], p[i + 1]>> \in C
        /\ <<p[L], p[1]>> \in C
    BY <1>5
  <2>2. \A i \in 1 .. (L - 1) : InView(p[i])
    BY <2>1
  <2>3. InView(p[L])
    BY <2>1
  <2>4. /\ \A i \in 1 .. (L - 1) : p[i + 1] \in Successors(LoadedGraph, p[i])
        /\ p[1] \in Successors(LoadedGraph, p[L])
    BY <1>2, <1>3 DEF SimplePath
  <2>5. QED
    BY <2>2, <2>3, <2>4, LoadedIsSearched
<1>7. SimplePath(Graph, p)
  <2>1. p \in Seq(Nodes(Graph))
    <3>1. \A i \in 1 .. (L - 1) : p[i] \in Nodes(Graph)
      BY <1>6, SuccessorsAreNodes
    <3>2. p[L] \in Nodes(Graph)
      BY <1>6, SuccessorsAreNodes
    <3>3. QED
      BY <1>3, <1>4, <3>1, <3>2
  <2>2. \A i, j \in 1 .. Len(p) : p[i] = p[j] => i = j
    BY <1>2 DEF SimplePath
  <2>3. QED
    BY <1>6, <2>1, <2>2 DEF SimplePath
<1>8. p[1] \in Successors(Graph, Last(p))
  BY <1>3, <1>6
<1>9. QED
  BY <1>1, <1>2, <1>7, <1>8, CyclesAre

\* For all limits and resources: when no limit was met, every cycle of the bundle
\* as it will be is reported, but for those through attributes of entries that it
\* has already.
THEOREM CyclesPredicted == Spec => []PredictsCycles
<1>1. ASSUME IInv PROVE PredictsCycles
  <2>1. \A C \in CyclesOf(LoadedGraph) : (\A step \in C : InView(step[1])) => C \in CyclesOf(Graph)
    BY <1>1, LoadedCycles DEF IInv
  <2>2. pc = "done" => cycles = CyclesOf(Graph) \/ Cardinality(cycles) = MaxCycles \/ lost
    BY <1>1 DEF IInv, CyclesInv
  <2>3. QED
    BY <2>1, <2>2 DEF PredictsCycles
<1>2. QED
  BY <1>1, Invariance, PTL
=============================================================================
