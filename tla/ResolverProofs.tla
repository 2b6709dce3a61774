--------------------------- MODULE ResolverProofs ---------------------------
(***************************************************************************)
(* Proofs about Resolver, for any catalog, arguments, depth, budget and    *)
(* modes: the counters of the resolution context and the depth that nested *)
(* format calls share count the calls in progress, whatever was refused,   *)
(* raised or cut short, and they bound the recursion; a call that reports  *)
(* no error returned what the resource means; and a reported cycle is one. *)
(*                                                                         *)
(* What holds of the stack holds of every suffix of it, since each was the *)
(* stack once and will be again; so the invariant says of each frame what  *)
(* it may lie on, and of a format call's frame that the context it saved   *)
(* fits the frames below.                                                  *)
(***************************************************************************)
EXTENDS ResolverMeaning, Integers, FiniteSetTheorems, SequenceTheorems, TLAPS

Guards == {"placeable", "nest", "select", "call", "term"}
Bodies == {"message", "body"}
Kinds == Guards \cup Bodies \cup {"pattern", "format"}

IsSeq(s) == s \in Seq({s[i] : i \in DOMAIN s})
Suffix(s, i) == SubSeq(s, i, Len(s))
Under(s, kinds) == s # <<>> /\ Head(s).at \in kinds

Count(s, kinds) == Cardinality({i \in DOMAIN s : s[i].at \in kinds})
OwnOf(s) == {i \in DOMAIN s : \A j \in 1 .. i : s[j].at # "format"}
Owned(s, kinds) == Cardinality({i \in OwnOf(s) : s[i].at \in kinds})

\* A context's lookup set is its path, which has each key once.
PathOK(c) ==
    /\ IsSeq(c.path) /\ c.seen = {c.path[i] : i \in DOMAIN c.path}
    /\ \A i, j \in DOMAIN c.path : c.path[i] = c.path[j] => i = j

\* A term whose arguments are evaluated was not on the path when they began,
\* nor was the path full.
TermsOK(path, s) ==
    \A i \in OwnOf(s) : s[i].at = "term" =>
        LET entered == Owned(Suffix(s, i + 1), Bodies)
        IN  entered < MaxDepth /\ \A j \in 1 .. entered : path[j] # s[i].expr.key

Fields == {"path", "seen", "depth", "chars", "errors", "args"}

\* A context counts the frames of its format call; pending is 1 while a term
\* is between two arguments and not under a guard.
Fits(c, s, pending) ==
    /\ DOMAIN c = Fields /\ PathOK(c)
    /\ Len(c.path) = Owned(s, Bodies) /\ Len(c.path) <= MaxDepth
    /\ c.depth = Owned(s, Guards) - pending /\ c.depth <= MaxDepth
    /\ TermsOK(c.path, s)

Segment == 4 * MaxDepth + 2    \* the most frames of one format call

\* What a frame may lie on.
Fit(f, below) ==
    /\ "at" \in DOMAIN f /\ f.at \in Kinds
    /\ f.at = "format" =>
          /\ below # <<>> => Under(below, Guards) /\ Owned(below, {"message"}) >= 1
          /\ Fits(f.saved, below, 0)
          /\ Len(below) <= Count(below, {"format"}) * Segment
    /\ f.at = "message" => Under(below, Guards \cup {"format"})
                           /\ f.global = Count(below, {"message"})
    /\ f.at = "pattern" => Under(below, Guards \cup Bodies)
    /\ f.at = "placeable" => Under(below, {"pattern"})
    /\ f.at \in {"nest", "select", "call", "term", "body"} => Under(below, Guards)
    /\ f.at = "term" => "expr" \in DOMAIN f
    /\ f.at \notin {"format", "message"} => Owned(below, {"message"}) >= 1

\* Each nested format call is made while a message is resolved; each pattern
\* lies on a frame of its own; and all format calls but the last are bounded.
Sums(s) ==
    /\ Count(s, {"format"}) + Owned(s, {"message"}) <= Count(s, {"message"}) + 1
    /\ Owned(s, {"pattern"}) + (IF Under(s, Guards \cup Bodies) THEN 1 ELSE 0)
         <= Owned(s, Guards) + Owned(s, Bodies)
    /\ Owned(s, Kinds) = Owned(s, {"pattern"}) + Owned(s, Guards) + Owned(s, Bodies)
    /\ Owned(s, Guards) = Owned(s, {"placeable", "nest", "select", "call"}) + Owned(s, {"term"})
    /\ s # <<>> => Len(s) + Segment <= Count(s, {"format"}) * Segment + Owned(s, Kinds) + 1

StackOK(s) ==
    /\ IsSeq(s)
    /\ \A i \in DOMAIN s : Fit(s[i], Suffix(s, i + 1)) /\ Sums(Suffix(s, i))

Good(c, g, s, pending) ==
    /\ StackOK(s) /\ Fits(c, s, pending)
    /\ g = Count(s, {"message"}) /\ g <= MaxDepth

Pending == IF Is("run") /\ At("term") THEN 1 ELSE 0

\* What is evaluated, resolved, run or raised, and the frame that waits for it.
NowInv ==
    /\ Is("idle") => control = <<>>
    /\ Is("eval") \/ Is("raise") => Under(control, Guards)
    /\ Is("resolve") => Under(control, Guards \cup {"format"})

IInv == Good(ctx, global, control, Pending) /\ NowInv

-----------------------------------------------------------------------------
(* Sequences of anything.                                                  *)

LEMMA SeqIsSeq ==
    ASSUME NEW S, NEW s \in Seq(S)
    PROVE  IsSeq(s)
<1>1. DOMAIN s = 1 .. Len(s) /\ Len(s) \in Nat
  OBVIOUS
<1>2. s \in [1 .. Len(s) -> {s[i] : i \in DOMAIN s}]
  BY <1>1
<1>3. QED
  BY <1>1, <1>2, SeqDef DEF IsSeq

LEMMA SeqDomain ==
    ASSUME NEW s, IsSeq(s)
    PROVE  DOMAIN s = 1 .. Len(s) /\ Len(s) \in Nat
<1> DEFINE S == {s[i] : i \in DOMAIN s}
<1>1. s \in Seq(S)
  BY DEF IsSeq
<1> HIDE DEF S
<1>2. QED
  BY <1>1, LenProperties

LEMMA EmptyIsSeq == IsSeq(<<>>) /\ Len(<<>>) = 0 /\ DOMAIN <<>> = {}
<1>1. <<>> \in Seq({}) /\ Len(<<>>) = 0 /\ DOMAIN <<>> = {}
  OBVIOUS
<1>2. QED
  BY <1>1, SeqIsSeq

LEMMA ConsSeq ==
    ASSUME NEW s, IsSeq(s), NEW f
    PROVE  /\ IsSeq(<<f>> \o s) /\ Len(<<f>> \o s) = Len(s) + 1
           /\ (<<f>> \o s)[1] = f /\ \A i \in 1 .. Len(s) : (<<f>> \o s)[i + 1] = s[i]
           /\ <<f>> \o s # <<>> /\ Head(<<f>> \o s) = f /\ Tail(<<f>> \o s) = s
<1> DEFINE S == {s[i] : i \in DOMAIN s} \cup {f}
           t == <<f>> \o s
<1>1. s \in Seq(S)
  BY SeqDef DEF IsSeq
<1>2. <<f>> \in Seq(S) /\ Len(<<f>>) = 1 /\ <<f>>[1] = f
  OBVIOUS
<1> HIDE DEF S
<1>3. /\ t \in Seq(S) /\ Len(t) = Len(<<f>>) + Len(s)
      /\ \A j \in 1 .. (Len(<<f>>) + Len(s)) :
             t[j] = IF j <= Len(<<f>>) THEN <<f>>[j] ELSE s[j - Len(<<f>>)]
  BY <1>1, <1>2, ConcatProperties
<1>4. Len(s) \in Nat
  BY SeqDomain
<1> HIDE DEF t
<1>5. /\ IsSeq(t) /\ Len(t) = Len(s) + 1
      /\ t[1] = f /\ \A i \in 1 .. Len(s) : t[i + 1] = s[i]
  BY <1>2, <1>3, <1>4, SeqIsSeq
<1>6. t # <<>> /\ Head(t) = f
  BY <1>4, <1>5, EmptyIsSeq
<1>7. Tail(t) = s
  <2>1. /\ Tail(t) \in Seq(S) /\ Len(Tail(t)) = Len(t) - 1
        /\ \A i \in 1 .. Len(Tail(t)) : Tail(t)[i] = t[i + 1]
    BY <1>3, <1>6, HeadTailProperties
  <2>2. \A i \in 1 .. Len(s) : Tail(t)[i] = s[i]
    BY <1>4, <1>5, <2>1
  <2>3. QED
    BY <1>1, <1>4, <1>5, <2>1, <2>2, SeqEqual
<1>8. QED
  BY <1>5, <1>6, <1>7 DEF t

LEMMA Decompose ==
    ASSUME NEW s, IsSeq(s), s # <<>>
    PROVE  IsSeq(Tail(s)) /\ s = <<Head(s)>> \o Tail(s) /\ Head(s) = s[1]
<1> DEFINE S == {s[i] : i \in DOMAIN s}
           t == <<Head(s)>> \o Tail(s)
<1>1. s \in Seq(S)
  BY DEF IsSeq
<1> HIDE DEF S
<1>2. /\ Head(s) \in S /\ Tail(s) \in Seq(S) /\ Len(Tail(s)) = Len(s) - 1
      /\ \A i \in 1 .. Len(Tail(s)) : Tail(s)[i] = s[i + 1]
  BY <1>1, HeadTailProperties
<1>3. IsSeq(Tail(s)) /\ Head(s) = s[1]
  <2>1. IsSeq(Tail(s))
    BY <1>2, SeqIsSeq
  <2>2. Head(s) = s[1]
    BY <1>1, SeqDomain
  <2>3. QED
    BY <2>1, <2>2
<1>4. Len(s) \in Nat /\ Len(Tail(s)) \in Nat
  BY <1>1, <1>2, LenProperties
<1>5. /\ IsSeq(t) /\ Len(t) = Len(Tail(s)) + 1 /\ t[1] = Head(s)
      /\ \A i \in 1 .. Len(Tail(s)) : t[i + 1] = Tail(s)[i]
  BY <1>3, ConsSeq
<1> HIDE DEF t
<1>6. Len(t) = Len(s) /\ \A i \in 1 .. Len(s) : t[i] = s[i]
  <2>1. ASSUME NEW i \in 1 .. Len(s) PROVE t[i] = s[i]
    <3>1. CASE i = 1
      BY <1>3, <1>5, <3>1
    <3>2. CASE i # 1
      <4>1. i - 1 \in 1 .. Len(Tail(s)) /\ (i - 1) + 1 = i
        BY <1>2, <1>4, <3>2
      <4>2. QED
        BY <1>2, <1>5, <4>1
    <3>3. QED
      BY <3>1, <3>2
  <2>2. QED
    BY <1>2, <1>4, <1>5, <2>1
<1>7. t = s
  <2>1. t \in Seq({t[i] : i \in DOMAIN t} \cup S)
    BY <1>5, SeqDef DEF IsSeq
  <2>2. s \in Seq({t[i] : i \in DOMAIN t} \cup S)
    BY <1>1, SeqDef
  <2>3. QED
    BY <1>6, <2>1, <2>2, SeqEqual
<1>8. QED
  BY <1>3, <1>7 DEF t

LEMMA SuffixOfCons ==
    ASSUME NEW s, IsSeq(s), NEW f
    PROVE  /\ Suffix(<<f>> \o s, 1) = <<f>> \o s /\ Suffix(<<f>> \o s, 2) = s
           /\ \A i \in 1 .. (Len(s) + 1) : Suffix(<<f>> \o s, i + 1) = Suffix(s, i)
           /\ \A i \in 1 .. (Len(s) + 1) :
                  IsSeq(Suffix(s, i)) /\ Len(Suffix(s, i)) = Len(s) - i + 1
                  /\ \A j \in 1 .. (Len(s) - i + 1) : Suffix(s, i)[j] = s[i + j - 1]
<1> DEFINE S == {s[i] : i \in DOMAIN s} \cup {f}
           t == <<f>> \o s
<1>1. s \in Seq(S) /\ Len(s) \in Nat
  BY SeqDef, SeqDomain DEF IsSeq
<1>2. /\ Len(t) = Len(s) + 1 /\ t[1] = f /\ \A i \in 1 .. Len(s) : t[i + 1] = s[i]
  BY ConsSeq
<1>3. t \in Seq(S)
  <2>1. <<f>> \in Seq(S)
    OBVIOUS
  <2>2. QED
    BY <1>1, <2>1, ConcatProperties
<1> HIDE DEF S, t
<1>4. ASSUME NEW i \in 1 .. (Len(s) + 1)
      PROVE  /\ Suffix(s, i) \in Seq(S) /\ Len(Suffix(s, i)) = Len(s) - i + 1
             /\ \A j \in 1 .. (Len(s) - i + 1) : Suffix(s, i)[j] = s[i + j - 1]
  BY <1>1, SubSeqProperties DEF Suffix
<1>5. ASSUME NEW i \in 1 .. (Len(t) + 1)
      PROVE  /\ Suffix(t, i) \in Seq(S) /\ Len(Suffix(t, i)) = Len(t) - i + 1
             /\ \A j \in 1 .. (Len(t) - i + 1) : Suffix(t, i)[j] = t[i + j - 1]
  BY <1>2, <1>3, <1>1, SubSeqProperties DEF Suffix
<1>6. ASSUME NEW i \in 1 .. (Len(s) + 1)
      PROVE  Suffix(t, i + 1) = Suffix(s, i)
  <2>1. i + 1 \in 1 .. (Len(t) + 1)
    BY <1>1, <1>2
  <2>2. /\ Suffix(t, i + 1) \in Seq(S) /\ Len(Suffix(t, i + 1)) = Len(s) - i + 1
        /\ \A j \in 1 .. (Len(s) - i + 1) : Suffix(t, i + 1)[j] = t[i + j]
    <3>1. Len(t) - (i + 1) + 1 = Len(s) - i + 1
      BY <1>1, <1>2
    <3>2. \A j \in 1 .. (Len(s) - i + 1) : (i + 1) + j - 1 = i + j
      BY <1>1
    <3>3. /\ Suffix(t, i + 1) \in Seq(S) /\ Len(Suffix(t, i + 1)) = Len(t) - (i + 1) + 1
          /\ \A j \in 1 .. (Len(t) - (i + 1) + 1) : Suffix(t, i + 1)[j] = t[(i + 1) + j - 1]
      BY <1>5, <2>1
    <3>4. QED
      BY <3>1, <3>2, <3>3
  <2>3. \A j \in 1 .. (Len(s) - i + 1) : t[i + j] = s[i + j - 1]
    <3>1. ASSUME NEW j \in 1 .. (Len(s) - i + 1) PROVE t[i + j] = s[i + j - 1]
      <4>1. i + j - 1 \in 1 .. Len(s) /\ (i + j - 1) + 1 = i + j
        BY <1>1
      <4>2. QED
        BY <1>2, <4>1
    <3>2. QED
      BY <3>1
  <2>4. /\ Suffix(s, i) \in Seq(S) /\ Len(Suffix(s, i)) = Len(s) - i + 1
        /\ \A j \in 1 .. (Len(s) - i + 1) : Suffix(s, i)[j] = s[i + j - 1]
    BY <1>4
  <2>5. Len(Suffix(t, i + 1)) = Len(Suffix(s, i))
    BY <2>2, <2>4
  <2>6. \A j \in 1 .. Len(Suffix(t, i + 1)) : Suffix(t, i + 1)[j] = Suffix(s, i)[j]
    BY <2>2, <2>3, <2>4
  <2>7. QED
    BY <2>2, <2>4, <2>5, <2>6, SeqEqual
<1>7. Suffix(t, 1) = t
  BY <1>1, <1>2, <1>3 DEF Suffix
<1>8. Suffix(s, 1) = s
  BY <1>1 DEF Suffix
<1>9. 1 \in 1 .. (Len(s) + 1)
  BY <1>1
<1>10. Suffix(t, 2) = s
  BY <1>1, <1>6, <1>8, <1>9
<1>11. \A i \in 1 .. (Len(s) + 1) : IsSeq(Suffix(s, i))
  BY <1>4, SeqIsSeq
<1>12. QED
  BY <1>4, <1>6, <1>7, <1>10, <1>11 DEF t

-----------------------------------------------------------------------------
(* Counting frames.                                                        *)

LEMMA Shift ==
    ASSUME NEW S \in SUBSET Nat, IsFiniteSet(S), NEW n \in Nat
    PROVE  IsFiniteSet({i + n : i \in S}) /\ Cardinality({i + n : i \in S}) = Cardinality(S)
<1> DEFINE f == [i \in S |-> i + n]
           T == {i + n : i \in S}
<1>1. f \in [S -> T]
  OBVIOUS
<1>2. \A i, j \in S : f[i] = f[j] => i = j
  OBVIOUS
<1>3. \A k \in T : \E i \in S : f[i] = k
  OBVIOUS
<1> HIDE DEF f, T
<1>4. ExistsBijection(S, T)
  BY <1>1, <1>2, <1>3 DEF ExistsBijection, Bijection, Injection, Surjection, IsInjective
<1>5. IsFiniteSet(T) /\ Cardinality(T) = Cardinality(S)
  BY <1>4, FS_Bijection
<1>6. QED
  BY <1>5 DEF T

\* The positions of a sequence that are counted.
LEMMA Positions ==
    ASSUME NEW s, IsSeq(s), NEW P \in SUBSET DOMAIN s
    PROVE  P \in SUBSET Nat /\ IsFiniteSet(P) /\ Cardinality(P) \in Nat /\ 0 \notin P
<1>1. DOMAIN s = 1 .. Len(s) /\ Len(s) \in Nat
  BY SeqDomain
<1>2. IsFiniteSet(1 .. Len(s))
  BY <1>1, FS_Interval
<1>3. IsFiniteSet(P)
  BY <1>1, <1>2, FS_Subset
<1>4. Cardinality(P) \in Nat
  BY <1>3, FS_CardinalityType
<1>5. QED
  BY <1>1, <1>3, <1>4

LEMMA OneMore ==
    ASSUME NEW s, IsSeq(s), NEW P \in SUBSET DOMAIN s, NEW counted \in BOOLEAN
    PROVE  Cardinality({i + 1 : i \in P} \cup (IF counted THEN {1} ELSE {})) =
             Cardinality(P) + (IF counted THEN 1 ELSE 0)
<1> DEFINE T == {i + 1 : i \in P}
<1>1. P \in SUBSET Nat /\ IsFiniteSet(P) /\ Cardinality(P) \in Nat /\ 0 \notin P
  BY Positions
<1>2. IsFiniteSet(T) /\ Cardinality(T) = Cardinality(P)
  BY <1>1, Shift
<1>3. 1 \notin T
  BY <1>1
<1> HIDE DEF T
<1>4. Cardinality(T \cup {1}) = Cardinality(T) + 1
  BY <1>2, <1>3, FS_AddElement
<1>5. T \cup {} = T
  OBVIOUS
<1>6. QED
  BY <1>1, <1>2, <1>4, <1>5 DEF T

\* One more frame on top.
LEMMA Counts ==
    ASSUME NEW s, IsSeq(s), NEW f, NEW kinds
    PROVE  /\ Count(s, kinds) \in Nat
           /\ Count(<<f>> \o s, kinds) = Count(s, kinds) + (IF f.at \in kinds THEN 1 ELSE 0)
<1> DEFINE t == <<f>> \o s
           P == {i \in DOMAIN s : s[i].at \in kinds}
           Q == {i \in DOMAIN t : t[i].at \in kinds}
<1>1. DOMAIN s = 1 .. Len(s) /\ Len(s) \in Nat
  BY SeqDomain
<1>2. /\ DOMAIN t = 1 .. (Len(s) + 1) /\ t[1] = f
      /\ \A i \in 1 .. Len(s) : t[i + 1] = s[i]
  BY <1>1, ConsSeq, SeqDomain
<1> HIDE DEF t
<1>3. Q = {i + 1 : i \in P} \cup (IF f.at \in kinds THEN {1} ELSE {})
  <2>1. ASSUME NEW i \in 1 .. (Len(s) + 1), i # 1 PROVE i - 1 \in 1 .. Len(s) /\ (i - 1) + 1 = i
    BY <1>1, <2>1
  <2>2. ASSUME NEW i \in Q, i # 1 PROVE i \in {k + 1 : k \in P}
    BY <1>1, <1>2, <2>1, <2>2
  <2>3. ASSUME NEW i \in P PROVE i + 1 \in Q
    BY <1>1, <1>2
  <2>4. 1 \in Q <=> f.at \in kinds
    BY <1>1, <1>2
  <2>5. QED
    BY <2>2, <2>3, <2>4
<1>4. P \in SUBSET DOMAIN s /\ (f.at \in kinds) \in BOOLEAN
  OBVIOUS
<1> HIDE DEF P, Q
<1>5. Cardinality(P) \in Nat
  BY <1>4, Positions
<1>6. Cardinality(Q) = Cardinality(P) + (IF f.at \in kinds THEN 1 ELSE 0)
  BY <1>3, <1>4, OneMore
<1>7. QED
  BY <1>5, <1>6 DEF Count, t, P, Q

LEMMA OwnOfCons ==
    ASSUME NEW s, IsSeq(s), NEW f
    PROVE  OwnOf(<<f>> \o s) =
             IF f.at = "format" THEN {} ELSE {i + 1 : i \in OwnOf(s)} \cup {1}
<1> DEFINE t == <<f>> \o s
<1>1. DOMAIN s = 1 .. Len(s) /\ Len(s) \in Nat
  BY SeqDomain
<1>2. /\ DOMAIN t = 1 .. (Len(s) + 1) /\ t[1] = f
      /\ \A i \in 1 .. Len(s) : t[i + 1] = s[i]
  BY <1>1, ConsSeq, SeqDomain
<1> HIDE DEF t
<1>3. CASE f.at = "format"
  <2>1. \A i \in DOMAIN t : 1 \in 1 .. i
    BY <1>1, <1>2
  <2>2. QED
    BY <1>2, <1>3, <2>1 DEF OwnOf, t
<1>4. CASE f.at # "format"
  <2>1. ASSUME NEW i \in OwnOf(t), i # 1 PROVE i - 1 \in OwnOf(s) /\ (i - 1) + 1 = i
    <3>1. i \in 1 .. (Len(s) + 1) /\ i - 1 \in 1 .. Len(s) /\ (i - 1) + 1 = i
      BY <1>1, <1>2, <2>1 DEF OwnOf
    <3>2. ASSUME NEW j \in 1 .. (i - 1) PROVE s[j].at # "format"
      <4>1. j + 1 \in 1 .. i /\ j \in 1 .. Len(s)
        BY <1>1, <3>1
      <4>2. t[j + 1].at # "format"
        BY <4>1 DEF OwnOf
      <4>3. QED
        BY <1>2, <4>1, <4>2
    <3>3. QED
      BY <1>1, <3>1, <3>2 DEF OwnOf
  <2>2. ASSUME NEW i \in OwnOf(s) PROVE i + 1 \in OwnOf(t)
    <3>1. i \in 1 .. Len(s) /\ i + 1 \in 1 .. (Len(s) + 1)
      BY <1>1 DEF OwnOf
    <3>2. ASSUME NEW j \in 1 .. (i + 1) PROVE t[j].at # "format"
      <4>1. CASE j = 1
        BY <1>2, <1>4, <4>1
      <4>2. CASE j # 1
        <5>1. j - 1 \in 1 .. i /\ j - 1 \in 1 .. Len(s) /\ (j - 1) + 1 = j
          BY <1>1, <3>1, <4>2
        <5>2. s[j - 1].at # "format"
          BY <5>1 DEF OwnOf
        <5>3. t[(j - 1) + 1] = s[j - 1]
          BY <1>2, <5>1
        <5>4. QED
          BY <5>1, <5>2, <5>3
      <4>3. QED
        BY <4>1, <4>2
    <3>3. QED
      BY <1>2, <3>1, <3>2 DEF OwnOf
  <2>3. 1 \in OwnOf(t)
    <3>1. 1 \in DOMAIN t /\ \A j \in 1 .. 1 : j = 1
      BY <1>1, <1>2
    <3>2. QED
      BY <1>2, <1>4, <3>1 DEF OwnOf
  <2>4. OwnOf(t) = {i + 1 : i \in OwnOf(s)} \cup {1}
    BY <2>1, <2>2, <2>3
  <2>5. QED
    BY <1>4, <2>4 DEF t
<1>5. QED
  BY <1>3, <1>4

LEMMA OwnedCounts ==
    ASSUME NEW s, IsSeq(s), NEW f, NEW kinds
    PROVE  /\ Owned(s, kinds) \in Nat
           /\ Owned(<<f>> \o s, kinds) =
                IF f.at = "format" THEN 0
                ELSE Owned(s, kinds) + (IF f.at \in kinds THEN 1 ELSE 0)
<1> DEFINE t == <<f>> \o s
           P == {i \in OwnOf(s) : s[i].at \in kinds}
           Q == {i \in OwnOf(t) : t[i].at \in kinds}
<1>1. DOMAIN s = 1 .. Len(s) /\ Len(s) \in Nat
  BY SeqDomain
<1>2. t[1] = f /\ \A i \in 1 .. Len(s) : t[i + 1] = s[i]
  BY <1>1, ConsSeq
<1>3. OwnOf(t) = IF f.at = "format" THEN {} ELSE {i + 1 : i \in OwnOf(s)} \cup {1}
  BY OwnOfCons
<1> HIDE DEF t
<1>4. OwnOf(s) \subseteq 1 .. Len(s)
  BY <1>1 DEF OwnOf
<1>5. P \in SUBSET DOMAIN s /\ (f.at \in kinds) \in BOOLEAN
  BY <1>1, <1>4
<1>6. Cardinality(P) \in Nat
  BY <1>5, Positions
<1>7. CASE f.at = "format"
  <2>1. Q = {}
    BY <1>3, <1>7
  <2>2. Cardinality(Q) = 0
    BY <2>1, FS_EmptySet
  <2>3. QED
    BY <1>6, <1>7, <2>2 DEF Owned, t
<1>8. CASE f.at # "format"
  <2>1. Q = {i + 1 : i \in P} \cup (IF f.at \in kinds THEN {1} ELSE {})
    <3>1. \A i \in OwnOf(s) : t[i + 1].at = s[i].at
      BY <1>2, <1>4
    <3>2. OwnOf(t) = {i + 1 : i \in OwnOf(s)} \cup {1}
      BY <1>3, <1>8
    <3>3. QED
      BY <1>2, <3>1, <3>2
  <2> HIDE DEF P, Q
  <2>2. Cardinality(Q) = Cardinality(P) + (IF f.at \in kinds THEN 1 ELSE 0)
    BY <1>5, <2>1, OneMore
  <2>3. QED
    BY <1>6, <1>8, <2>2 DEF Owned, t, P, Q
<1>9. QED
  BY <1>7, <1>8

LEMMA NoFrames ==
    ASSUME NEW kinds
    PROVE  Count(<<>>, kinds) = 0 /\ Owned(<<>>, kinds) = 0 /\ OwnOf(<<>>) = {}
<1>1. {i \in DOMAIN <<>> : <<>>[i].at \in kinds} = {} /\ OwnOf(<<>>) = {}
  BY EmptyIsSeq DEF OwnOf
<1>2. QED
  BY <1>1, FS_EmptySet DEF Count, Owned

\* The frames of the call in progress below one of them are not more.
LEMMA OwnedBelow ==
    ASSUME NEW s, IsSeq(s), NEW i \in OwnOf(s), NEW kinds
    PROVE  Owned(Suffix(s, i + 1), kinds) <= Owned(s, kinds)
<1> DEFINE u == Suffix(s, i + 1)
           P == {j \in OwnOf(u) : u[j].at \in kinds}
           Q == {j \in OwnOf(s) : s[j].at \in kinds}
<1>1. DOMAIN s = 1 .. Len(s) /\ Len(s) \in Nat
  BY SeqDomain
<1>2. i \in 1 .. Len(s) /\ \A j \in 1 .. i : s[j].at # "format"
  BY <1>1 DEF OwnOf
<1>3. i + 1 \in 1 .. (Len(s) + 1)
  BY <1>1, <1>2
<1>4. /\ IsSeq(u) /\ Len(u) = Len(s) - (i + 1) + 1
      /\ \A j \in 1 .. (Len(s) - (i + 1) + 1) : u[j] = s[(i + 1) + j - 1]
  BY <1>3, SuffixOfCons
<1>5. Len(u) = Len(s) - i /\ \A j \in 1 .. (Len(s) - i) : u[j] = s[i + j]
  <2>1. Len(s) - (i + 1) + 1 = Len(s) - i /\ \A j \in 1 .. (Len(s) - i) : (i + 1) + j - 1 = i + j
    BY <1>1, <1>2
  <2>2. QED
    BY <1>4, <2>1
<1>6. DOMAIN u = 1 .. (Len(s) - i)
  BY <1>4, <1>5, SeqDomain
<1> HIDE DEF u
<1>7. ASSUME NEW j \in P PROVE j + i \in Q
  <2>1. j \in 1 .. (Len(s) - i) /\ u[j].at \in kinds /\ \A k \in 1 .. j : u[k].at # "format"
    BY <1>6 DEF OwnOf
  <2>2. j + i \in 1 .. Len(s) /\ s[j + i].at \in kinds
    BY <1>1, <1>2, <1>5, <2>1
  <2>3. ASSUME NEW k \in 1 .. (j + i) PROVE s[k].at # "format"
    <3>1. CASE k <= i
      BY <1>2, <3>1
    <3>2. CASE ~(k <= i)
      <4>1. k - i \in 1 .. j /\ k - i \in 1 .. (Len(s) - i) /\ i + (k - i) = k
        BY <1>1, <1>2, <2>1, <3>2
      <4>2. u[k - i] = s[i + (k - i)]
        BY <1>5, <4>1
      <4>3. QED
        BY <2>1, <4>1, <4>2
    <3>3. QED
      BY <3>1, <3>2
  <2>4. QED
    BY <1>1, <2>2, <2>3 DEF OwnOf
<1>8. P \in SUBSET DOMAIN u /\ Q \in SUBSET DOMAIN s
  BY DEF OwnOf
<1>9. P \in SUBSET Nat /\ IsFiniteSet(P) /\ Cardinality(P) \in Nat
  BY <1>4, <1>8, Positions
<1>10. IsFiniteSet(Q) /\ Cardinality(Q) \in Nat
  BY <1>8, Positions
<1> HIDE DEF P, Q
<1>11. Cardinality({j + i : j \in P}) = Cardinality(P)
  <2>1. i \in Nat
    BY <1>1, <1>2
  <2>2. QED
    BY <1>9, <2>1, Shift
<1>12. {j + i : j \in P} \subseteq Q
  BY <1>7
<1>13. Cardinality({j + i : j \in P}) <= Cardinality(Q)
  BY <1>10, <1>12, FS_Subset
<1>14. QED
  BY <1>11, <1>13 DEF Owned, P, Q, u

-----------------------------------------------------------------------------
(* Stacks.                                                                 *)

LEMMA StackGrows ==
    ASSUME NEW s, StackOK(s), NEW f, Fit(f, s), Sums(<<f>> \o s)
    PROVE  StackOK(<<f>> \o s)
<1> DEFINE t == <<f>> \o s
<1>1. IsSeq(s) /\ DOMAIN s = 1 .. Len(s) /\ Len(s) \in Nat
  BY SeqDomain DEF StackOK
<1>2. /\ IsSeq(t) /\ DOMAIN t = 1 .. (Len(s) + 1) /\ t[1] = f
      /\ \A i \in 1 .. Len(s) : t[i + 1] = s[i]
  BY <1>1, ConsSeq, SeqDomain
<1>3. /\ Suffix(t, 1) = t /\ Suffix(t, 2) = s
      /\ \A i \in 1 .. (Len(s) + 1) : Suffix(t, i + 1) = Suffix(s, i)
  BY <1>1, SuffixOfCons
<1>4. Sums(t)
  OBVIOUS
<1> HIDE DEF t
<1>5. ASSUME NEW i \in 1 .. (Len(s) + 1)
      PROVE  Fit(t[i], Suffix(t, i + 1)) /\ Sums(Suffix(t, i))
  <2>1. CASE i = 1
    BY <1>2, <1>3, <1>4, <2>1
  <2>2. CASE i # 1
    <3>1. i - 1 \in 1 .. Len(s) /\ (i - 1) + 1 = i /\ i \in 1 .. (Len(s) + 1) /\ i - 1 \in 1 .. (Len(s) + 1)
      BY <1>1, <2>2
    <3>2. Fit(s[i - 1], Suffix(s, (i - 1) + 1)) /\ Sums(Suffix(s, i - 1))
      BY <1>1, <3>1 DEF StackOK
    <3>3. t[i] = s[i - 1] /\ Suffix(t, i + 1) = Suffix(s, i) /\ Suffix(t, i) = Suffix(s, i - 1)
      BY <1>2, <1>3, <3>1
    <3>4. QED
      BY <3>1, <3>2, <3>3
  <2>3. QED
    BY <2>1, <2>2
<1>6. QED
  BY <1>2, <1>5 DEF StackOK, t

LEMMA StackTop ==
    ASSUME NEW s, StackOK(s), s # <<>>
    PROVE  /\ StackOK(Tail(s)) /\ Fit(Head(s), Tail(s)) /\ Sums(s)
           /\ IsSeq(s) /\ IsSeq(Tail(s)) /\ s = <<Head(s)>> \o Tail(s)
<1> DEFINE f == Head(s)
           r == Tail(s)
<1>1. IsSeq(s) /\ IsSeq(r) /\ s = <<f>> \o r
  BY Decompose DEF StackOK
<1> HIDE DEF f, r
<1>2. DOMAIN r = 1 .. Len(r) /\ Len(r) \in Nat
  BY <1>1, SeqDomain
<1>3. /\ DOMAIN s = 1 .. (Len(r) + 1) /\ s[1] = f
      /\ \A i \in 1 .. Len(r) : s[i + 1] = r[i]
  BY <1>1, <1>2, ConsSeq, SeqDomain
<1>4. /\ Suffix(s, 1) = s /\ Suffix(s, 2) = r
      /\ \A i \in 1 .. (Len(r) + 1) : Suffix(s, i + 1) = Suffix(r, i)
  BY <1>1, SuffixOfCons
<1>5. Fit(f, r) /\ Sums(s)
  <2>1. 1 \in DOMAIN s /\ 1 + 1 = 2
    BY <1>2, <1>3
  <2>2. Fit(s[1], Suffix(s, 1 + 1)) /\ Sums(Suffix(s, 1))
    BY <2>1 DEF StackOK
  <2>3. QED
    BY <1>3, <1>4, <2>1, <2>2
<1>6. ASSUME NEW i \in 1 .. Len(r) PROVE Fit(r[i], Suffix(r, i + 1)) /\ Sums(Suffix(r, i))
  <2>1. i + 1 \in DOMAIN s /\ i \in 1 .. (Len(r) + 1) /\ i + 1 \in 1 .. (Len(r) + 1)
    BY <1>2, <1>3
  <2>2. Fit(s[i + 1], Suffix(s, (i + 1) + 1)) /\ Sums(Suffix(s, i + 1))
    BY <2>1 DEF StackOK
  <2>3. QED
    BY <1>3, <1>4, <2>1, <2>2
<1>7. StackOK(r)
  BY <1>1, <1>2, <1>6 DEF StackOK
<1>8. QED
  BY <1>1, <1>5, <1>7 DEF f, r

LEMMA StackSums ==
    ASSUME NEW s, StackOK(s)
    PROVE  Sums(s) /\ IsSeq(s)
<1>1. CASE s = <<>>
  <2>1. ~Under(<<>>, Guards \cup Bodies)
    BY DEF Under
  <2>2. Sums(<<>>)
    BY <2>1, NoFrames DEF Sums
  <2>3. QED
    BY <1>1, <2>2 DEF StackOK
<1>2. CASE s # <<>>
  BY <1>2, StackTop
<1>3. QED
  BY <1>1, <1>2

LEMMA SegmentIsNat == Segment \in Nat /\ MaxDepth \in Nat
BY ResolverAssumption DEF Segment

\* A frame of the call in progress.
LEMMA SumsOfPush ==
    ASSUME NEW s, StackOK(s), s # <<>>, NEW f, f.at \in Guards \cup Bodies \cup {"pattern"},
           f.at = "pattern" => Under(s, Guards \cup Bodies)
    PROVE  Sums(<<f>> \o s)
<1> DEFINE t == <<f>> \o s
           Here(kinds) == IF f.at \in kinds THEN 1 ELSE 0
           calls == {"placeable", "nest", "select", "call"}
<1>1. Sums(s) /\ IsSeq(s) /\ Len(s) \in Nat
  BY StackSums, SeqDomain
<1>2. f.at # "format" /\ f.at \in Kinds /\ f.at \notin {"format"}
  BY DEF Guards, Bodies, Kinds
<1>3. Len(t) = Len(s) + 1 /\ t # <<>> /\ Head(t) = f
  BY <1>1, ConsSeq
<1>4. \A kinds : /\ Count(s, kinds) \in Nat
                 /\ Count(t, kinds) = Count(s, kinds) + Here(kinds)
  BY <1>1, Counts
<1>5. \A kinds : /\ Owned(s, kinds) \in Nat
                 /\ Owned(t, kinds) = Owned(s, kinds) + Here(kinds)
  BY <1>1, <1>2, OwnedCounts
<1>6. Under(t, Guards \cup Bodies) <=> f.at \in Guards \cup Bodies
  BY <1>3 DEF Under
<1> HIDE DEF t
<1>7. Count(t, {"format"}) + Owned(t, {"message"}) <= Count(t, {"message"}) + 1
  <2>1. Count(t, {"format"}) = Count(s, {"format"})
    BY <1>2, <1>4
  <2>2. /\ Count(t, {"message"}) = Count(s, {"message"}) + Here({"message"})
        /\ Owned(t, {"message"}) = Owned(s, {"message"}) + Here({"message"})
    BY <1>4, <1>5
  <2>3. /\ Count(s, {"format"}) + Owned(s, {"message"}) <= Count(s, {"message"}) + 1
        /\ Count(s, {"format"}) \in Nat /\ Owned(s, {"message"}) \in Nat
        /\ Count(s, {"message"}) \in Nat /\ Here({"message"}) \in Nat
    BY <1>1, <1>4, <1>5 DEF Sums
  <2>4. QED
    BY <2>1, <2>2, <2>3
<1>8. Owned(t, {"pattern"}) + (IF Under(t, Guards \cup Bodies) THEN 1 ELSE 0)
        <= Owned(t, Guards) + Owned(t, Bodies)
  <2>1. Owned(s, {"pattern"}) + (IF Under(s, Guards \cup Bodies) THEN 1 ELSE 0)
          <= Owned(s, Guards) + Owned(s, Bodies)
    BY <1>1 DEF Sums
  <2>2. CASE f.at = "pattern"
    <3>1. f.at \notin Guards \cup Bodies /\ Here({"pattern"}) = 1 /\ Here(Guards) = 0 /\ Here(Bodies) = 0
      BY <2>2 DEF Guards, Bodies
    <3>2. QED
      BY <1>5, <1>6, <2>1, <2>2, <3>1
  <2>3. CASE f.at \in Guards \cup Bodies
    <3>1. Here({"pattern"}) = 0 /\ Here(Guards) + Here(Bodies) = 1
      BY <2>3 DEF Guards, Bodies
    <3>2. Owned(t, {"pattern"}) = Owned(s, {"pattern"})
      BY <1>5, <3>1
    <3>3. Owned(t, Guards) + Owned(t, Bodies) = Owned(s, Guards) + Owned(s, Bodies) + 1
      BY <1>5, <3>1
    <3>4. QED
      BY <1>5, <1>6, <2>1, <2>3, <3>2, <3>3
  <2>4. QED
    BY <2>2, <2>3
<1>9. Owned(t, Kinds) = Owned(t, {"pattern"}) + Owned(t, Guards) + Owned(t, Bodies)
  <2>1. Here(Kinds) = 1 /\ Here({"pattern"}) + Here(Guards) + Here(Bodies) = 1
    BY <1>2 DEF Guards, Bodies
  <2> HIDE DEF Here
  <2>2. Here({"pattern"}) \in Nat /\ Here(Guards) \in Nat /\ Here(Bodies) \in Nat
    BY DEF Here
  <2>3. /\ Owned(t, Kinds) = Owned(s, Kinds) + 1
        /\ Owned(t, {"pattern"}) = Owned(s, {"pattern"}) + Here({"pattern"})
        /\ Owned(t, Guards) = Owned(s, Guards) + Here(Guards)
        /\ Owned(t, Bodies) = Owned(s, Bodies) + Here(Bodies)
    BY <1>5, <2>1
  <2>4. /\ Owned(s, Kinds) = Owned(s, {"pattern"}) + Owned(s, Guards) + Owned(s, Bodies)
        /\ Owned(s, {"pattern"}) \in Nat /\ Owned(s, Guards) \in Nat /\ Owned(s, Bodies) \in Nat
    BY <1>1, <1>5 DEF Sums
  <2>5. QED
    BY <2>1, <2>2, <2>3, <2>4
<1>10. Owned(t, Guards) = Owned(t, calls) + Owned(t, {"term"})
  <2>1. Here(Guards) = Here(calls) + Here({"term"})
    BY DEF Guards
  <2> HIDE DEF Here
  <2>2. Here(calls) \in Nat /\ Here({"term"}) \in Nat
    BY DEF Here
  <2>3. QED
    BY <1>1, <1>5, <2>1, <2>2 DEF Sums
<1>11. Len(t) + Segment <= Count(t, {"format"}) * Segment + Owned(t, Kinds) + 1
  <2>1. Count(t, {"format"}) = Count(s, {"format"}) /\ Owned(t, Kinds) = Owned(s, Kinds) + 1
    BY <1>2, <1>4, <1>5
  <2>2. Count(s, {"format"}) * Segment \in Nat
    BY <1>4, SegmentIsNat
  <2>3. Len(s) + Segment <= Count(s, {"format"}) * Segment + Owned(s, Kinds) + 1
    BY <1>1 DEF Sums
  <2> DEFINE formats == Count(s, {"format"}) * Segment
  <2>4. Count(t, {"format"}) * Segment = formats
    BY <2>1
  <2>5. formats \in Nat /\ Len(s) + Segment <= formats + Owned(s, Kinds) + 1
    BY <2>2, <2>3
  <2> HIDE DEF formats
  <2>6. QED
    BY <1>1, <1>3, <1>5, <2>1, <2>4, <2>5, SegmentIsNat
<1>12. QED
  BY <1>7, <1>8, <1>9, <1>10, <1>11 DEF Sums, t

\* The frame of a format call.
LEMMA SumsOfFormat ==
    ASSUME NEW s, StackOK(s), NEW f, f.at = "format",
           s # <<>> => Owned(s, {"message"}) >= 1,
           Len(s) <= Count(s, {"format"}) * Segment
    PROVE  Sums(<<f>> \o s)
<1> DEFINE t == <<f>> \o s
<1>1. Sums(s) /\ IsSeq(s) /\ Len(s) \in Nat
  BY StackSums, SeqDomain
<1>2. Len(t) = Len(s) + 1 /\ t # <<>> /\ Head(t) = f
  BY <1>1, ConsSeq
<1>3. \A kinds : /\ Count(s, kinds) \in Nat
                 /\ Count(t, kinds) = Count(s, kinds) + (IF f.at \in kinds THEN 1 ELSE 0)
  BY <1>1, Counts
<1>4. \A kinds : Owned(s, kinds) \in Nat /\ Owned(t, kinds) = 0
  BY <1>1, OwnedCounts
<1>5. ~Under(t, Guards \cup Bodies)
  BY <1>2 DEF Under, Guards, Bodies
<1> HIDE DEF t
<1>6. Count(t, {"format"}) = Count(s, {"format"}) + 1 /\ Count(t, {"message"}) = Count(s, {"message"})
  BY <1>3
<1>7. Count(t, {"format"}) + Owned(t, {"message"}) <= Count(t, {"message"}) + 1
  <2>1. CASE s = <<>>
    <3>1. Count(s, {"format"}) = 0 /\ Count(s, {"message"}) = 0
      BY <2>1, NoFrames
    <3>2. QED
      BY <1>4, <1>6, <3>1
  <2>2. CASE s # <<>>
    BY SMTT(30), <1>1, <1>3, <1>4, <1>6, <2>2 DEF Sums
  <2>3. QED
    BY <2>1, <2>2
<1>8. Len(t) + Segment <= Count(t, {"format"}) * Segment + Owned(t, Kinds) + 1
  <2> DEFINE formats == Count(s, {"format"}) * Segment
  <2>1. formats \in Nat /\ Len(s) <= formats
    BY <1>3, SegmentIsNat
  <2>2. (Count(s, {"format"}) + 1) * Segment = formats + Segment
    BY <1>3, SegmentIsNat
  <2> HIDE DEF formats
  <2>3. QED
    BY <1>1, <1>2, <1>4, <1>6, <2>1, <2>2, SegmentIsNat
<1>9. QED
  BY <1>4, <1>5, <1>7, <1>8 DEF Sums, t

-----------------------------------------------------------------------------
(* Contexts.                                                               *)

\* Path, lookup set and fields of a context that the other shares.
SamePath(d, c) == DOMAIN d = Fields /\ d.path = c.path /\ d.seen = c.seen

LEMMA TermsOfPush ==
    ASSUME NEW s, IsSeq(s), NEW f, f.at # "format",
           NEW p, NEW q, IsSeq(p), TermsOK(p, s), Len(p) = Owned(s, Bodies),
           \A j \in 1 .. Len(p) : q[j] = p[j],
           f.at = "term" => Len(p) < MaxDepth /\ \A j \in 1 .. Len(p) : p[j] # f.expr.key
    PROVE  TermsOK(q, <<f>> \o s)
<1> DEFINE t == <<f>> \o s
           entered(i) == Owned(Suffix(t, i + 1), Bodies)
<1>1. DOMAIN s = 1 .. Len(s) /\ Len(s) \in Nat /\ Len(p) \in Nat
  BY SeqDomain
<1>2. t[1] = f /\ \A i \in 1 .. Len(s) : t[i + 1] = s[i]
  BY <1>1, ConsSeq
<1>3. /\ Suffix(t, 2) = s
      /\ \A i \in 1 .. (Len(s) + 1) : Suffix(t, i + 1) = Suffix(s, i)
  BY <1>1, SuffixOfCons
<1>4. OwnOf(t) = {i + 1 : i \in OwnOf(s)} \cup {1}
  BY OwnOfCons
<1> HIDE DEF t
<1>5. ASSUME t[1].at = "term"
      PROVE  entered(1) < MaxDepth /\ \A j \in 1 .. entered(1) : q[j] # t[1].expr.key
  BY <1>2, <1>3, <1>5
<1>6. ASSUME NEW i \in OwnOf(s), t[i + 1].at = "term"
      PROVE  entered(i + 1) < MaxDepth /\ \A j \in 1 .. entered(i + 1) : q[j] # t[i + 1].expr.key
  <2>1. i \in 1 .. Len(s) /\ i + 1 \in 1 .. (Len(s) + 1)
    BY <1>1 DEF OwnOf
  <2>2. t[i + 1] = s[i] /\ Suffix(t, (i + 1) + 1) = Suffix(s, i + 1)
    BY <1>2, <1>3, <2>1
  <2> DEFINE n == Owned(Suffix(s, i + 1), Bodies)
  <2>3. n < MaxDepth /\ \A j \in 1 .. n : p[j] # s[i].expr.key
    BY <1>6, <2>2 DEF TermsOK
  <2>4. n <= Len(p)
    BY OwnedBelow
  <2>5. n \in Nat
    BY <1>1, <2>1, SuffixOfCons, OwnedCounts
  <2> HIDE DEF n
  <2>6. \A j \in 1 .. n : j \in 1 .. Len(p)
    BY <1>1, <2>4, <2>5
  <2>7. \A j \in 1 .. n : q[j] # s[i].expr.key
    BY <2>3, <2>6
  <2>8. QED
    BY <2>2, <2>3, <2>7 DEF n
<1>7. ASSUME NEW i \in OwnOf(t), t[i].at = "term"
      PROVE  entered(i) < MaxDepth /\ \A j \in 1 .. entered(i) : q[j] # t[i].expr.key
  <2>1. CASE i = 1
    BY <1>5, <1>7, <2>1
  <2>2. CASE i # 1
    <3>1. PICK k \in OwnOf(s) : i = k + 1
      BY <1>4, <2>2
    <3>2. QED
      BY <1>6, <1>7, <3>1
  <2>3. QED
    BY <2>1, <2>2
<1>8. TermsOK(q, t)
  BY <1>7 DEF TermsOK
<1>9. QED
  BY <1>8 DEF t

LEMMA TermsOfPop ==
    ASSUME NEW s, IsSeq(s), NEW f, f.at # "format",
           NEW p, NEW q, IsSeq(p), TermsOK(q, <<f>> \o s), Len(p) = Owned(s, Bodies),
           \A j \in 1 .. Len(p) : p[j] = q[j]
    PROVE  TermsOK(p, s)
<1> DEFINE t == <<f>> \o s
<1>1. DOMAIN s = 1 .. Len(s) /\ Len(s) \in Nat /\ Len(p) \in Nat
  BY SeqDomain
<1>2. \A i \in 1 .. Len(s) : t[i + 1] = s[i]
  BY <1>1, ConsSeq
<1>3. \A i \in 1 .. (Len(s) + 1) : Suffix(t, i + 1) = Suffix(s, i)
  BY <1>1, SuffixOfCons
<1>4. OwnOf(t) = {i + 1 : i \in OwnOf(s)} \cup {1}
  BY OwnOfCons
<1>5. TermsOK(q, t)
  OBVIOUS
<1> HIDE DEF t
<1>6. ASSUME NEW i \in OwnOf(s), s[i].at = "term"
      PROVE  LET n == Owned(Suffix(s, i + 1), Bodies)
             IN  n < MaxDepth /\ \A j \in 1 .. n : p[j] # s[i].expr.key
  <2> DEFINE n == Owned(Suffix(s, i + 1), Bodies)
  <2>1. i \in 1 .. Len(s) /\ i + 1 \in 1 .. (Len(s) + 1)
    BY <1>1 DEF OwnOf
  <2>2. t[i + 1] = s[i] /\ Suffix(t, (i + 1) + 1) = Suffix(s, i + 1) /\ i + 1 \in OwnOf(t)
    BY <1>2, <1>3, <1>4, <2>1
  <2>3. n < MaxDepth /\ \A j \in 1 .. n : q[j] # s[i].expr.key
    BY <1>5, <1>6, <2>2 DEF TermsOK
  <2>4. n <= Len(p)
    BY OwnedBelow
  <2>5. n \in Nat
    BY <1>1, <2>1, SuffixOfCons, OwnedCounts
  <2> HIDE DEF n
  <2>6. \A j \in 1 .. n : j \in 1 .. Len(p)
    BY <1>1, <2>4, <2>5
  <2>7. \A j \in 1 .. n : p[j] # s[i].expr.key
    BY <2>3, <2>6
  <2>8. QED
    BY <2>3, <2>7 DEF n
<1>7. QED
  BY <1>6 DEF TermsOK

\* The context of a call whose frame is a guard's or a pattern's comes and goes.
LEMMA FitsPush ==
    ASSUME NEW s, IsSeq(s), NEW f, f.at \in Guards \cup {"pattern"},
           NEW c, NEW d, NEW pending \in {0, 1}, NEW rest \in {0, 1}, Fits(c, s, pending),
           SamePath(d, c), d.depth <= MaxDepth,
           d.depth = c.depth + pending + (IF f.at \in Guards THEN 1 ELSE 0) - rest,
           f.at = "term" => /\ Len(c.path) < MaxDepth
                            /\ \A j \in 1 .. Len(c.path) : c.path[j] # f.expr.key
    PROVE  Fits(d, <<f>> \o s, rest)
<1> DEFINE t == <<f>> \o s
<1>1. f.at \notin {"format"} /\ f.at \notin Bodies /\ f.at # "format"
  BY DEF Guards, Bodies
<1>2. \A kinds : /\ Owned(s, kinds) \in Nat
                 /\ Owned(t, kinds) = Owned(s, kinds) + (IF f.at \in kinds THEN 1 ELSE 0)
  BY <1>1, OwnedCounts
<1>3. IsSeq(c.path) /\ TermsOK(c.path, s) /\ Len(c.path) = Owned(s, Bodies)
  BY DEF Fits, PathOK
<1>4. TermsOK(d.path, t)
  BY <1>1, <1>3, TermsOfPush DEF SamePath
<1> HIDE DEF t
<1>5. Owned(t, Bodies) = Owned(s, Bodies)
  BY <1>1, <1>2
<1>6. Owned(t, Guards) = Owned(s, Guards) + (IF f.at \in Guards THEN 1 ELSE 0)
  BY <1>2
<1>7. d.depth = Owned(t, Guards) - rest
  <2>1. c.depth = Owned(s, Guards) - pending /\ Owned(s, Guards) \in Nat
    BY <1>2 DEF Fits
  <2>2. QED
    BY <1>6, <2>1
<1>8. QED
  BY <1>3, <1>4, <1>5, <1>7 DEF Fits, SamePath, PathOK, t

LEMMA FitsPop ==
    ASSUME NEW s, IsSeq(s), NEW f, f.at \in Guards \cup {"pattern"},
           NEW c, NEW d, NEW pending \in {0, 1}, Fits(c, <<f>> \o s, pending),
           pending = 1 => f.at \in Guards,
           SamePath(d, c),
           d.depth = c.depth + pending - (IF f.at \in Guards THEN 1 ELSE 0)
    PROVE  Fits(d, s, 0)
<1> DEFINE t == <<f>> \o s
<1>1. f.at \notin {"format"} /\ f.at \notin Bodies /\ f.at # "format"
  BY DEF Guards, Bodies
<1>2. \A kinds : /\ Owned(s, kinds) \in Nat
                 /\ Owned(t, kinds) = Owned(s, kinds) + (IF f.at \in kinds THEN 1 ELSE 0)
  BY <1>1, OwnedCounts
<1>3. /\ IsSeq(c.path) /\ TermsOK(c.path, t) /\ Len(c.path) = Owned(t, Bodies)
      /\ c.depth = Owned(t, Guards) - pending /\ c.depth <= MaxDepth
  BY DEF Fits, PathOK
<1>4. Owned(t, Bodies) = Owned(s, Bodies)
  BY <1>1, <1>2
<1>5. TermsOK(d.path, s)
  BY <1>1, <1>3, <1>4, TermsOfPop DEF SamePath
<1> HIDE DEF t
<1>6. Owned(t, Guards) = Owned(s, Guards) + (IF f.at \in Guards THEN 1 ELSE 0)
        /\ Owned(s, Guards) \in Nat
  BY <1>2
<1>7. d.depth = Owned(s, Guards) - 0 /\ d.depth <= MaxDepth
  BY <1>3, <1>6, SegmentIsNat
<1>8. QED
  BY <1>3, <1>4, <1>5, <1>7 DEF Fits, SamePath, PathOK, t

\* Entering and leaving a message or a term.
LEMMA PathPush ==
    ASSUME NEW c, PathOK(c), NEW d, NEW k, k \notin c.seen,
           d.path = Append(c.path, k), d.seen = c.seen \cup {k}
    PROVE  /\ PathOK(d) /\ Len(d.path) = Len(c.path) + 1
           /\ \A j \in 1 .. Len(c.path) : d.path[j] = c.path[j]
<1> DEFINE p == c.path
           q == d.path
           S == {p[i] : i \in DOMAIN p} \cup {k}
<1>1. /\ DOMAIN p = 1 .. Len(p) /\ Len(p) \in Nat /\ p \in Seq(S)
      /\ c.seen = {p[i] : i \in DOMAIN p} /\ \A i, j \in DOMAIN p : p[i] = p[j] => i = j
  BY SeqDomain, SeqDef DEF PathOK, IsSeq
<1>2. k \in S /\ q = Append(p, k)
  OBVIOUS
<1> HIDE DEF S, p, q
<1>3. /\ q \in Seq(S) /\ Len(q) = Len(p) + 1 /\ DOMAIN q = 1 .. (Len(p) + 1)
      /\ \A j \in 1 .. Len(p) : q[j] = p[j]
      /\ q[Len(p) + 1] = k
  BY <1>1, <1>2, AppendProperties
<1>4. IsSeq(q)
  BY <1>3, SeqIsSeq
<1>5. d.seen = {q[i] : i \in DOMAIN q}
  <2>1. \A i \in DOMAIN q : i \in DOMAIN p \/ i = Len(p) + 1
    BY <1>1, <1>3
  <2>2. \A i \in DOMAIN p : i \in DOMAIN q
    BY <1>1, <1>3
  <2>3. Len(p) + 1 \in DOMAIN q
    BY <1>1, <1>3
  <2>4. {q[i] : i \in DOMAIN q} = {p[i] : i \in DOMAIN p} \cup {k}
    BY <1>1, <1>3, <2>1, <2>2, <2>3
  <2>5. QED
    BY <1>1, <2>4
<1>6. ASSUME NEW i \in DOMAIN q, NEW j \in DOMAIN q, q[i] = q[j] PROVE i = j
  <2>1. \A n \in DOMAIN p : q[n] # k
    BY <1>1, <1>3
  <2>2. \A n \in DOMAIN q : n \in DOMAIN p \/ n = Len(p) + 1
    BY <1>1, <1>3
  <2>3. QED
    BY <1>1, <1>3, <1>6, <2>1, <2>2
<1>7. PathOK(d)
  BY <1>4, <1>5, <1>6 DEF PathOK, q
<1>8. QED
  BY <1>3, <1>7 DEF p, q

LEMMA PathPop ==
    ASSUME NEW c, PathOK(c), Len(c.path) >= 1, NEW d,
           d.path = Front(c.path), d.seen = c.seen \ {Last(c.path)}
    PROVE  /\ PathOK(d) /\ Len(d.path) = Len(c.path) - 1
           /\ \A j \in 1 .. Len(d.path) : d.path[j] = c.path[j]
<1> DEFINE p == c.path
           q == d.path
           S == {p[i] : i \in DOMAIN p}
           n == Len(p) - 1
<1>1. /\ DOMAIN p = 1 .. Len(p) /\ Len(p) \in Nat /\ Len(p) >= 1 /\ p \in Seq(S)
      /\ c.seen = {p[i] : i \in DOMAIN p} /\ \A i, j \in DOMAIN p : p[i] = p[j] => i = j
  BY SeqDomain DEF PathOK, IsSeq
<1>2. q = SubSeq(p, 1, Len(p) - 1) /\ d.seen = c.seen \ {p[Len(p)]}
  BY DEF Front, Last
<1> HIDE DEF S, p, q
<1>3. n \in Nat /\ n + 1 = Len(p)
  BY <1>1
<1>4. /\ q \in Seq(S) /\ Len(q) = n
      /\ \A j \in 1 .. n : q[j] = p[j]
  BY <1>1, <1>2, <1>3, SubSeqProperties
<1>5. IsSeq(q) /\ DOMAIN q = 1 .. n
  BY <1>3, <1>4, SeqIsSeq
<1>6. d.seen = {q[i] : i \in DOMAIN q}
  <2>1. \A i \in DOMAIN p : i \in DOMAIN q \/ i = Len(p)
    BY <1>1, <1>3, <1>5
  <2>2. \A i \in DOMAIN q : i \in DOMAIN p /\ i # Len(p) /\ q[i] = p[i]
    BY <1>1, <1>3, <1>4, <1>5
  <2>3. Len(p) \in DOMAIN p
    BY <1>1
  <2>4. \A i \in DOMAIN q : p[i] # p[Len(p)]
    BY <1>1, <2>2, <2>3
  <2>5. {q[i] : i \in DOMAIN q} = {p[i] : i \in DOMAIN p} \ {p[Len(p)]}
    BY <2>1, <2>2, <2>4
  <2>6. QED
    BY <1>1, <1>2, <2>5
<1>7. \A i, j \in DOMAIN q : q[i] = q[j] => i = j
  BY <1>1, <1>3, <1>4, <1>5
<1>8. PathOK(d)
  BY <1>5, <1>6, <1>7 DEF PathOK, q
<1>9. QED
  BY <1>4, <1>8 DEF p, q

LEMMA FitsEnter ==
    ASSUME NEW s, IsSeq(s), NEW f, f.at \in Bodies,
           NEW c, NEW d, Fits(c, s, 0), NEW k, k \notin c.seen, Len(c.path) < MaxDepth,
           DOMAIN d = Fields, d.path = Append(c.path, k), d.seen = c.seen \cup {k},
           d.depth = c.depth
    PROVE  Fits(d, <<f>> \o s, 0)
<1> DEFINE t == <<f>> \o s
<1>1. f.at \notin {"format"} /\ f.at \notin Guards /\ f.at # "format" /\ f.at # "term"
  BY DEF Guards, Bodies
<1>2. \A kinds : /\ Owned(s, kinds) \in Nat
                 /\ Owned(t, kinds) = Owned(s, kinds) + (IF f.at \in kinds THEN 1 ELSE 0)
  BY <1>1, OwnedCounts
<1>3. /\ PathOK(c) /\ IsSeq(c.path) /\ TermsOK(c.path, s) /\ Len(c.path) = Owned(s, Bodies)
      /\ c.depth = Owned(s, Guards) - 0 /\ c.depth <= MaxDepth
  BY DEF Fits, PathOK
<1>4. /\ PathOK(d) /\ Len(d.path) = Len(c.path) + 1
      /\ \A j \in 1 .. Len(c.path) : d.path[j] = c.path[j]
  BY <1>3, PathPush
<1>5. TermsOK(d.path, t)
  BY <1>1, <1>3, <1>4, TermsOfPush
<1> HIDE DEF t
<1>6. Owned(t, Bodies) = Owned(s, Bodies) + 1 /\ Owned(t, Guards) = Owned(s, Guards)
  BY <1>1, <1>2
<1>7. Len(d.path) <= MaxDepth
  BY <1>2, <1>3, <1>4, SegmentIsNat
<1>8. QED
  BY <1>3, <1>4, <1>5, <1>6, <1>7 DEF Fits, t

LEMMA FitsLeave ==
    ASSUME NEW s, IsSeq(s), NEW f, f.at \in Bodies,
           NEW c, NEW d, Fits(c, <<f>> \o s, 0),
           DOMAIN d = Fields, d.path = Front(c.path), d.seen = c.seen \ {Last(c.path)},
           d.depth = c.depth
    PROVE  Fits(d, s, 0)
<1> DEFINE t == <<f>> \o s
<1>1. f.at \notin {"format"} /\ f.at \notin Guards /\ f.at # "format" /\ f.at # "term"
  BY DEF Guards, Bodies
<1>2. \A kinds : /\ Owned(s, kinds) \in Nat
                 /\ Owned(t, kinds) = Owned(s, kinds) + (IF f.at \in kinds THEN 1 ELSE 0)
  BY <1>1, OwnedCounts
<1>3. /\ PathOK(c) /\ TermsOK(c.path, t) /\ Len(c.path) = Owned(t, Bodies)
      /\ c.depth = Owned(t, Guards) - 0 /\ c.depth <= MaxDepth /\ Len(c.path) <= MaxDepth
  BY DEF Fits
<1>4. TermsOK(c.path, <<f>> \o s)
  BY <1>3
<1> HIDE DEF t
<1>5. Owned(t, Bodies) = Owned(s, Bodies) + 1 /\ Owned(t, Guards) = Owned(s, Guards)
      /\ Owned(s, Bodies) \in Nat
  BY <1>1, <1>2
<1>6. /\ PathOK(d) /\ Len(d.path) = Len(c.path) - 1
      /\ \A j \in 1 .. Len(d.path) : d.path[j] = c.path[j]
  BY <1>3, <1>5, PathPop
<1>7. Len(d.path) = Owned(s, Bodies) /\ Len(d.path) <= MaxDepth /\ IsSeq(d.path)
  BY <1>3, <1>5, <1>6, SegmentIsNat DEF PathOK
<1>8. TermsOK(d.path, s)
  BY <1>1, <1>4, <1>6, <1>7, TermsOfPop
<1>9. QED
  BY <1>3, <1>5, <1>6, <1>7, <1>8 DEF Fits

\* A fresh context fits a stack that a format call has just been put on.
LEMMA FitsFresh ==
    ASSUME NEW s, IsSeq(s), NEW d, DOMAIN d = Fields, d.path = <<>>, d.seen = {}, d.depth = 0
    PROVE  /\ s = <<>> => Fits(d, s, 0)
           /\ \A f : f.at = "format" => Fits(d, <<f>> \o s, 0)
<1>1. PathOK(d) /\ Len(d.path) = 0
  BY EmptyIsSeq DEF PathOK
<1>2. MaxDepth \in Nat
  BY SegmentIsNat
<1>3. ASSUME NEW u, OwnOf(u) = {}, \A kinds : Owned(u, kinds) = 0 PROVE Fits(d, u, 0)
  BY <1>1, <1>2, <1>3 DEF Fits, TermsOK
<1>4. s = <<>> => Fits(d, s, 0)
  BY <1>3, NoFrames
<1>5. ASSUME NEW f, f.at = "format" PROVE Fits(d, <<f>> \o s, 0)
  <2>1. OwnOf(<<f>> \o s) = {}
    BY <1>5, OwnOfCons
  <2>2. \A kinds : Owned(<<f>> \o s, kinds) = 0
    BY <1>5, OwnedCounts
  <2>3. QED
    BY <1>3, <2>1, <2>2
<1>6. QED
  BY <1>4, <1>5

-----------------------------------------------------------------------------
(* The moves that the steps are made of.                                   *)

\* Whatever else happens to the context: errors, characters, arguments.
LEMMA OtherContext ==
    ASSUME NEW c, NEW g, NEW s, NEW pending, Good(c, g, s, pending),
           NEW d, SamePath(d, c), d.depth = c.depth
    PROVE  Good(d, g, s, pending)
BY DEF Good, Fits, SamePath, PathOK

LEMMA PushFrame ==
    ASSUME NEW c, NEW g, NEW s, NEW pending \in {0, 1}, Good(c, g, s, pending), s # <<>>,
           NEW f, f.at \in Guards \cup {"pattern"}, Fit(f, s),
           NEW d, SamePath(d, c), NEW rest \in {0, 1}, d.depth <= MaxDepth,
           d.depth = c.depth + pending + (IF f.at \in Guards THEN 1 ELSE 0) - rest,
           f.at = "term" => /\ Len(c.path) < MaxDepth
                            /\ \A j \in 1 .. Len(c.path) : c.path[j] # f.expr.key
    PROVE  Good(d, g, <<f>> \o s, rest)
<1>1. StackOK(s) /\ IsSeq(s) /\ Fits(c, s, pending) /\ g = Count(s, {"message"}) /\ g <= MaxDepth
  BY StackSums DEF Good
<1>2. f.at = "pattern" => Under(s, Guards \cup Bodies)
  BY DEF Fit
<1>3. StackOK(<<f>> \o s)
  <2>1. f.at \in Guards \cup Bodies \cup {"pattern"}
    OBVIOUS
  <2>2. Sums(<<f>> \o s)
    BY <1>1, <1>2, <2>1, SumsOfPush
  <2>3. QED
    BY <1>1, <2>2, StackGrows
<1>4. Fits(d, <<f>> \o s, rest)
  BY <1>1, FitsPush
<1>5. Count(<<f>> \o s, {"message"}) = Count(s, {"message"})
  <2>1. f.at \notin {"message"}
    BY DEF Guards
  <2>2. Count(s, {"message"}) \in Nat
        /\ Count(<<f>> \o s, {"message"}) = Count(s, {"message"}) + (IF f.at \in {"message"} THEN 1 ELSE 0)
    BY <1>1, Counts
  <2>3. QED
    BY <2>1, <2>2
<1>6. QED
  BY <1>1, <1>3, <1>4, <1>5 DEF Good

LEMMA PushBody ==
    ASSUME NEW c, NEW g, NEW s, Good(c, g, s, 0), s # <<>>,
           NEW f, f.at \in Bodies, Fit(f, s),
           NEW k, k \notin c.seen, Len(c.path) < MaxDepth,
           NEW d, DOMAIN d = Fields, d.path = Append(c.path, k), d.seen = c.seen \cup {k},
           d.depth = c.depth,
           NEW h, h = g + (IF f.at = "message" THEN 1 ELSE 0), h <= MaxDepth
    PROVE  Good(d, h, <<f>> \o s, 0)
<1>1. StackOK(s) /\ IsSeq(s) /\ Fits(c, s, 0) /\ g = Count(s, {"message"})
  BY StackSums DEF Good
<1>2. StackOK(<<f>> \o s)
  <2>1. f.at \in Guards \cup Bodies \cup {"pattern"} /\ f.at # "pattern"
    BY DEF Bodies
  <2>2. Sums(<<f>> \o s)
    BY <1>1, <2>1, SumsOfPush
  <2>3. QED
    BY <1>1, <2>2, StackGrows
<1>3. Fits(d, <<f>> \o s, 0)
  BY <1>1, FitsEnter
<1>4. h = Count(<<f>> \o s, {"message"})
  BY <1>1, Counts
<1>5. QED
  BY <1>2, <1>3, <1>4 DEF Good

LEMMA PopFrame ==
    ASSUME NEW c, NEW g, NEW s, NEW pending \in {0, 1}, Good(c, g, s, pending),
           Under(s, Guards \cup {"pattern"}), pending = 1 => Under(s, Guards),
           NEW d, SamePath(d, c),
           d.depth = c.depth + pending - (IF Head(s).at \in Guards THEN 1 ELSE 0)
    PROVE  Good(d, g, Tail(s), 0)
<1> DEFINE f == Head(s)
           r == Tail(s)
<1>1. s # <<>> /\ StackOK(s) /\ f.at \in Guards \cup {"pattern"} /\ (pending = 1 => f.at \in Guards)
  BY DEF Good, Under
<1>2. StackOK(r) /\ IsSeq(r) /\ s = <<f>> \o r
  BY <1>1, StackTop
<1>3. d.depth = c.depth + pending - (IF f.at \in Guards THEN 1 ELSE 0)
  OBVIOUS
<1> HIDE DEF f, r
<1>4. Fits(c, <<f>> \o r, pending) /\ g = Count(s, {"message"}) /\ g <= MaxDepth
  BY <1>2 DEF Good
<1>5. Fits(d, r, 0)
  BY <1>1, <1>2, <1>3, <1>4, FitsPop
<1>6. Count(s, {"message"}) = Count(r, {"message"})
  <2>1. f.at \notin {"message"}
    BY <1>1 DEF Guards
  <2>2. Count(r, {"message"}) \in Nat
        /\ Count(<<f>> \o r, {"message"}) = Count(r, {"message"}) + (IF f.at \in {"message"} THEN 1 ELSE 0)
    BY <1>2, Counts
  <2>3. QED
    BY <1>2, <2>1, <2>2
<1>7. QED
  BY <1>2, <1>4, <1>5, <1>6 DEF Good, r

LEMMA PopBody ==
    ASSUME NEW c, NEW g, NEW s, Good(c, g, s, 0), Under(s, Bodies),
           NEW d, DOMAIN d = Fields, d.path = Front(c.path), d.seen = c.seen \ {Last(c.path)},
           d.depth = c.depth,
           NEW h, h = IF Head(s).at = "message" THEN Head(s).global ELSE g
    PROVE  Good(d, h, Tail(s), 0)
<1> DEFINE f == Head(s)
           r == Tail(s)
<1>1. s # <<>> /\ StackOK(s) /\ f.at \in Bodies
  BY DEF Good, Under
<1>2. StackOK(r) /\ IsSeq(r) /\ s = <<f>> \o r /\ Fit(f, r)
  BY <1>1, StackTop
<1>3. h = IF f.at = "message" THEN f.global ELSE g
  OBVIOUS
<1> HIDE DEF f, r
<1>4. Fits(c, <<f>> \o r, 0) /\ g = Count(<<f>> \o r, {"message"}) /\ g <= MaxDepth
  BY <1>2 DEF Good
<1>5. Fits(d, r, 0)
  BY <1>1, <1>2, <1>4, FitsLeave
<1>6. Count(r, {"message"}) \in Nat
      /\ Count(<<f>> \o r, {"message"}) = Count(r, {"message"}) + (IF f.at \in {"message"} THEN 1 ELSE 0)
  BY <1>2, Counts
<1>7. h = Count(r, {"message"}) /\ h <= MaxDepth
  <2>1. CASE f.at = "message"
    BY <1>2, <1>3, <1>4, <1>6, <2>1, SegmentIsNat DEF Fit
  <2>2. CASE f.at # "message"
    BY <1>3, <1>4, <1>6, <2>2
  <2>3. QED
    BY <2>1, <2>2
<1>8. QED
  BY <1>2, <1>5, <1>7 DEF Good, r

\* The frames of one format call are bounded by the depth.
LEMMA OwnBound ==
    ASSUME NEW c, NEW g, NEW s, NEW pending \in {0, 1}, Good(c, g, s, pending),
           pending = 1 => Under(s, Guards)
    PROVE  Owned(s, Kinds) + 1 <= Segment /\ (s # <<>> => Len(s) <= Count(s, {"format"}) * Segment)
<1>1. Sums(s) /\ IsSeq(s) /\ Fits(c, s, pending)
  BY StackSums DEF Good
<1>2. Len(s) \in Nat
  BY <1>1, SeqDomain
<1>3. /\ Owned(s, {"pattern"}) \in Nat /\ Owned(s, Guards) \in Nat /\ Owned(s, Bodies) \in Nat
      /\ Owned(s, Kinds) \in Nat /\ Count(s, {"format"}) \in Nat
  BY <1>1, OwnedCounts, Counts
<1>4. Owned(s, Guards) <= MaxDepth + pending /\ Owned(s, Bodies) <= MaxDepth
  BY <1>1, <1>3, SegmentIsNat DEF Fits
<1>5. pending = 1 => Under(s, Guards \cup Bodies)
  BY DEF Under
<1>6. Owned(s, {"pattern"}) + pending <= Owned(s, Guards) + Owned(s, Bodies)
  <2>1. Owned(s, {"pattern"}) + (IF Under(s, Guards \cup Bodies) THEN 1 ELSE 0)
          <= Owned(s, Guards) + Owned(s, Bodies)
    BY <1>1 DEF Sums
  <2>2. QED
    BY <1>3, <1>5, <2>1
<1>7. Owned(s, Kinds) = Owned(s, {"pattern"}) + Owned(s, Guards) + Owned(s, Bodies)
  BY <1>1 DEF Sums
<1>8. Owned(s, Kinds) + 1 <= Segment
  BY <1>3, <1>4, <1>6, <1>7, SegmentIsNat DEF Segment
<1>9. ASSUME s # <<>> PROVE Len(s) <= Count(s, {"format"}) * Segment
  <2> DEFINE formats == Count(s, {"format"}) * Segment
  <2>1. formats \in Nat /\ Len(s) + Segment <= formats + Owned(s, Kinds) + 1
    BY <1>1, <1>3, <1>9, SegmentIsNat DEF Sums
  <2> HIDE DEF formats
  <2>2. Len(s) <= formats
    BY <1>2, <1>3, <1>8, <2>1, SegmentIsNat
  <2>3. QED
    BY <2>2 DEF formats
<1>10. QED
  BY <1>8, <1>9

LEMMA PushFormat ==
    ASSUME NEW c, NEW g, NEW s, Good(c, g, s, 0),
           s # <<>> => Under(s, Guards) /\ Owned(s, {"message"}) >= 1,
           NEW f, "at" \in DOMAIN f, f.at = "format", SamePath(f.saved, c), f.saved.depth = c.depth,
           NEW d, DOMAIN d = Fields, d.path = <<>>, d.seen = {}, d.depth = 0
    PROVE  Good(d, g, <<f>> \o s, 0)
<1>1. StackOK(s) /\ IsSeq(s) /\ g = Count(s, {"message"}) /\ g <= MaxDepth
  BY StackSums DEF Good
<1>2. Len(s) <= Count(s, {"format"}) * Segment
  <2>1. CASE s = <<>>
    <3>1. Len(s) = 0 /\ Count(s, {"format"}) = 0 /\ 0 * Segment = 0
      BY <2>1, EmptyIsSeq, NoFrames, SegmentIsNat
    <3>2. QED
      BY <3>1
  <2>2. CASE s # <<>>
    BY <2>2, OwnBound
  <2>3. QED
    BY <2>1, <2>2
<1>3. Fits(f.saved, s, 0)
  BY OtherContext DEF Good
<1>4. Fit(f, s)
  BY <1>2, <1>3 DEF Fit, Kinds, Guards, Bodies
<1>5. StackOK(<<f>> \o s)
  <2>1. Sums(<<f>> \o s)
    BY <1>1, <1>2, SumsOfFormat
  <2>2. QED
    BY <1>1, <1>4, <2>1, StackGrows
<1>6. Fits(d, <<f>> \o s, 0)
  BY <1>1, FitsFresh
<1>7. Count(<<f>> \o s, {"message"}) = Count(s, {"message"})
  BY <1>1, Counts
<1>8. QED
  BY <1>1, <1>5, <1>6, <1>7 DEF Good

LEMMA PopFormat ==
    ASSUME NEW c, NEW g, NEW s, Good(c, g, s, 0), Under(s, {"format"}),
           NEW d, SamePath(d, Head(s).saved), d.depth = Head(s).saved.depth
    PROVE  Good(d, g, Tail(s), 0)
<1> DEFINE f == Head(s)
           r == Tail(s)
<1>1. s # <<>> /\ StackOK(s) /\ f.at = "format"
  BY DEF Good, Under
<1>2. StackOK(r) /\ IsSeq(r) /\ s = <<f>> \o r /\ Fit(f, r)
  BY <1>1, StackTop
<1>3. SamePath(d, f.saved) /\ d.depth = f.saved.depth
  OBVIOUS
<1> HIDE DEF f, r
<1>4. g = Count(<<f>> \o r, {"message"}) /\ g <= MaxDepth
  BY <1>2 DEF Good
<1>5. Fits(f.saved, r, 0)
  BY <1>1, <1>2 DEF Fit
<1>6. g = Count(r, {"message"})
  BY <1>1, <1>2, <1>4, Counts
<1>7. Good(f.saved, g, r, 0)
  BY <1>2, <1>4, <1>5, <1>6 DEF Good
<1>8. Good(d, g, r, 0)
  BY <1>3, <1>7, OtherContext
<1>9. QED
  BY <1>8 DEF r

\* A term whose arguments are evaluated may be entered after them.
LEMMA TermOnTop ==
    ASSUME NEW c, NEW g, NEW s, NEW pending, Good(c, g, s, pending), Under(s, {"term"})
    PROVE  Len(c.path) < MaxDepth /\ \A j \in 1 .. Len(c.path) : c.path[j] # Head(s).expr.key
<1> DEFINE f == Head(s)
           r == Tail(s)
<1>1. s # <<>> /\ f.at = "term" /\ StackOK(s)
  BY DEF Good, Under
<1>2. IsSeq(r) /\ s = <<f>> \o r
  BY <1>1, StackTop
<1>3. TermsOK(c.path, s) /\ Len(c.path) = Owned(s, Bodies)
  BY DEF Good, Fits
<1> HIDE DEF f, r
<1>4. 1 \in OwnOf(s) /\ Suffix(s, 2) = r /\ s[1] = f
  <2>1. 1 \in OwnOf(<<f>> \o r)
    <3>1. f.at # "format"
      BY <1>1
    <3>2. QED
      BY <1>2, <3>1, OwnOfCons
  <2>2. Suffix(<<f>> \o r, 2) = r
    BY <1>2, SuffixOfCons
  <2>3. (<<f>> \o r)[1] = f
    BY <1>2, ConsSeq
  <2>4. QED
    BY <1>2, <2>1, <2>2, <2>3
<1>5. Owned(s, Bodies) = Owned(r, Bodies)
  <2>1. f.at \notin Bodies /\ f.at # "format"
    BY <1>1 DEF Bodies
  <2>2. QED
    BY <1>2, <2>1, OwnedCounts
<1>6. /\ Owned(Suffix(s, 1 + 1), Bodies) < MaxDepth
      /\ \A j \in 1 .. Owned(Suffix(s, 1 + 1), Bodies) : c.path[j] # s[1].expr.key
  BY <1>1, <1>3, <1>4 DEF TermsOK
<1>7. QED
  BY <1>3, <1>4, <1>5, <1>6 DEF f

LEMMA ReplaceTop ==
    ASSUME NEW c, NEW g, NEW s, NEW pending \in {0, 1}, Good(c, g, s, pending),
           Under(s, {"pattern", "term", "call"}), pending = 1 => Under(s, {"term"}),
           NEW f, "at" \in DOMAIN f, f.at = Head(s).at,
           f.at = "term" => "expr" \in DOMAIN f /\ f.expr = Head(s).expr,
           NEW rest \in {0, 1}, NEW d, SamePath(d, c), d.depth <= MaxDepth,
           d.depth = c.depth + pending - rest
    PROVE  Good(d, g, <<f>> \o Tail(s), rest)
<1> DEFINE h == Head(s)
           r == Tail(s)
           one == IF h.at \in Guards THEN 1 ELSE 0
           m == [c EXCEPT !.depth = c.depth + pending - one]
<1>1. /\ s # <<>> /\ StackOK(s) /\ h.at \in {"pattern", "term", "call"}
      /\ (pending = 1 => h.at = "term") /\ f.at = h.at
      /\ DOMAIN c = Fields /\ IsSeq(s)
  BY StackSums DEF Good, Under, Fits
<1>2. StackOK(r) /\ IsSeq(r) /\ Fit(h, r)
  BY <1>1, StackTop
<1>3. SamePath(m, c) /\ m.depth = c.depth + pending - one
  BY <1>1 DEF SamePath, Fields
<1>4. c.depth \in Int
  <2>1. c.depth = Owned(s, Guards) - pending /\ Owned(s, Guards) \in Nat
    BY <1>1, OwnedCounts DEF Good, Fits
  <2>2. QED
    BY <2>1
<1> HIDE DEF m
<1>5. Good(m, g, r, 0)
  <2>1. Under(s, Guards \cup {"pattern"}) /\ (pending = 1 => Under(s, Guards))
    BY <1>1 DEF Under, Guards
  <2>2. QED
    BY <1>3, <2>1, PopFrame
<1>6. r # <<>> /\ Fit(f, r)
  BY <1>1, <1>2 DEF Fit, Under
<1>7. f.at = "term" => /\ Len(m.path) < MaxDepth
                       /\ \A j \in 1 .. Len(m.path) : m.path[j] # f.expr.key
  <2>1. f.at = "term" => Under(s, {"term"})
    BY <1>1 DEF Under
  <2>2. QED
    BY <1>3, <2>1, TermOnTop DEF SamePath
<1>8. SamePath(d, m) /\ d.depth = m.depth + 0 + (IF f.at \in Guards THEN 1 ELSE 0) - rest
  BY <1>1, <1>3, <1>4 DEF SamePath
<1>9. f.at \in Guards \cup {"pattern"}
  BY <1>1 DEF Guards
<1> HIDE DEF r
<1>10. Good(d, g, <<f>> \o r, rest)
  BY <1>5, <1>6, <1>7, <1>8, <1>9, PushFrame
<1>11. QED
  BY <1>10 DEF r

\* Everything but a format call's frame lies in a message.
LEMMA MessageBelow ==
    ASSUME NEW s, StackOK(s), Under(s, Guards \cup Bodies \cup {"pattern"})
    PROVE  Owned(s, {"message"}) >= 1
<1> DEFINE f == Head(s)
           r == Tail(s)
<1>1. s # <<>> /\ f.at \in Guards \cup Bodies \cup {"pattern"} /\ f.at # "format"
  BY DEF Under, Guards, Bodies
<1>2. IsSeq(r) /\ s = <<f>> \o r /\ Fit(f, r)
  BY <1>1, StackTop
<1> HIDE DEF f, r
<1>3. Owned(r, {"message"}) \in Nat
      /\ Owned(s, {"message"}) = Owned(r, {"message"}) + (IF f.at \in {"message"} THEN 1 ELSE 0)
  BY <1>1, <1>2, OwnedCounts
<1>4. f.at # "message" => Owned(r, {"message"}) >= 1
  BY <1>1, <1>2 DEF Fit
<1>5. QED
  BY <1>3, <1>4

LEMMA ContextOps ==
    ASSUME NEW c, DOMAIN c = Fields
    PROVE  /\ SamePath(c, c)
           /\ \A e : SamePath(With(c, e), c) /\ With(c, e).depth = c.depth
           /\ \A v : SamePath(Charge(c, v), c) /\ Charge(c, v).depth = c.depth
           /\ SamePath(Enter(c), c) /\ Enter(c).depth = c.depth + 1
           /\ SamePath(Exit(c), c) /\ Exit(c).depth = c.depth - 1
           /\ \A a : SamePath([c EXCEPT !.args = a], c) /\ [c EXCEPT !.args = a].depth = c.depth
<1>1. SamePath(c, c)
  BY DEF SamePath
<1>2. \A e : SamePath(With(c, e), c) /\ With(c, e).depth = c.depth
  BY DEF SamePath, With, Fields
<1>3. \A v : SamePath(Charge(c, v), c) /\ Charge(c, v).depth = c.depth
  BY DEF SamePath, Charge, Fields
<1>4. SamePath(Enter(c), c) /\ Enter(c).depth = c.depth + 1
  BY DEF SamePath, Enter, Fields
<1>5. SamePath(Exit(c), c) /\ Exit(c).depth = c.depth - 1
  BY DEF SamePath, Exit, Fields
<1>6. \A a : SamePath([c EXCEPT !.args = a], c) /\ [c EXCEPT !.args = a].depth = c.depth
  BY DEF SamePath, Fields
<1>7. QED
  BY <1>1, <1>2, <1>3, <1>4, <1>5, <1>6

LEMMA PathOps ==
    ASSUME NEW c, DOMAIN c = Fields
    PROVE  /\ \A k : /\ DOMAIN Push(c, k) = Fields /\ Push(c, k).depth = c.depth
                     /\ Push(c, k).path = Append(c.path, k) /\ Push(c, k).seen = c.seen \cup {k}
           /\ DOMAIN Pop(c) = Fields /\ Pop(c).depth = c.depth
           /\ Pop(c).path = Front(c.path) /\ Pop(c).seen = c.seen \ {Last(c.path)}
           /\ DOMAIN Fresh = Fields /\ Fresh.depth = 0 /\ Fresh.path = <<>> /\ Fresh.seen = {}
<1>1. \A k : /\ DOMAIN Push(c, k) = Fields /\ Push(c, k).depth = c.depth
             /\ Push(c, k).path = Append(c.path, k) /\ Push(c, k).seen = c.seen \cup {k}
  BY DEF Push, Fields
<1>2. /\ DOMAIN Pop(c) = Fields /\ Pop(c).depth = c.depth
      /\ Pop(c).path = Front(c.path) /\ Pop(c).seen = c.seen \ {Last(c.path)}
  BY DEF Pop, Fields
<1>3. DOMAIN Fresh = Fields /\ Fresh.depth = 0 /\ Fresh.path = <<>> /\ Fresh.seen = {}
  BY DEF Fresh, Fields
<1>4. QED
  BY <1>1, <1>2, <1>3

-----------------------------------------------------------------------------
(* The steps.                                                              *)

\* Where a step lands.
LEMMA Lands ==
    ASSUME NEW c, NEW g, NEW s, NEW n, NEW pending, Good(c, g, s, pending),
           ctx' = c, global' = g, control' = s, now' = n,
           pending = IF n.is = "run" /\ Under(s, {"term"}) THEN 1 ELSE 0,
           n.is = "idle" => s = <<>>,
           n.is \in {"eval", "raise"} => Under(s, Guards),
           n.is = "resolve" => Under(s, Guards \cup {"format"})
    PROVE  IInv'
<1>1. Pending' = pending
  BY DEF Pending, Is, At, Top, Under
<1>2. NowInv'
  BY DEF NowInv, Is
<1>3. Good(ctx', global', control', Pending')
  BY <1>1
<1>4. QED
  BY <1>2, <1>3 DEF IInv, Good, StackOK, Fit, Sums, Fits, PathOK, TermsOK, Under, Count, Owned,
     OwnOf, Suffix, IsSeq

\* What is at hand before a step.
LEMMA AtHand ==
    ASSUME IInv
    PROVE  /\ Good(ctx, global, control, Pending) /\ DOMAIN ctx = Fields /\ StackOK(control)
           /\ Pending \in {0, 1} /\ (Pending = 1 => Is("run") /\ Under(control, {"term"}))
           /\ ctx.depth \in Int /\ ctx.depth <= MaxDepth
           /\ \A frame : At(frame) <=> Under(control, {frame})
<1>1. Good(ctx, global, control, Pending)
  BY DEF IInv
<1>2. StackOK(control) /\ Fits(ctx, control, Pending)
  BY <1>1 DEF Good
<1>3. Pending \in {0, 1} /\ (Pending = 1 => Is("run") /\ Under(control, {"term"}))
  BY DEF Pending, At, Top, Under
<1>4. Owned(control, Guards) \in Nat
  BY <1>2, StackSums, OwnedCounts
<1>5. ctx.depth \in Int /\ ctx.depth <= MaxDepth
  BY <1>2, <1>3, <1>4 DEF Fits
<1>6. \A frame : At(frame) <=> Under(control, {frame})
  BY DEF At, Top, Under
<1>7. QED
  BY <1>1, <1>2, <1>3, <1>5, <1>6 DEF Fits

\* A frame that a call may put on the stack.
LEMMA MayLie ==
    ASSUME NEW s, StackOK(s), NEW f, "at" \in DOMAIN f, f.at = "term" => "expr" \in DOMAIN f,
           \/ f.at \in {"nest", "select", "call", "term", "body"} /\ Under(s, Guards)
           \/ f.at = "placeable" /\ Under(s, {"pattern"})
           \/ f.at = "pattern" /\ Under(s, Guards \cup Bodies)
    PROVE  Fit(f, s)
<1>1. Under(s, Guards \cup Bodies \cup {"pattern"})
  BY DEF Under
<1>2. Owned(s, {"message"}) >= 1
  BY <1>1, MessageBelow
<1>3. f.at \in Kinds /\ f.at # "format" /\ f.at # "message"
  BY DEF Kinds, Guards, Bodies
<1>4. QED
  BY <1>2, <1>3 DEF Fit

\* A pattern starts, or is refused for the budget.
LEMMA Starts ==
    ASSUME NEW c, NEW g, NEW s, Good(c, g, s, 0), Under(s, Guards \cup Bodies),
           NEW p, StartPattern(c, p, s), global' = g
    PROVE  IInv'
<1>1. StackOK(s) /\ s # <<>> /\ Fits(c, s, 0) /\ DOMAIN c = Fields
  BY DEF Good, Under, Fits
<1>2. CASE Over(c)
  <2> DEFINE d == With(c, Error("budget", ""))
  <2>1. ctx' = d /\ control' = s /\ now' = Value(<<>>)
    BY <1>2 DEF StartPattern, Go
  <2>2. SamePath(d, c) /\ d.depth = c.depth
    BY <1>1, ContextOps
  <2> HIDE DEF d
  <2>3. Good(d, g, s, 0)
    BY <2>2, OtherContext
  <2>4. Value(<<>>).is = "value"
    BY DEF Value
  <2>5. QED
    BY <2>1, <2>3, <2>4, Lands
<1>3. CASE ~Over(c)
  <2> DEFINE f == [at |-> "pattern", todo |-> p, out |-> <<>>]
  <2>1. ctx' = c /\ control' = <<f>> \o s /\ now' = Run
    BY <1>3 DEF StartPattern, Go
  <2>2. "at" \in DOMAIN f /\ f.at = "pattern"
    OBVIOUS
  <2> HIDE DEF f
  <2>3. Fit(f, s)
    BY <1>1, <2>2, MayLie
  <2>4. SamePath(c, c) /\ c.depth <= MaxDepth /\ c.depth \in Int
    <3>1. Owned(s, Guards) \in Nat
      BY <1>1, StackSums, OwnedCounts
    <3>2. QED
      BY <1>1, <3>1, ContextOps DEF Fits
  <2>5. f.at \notin Guards /\ f.at \in Guards \cup {"pattern"}
    BY <2>2 DEF Guards
  <2>6. Good(c, g, <<f>> \o s, 0)
    <3>1. c.depth = c.depth + 0 + (IF f.at \in Guards THEN 1 ELSE 0) - 0
      BY <2>4, <2>5
    <3>2. QED
      BY <1>1, <2>2, <2>3, <2>4, <2>5, <3>1, PushFrame
  <2>7. Run.is = "run" /\ ~Under(<<f>> \o s, {"term"})
    BY <1>1, <2>2, StackSums, ConsSeq DEF Run, Under
  <2>8. QED
    BY <2>1, <2>6, <2>7, Lands
<1>4. QED
  BY <1>2, <1>3

\* An expression or a reference that has its value, is refused or is handed on.
LEMMA Answers ==
    ASSUME IInv, Is("eval") \/ Is("resolve"), NEW d, SamePath(d, ctx), d.depth = ctx.depth,
           NEW n, n.is \in {"value", "raise", "resolve"}, n.is = "value" \/ Is("eval"),
           Step(d, control, n)
    PROVE  IInv'
<1>1. Good(ctx, global, control, 0)
  BY AtHand DEF Is
<1>2. Good(d, global, control, 0)
  BY <1>1, OtherContext
<1>3. n.is # "value" => Under(control, Guards) /\ Under(control, Guards \cup {"format"})
  BY DEF IInv, NowInv, Under
<1>4. ctx' = d /\ global' = global /\ control' = control /\ now' = n
  BY DEF Step, Go
<1>5. QED
  BY <1>2, <1>3, <1>4, Lands

\* One more guard.
LEMMA Guarding ==
    ASSUME IInv, Is("eval") \/ (Is("run") /\ At("pattern")), MayEnter(ctx),
           NEW f, f.at \in {"placeable", "nest", "select", "call"}, Fit(f, control),
           NEW n, n.is \in {"eval", "run"}, ctx' = Enter(ctx), control' = <<f>> \o control,
           now' = n, global' = global
    PROVE  IInv'
<1>1. /\ Good(ctx, global, control, 0) /\ StackOK(control) /\ DOMAIN ctx = Fields
      /\ ctx.depth \in Int
  <2>1. Pending = 0
    BY AtHand DEF Is, Under
  <2>2. QED
    BY <2>1, AtHand
<1>2. control # <<>>
  BY AtHand DEF IInv, NowInv, Is, Under
<1>3. SamePath(Enter(ctx), ctx) /\ Enter(ctx).depth = ctx.depth + 1
  BY <1>1, ContextOps
<1>4. f.at \in Guards \cup {"pattern"} /\ f.at \in Guards /\ f.at # "term"
  BY DEF Guards
<1>5. Enter(ctx).depth <= MaxDepth
  BY <1>1, <1>3, SegmentIsNat DEF MayEnter
<1>6. Good(Enter(ctx), global, <<f>> \o control, 0)
  <2>1. Enter(ctx).depth = ctx.depth + 0 + (IF f.at \in Guards THEN 1 ELSE 0) - 0
    BY <1>1, <1>3, <1>4
  <2>2. QED
    BY <1>1, <1>2, <1>3, <1>4, <1>5, <2>1, PushFrame
<1>7. Under(<<f>> \o control, Guards) /\ ~Under(<<f>> \o control, {"term"})
  BY <1>1, <1>4, StackSums, ConsSeq DEF Under
<1>8. QED
  BY <1>6, <1>7, Lands

\* A guarded call is over.
LEMMA Left ==
    ASSUME IInv, Pending = 0, Under(control, Guards),
           NEW d, SamePath(d, ctx), d.depth = ctx.depth - 1
    PROVE  /\ Good(d, global, Rest, 0)
           /\ Under(control, {"placeable"}) => Under(Rest, {"pattern"})
           /\ Under(control, {"nest", "select", "call", "term"}) => Under(Rest, Guards)
<1>1. Good(ctx, global, control, 0) /\ StackOK(control) /\ ctx.depth \in Int
  BY AtHand
<1>2. control # <<>> /\ Head(control).at \in Guards /\ Under(control, Guards \cup {"pattern"})
  BY DEF Under
<1>3. Good(d, global, Tail(control), 0)
  <2>1. d.depth = ctx.depth + 0 - (IF Head(control).at \in Guards THEN 1 ELSE 0)
    BY <1>1, <1>2
  <2>2. QED
    BY <1>1, <1>2, <2>1, PopFrame
<1>4. Fit(Head(control), Tail(control))
  BY <1>1, <1>2, StackTop
<1>5. QED
  BY <1>3, <1>4 DEF Rest, Fit, Under

LEMMA Leaving ==
    ASSUME IInv, Pending = 0, Under(control, {"nest", "select", "call", "term"}),
           NEW d, SamePath(d, ctx), d.depth = ctx.depth - 1,
           NEW n, n.is \in {"value", "raise"}, Step(d, Rest, n)
    PROVE  IInv'
<1>1. Under(control, Guards)
  BY DEF Under, Guards
<1>2. Good(d, global, Rest, 0) /\ Under(Rest, Guards)
  BY <1>1, Left
<1>3. ctx' = d /\ global' = global /\ control' = Rest /\ now' = n
  BY DEF Step, Go
<1>4. QED
  BY <1>2, <1>3, Lands

\* A pattern whose last element is done, or which is cut short.
LEMMA PatternEnds ==
    ASSUME NEW c, NEW g, NEW s, Good(c, g, s, 0), Under(s, {"pattern"}),
           NEW d, SamePath(d, c), d.depth = c.depth,
           ctx' = d, global' = g, control' = Tail(s), NEW v, now' = Value(v)
    PROVE  IInv'
<1>1. Under(s, Guards \cup {"pattern"}) /\ Head(s).at \notin Guards
  BY DEF Under, Guards
<1>2. c.depth \in Int
  <2>1. StackOK(s) /\ c.depth = Owned(s, Guards) - 0
    BY DEF Good, Fits
  <2>2. Owned(s, Guards) \in Nat
    BY <2>1, StackSums, OwnedCounts
  <2>3. QED
    BY <2>1, <2>2
<1>3. Good(d, g, Tail(s), 0)
  <2>1. d.depth = c.depth + 0 - (IF Head(s).at \in Guards THEN 1 ELSE 0)
    BY <1>1, <1>2
  <2>2. 0 \in {0, 1} /\ 0 # 1
    OBVIOUS
  <2>3. QED
    BY <1>1, <2>1, <2>2, PopFrame
<1>4. Value(v).is = "value"
  BY DEF Value
<1>5. QED
  BY <1>3, <1>4, Lands

\* A pattern that goes on with its next element.
LEMMA PatternGoesOn ==
    ASSUME NEW c, NEW g, NEW s, Good(c, g, s, 0), Under(s, {"pattern"}),
           NEW d, SamePath(d, c), d.depth = c.depth,
           NEW x, ctx' = d, global' = g, control' = <<Emit(Head(s), x)>> \o Tail(s), now' = Run
    PROVE  IInv'
<1> DEFINE f == Emit(Head(s), x)
<1>1. s # <<>> /\ Head(s).at = "pattern" /\ StackOK(s) /\ Fits(c, s, 0)
  BY DEF Good, Under
<1>2. IsSeq(Tail(s)) /\ Fit(Head(s), Tail(s)) /\ IsSeq(s)
  BY <1>1, StackTop
<1>3. "at" \in DOMAIN f /\ f.at = "pattern"
  BY <1>1, <1>2 DEF Emit, Fit
<1>4. c.depth \in Int /\ c.depth <= MaxDepth
  BY <1>1, <1>2, OwnedCounts DEF Fits
<1> HIDE DEF f
<1>5. Good(d, g, <<f>> \o Tail(s), 0)
  <2>1. Under(s, {"pattern", "term", "call"}) /\ d.depth = c.depth + 0 - 0 /\ d.depth <= MaxDepth
    BY <1>1, <1>4 DEF Under
  <2>2. QED
    BY <1>1, <1>3, <2>1, ReplaceTop
<1>6. Run.is = "run" /\ ~Under(<<f>> \o Tail(s), {"term"})
  BY <1>2, <1>3, ConsSeq DEF Run, Under
<1>7. control' = <<f>> \o Tail(s)
  BY DEF f
<1>8. QED
  BY <1>5, <1>6, <1>7, Lands

\* Literals, variables, references and what is refused.
LEMMA AnswersKeep ==
    ASSUME IInv, Literal \/ Variable \/ MessageReference \/ ResolveRefused
    PROVE  IInv'
<1> DEFINE answer(d, n) == /\ SamePath(d, ctx) /\ d.depth = ctx.depth
                           /\ n.is \in {"value", "raise", "resolve"} /\ (n.is = "value" \/ Is("eval"))
                           /\ Step(d, control, n)
<1>1. /\ SamePath(ctx, ctx)
      /\ \A e : SamePath(With(ctx, e), ctx) /\ With(ctx, e).depth = ctx.depth
  BY AtHand, ContextOps
<1>2. /\ \A v : Value(v).is = "value"
      /\ \A e : Raise(e).is = "raise"
      /\ \A k : Resolve(k).is = "resolve"
  BY DEF Value, Raise, Resolve
<1>3. Is("eval") \/ Is("resolve")
  BY DEF Literal, Variable, MessageReference, ResolveRefused, Evaluates
<1>4. \E d, n : answer(d, n)
  <2>1. CASE Literal
    <3>1. answer(ctx, Value(now.expr.text))
      BY <1>1, <1>2, <2>1 DEF Literal, Evaluates, Yield
    <3>2. QED
      BY <3>1
  <2>2. CASE Variable
    <3>1. answer(ctx, Value(ctx.args[now.expr.name])) \/ answer(ctx, Raise(Error("variable", now.expr.name)))
      BY <1>1, <1>2, <2>2 DEF Variable, Evaluates, Yield, Throw
    <3>2. QED
      BY <3>1
  <2>3. CASE MessageReference
    <3>1. answer(ctx, Resolve(now.expr.key)) \/ answer(ctx, Raise(Error("message", now.expr.key)))
      BY <1>1, <1>2, <2>3 DEF MessageReference, Evaluates, Throw
    <3>2. QED
      BY <3>1
  <2>4. CASE ResolveRefused
    <3>1. PICK e : Yield(With(ctx, e), Lost)
      BY <2>4 DEF ResolveRefused
    <3>2. answer(With(ctx, e), Value(Lost))
      BY <1>1, <1>2, <3>1 DEF Yield
    <3>3. QED
      BY <3>2
  <2>5. QED
    BY <2>1, <2>2, <2>3, <2>4
<1>5. PICK d, n : answer(d, n)
  BY <1>4
<1>6. QED
  BY <1>3, <1>5, Answers

LEMMA ThrowKeeps ==
    ASSUME IInv, Is("eval"), NEW e, Throw(e)
    PROVE  IInv'
<1>1. SamePath(ctx, ctx)
  BY AtHand, ContextOps
<1>2. Raise(e).is = "raise" /\ Step(ctx, control, Raise(e))
  BY DEF Raise, Throw
<1>3. QED
  BY <1>1, <1>2, Answers

\* Nested placeables, calls and selectors are evaluated under a guard.
LEMMA GuardsKeep ==
    ASSUME IInv, Nest \/ Call \/ Select
    PROVE  IInv'
<1>1. Is("eval") /\ StackOK(control) /\ Under(control, Guards)
  BY AtHand DEF IInv, NowInv, Nest, Call, Select, Evaluates
<1>2. Eval(now.expr.of).is = "eval" /\ Eval(now.expr.on).is = "eval" /\ Run.is = "run"
  BY DEF Eval, Run
<1>3. CASE MayEnter(ctx)
  <2> DEFINE entered(f, n) == /\ "at" \in DOMAIN f /\ f.at \in {"nest", "call", "select"}
                              /\ n.is \in {"eval", "run"}
                              /\ ctx' = Enter(ctx) /\ control' = <<f>> \o control
                              /\ now' = n /\ global' = global
  <2>1. \E f, n : entered(f, n)
    <3>1. CASE Nest
      <4>1. entered([at |-> "nest"], Eval(now.expr.of))
        BY <1>2, <1>3, <3>1 DEF Nest, Guard, Step, Go
      <4>2. QED
        BY <4>1
    <3>2. CASE Call
      <4>1. entered(Arguments(now.expr, now.expr.args), Run)
        BY <1>2, <1>3, <3>2 DEF Call, Arguments, Evaluates, Step, Go
      <4>2. QED
        BY <4>1
    <3>3. CASE Select
      <4>1. entered([at |-> "select", expr |-> now.expr], Eval(now.expr.on))
        BY <1>2, <1>3, <3>3 DEF Select, Go
      <4>2. QED
        BY <4>1
    <3>4. QED
      BY <3>1, <3>2, <3>3
  <2>2. PICK f, n : entered(f, n)
    BY <2>1
  <2>3. Fit(f, control)
    BY <1>1, <2>2, MayLie
  <2>4. f.at \in {"placeable", "nest", "select", "call"}
    BY <2>2
  <2>5. QED
    BY <1>1, <1>3, <2>2, <2>3, <2>4, Guarding
<1>4. CASE ~MayEnter(ctx) /\ (Nest \/ Call)
  BY <1>1, <1>4, ThrowKeeps DEF Nest, Call, Guard
<1>5. CASE ~MayEnter(ctx) /\ Select
  <2> DEFINE d == With(ctx, TooDeep)
  <2>1. StartPattern(d, now.expr.other, control) /\ global' = global
    BY <1>5 DEF Select
  <2>2. SamePath(d, ctx) /\ d.depth = ctx.depth
    BY AtHand, ContextOps
  <2> HIDE DEF d
  <2>3. Good(ctx, global, control, 0)
    BY <1>1, AtHand DEF Is
  <2>4. Good(d, global, control, 0)
    BY <2>2, <2>3, OtherContext
  <2>5. Under(control, Guards \cup Bodies)
    BY <1>1 DEF Under
  <2>6. QED
    BY <2>1, <2>4, <2>5, Starts
<1>6. QED
  BY <1>3, <1>4, <1>5

\* Texts and placeables of a pattern, and its end.
LEMMA PatternKeeps ==
    ASSUME IInv, EndPattern \/ Text \/ Placeable
    PROVE  IInv'
<1>1. Under(control, {"pattern"}) /\ Is("run") /\ At("pattern")
  BY AtHand DEF EndPattern, Text, Placeable
<1>2. Good(ctx, global, control, 0) /\ DOMAIN ctx = Fields /\ StackOK(control)
  <2>1. Pending = 0
    BY <1>1, AtHand DEF Under
  <2>2. QED
    BY <2>1, AtHand
<1> DEFINE ends(d, v) == /\ SamePath(d, ctx) /\ d.depth = ctx.depth
                         /\ Step(d, Rest, Value(v))
           goes(d, x) == /\ SamePath(d, ctx) /\ d.depth = ctx.depth
                         /\ Step(d, <<Emit(Top, x)>> \o Rest, Run)
<1>3. ASSUME NEW d, NEW v, ends(d, v) PROVE IInv'
  <2>1. ctx' = d /\ global' = global /\ control' = Tail(control) /\ now' = Value(v)
    BY <1>3 DEF Step, Go, Rest
  <2>2. QED
    BY <1>1, <1>2, <1>3, <2>1, PatternEnds
<1>4. ASSUME NEW d, NEW x, goes(d, x) PROVE IInv'
  <2>1. ctx' = d /\ global' = global /\ control' = <<Emit(Head(control), x)>> \o Tail(control) /\ now' = Run
    BY <1>4 DEF Step, Go, Rest, Top
  <2>2. QED
    BY <1>1, <1>2, <1>4, <2>1, PatternGoesOn
<1>5. CASE EndPattern
  <2>1. SamePath(ctx, ctx)
    BY <1>2, ContextOps
  <2>2. ends(ctx, Top.out)
    BY <1>5, <2>1 DEF EndPattern
  <2>3. QED
    BY <1>3, <2>2
<1>6. CASE Text
  <2> DEFINE c == Charge(ctx, Element.text)
  <2>1. SamePath(c, ctx) /\ c.depth = ctx.depth
    BY <1>2, ContextOps
  <2>2. SamePath(With(c, Error("budget", "")), ctx) /\ With(c, Error("budget", "")).depth = ctx.depth
    <3>1. DOMAIN c = Fields
      BY <2>1 DEF SamePath
    <3> HIDE DEF c
    <3>2. QED
      BY ZenonT(40), <2>1, <3>1, ContextOps DEF SamePath
  <2>3. \/ Step(With(c, Error("budget", "")), Rest, Value(Top.out))
        \/ Step(c, <<Emit(Top, Element.text)>> \o Rest, Run)
    BY <1>6 DEF Text
  <2>4. QED
    BY <1>3, <1>4, <2>1, <2>2, <2>3
<1>7. CASE Placeable
  <2>1. CASE MayEnter(ctx)
    <3> DEFINE f == [at |-> "placeable"]
    <3>1. ctx' = Enter(ctx) /\ control' = <<f>> \o control /\ now' = Eval(Element) /\ global' = global
      BY <1>7, <2>1 DEF Placeable, Step, Go
    <3>2. Fit(f, control)
      BY <1>1, <1>2, MayLie
    <3>3. f.at \in {"placeable", "nest", "select", "call"} /\ Eval(Element).is \in {"eval", "run"}
      BY DEF Eval
    <3> HIDE DEF f
    <3>4. QED
      BY <1>1, <2>1, <3>1, <3>2, <3>3, Guarding
  <2>2. CASE ~MayEnter(ctx)
    <3>1. SamePath(With(ctx, TooDeep), ctx) /\ With(ctx, TooDeep).depth = ctx.depth
      BY <1>2, ContextOps
    <3>2. goes(With(ctx, TooDeep), Lost)
      BY <1>7, <2>2, <3>1 DEF Placeable
    <3>3. QED
      BY <1>4, <3>2
  <2>3. QED
    BY <2>1, <2>2
<1>8. QED
  BY <1>5, <1>6, <1>7

LEMMA SecondFrame ==
    ASSUME NEW s, IsSeq(s), s # <<>>, Tail(s) # <<>>
    PROVE  s[2] = Head(Tail(s)) /\ SubSeq(s, 3, Len(s)) = Tail(Tail(s))
<1> DEFINE f == Head(s)
           r == Tail(s)
           g == Head(r)
           q == Tail(r)
<1>1. IsSeq(r) /\ s = <<f>> \o r
  BY Decompose
<1>2. IsSeq(q) /\ r = <<g>> \o q
  BY <1>1, Decompose
<1> HIDE DEF f, r, g, q
<1>3. Len(r) \in Nat /\ Len(r) = Len(q) + 1 /\ Len(q) \in Nat /\ r[1] = g
  BY <1>1, <1>2, SeqDomain, ConsSeq
<1>4. (<<f>> \o r)[1 + 1] = r[1]
  <2>1. 1 \in 1 .. Len(r)
    BY <1>3
  <2>2. QED
    BY <1>1, <2>1, ConsSeq
<1>5. Suffix(<<f>> \o r, 2 + 1) = Suffix(r, 2)
  <2>1. 2 \in 1 .. (Len(r) + 1)
    BY <1>3
  <2>2. QED
    BY <1>1, <2>1, SuffixOfCons
<1>6. Suffix(<<g>> \o q, 2) = q
  BY <1>2, SuffixOfCons
<1>7. s[2] = g /\ Suffix(s, 3) = q
  BY <1>1, <1>2, <1>3, <1>4, <1>5, <1>6
<1>8. QED
  BY <1>7 DEF Suffix, f, r, g, q

LEMMA PlaceableKeeps ==
    ASSUME IInv, PlaceableValue \/ PlaceableRaises
    PROVE  IInv'
<1> DEFINE c == Exit(ctx)
<1>1. Under(control, {"placeable"}) /\ Pending = 0 /\ DOMAIN ctx = Fields /\ StackOK(control)
  BY AtHand DEF PlaceableValue, PlaceableRaises, Is, Under
<1>2. Under(control, Guards)
  BY <1>1 DEF Under, Guards
<1>3. SamePath(c, ctx) /\ c.depth = ctx.depth - 1 /\ DOMAIN c = Fields
  BY <1>1, ContextOps DEF SamePath
<1> HIDE DEF c
<1>4. Good(c, global, Rest, 0) /\ Under(Rest, {"pattern"})
  BY <1>1, <1>2, <1>3, Left
<1>5. Pattern = Head(Rest) /\ Below = Tail(Rest)
  <2>1. control # <<>> /\ Tail(control) # <<>> /\ IsSeq(control)
    BY <1>1, <1>4, StackSums DEF Under, Rest
  <2>2. QED
    BY <2>1, SecondFrame DEF Pattern, Below, Rest
<1>6. ASSUME NEW d, SamePath(d, c), d.depth = c.depth, NEW v, Step(d, Below, Value(v)) PROVE IInv'
  <2>1. ctx' = d /\ global' = global /\ control' = Tail(Rest) /\ now' = Value(v)
    BY <1>5, <1>6 DEF Step, Go
  <2>2. QED
    BY <1>4, <1>6, <2>1, PatternEnds
<1>7. ASSUME NEW d, SamePath(d, c), d.depth = c.depth, NEW x, Step(d, <<Emit(Pattern, x)>> \o Below, Run)
      PROVE  IInv'
  <2>1. ctx' = d /\ global' = global /\ control' = <<Emit(Head(Rest), x)>> \o Tail(Rest) /\ now' = Run
    BY <1>5, <1>7 DEF Step, Go
  <2>2. QED
    BY <1>4, <1>7, <2>1, PatternGoesOn
<1>8. ASSUME NEW v
      PROVE  LET d == Charge(c, v)
             IN  /\ SamePath(d, c) /\ d.depth = c.depth
                 /\ \A e : SamePath(With(d, e), c) /\ With(d, e).depth = c.depth
  <2> DEFINE d == Charge(c, v)
  <2>1. SamePath(d, c) /\ d.depth = c.depth /\ DOMAIN d = Fields
    BY <1>3, ContextOps DEF SamePath
  <2> HIDE DEF d
  <2>2. \A e : SamePath(With(d, e), d) /\ With(d, e).depth = d.depth
    BY <2>1, ContextOps
  <2>3. \A e : SamePath(With(d, e), c) /\ With(d, e).depth = c.depth
    BY <2>1, <2>2 DEF SamePath
  <2>4. QED
    BY <2>1, <2>3 DEF d
<1>9. CASE PlaceableValue
  <2> DEFINE d == Charge(c, now.value)
             e == Error("budget", "")
  <2>1. \/ Step(d, <<Emit(Pattern, Isolated(now.value))>> \o Below, Run)
        \/ Step(d, Below, Value(Pattern.out))
        \/ Step(With(d, e), Below, Value(Pattern.out))
    BY <1>9 DEF PlaceableValue, c
  <2>2. /\ SamePath(d, c) /\ d.depth = c.depth
        /\ SamePath(With(d, e), c) /\ With(d, e).depth = c.depth
    BY <1>8
  <2> HIDE DEF d, e
  <2>3. QED
    BY <1>6, <1>7, <2>1, <2>2
<1>10. CASE PlaceableRaises
  <2>1. PICK e : Step(With(c, e), <<Emit(Pattern, Lost)>> \o Below, Run)
    BY <1>10 DEF PlaceableRaises, FailPlaceable, c
  <2>2. SamePath(With(c, e), c) /\ With(c, e).depth = c.depth
    BY <1>3, ContextOps
  <2>3. QED
    BY <1>7, <2>1, <2>2
<1>11. QED
  BY <1>9, <1>10

\* What returns or raises under a guard leaves it.
LEMMA LeavesKeep ==
    ASSUME IInv,
           \/ LeaveNest \/ ArgumentRaises \/ SelectorValue \/ SelectorRaises
           \/ FunctionReturns \/ FunctionFloat \/ FunctionRefuses \/ FunctionFails
    PROVE  IInv'
<1> DEFINE c == Exit(ctx)
           leaves(d, n) == /\ SamePath(d, ctx) /\ d.depth = ctx.depth - 1
                           /\ n.is \in {"value", "raise"} /\ Step(d, Rest, n)
           starts(d) == /\ SamePath(d, ctx) /\ d.depth = ctx.depth - 1
                        /\ (\E p : StartPattern(d, p, Rest)) /\ global' = global
<1>1. /\ SamePath(c, ctx) /\ c.depth = ctx.depth - 1
      /\ \A e : SamePath(With(c, e), ctx) /\ With(c, e).depth = ctx.depth - 1
  <2>1. SamePath(c, ctx) /\ c.depth = ctx.depth - 1 /\ DOMAIN c = Fields
    BY AtHand, ContextOps DEF SamePath
  <2> HIDE DEF c
  <2>2. \A e : SamePath(With(c, e), c) /\ With(c, e).depth = c.depth
    BY <2>1, ContextOps
  <2>3. QED
    BY <2>1, <2>2 DEF SamePath
<1>2. (\A v : Value(v).is = "value") /\ (\A e : Raise(e).is = "raise")
  BY DEF Value, Raise
<1>3. Under(control, {"nest", "select", "call", "term"}) /\ Pending = 0
  <2>1. \/ ~Is("run") /\ (At("nest") \/ At("term") \/ At("call") \/ At("select"))
        \/ At("call")
    BY DEF LeaveNest, ArgumentRaises, SelectorValue, SelectorRaises, FunctionReturns,
       FunctionFloat, FunctionRefuses, FunctionFails, Applies, AtArguments, Is
  <2>2. \A frame : At(frame) <=> control # <<>> /\ Head(control).at = frame
    BY DEF At, Top
  <2>3. Under(control, {"nest", "select", "call", "term"})
    BY <2>1, <2>2 DEF Under
  <2>4. Pending = 0
    BY <2>1, <2>2 DEF Pending
  <2>5. QED
    BY <2>3, <2>4
<1>4. ASSUME NEW d, NEW n, leaves(d, n) PROVE IInv'
  BY <1>3, <1>4, Leaving
<1>5. ASSUME NEW d, starts(d) PROVE IInv'
  <2>1. Under(control, Guards)
    BY <1>3 DEF Under, Guards
  <2>2. Good(d, global, Rest, 0) /\ Under(Rest, Guards \cup Bodies)
    BY <1>3, <1>5, <2>1, Left DEF Under
  <2>3. QED
    BY <1>5, <2>2, Starts
<1> HIDE DEF c
<1>6. CASE LeaveNest \/ ArgumentRaises
  <2>1. leaves(c, now)
    BY <1>1, <1>6 DEF LeaveNest, ArgumentRaises, Is, c
  <2>2. QED
    BY <1>4, <2>1
<1>7. CASE SelectorValue /\ now.value = Float
  <2> DEFINE n == Raise(Error("float", ""))
  <2>1. Step(c, Rest, n) /\ n.is = "raise"
    BY <1>2, <1>7 DEF SelectorValue, Step, c
  <2> HIDE DEF n
  <2>2. leaves(c, n)
    BY <1>1, <2>1
  <2>3. QED
    BY <1>4, <2>2
<1>8. CASE SelectorValue /\ now.value # Float
  <2>1. starts(c)
    BY <1>1, <1>8 DEF SelectorValue, c
  <2>2. QED
    BY <1>5, <2>1
<1>9. CASE SelectorRaises
  <2>1. starts(With(c, now.error))
    BY <1>1, <1>9 DEF SelectorRaises, c
  <2>2. QED
    BY <1>5, <2>1
<1>10. CASE FunctionReturns
  <2>1. leaves(c, Value(Joined(Top.got)))
    BY <1>1, <1>2, <1>10 DEF FunctionReturns, c
  <2>2. QED
    BY <1>4, <2>1
<1>11. CASE FunctionFloat
  <2>1. leaves(c, Value(Float))
    BY <1>1, <1>2, <1>11 DEF FunctionFloat, c
  <2>2. QED
    BY <1>4, <2>1
<1>12. CASE FunctionRefuses
  <2>1. leaves(c, Raise(Error("function", "")))
    BY <1>1, <1>2, <1>12 DEF FunctionRefuses, c
  <2>2. QED
    BY <1>4, <2>1
<1>13. CASE FunctionFails
  <2>1. leaves(With(c, Error("failed", "")), Value(Lost))
    BY <1>1, <1>2, <1>13 DEF FunctionFails, c
  <2>2. QED
    BY <1>4, <2>1
<1>14. QED
  BY <1>6, <1>7, <1>8, <1>9, <1>10, <1>11, <1>12, <1>13

LEMMA NotRefused ==
    ASSUME IInv, NEW k, Refusal(k) = {}
    PROVE  /\ k \notin ctx.seen /\ Len(ctx.path) < MaxDepth
           /\ \A j \in 1 .. Len(ctx.path) : ctx.path[j] # k
<1>1. k \notin ctx.seen /\ ~(Len(ctx.path) >= MaxDepth)
  BY DEF Refusal
<1>2. PathOK(ctx)
  BY AtHand DEF Good, Fits
<1>3. DOMAIN ctx.path = 1 .. Len(ctx.path) /\ Len(ctx.path) \in Nat
  BY <1>2, SeqDomain DEF PathOK
<1>4. QED
  BY <1>1, <1>2, <1>3, SegmentIsNat DEF PathOK

\* A term's arguments are evaluated.
LEMMA TermReferenceKeeps ==
    ASSUME IInv, TermReference
    PROVE  IInv'
<1> DEFINE e == now.expr
<1>1. Is("eval") /\ StackOK(control) /\ Under(control, Guards) /\ e.form = "term"
  BY AtHand DEF IInv, NowInv, TermReference, Evaluates
<1>2. CASE Throw(Error("term", e.key))
  BY <1>1, <1>2, ThrowKeeps
<1>3. ASSUME NEW x, Yield(With(ctx, x), Lost) PROVE IInv'
  <2>1. SamePath(With(ctx, x), ctx) /\ With(ctx, x).depth = ctx.depth
    BY AtHand, ContextOps
  <2>2. Value(Lost).is = "value" /\ Step(With(ctx, x), control, Value(Lost))
    BY <1>3 DEF Value, Yield
  <2>3. QED
    BY <1>1, <2>1, <2>2, Answers
<1>4. ASSUME Refusal(e.key) = {}, NEW todo, Step(ctx, <<Arguments(e, todo)>> \o control, Run)
      PROVE  IInv'
  <2> DEFINE f == Arguments(e, todo)
  <2>1. /\ "at" \in DOMAIN f /\ "expr" \in DOMAIN f /\ f.at = "term" /\ f.expr = e
        /\ f.at \in Guards \cup {"pattern"} /\ f.at \in Guards
    BY <1>1 DEF Arguments, Guards
  <2>2. ctx' = ctx /\ global' = global /\ control' = <<f>> \o control /\ now' = Run
    BY <1>4 DEF Step, Go
  <2> HIDE DEF f
  <2>3. Fit(f, control)
    BY <1>1, <2>1, MayLie
  <2>4. /\ Good(ctx, global, control, 0) /\ control # <<>> /\ SamePath(ctx, ctx)
        /\ ctx.depth \in Int /\ ctx.depth <= MaxDepth
    BY <1>1, AtHand, ContextOps DEF Is, Under
  <2>5. f.at = "term" => /\ Len(ctx.path) < MaxDepth
                         /\ \A j \in 1 .. Len(ctx.path) : ctx.path[j] # f.expr.key
    BY <1>4, <2>1, NotRefused
  <2>6. Good(ctx, global, <<f>> \o control, 1)
    <3>1. ctx.depth = ctx.depth + 0 + (IF f.at \in Guards THEN 1 ELSE 0) - 1
      BY <2>1, <2>4
    <3>2. 0 \in {0, 1} /\ 1 \in {0, 1}
      OBVIOUS
    <3>3. QED
      BY <2>1, <2>3, <2>4, <2>5, <3>1, <3>2, PushFrame
  <2>7. Run.is = "run" /\ Under(<<f>> \o control, {"term"})
    BY <1>1, <2>1, StackSums, ConsSeq DEF Run, Under
  <2>8. QED
    BY <2>2, <2>6, <2>7, Lands
<1>5. QED
  BY <1>2, <1>3, <1>4 DEF TermReference

\* The next argument: a term's arguments have a guard each.
LEMMA NextArgumentKeeps ==
    ASSUME IInv, NextArgument
    PROVE  IInv'
<1>1. Is("run") /\ Under(control, {"call", "term"}) /\ Under(control, Guards) /\ StackOK(control)
  BY AtHand DEF NextArgument, AtArguments, Under, Guards
<1>2. control # <<>> /\ control = <<Top>> \o Rest /\ Fit(Top, Rest) /\ Under(Rest, Guards)
  BY <1>1, StackTop DEF Top, Rest, Under, Fit
<1>3. SamePath(ctx, ctx) /\ ctx.depth \in Int /\ ctx.depth <= MaxDepth
      /\ SamePath(Enter(ctx), ctx) /\ Enter(ctx).depth = ctx.depth + 1
  BY AtHand, ContextOps
<1>4. Eval(Element).is = "eval" /\ Raise(TooDeep).is = "raise"
  BY DEF Eval, Raise
<1>5. CASE Under(control, {"call"})
  <2>1. ctx' = ctx /\ global' = global /\ control' = control /\ now' = Eval(Element)
    BY <1>5, AtHand DEF NextArgument, Step, Go
  <2>2. Good(ctx, global, control, 0)
    BY <1>5, AtHand DEF Under
  <2>3. QED
    BY <1>1, <1>4, <2>1, <2>2, Lands
<1>6. CASE Under(control, {"term"})
  <2>1. Good(ctx, global, control, 1) /\ ~At("call")
    BY <1>1, <1>6, AtHand DEF Pending, Under
  <2>2. CASE MayEnter(ctx)
    <3>1. ctx' = Enter(ctx) /\ global' = global /\ control' = control /\ now' = Eval(Element)
      BY <2>1, <2>2 DEF NextArgument, Step, Go
    <3>2. Good(Enter(ctx), global, <<Top>> \o Tail(control), 0)
      <4>1. /\ Under(control, {"pattern", "term", "call"}) /\ "at" \in DOMAIN Top
            /\ Top.at = Head(control).at /\ "expr" \in DOMAIN Top /\ Top.expr = Head(control).expr
        BY <1>2, <1>6 DEF Under, Fit, Top
      <4>2. Enter(ctx).depth = ctx.depth + 1 - 0 /\ Enter(ctx).depth <= MaxDepth
        BY <1>3, <2>2, SegmentIsNat DEF MayEnter
      <4>3. 0 \in {0, 1} /\ 1 \in {0, 1}
        OBVIOUS
      <4>4. QED
        BY <1>3, <1>6, <2>1, <4>1, <4>2, <4>3, ReplaceTop
    <3>3. Good(Enter(ctx), global, control, 0)
      BY <1>2, <3>2 DEF Rest
    <3>4. QED
      BY <1>1, <1>4, <3>1, <3>3, Lands
  <2>3. CASE ~MayEnter(ctx)
    <3>1. ctx' = ctx /\ global' = global /\ control' = Rest /\ now' = Raise(TooDeep)
      BY <2>1, <2>3 DEF NextArgument, Step, Go
    <3>2. Good(ctx, global, Tail(control), 0)
      <4>1. ctx.depth = ctx.depth + 1 - (IF Head(control).at \in Guards THEN 1 ELSE 0)
        BY <1>1, <1>3 DEF Under
      <4>2. 1 \in {0, 1} /\ Under(control, Guards \cup {"pattern"})
        BY <1>1 DEF Under
      <4>3. QED
        BY <1>1, <1>3, <2>1, <4>1, <4>2, PopFrame
    <3>3. QED
      BY <1>2, <1>4, <3>1, <3>2, Lands DEF Rest
  <2>4. QED
    BY <2>2, <2>3
<1>7. QED
  BY <1>1, <1>5, <1>6 DEF Under

LEMMA ArgumentValueKeeps ==
    ASSUME IInv, ArgumentValue
    PROVE  IInv'
<1> DEFINE f == Got(Top, now.value)
           d == IF At("term") THEN Exit(ctx) ELSE ctx
           rest == IF At("term") THEN 1 ELSE 0
<1>1. /\ Under(control, {"call", "term"}) /\ StackOK(control) /\ control # <<>>
      /\ Good(ctx, global, control, 0)
      /\ (At("term") <=> Top.at = "term") /\ Top.at \in {"call", "term"}
  BY AtHand DEF ArgumentValue, AtArguments, Is, Under, Top
<1>2. Fit(Top, Rest) /\ IsSeq(Rest)
  BY <1>1, StackTop DEF Top, Rest
<1>3. SamePath(d, ctx) /\ d.depth = ctx.depth - rest /\ ctx.depth \in Int /\ ctx.depth <= MaxDepth
  BY AtHand, ContextOps
<1>4. /\ "at" \in DOMAIN f /\ f.at = Top.at
      /\ f.at = "term" => "expr" \in DOMAIN f /\ f.expr = Top.expr
  BY <1>1, <1>2 DEF Fit, Got
<1>5. rest \in {0, 1} /\ (rest = 1 <=> f.at = "term")
  BY <1>1, <1>4
<1>6. ctx' = d /\ global' = global /\ control' = <<f>> \o Rest /\ now' = Run
  BY DEF ArgumentValue, Step, Go
<1> HIDE DEF f, d, rest
<1>7. Good(d, global, <<f>> \o Tail(control), rest)
  <2>1. Under(control, {"pattern", "term", "call"})
    BY <1>1 DEF Under
  <2>2. d.depth <= MaxDepth /\ d.depth = ctx.depth + 0 - rest
    BY <1>3, <1>5, SegmentIsNat
  <2>3. f.at = Head(control).at /\ (f.at = "term" => "expr" \in DOMAIN f /\ f.expr = Head(control).expr)
    BY <1>4 DEF Top
  <2>4. 0 \in {0, 1} /\ 0 # 1
    OBVIOUS
  <2>5. QED
    BY <1>1, <1>3, <1>4, <1>5, <2>1, <2>2, <2>3, <2>4, ReplaceTop
<1>8. Run.is = "run" /\ (Under(<<f>> \o Rest, {"term"}) <=> f.at = "term")
  BY <1>2, ConsSeq DEF Run, Under
<1>9. rest = IF Run.is = "run" /\ Under(<<f>> \o Rest, {"term"}) THEN 1 ELSE 0
  BY <1>5, <1>8
<1>10. QED
  BY <1>6, <1>7, <1>8, <1>9, Lands DEF Rest

\* A message or a term whose pattern starts.
LEMMA ResolveMessageKeeps ==
    ASSUME IInv, ResolveMessage
    PROVE  IInv'
<1> DEFINE f == [at |-> "message", global |-> global]
           d == Push(ctx, now.key)
<1>1. /\ Is("resolve") /\ StackOK(control) /\ Under(control, Guards \cup {"format"})
      /\ Good(ctx, global, control, 0) /\ control # <<>>
  BY AtHand DEF IInv, NowInv, ResolveMessage, Is, Under
<1>2. now.key \notin ctx.seen /\ Len(ctx.path) < MaxDepth
  BY NotRefused DEF ResolveMessage
<1>3. global = Count(control, {"message"}) /\ global \in Nat
  BY <1>1, StackSums, Counts DEF Good
<1>4. global + 1 <= MaxDepth
  <2>1. ~(global >= MaxDepth)
    BY DEF ResolveMessage, GlobalRefusal
  <2>2. QED
    BY <1>3, <2>1, SegmentIsNat
<1>5. StartPattern(d, catalog[now.key], <<f>> \o control) /\ global' = global + 1
  BY DEF ResolveMessage
<1>6. DOMAIN d = Fields /\ d.depth = ctx.depth /\ d.path = Append(ctx.path, now.key)
      /\ d.seen = ctx.seen \cup {now.key}
  BY AtHand, PathOps
<1>7. "at" \in DOMAIN f /\ f.at = "message" /\ f.global = global /\ f.at \in Bodies
  BY DEF Bodies
<1> HIDE DEF f, d
<1>8. Fit(f, control)
  BY <1>1, <1>3, <1>7 DEF Fit, Kinds
<1>9. global + 1 = global + (IF f.at = "message" THEN 1 ELSE 0)
  BY <1>7
<1>10. Good(d, global + 1, <<f>> \o control, 0)
  BY <1>1, <1>2, <1>4, <1>6, <1>7, <1>8, <1>9, PushBody
<1>11. Under(<<f>> \o control, Guards \cup Bodies)
  BY <1>1, <1>7, StackSums, ConsSeq DEF Under
<1>12. QED
  BY <1>5, <1>10, <1>11, Starts

LEMMA EnterTermKeeps ==
    ASSUME IInv, EnterTerm
    PROVE  IInv'
<1> DEFINE e == Top.expr
           f == [at |-> "body", args |-> ctx.args]
<1>1. PICK c, args : /\ c = ctx \/ c = With(ctx, Error("positional", e.key))
                     /\ StartPattern(Push([c EXCEPT !.args = args], e.key), catalog[e.key],
                                     <<f>> \o Rest)
  BY DEF EnterTerm
<1> DEFINE d == [c EXCEPT !.args = args]
           p == Push(d, e.key)
<1>2. global' = global /\ Is("run") /\ Under(control, {"term"}) /\ control # <<>>
  BY AtHand DEF EnterTerm, Under
<1>3. /\ Good(ctx, global, control, 1) /\ StackOK(control) /\ ctx.depth \in Int
      /\ Under(control, Guards) /\ DOMAIN ctx = Fields
  BY <1>2, AtHand DEF Pending, Under, Guards
<1>4. SamePath(d, ctx) /\ d.depth = ctx.depth
  <2>1. SamePath(c, ctx) /\ c.depth = ctx.depth
    BY <1>1, <1>3, ContextOps
  <2>2. SamePath(d, c) /\ d.depth = c.depth
    BY <2>1, ContextOps DEF SamePath
  <2>3. QED
    BY <2>1, <2>2 DEF SamePath
<1>5. Under(Rest, Guards)
  <2>1. Fit(Head(control), Tail(control))
    BY <1>2, <1>3, StackTop
  <2>2. QED
    BY <1>2, <2>1 DEF Fit, Under, Rest
<1> HIDE DEF d
<1>6. Good(d, global, Tail(control), 0)
  <2>1. d.depth = ctx.depth + 1 - (IF Head(control).at \in Guards THEN 1 ELSE 0)
    BY <1>3, <1>4 DEF Under
  <2>2. 1 \in {0, 1} /\ Under(control, Guards \cup {"pattern"})
    BY <1>3 DEF Under
  <2>3. QED
    BY <1>3, <1>4, <2>1, <2>2, PopFrame
<1>7. e.key \notin d.seen /\ Len(d.path) < MaxDepth
  <2>1. Len(ctx.path) < MaxDepth /\ \A j \in 1 .. Len(ctx.path) : ctx.path[j] # e.key
    BY <1>2, <1>3, TermOnTop DEF Top
  <2>2. DOMAIN ctx.path = 1 .. Len(ctx.path) /\ ctx.seen = {ctx.path[i] : i \in DOMAIN ctx.path}
    BY <1>3, SeqDomain DEF Good, Fits, PathOK
  <2>3. QED
    BY <1>4, <2>1, <2>2 DEF SamePath
<1>8. DOMAIN p = Fields /\ p.depth = d.depth /\ p.path = Append(d.path, e.key)
      /\ p.seen = d.seen \cup {e.key}
  BY <1>4, PathOps DEF SamePath
<1>9. "at" \in DOMAIN f /\ f.at = "body" /\ f.at \in Bodies
  BY DEF Bodies
<1>10. StartPattern(p, catalog[e.key], <<f>> \o Rest)
  BY <1>1 DEF d
<1> HIDE DEF f, p, e
<1>11. StackOK(Rest) /\ Rest # <<>> /\ Good(d, global, Rest, 0)
  BY <1>5, <1>6 DEF Good, Under, Rest
<1>12. Fit(f, Rest)
  BY <1>5, <1>9, <1>11, MayLie
<1>13. global = global + (IF f.at = "message" THEN 1 ELSE 0) /\ global <= MaxDepth
  <2>1. global \in Nat
    BY <1>3, StackSums, Counts DEF Good
  <2>2. QED
    BY <1>3, <1>9, <2>1 DEF Good
<1>14. Good(p, global, <<f>> \o Rest, 0)
  BY <1>7, <1>8, <1>9, <1>11, <1>12, <1>13, PushBody
<1>15. Under(<<f>> \o Rest, Guards \cup Bodies)
  BY <1>9, <1>11, StackSums, ConsSeq DEF Under
<1>16. QED
  BY <1>2, <1>10, <1>14, <1>15, Starts

LEMMA BodiesKeep ==
    ASSUME IInv, LeaveMessage \/ LeaveTerm
    PROVE  IInv'
<1> DEFINE d == Pop(ctx)
<1>1. /\ Is("value") /\ Under(control, Bodies) /\ Good(ctx, global, control, 0)
      /\ DOMAIN ctx = Fields
  BY AtHand DEF LeaveMessage, LeaveTerm, Is, Under, Bodies
<1>2. DOMAIN d = Fields /\ d.depth = ctx.depth /\ d.path = Front(ctx.path)
      /\ d.seen = ctx.seen \ {Last(ctx.path)}
  BY <1>1, PathOps
<1>3. ASSUME NEW c, SamePath(c, d), c.depth = d.depth, ctx' = c, control' = Rest, now'.is = "value",
             global' = IF Head(control).at = "message" THEN Head(control).global ELSE global
      PROVE  IInv'
  <2>1. Good(c, global', Tail(control), 0)
    <3>1. DOMAIN c = Fields /\ c.path = Front(ctx.path) /\ c.seen = ctx.seen \ {Last(ctx.path)}
          /\ c.depth = ctx.depth
      BY <1>2, <1>3 DEF SamePath
    <3> DEFINE h == IF Head(control).at = "message" THEN Head(control).global ELSE global
    <3>2. global' = h
      BY <1>3
    <3>3. Good(c, h, Tail(control), 0)
      BY <1>1, <3>1, PopBody
    <3>4. QED
      BY <3>2, <3>3
  <2>2. QED
    BY <1>3, <2>1, Lands DEF Rest
<1> HIDE DEF d
<1>4. CASE LeaveMessage
  <2>1. /\ ctx' = d /\ control' = Rest /\ now' = now /\ global' = Top.global /\ Top.at = "message"
        /\ now.is = "value"
    BY <1>4 DEF LeaveMessage, Go, At, Is, d
  <2>2. SamePath(d, d)
    BY <1>2 DEF SamePath
  <2>3. QED
    BY <1>3, <2>1, <2>2 DEF Top
<1>5. CASE LeaveTerm
  <2> DEFINE c == [d EXCEPT !.args = Top.args]
  <2>1. /\ ctx' = c /\ control' = Rest /\ now' = now /\ global' = global /\ Top.at = "body"
        /\ now.is = "value"
    BY <1>5 DEF LeaveTerm, Step, Go, At, Is, d
  <2>2. SamePath(c, d) /\ c.depth = d.depth
    BY <1>2, ContextOps
  <2> HIDE DEF c
  <2>3. QED
    BY <1>3, <2>1, <2>2 DEF Top
<1>6. QED
  BY <1>4, <1>5

-----------------------------------------------------------------------------
(* Format calls.                                                           *)

LEMMA NothingYet == Good(Fresh, 0, <<>>, 0)
<1>1. IsSeq(<<>>) /\ Len(<<>>) = 0 /\ DOMAIN <<>> = {}
  BY EmptyIsSeq
<1>2. \A kinds : Count(<<>>, kinds) = 0 /\ Owned(<<>>, kinds) = 0
  BY NoFrames
<1>3. OwnOf(<<>>) = {}
  BY NoFrames
<1>4. StackOK(<<>>)
  BY <1>1 DEF StackOK
<1>5. DOMAIN Fresh = Fields /\ Fresh.depth = 0 /\ Fresh.path = <<>> /\ Fresh.seen = {}
  BY DEF Fresh, Fields
<1>6. PathOK(Fresh) /\ TermsOK(Fresh.path, <<>>)
  BY <1>1, <1>3, <1>5 DEF PathOK, TermsOK
<1>7. QED
  BY <1>1, <1>2, <1>4, <1>5, <1>6, SegmentIsNat DEF Good, Fits

\* A format call begins, from outside or from a custom function.
LEMMA Begins ==
    ASSUME NEW c, NEW s, Good(c, global, s, 0), s # <<>> => Under(s, Guards),
           NEW k, Begin(k, c, s)
    PROVE  IInv'
<1> DEFINE f == [at |-> "format", key |-> k, saved |-> c]
<1>1. "at" \in DOMAIN f /\ f.at = "format" /\ f.saved = c
  OBVIOUS
<1>2. ctx' = Fresh /\ global' = global /\ control' = <<f>> \o s /\ now' = Resolve(k)
  BY DEF Begin, Step, Go
<1> HIDE DEF f
<1>3. DOMAIN Fresh = Fields /\ Fresh.depth = 0 /\ Fresh.path = <<>> /\ Fresh.seen = {}
  BY DEF Fresh, Fields
<1>4. StackOK(s) /\ DOMAIN c = Fields
  BY DEF Good, Fits
<1>5. s # <<>> => Under(s, Guards) /\ Owned(s, {"message"}) >= 1
  <2>1. Under(s, Guards) => Under(s, Guards \cup Bodies \cup {"pattern"})
    BY DEF Under
  <2>2. QED
    BY <1>4, <2>1, MessageBelow
<1>6. SamePath(f.saved, c) /\ f.saved.depth = c.depth
  BY <1>1, <1>4, ContextOps
<1>7. Good(Fresh, global, <<f>> \o s, 0)
  BY <1>1, <1>3, <1>5, <1>6, PushFormat
<1>8. Resolve(k).is = "resolve" /\ Under(<<f>> \o s, Guards \cup {"format"})
  BY <1>1, <1>4, StackSums, ConsSeq DEF Resolve, Under
<1>9. QED
  BY <1>2, <1>7, <1>8, Lands

LEMMA NestedKeeps ==
    ASSUME NEW c, NEW s, Good(c, global, s, 0), NEW r, Nested(r, c, s), global' = global
    PROVE  IInv'
<1> DEFINE d == With(c, Error("failed", ""))
<1>1. DOMAIN c = Fields
  BY DEF Good, Fits
<1>2. SamePath(c, c) /\ SamePath(d, c) /\ d.depth = c.depth
  BY <1>1, ContextOps
<1>3. (ctx' = d \/ ctx' = c) /\ control' = s /\ (now' = Value(Lost) \/ now' = Value(r.out))
  BY DEF Nested
<1> HIDE DEF d
<1>4. now'.is = "value"
  BY <1>3 DEF Value
<1>5. Good(d, global, s, 0)
  BY <1>2, OtherContext
<1>6. QED
  BY <1>3, <1>4, <1>5, Lands

LEMMA FormatKeeps ==
    ASSUME IInv, NEW k, Format(k)
    PROVE  IInv'
<1>1. control = <<>> /\ Is("idle") /\ Good(ctx, global, control, Pending)
  BY DEF IInv, NowInv, Format
<1>2. global = 0
  <2>1. global = Count(<<>>, {"message"})
    BY <1>1 DEF Good
  <2>2. QED
    BY <2>1, NoFrames
<1>3. Good(Fresh, global, <<>>, 0)
  BY <1>2, NothingYet
<1>4. QED
  BY <1>3, Begins DEF Format

LEMMA FunctionFormatsKeeps ==
    ASSUME IInv, FunctionFormats
    PROVE  IInv'
<1> DEFINE c == Exit(ctx)
<1>1. Under(control, {"call"}) /\ Pending = 0
  BY AtHand DEF FunctionFormats, Applies, Under
<1>2. Under(control, Guards) /\ Under(control, {"nest", "select", "call", "term"})
  BY <1>1 DEF Under, Guards
<1>3. SamePath(c, ctx) /\ c.depth = ctx.depth - 1
  BY AtHand, ContextOps
<1>4. \/ Begin(Top.expr.of, c, Rest)
      \/ (\E r : Nested(r, c, Rest)) /\ global' = global
  BY DEF FunctionFormats
<1> HIDE DEF c
<1>5. Good(c, global, Rest, 0) /\ Under(Rest, Guards)
  BY <1>1, <1>2, <1>3, Left
<1>6. QED
  BY <1>4, <1>5, Begins, NestedKeeps

LEMMA EndFormatKeeps ==
    ASSUME IInv, EndFormat
    PROVE  IInv'
<1>1. /\ Is("value") /\ Under(control, {"format"}) /\ Good(ctx, global, control, 0)
      /\ control # <<>> /\ StackOK(control)
  BY AtHand DEF EndFormat, Is, Under
<1>2. Fit(Top, Rest) /\ Top.at = "format"
  BY <1>1, StackTop DEF Top, Rest, Under
<1>3. SamePath(Top.saved, Top.saved)
  BY <1>2 DEF Fit, Fits, SamePath
<1>4. Good(Top.saved, global, Rest, 0)
  BY <1>1, <1>3, PopFormat DEF Top, Rest
<1>5. global' = global
  BY DEF EndFormat
<1>6. CASE Rest = <<>>
  <2>1. ctx' = Fresh /\ control' = <<>> /\ now' = Idle
    BY <1>6 DEF EndFormat
  <2>2. global = 0
    <3>1. global = Count(<<>>, {"message"})
      BY <1>4, <1>6 DEF Good
    <3>2. QED
      BY <3>1, NoFrames
  <2>3. Good(Fresh, global, <<>>, 0)
    BY <2>2, NothingYet
  <2>4. Idle.is = "idle"
    BY DEF Idle
  <2>5. QED
    BY <1>5, <2>1, <2>3, <2>4, Lands
<1>7. CASE Rest # <<>>
  <2>1. PICK r : Nested(r, Top.saved, Rest)
    BY <1>7 DEF EndFormat
  <2>2. QED
    BY <1>4, <1>5, <2>1, NestedKeeps
<1>8. QED
  BY <1>6, <1>7

-----------------------------------------------------------------------------
LEMMA InitIInv == Init => IInv
<1> SUFFICES ASSUME Init PROVE IInv
  OBVIOUS
<1>1. global = 0 /\ ctx = Fresh /\ control = <<>> /\ now = Idle
  BY DEF Init
<1>2. Pending = 0 /\ NowInv
  BY <1>1 DEF Pending, NowInv, Is, Idle
<1>3. Good(ctx, global, control, 0)
  BY <1>1, NothingYet
<1>4. QED
  BY <1>2, <1>3 DEF IInv

LEMMA StutterKeeps ==
    ASSUME IInv, UNCHANGED <<global, ctx, control, now>>
    PROVE  IInv'
<1>1. ctx' = ctx /\ global' = global /\ control' = control /\ now' = now
  OBVIOUS
<1>2. Pending = IF now.is = "run" /\ Under(control, {"term"}) THEN 1 ELSE 0
  BY AtHand DEF Pending, Is
<1>3. Good(ctx, global, control, Pending)
  BY AtHand
<1>4. /\ now.is = "idle" => control = <<>>
      /\ now.is \in {"eval", "raise"} => Under(control, Guards)
      /\ now.is = "resolve" => Under(control, Guards \cup {"format"})
  BY DEF IInv, NowInv, Is
<1>5. QED
  BY <1>1, <1>2, <1>3, <1>4, Lands

LEMMA NextIInv == IInv /\ [Next]_vars => IInv'
<1> SUFFICES ASSUME IInv, [Next]_vars PROVE IInv'
  OBVIOUS
<1>1. CASE EndFormat
  BY <1>1, EndFormatKeeps
<1>2. CASE ResolveMessage
  BY <1>2, ResolveMessageKeeps
<1>3. CASE LeaveMessage \/ LeaveTerm
  BY <1>3, BodiesKeep
<1>4. CASE EndPattern \/ Text \/ Placeable
  BY <1>4, PatternKeeps
<1>5. CASE PlaceableValue \/ PlaceableRaises
  BY <1>5, PlaceableKeeps
<1>6. CASE Literal \/ Variable \/ MessageReference \/ ResolveRefused
  BY <1>6, AnswersKeep
<1>7. CASE Nest \/ Call \/ Select
  BY <1>7, GuardsKeep
<1>8. CASE TermReference
  BY <1>8, TermReferenceKeeps
<1>9. CASE EnterTerm
  BY <1>9, EnterTermKeeps
<1>10. CASE NextArgument
  BY <1>10, NextArgumentKeeps
<1>11. CASE ArgumentValue
  BY <1>11, ArgumentValueKeeps
<1>12. CASE \/ LeaveNest \/ ArgumentRaises \/ SelectorValue \/ SelectorRaises
            \/ FunctionReturns \/ FunctionFloat \/ FunctionRefuses \/ FunctionFails
  BY <1>12, LeavesKeep
<1>13. CASE FunctionFormats
  BY <1>13, FunctionFormatsKeeps
<1>14. ASSUME NEW k, Format(k) PROVE IInv'
  BY <1>14, FormatKeeps
<1>15. ASSUME NEW k, FormatHit(k) PROVE IInv'
  BY <1>15, StutterKeeps DEF FormatHit
<1>16. CASE ClearCache
  BY <1>16, StutterKeeps DEF ClearCache
<1>17. CASE UNCHANGED vars
  BY <1>17, StutterKeeps DEF vars
<1>18. CASE Resolving
  BY <1>1, <1>2, <1>3, <1>4, <1>5, <1>6, <1>7, <1>8, <1>9, <1>10, <1>11, <1>12, <1>13, <1>18
     DEF Resolving
<1>19. QED
  BY <1>14, <1>15, <1>16, <1>17, <1>18 DEF Next

\* The counters fit the stack and the stack is one that the calls can build, in
\* every state: what _resolve_message, _resolve_term, the depth guards and their
\* finally clauses keep up together.
THEOREM Invariance == Spec => []IInv
BY InitIInv, NextIInv, PTL DEF Spec

-----------------------------------------------------------------------------
(* From the invariant to Balanced.                                         *)

LEMMA PathIsCounted ==
    ASSUME NEW c, PathOK(c)
    PROVE  Cardinality(c.seen) = Len(c.path)
<1> DEFINE p == c.path
<1>1. /\ DOMAIN p = 1 .. Len(p) /\ Len(p) \in Nat /\ c.seen = {p[i] : i \in DOMAIN p}
      /\ \A i, j \in DOMAIN p : p[i] = p[j] => i = j
  BY SeqDomain DEF PathOK
<1> DEFINE f == [i \in 1 .. Len(p) |-> p[i]]
<1>2. f \in [1 .. Len(p) -> c.seen]
  BY <1>1
<1>3. \A i, j \in 1 .. Len(p) : f[i] = f[j] => i = j
  BY <1>1
<1>4. \A x \in c.seen : \E i \in 1 .. Len(p) : f[i] = x
  BY <1>1
<1> HIDE DEF f, p
<1>5. ExistsBijection(1 .. Len(p), c.seen)
  BY <1>2, <1>3, <1>4 DEF ExistsBijection, Bijection, Injection, Surjection, IsInjective
<1>6. IsFiniteSet(1 .. Len(p)) /\ Cardinality(1 .. Len(p)) = Len(p)
  <2> DEFINE n == Len(p)
  <2>1. n \in Nat /\ n \in Int /\ 1 \in Int
    BY <1>1
  <2> HIDE DEF n
  <2>2. IsFiniteSet(1 .. n) /\ Cardinality(1 .. n) = IF 1 > n THEN 0 ELSE n - 1 + 1
    BY <2>1, FS_Interval
  <2>3. IsFiniteSet(1 .. n) /\ Cardinality(1 .. n) = n
    BY <2>1, <2>2
  <2>4. QED
    BY <2>3 DEF n
<1>7. QED
  BY <1>5, <1>6, FS_Bijection DEF p

LEMMA DepthIsGuarded ==
    ASSUME IInv
    PROVE  ctx.depth = Guarded
<1> DEFINE calls == {"placeable", "nest", "select", "call"}
           terms == {i \in OwnOf(control) : control[i].at \in {"term"}}
           held == {i \in Own : control[i].at = "term" /\ ~(i = 1 /\ Is("run"))}
<1>1. Good(ctx, global, control, Pending) /\ StackOK(control) /\ IsSeq(control) /\ Sums(control)
  BY AtHand, StackSums
<1>2. Own = OwnOf(control)
  BY DEF Own, OwnOf
<1>3. Owned(control, Guards) = Owned(control, calls) + Cardinality(terms)
  BY <1>1 DEF Sums, Owned
<1>4. terms \in SUBSET DOMAIN control
  BY DEF OwnOf
<1>5. IsFiniteSet(terms) /\ Cardinality(terms) \in Nat /\ Owned(control, calls) \in Nat
  BY <1>1, <1>4, Positions, OwnedCounts
<1>6. ctx.depth = Owned(control, Guards) - Pending
  BY <1>1 DEF Good, Fits
<1>7. Pending = 1 <=> Is("run") /\ 1 \in terms
  <2>1. control # <<>> => Head(control) = control[1] /\ 1 \in DOMAIN control
    <3>1. ASSUME control # <<>> PROVE Head(control) = control[1] /\ 1 \in DOMAIN control
      <4>1. Head(control) = control[1]
        BY <1>1, <3>1, Decompose
      <4>2. IsSeq(Tail(control)) /\ control = <<Head(control)>> \o Tail(control)
        BY <1>1, <3>1, Decompose
      <4>3. Len(control) = Len(Tail(control)) + 1
        BY <4>2, ConsSeq
      <4>4. DOMAIN control = 1 .. Len(control) /\ Len(Tail(control)) \in Nat
        BY <1>1, <4>2, SeqDomain
      <4>5. QED
        BY <4>1, <4>3, <4>4
    <3>2. QED
      BY <3>1
  <2>2. 1 \in DOMAIN control => control # <<>>
    BY EmptyIsSeq
  <2>3. \A j \in 1 .. 1 : j = 1
    OBVIOUS
  <2>4. 1 \in terms <=> control # <<>> /\ Head(control).at = "term"
    BY <2>1, <2>2, <2>3 DEF OwnOf
  <2>5. QED
    BY <2>4 DEF Pending, At, Top
<1>8. Cardinality(terms) - Pending = Cardinality(held)
  <2>1. CASE Pending = 1
    <3>1. held = terms \ {1} /\ 1 \in terms
      BY <1>2, <1>7, <2>1
    <3> HIDE DEF held, terms
    <3>2. Cardinality(terms \ {1}) = Cardinality(terms) - 1
      BY <1>5, <3>1, FS_RemoveElement
    <3>3. QED
      BY <2>1, <3>1, <3>2
  <2>2. CASE Pending # 1
    <3>1. held = terms
      BY <1>2, <1>7, <2>2
    <3>2. Pending = 0
      BY <2>2, AtHand
    <3> HIDE DEF held, terms
    <3>3. QED
      BY <1>5, <3>1, <3>2
  <2>3. QED
    BY <2>1, <2>2
<1>9. Guarded = Owned(control, calls) + Cardinality(held)
  BY <1>2 DEF Guarded, Frames, Owned
<1> HIDE DEF calls, terms, held
<1>10. Pending \in {0, 1}
  BY AtHand
<1>11. QED
  BY <1>3, <1>5, <1>6, <1>8, <1>9, <1>10

LEMMA DepthBoundsStack ==
    ASSUME IInv
    PROVE  StackBounded
<1>1. /\ Good(ctx, global, control, Pending) /\ IsSeq(control) /\ Sums(control)
      /\ Pending \in {0, 1} /\ (Pending = 1 => Under(control, {"term"}))
  BY AtHand, StackSums
<1> DEFINE n == Count(control, {"format"})
<1>2. n \in Nat /\ n <= MaxDepth + 1
  <2>1. n \in Nat /\ Count(control, {"message"}) \in Nat /\ Owned(control, {"message"}) \in Nat
    BY <1>1, Counts, OwnedCounts
  <2>2. n + Owned(control, {"message"}) <= Count(control, {"message"}) + 1
    BY <1>1 DEF Sums
  <2>3. Count(control, {"message"}) <= MaxDepth
    BY <1>1 DEF Good
  <2> HIDE DEF n
  <2>4. QED
    BY <2>1, <2>2, <2>3, SegmentIsNat
<1>3. Len(control) <= n * Segment
  <2>1. CASE control = <<>>
    <3>1. n = 0 /\ 0 * Segment = 0 /\ Len(control) = 0
      BY <2>1, EmptyIsSeq, NoFrames, SegmentIsNat
    <3>2. QED
      BY <3>1
  <2>2. CASE control # <<>>
    <3>1. Pending = 1 => Under(control, Guards)
      BY <1>1 DEF Under, Guards
    <3>2. QED
      BY <1>1, <2>2, <3>1, OwnBound
  <2>3. QED
    BY <2>1, <2>2
<1> HIDE DEF n
<1>4. n * Segment <= (MaxDepth + 1) * Segment
  <2>1. \A a, b, k \in Nat : a <= b => a * k <= b * k
    OBVIOUS
  <2>2. MaxDepth + 1 \in Nat
    BY SegmentIsNat
  <2>3. QED
    BY <1>2, <2>1, <2>2, SegmentIsNat
<1>5. Len(control) \in Nat /\ n * Segment \in Nat /\ (MaxDepth + 1) * Segment \in Nat
  BY <1>1, <1>2, SeqDomain, SegmentIsNat
<1>6. Len(control) <= (MaxDepth + 1) * Segment
  BY <1>3, <1>4, <1>5
<1>7. QED
  BY <1>6 DEF StackBounded, Segment

\* Whatever was refused, raised or cut short on the way, the path, its lookup set,
\* the depth of the expressions and the depth that nested format calls share
\* count exactly the calls in progress, for every catalog and every limit; so
\* max_nesting_depth alone bounds the recursion.
THEOREM BalancedDepth == Spec => []Balanced
<1>1. IInv => Balanced
  <2> SUFFICES ASSUME IInv PROVE Balanced
    OBVIOUS
  <2>1. Good(ctx, global, control, Pending) /\ PathOK(ctx)
    BY AtHand DEF Good, Fits
  <2>2. ctx.seen = {ctx.path[i] : i \in DOMAIN ctx.path}
    BY <2>1 DEF PathOK
  <2>3. Cardinality(ctx.seen) = Len(ctx.path)
    BY <2>1, PathIsCounted
  <2>4. Len(ctx.path) = Frames(Own, {"message", "body"})
    BY <2>1 DEF Good, Fits, Owned, OwnOf, Bodies, Frames, Own
  <2>5. ctx.depth = Guarded
    BY DepthIsGuarded
  <2>6. global = Frames(DOMAIN control, {"message"})
    BY <2>1 DEF Good, Count, Frames
  <2>7. StackBounded
    BY DepthBoundsStack
  <2>8. QED
    BY <2>2, <2>3, <2>4, <2>5, <2>6, <2>7 DEF Balanced
<1>2. QED
  BY <1>1, Invariance, PTL

-----------------------------------------------------------------------------
(***************************************************************************)
(* From the meaning.  Beside each frame lies a goal: the expression or     *)
(* pattern that it is there for, with its arguments.  As long as a format  *)
(* call has no error, every result that is right for the goal of a frame   *)
(* is one that the frame below can use for its own; so the result of the   *)
(* outermost frame is the meaning.                                         *)
(***************************************************************************)
Goal(kind, of, args) == [is |-> kind, of |-> of, args |-> args]

\* The results that are right for a goal: values of an expression, texts of a pattern.
Right(r, g, v) ==
    IF g.is = "value" THEN Says(r, g.of, g.args, v) ELSE Writes(r, <<>>, g.of, g.args, v)

\* What a frame with a goal can use as the value that it waits for.
Wants(r, f, g, v) ==
        /\ f.at \in {"format", "message", "body", "placeable"} => Right(r, g, v)
        /\ f.at = "nest" => Says(r, g.of.of, g.args, v)
        /\ f.at \in {"pattern", "term", "call"} => f.todo # <<>> /\ Says(r, Head(f.todo), g.args, v)
        /\ f.at = "pattern" => Head(f.todo).form # "text"
        /\ f.at = "select" => Says(r, f.expr.on, g.args, v)
Wanted(r, s, G, v) == Wants(r, Head(s), Head(G), v)

\* A frame that gets what it wants, now and later, reaches its goal,
TermAdvances(r, f, g) ==
    \A vs, t : f.expr.positional = <<>> /\ Takes(r, f.got, f.todo, g.args, vs)
                 /\ Writes(r, <<>>, r[f.expr.key], Bound(f.expr, vs), t)
                   => Right(r, g, t)
CallAdvances(r, f, g) ==
    \A vs, v : Takes(r, f.got, f.todo, g.args, vs) /\ Gives(r, f.expr, vs, v) => Right(r, g, v)
SelectAdvances(r, f, g) ==
    \A v, t : Says(r, f.expr.on, g.args, v) /\ v # Float
                /\ Writes(r, <<>>, Variant(f.expr, v), g.args, t)
                  => Right(r, g, t)
Advances(r, f, g) ==
    /\ f.at = "pattern" =>
         /\ {"at", "todo", "out"} \subseteq DOMAIN f
         /\ \A t : Writes(r, f.out, f.todo, g.args, t) => Right(r, g, t)
    /\ f.at = "nest" => \A v : Says(r, g.of.of, g.args, v) => Right(r, g, v)
    /\ f.at \in {"term", "call"} => {"at", "todo", "got"} \subseteq DOMAIN f
    /\ f.at = "term" => TermAdvances(r, f, g)
    /\ f.at = "call" => CallAdvances(r, f, g)
    /\ f.at = "select" => SelectAdvances(r, f, g)

\* and reaching it is what the frame below wants, under the arguments that are its own.
Linked(r, f, g, s, G) ==
    /\ Advances(r, f, g)
    /\ \A v : Right(r, g, v) => Wanted(r, s, G, v)
    /\ (IF f.at = "body" THEN f.args ELSE g.args) = Head(G).args

\* A text that was too long was reported.
Honest(c) == IsSeq(c.errors) /\ (Over(c) => c.errors # <<>>)

\* A later context of the same call: with the same arguments, or with errors.
Later(d, c) == Honest(d) /\ (d.errors = <<>> => c.errors = <<>> /\ d.args = c.args)

\* The frames of a format call without errors so far are on their way.
Sound(r, c, s, G) ==
    /\ Honest(c)
    /\ c.errors = <<>> =>
         /\ s # <<>> => c.args = Head(G).args
         /\ \A i \in OwnOf(s) : Linked(r, s[i], G[i], Suffix(s, i + 1), Suffix(G, i + 1))

\* A nested format call.
Returns(r, f, g, s, G) ==
    /\ g = Goal("text", r[f.key], Args)
    /\ Sound(r, f.saved, s, G)
    /\ s # <<>> /\ f.saved.errors = <<>> =>
         \A v : ~Strict \/ Right(r, g, v) => Wanted(r, s, G, v)

Interrupts(r, s, G) ==
    \A i \in DOMAIN s : s[i].at = "format" =>
        Returns(r, s[i], G[i], Suffix(s, i + 1), Suffix(G, i + 1))

\* The goals of the frames, G, for the frames s.
Alike(s, G) == IsSeq(G) /\ Len(G) = Len(s)
Tracked(r, c, s, G) == Alike(s, G) /\ Sound(r, c, s, G) /\ Interrupts(r, s, G)

Expects(r, c, n, s, G) ==
    c.errors = <<>> =>
      /\ n.is = "eval" => \A v : Says(r, n.expr, c.args, v) => Wanted(r, s, G, v)
      /\ n.is = "resolve" => \A v : r[n.key] # NoPattern /\ Writes(r, <<>>, r[n.key], c.args, v)
                                        => Wanted(r, s, G, v)
      /\ n.is = "value" => Wanted(r, s, G, n.value)

Genuine(r, x) == x.errors = <<>> => Writes(r, <<>>, r[x.key], Args, x.out)

Kept(r, xs) == IsSeq(xs) /\ \A i \in DOMAIN xs : Genuine(r, xs[i])

MeaningInv ==
    /\ catalog \in Catalogs
    /\ Kept(catalog, answers) /\ \A x \in cache : Genuine(catalog, x)
    /\ \E G : Tracked(catalog, ctx, control, G) /\ Expects(catalog, ctx, now, control, G)

-----------------------------------------------------------------------------
(* Goals beside frames.                                                    *)

On(f, s) == <<f>> \o s

\* One more element.
LEMMA OneOnTop ==
    ASSUME NEW s, IsSeq(s), NEW f, NEW t, t = On(f, s)
    PROVE  /\ IsSeq(t) /\ Len(s) \in Nat /\ Len(t) = Len(s) + 1
           /\ DOMAIN s = 1 .. Len(s) /\ DOMAIN t = 1 .. (Len(s) + 1)
           /\ t[1] = f /\ Suffix(t, 2) = s /\ t # <<>> /\ Head(t) = f /\ Tail(t) = s
           /\ \A i \in 1 .. Len(s) :
                /\ i + 1 \in 1 .. (Len(s) + 1) /\ t[i + 1] = s[i]
                /\ Suffix(t, (i + 1) + 1) = Suffix(s, i + 1)
<1>1. /\ Len(s) \in Nat /\ DOMAIN s = 1 .. Len(s)
  BY SeqDomain
<1>2. /\ IsSeq(t) /\ Len(t) = Len(s) + 1 /\ t[1] = f /\ t # <<>> /\ Head(t) = f /\ Tail(t) = s
      /\ \A i \in 1 .. Len(s) : t[i + 1] = s[i]
  BY ConsSeq DEF On
<1>3. DOMAIN t = 1 .. (Len(s) + 1)
  BY <1>2, SeqDomain
<1>4. Suffix(t, 2) = s /\ \A i \in 1 .. (Len(s) + 1) : Suffix(t, i + 1) = Suffix(s, i)
  BY SuffixOfCons DEF On
<1>5. \A i \in 1 .. Len(s) : i + 1 \in 1 .. (Len(s) + 1)
  BY <1>1
<1>6. QED
  BY <1>1, <1>2, <1>3, <1>4, <1>5

\* Append, for sequences of anything.
LEMMA AppendSeq ==
    ASSUME NEW s, IsSeq(s), NEW f
    PROVE  /\ IsSeq(Append(s, f)) /\ Append(s, f) # <<>> /\ Len(s) \in Nat
           /\ DOMAIN s = 1 .. Len(s) /\ DOMAIN Append(s, f) = 1 .. (Len(s) + 1)
           /\ Append(s, f)[Len(s) + 1] = f
           /\ \A i \in 1 .. Len(s) : Append(s, f)[i] = s[i]
<1> DEFINE S == {s[i] : i \in DOMAIN s} \cup {f}
<1>1. s \in Seq(S) /\ f \in S
  BY SeqDef DEF IsSeq
<1> HIDE DEF S
<1>2. /\ Append(s, f) \in Seq(S) /\ Len(Append(s, f)) = Len(s) + 1
      /\ \A i \in 1 .. Len(s) : Append(s, f)[i] = s[i]
      /\ Append(s, f)[Len(s) + 1] = f
  BY <1>1, AppendProperties
<1>3. IsSeq(Append(s, f))
  BY <1>2, SeqIsSeq
<1>4. Len(s) \in Nat /\ DOMAIN s = 1 .. Len(s) /\ DOMAIN Append(s, f) = 1 .. (Len(s) + 1)
  BY <1>2, <1>3, SeqDomain
<1>5. Append(s, f) # <<>>
  BY <1>4, EmptyIsSeq
<1>6. QED
  BY <1>2, <1>3, <1>4, <1>5

\* A longer stack, with its goals.
LEMMA Beside ==
    ASSUME NEW s, IsSeq(s), NEW f, NEW G, IsSeq(G), Len(G) = Len(s), NEW g,
           NEW t, t = On(f, s), NEW H, H = On(g, G)
    PROVE  /\ IsSeq(t) /\ IsSeq(H) /\ Len(H) = Len(t) /\ Len(s) \in Nat
           /\ DOMAIN s = 1 .. Len(s) /\ DOMAIN t = 1 .. (Len(s) + 1)
           /\ t[1] = f /\ H[1] = g /\ Suffix(t, 2) = s /\ Suffix(H, 2) = G
           /\ t # <<>> /\ Head(t) = f /\ Tail(t) = s /\ Head(H) = g /\ Tail(H) = G
           /\ \A i \in 1 .. Len(s) :
                /\ i + 1 \in 1 .. (Len(s) + 1) /\ t[i + 1] = s[i] /\ H[i + 1] = G[i]
                /\ Suffix(t, (i + 1) + 1) = Suffix(s, i + 1)
                /\ Suffix(H, (i + 1) + 1) = Suffix(G, i + 1)
<1>1. /\ IsSeq(t) /\ Len(s) \in Nat /\ Len(t) = Len(s) + 1
      /\ DOMAIN s = 1 .. Len(s) /\ DOMAIN t = 1 .. (Len(s) + 1)
      /\ t[1] = f /\ Suffix(t, 2) = s /\ t # <<>> /\ Head(t) = f /\ Tail(t) = s
      /\ \A i \in 1 .. Len(s) :
            /\ i + 1 \in 1 .. (Len(s) + 1) /\ t[i + 1] = s[i]
            /\ Suffix(t, (i + 1) + 1) = Suffix(s, i + 1)
  BY OneOnTop
<1>2. /\ IsSeq(H) /\ Len(H) = Len(G) + 1 /\ H[1] = g /\ Suffix(H, 2) = G /\ Head(H) = g /\ Tail(H) = G
      /\ \A i \in 1 .. Len(G) :
            H[i + 1] = G[i] /\ Suffix(H, (i + 1) + 1) = Suffix(G, i + 1)
  BY OneOnTop
<1>3. QED
  BY <1>1, <1>2

\* The frames may go on with a later context.
LEMMA TrackContext ==
    ASSUME NEW r, NEW c, NEW s, NEW G, Tracked(r, c, s, G), NEW d, Later(d, c)
    PROVE  Tracked(r, d, s, G)
<1>1. Sound(r, d, s, G)
  BY DEF Tracked, Sound, Later
<1>2. QED
  BY <1>1 DEF Tracked

\* A frame is put on the stack, with a goal.
LEMMA TrackPush ==
    ASSUME NEW r, NEW c, NEW s, IsSeq(s), NEW G, Tracked(r, c, s, G), NEW d, Honest(d),
           NEW f, f.at # "format", NEW g,
           d.errors = <<>> => c.errors = <<>> /\ d.args = g.args /\ Linked(r, f, g, s, G)
    PROVE  Tracked(r, d, <<f>> \o s, <<g>> \o G)
<1> DEFINE t == <<f>> \o s
           H == <<g>> \o G
<1>0. t = On(f, s) /\ H = On(g, G)
  BY DEF On
<1> HIDE DEF t, H
<1>1. /\ IsSeq(G) /\ Len(G) = Len(s) /\ IsSeq(H) /\ Len(H) = Len(t) /\ Head(H) = g
      /\ DOMAIN s = 1 .. Len(s) /\ DOMAIN t = 1 .. (Len(s) + 1) /\ Len(s) \in Nat
      /\ t[1] = f /\ H[1] = g /\ Suffix(t, 2) = s /\ Suffix(H, 2) = G
      /\ \A i \in 1 .. Len(s) :
           /\ t[i + 1] = s[i] /\ H[i + 1] = G[i]
           /\ Suffix(t, (i + 1) + 1) = Suffix(s, i + 1)
           /\ Suffix(H, (i + 1) + 1) = Suffix(G, i + 1)
  BY <1>0, Beside DEF Tracked, Alike
<1>2. OwnOf(t) = {i + 1 : i \in OwnOf(s)} \cup {1} /\ OwnOf(s) \subseteq DOMAIN s
  <2>1. OwnOf(s) \subseteq DOMAIN s
    BY DEF OwnOf
  <2>2. QED
    BY <1>0, <2>1, OwnOfCons DEF On
<1>3. Sound(r, d, t, H)
  <2>1. ASSUME d.errors = <<>>, NEW i \in OwnOf(t)
        PROVE  Linked(r, t[i], H[i], Suffix(t, i + 1), Suffix(H, i + 1))
    <3>1. CASE i = 1
      BY <1>1, <2>1, <3>1
    <3>2. CASE i # 1
      <4>1. PICK j \in OwnOf(s) : i = j + 1
        BY <1>2, <3>2
      <4>2. Linked(r, s[j], G[j], Suffix(s, j + 1), Suffix(G, j + 1))
        BY <2>1, <4>1 DEF Tracked, Sound
      <4>3. j \in 1 .. Len(s)
        BY <1>1, <1>2, <4>1
      <4>4. QED
        BY <1>1, <4>1, <4>2, <4>3
    <3>3. QED
      BY <3>1, <3>2
  <2>2. QED
    BY <1>1, <2>1 DEF Sound
<1>4. ASSUME NEW i \in DOMAIN t, t[i].at = "format"
      PROVE  Returns(r, t[i], H[i], Suffix(t, i + 1), Suffix(H, i + 1))
  <2>1. i # 1
    BY <1>1, <1>4
  <2>2. PICK j \in 1 .. Len(s) : i = j + 1
    <3>1. i - 1 \in 1 .. Len(s) /\ i = (i - 1) + 1
      BY <1>1, <1>4, <2>1
    <3>2. QED
      BY <3>1
  <2>3. Returns(r, s[j], G[j], Suffix(s, j + 1), Suffix(G, j + 1))
    BY <1>1, <1>4, <2>2 DEF Tracked, Interrupts
  <2>4. QED
    BY <1>1, <2>2, <2>3
<1>5. QED
  BY <1>0, <1>1, <1>3, <1>4 DEF Tracked, Alike, Interrupts, t, H

\* What holds below the innermost frame, and between it and the next.
LEMMA TrackTop ==
    ASSUME NEW r, NEW c, NEW s, IsSeq(s), s # <<>>, NEW G, Tracked(r, c, s, G)
    PROVE  /\ IsSeq(Tail(s)) /\ Alike(Tail(s), Tail(G))
           /\ s = On(Head(s), Tail(s)) /\ G = On(Head(G), Tail(G))
           /\ Interrupts(r, Tail(s), Tail(G))
           /\ Head(s).at = "format" => Returns(r, Head(s), Head(G), Tail(s), Tail(G))
           /\ c.errors = <<>> /\ Head(s).at # "format" =>
                /\ Linked(r, Head(s), Head(G), Tail(s), Tail(G))
                /\ \A i \in OwnOf(Tail(s)) :
                     Linked(r, Tail(s)[i], Tail(G)[i], Suffix(Tail(s), i + 1), Suffix(Tail(G), i + 1))
<1> DEFINE f == Head(s)
           t == Tail(s)
           g == Head(G)
           H == Tail(G)
<1>1. IsSeq(G) /\ Len(G) = Len(s) /\ Len(s) \in Nat
  BY SeqDomain DEF Tracked, Alike
<1>2. IsSeq(t) /\ s = On(f, t) /\ Len(t) \in Nat
  BY Decompose, SeqDomain DEF On
<1> HIDE DEF f, t
<1>3. Len(s) = Len(t) + 1
  BY <1>2, OneOnTop
<1>4. G # <<>>
  BY <1>1, <1>2, <1>3, EmptyIsSeq
<1>5. IsSeq(H) /\ G = On(g, H) /\ Len(H) \in Nat
  BY <1>1, <1>4, Decompose, SeqDomain DEF On
<1> HIDE DEF g, H
<1>6. Len(H) = Len(t)
  <2>1. Len(G) = Len(H) + 1
    BY <1>5, OneOnTop
  <2>2. QED
    BY <1>1, <1>2, <1>3, <1>5, <2>1
<1>7. /\ DOMAIN t = 1 .. Len(t) /\ DOMAIN s = 1 .. (Len(t) + 1)
      /\ s[1] = f /\ G[1] = g /\ Suffix(s, 2) = t /\ Suffix(G, 2) = H
      /\ \A i \in 1 .. Len(t) :
           /\ i + 1 \in 1 .. (Len(t) + 1)
           /\ s[i + 1] = t[i] /\ G[i + 1] = H[i]
           /\ Suffix(s, (i + 1) + 1) = Suffix(t, i + 1)
           /\ Suffix(G, (i + 1) + 1) = Suffix(H, i + 1)
  BY <1>2, <1>5, <1>6, Beside
<1>8. 1 \in DOMAIN s
  BY <1>2, <1>7
<1>9. Interrupts(r, t, H)
  BY <1>7 DEF Tracked, Interrupts
<1>10. f.at = "format" => Returns(r, f, g, t, H)
  BY <1>7, <1>8 DEF Tracked, Interrupts
<1>11. ASSUME c.errors = <<>>, f.at # "format"
       PROVE  /\ Linked(r, f, g, t, H)
              /\ \A i \in OwnOf(t) : Linked(r, t[i], H[i], Suffix(t, i + 1), Suffix(H, i + 1))
  <2>1. OwnOf(s) = {i + 1 : i \in OwnOf(t)} \cup {1} /\ OwnOf(t) \subseteq DOMAIN t
    BY <1>2, <1>11, OwnOfCons DEF OwnOf, On
  <2>2. \A i \in OwnOf(s) : Linked(r, s[i], G[i], Suffix(s, i + 1), Suffix(G, i + 1))
    BY <1>11 DEF Tracked, Sound
  <2>3. Linked(r, f, g, t, H)
    BY <1>7, <2>1, <2>2
  <2>4. ASSUME NEW i \in OwnOf(t)
        PROVE  Linked(r, t[i], H[i], Suffix(t, i + 1), Suffix(H, i + 1))
    <3>1. i \in 1 .. Len(t) /\ i + 1 \in OwnOf(s)
      BY <1>7, <2>1
    <3>2. QED
      BY <1>7, <2>2, <3>1
  <2>5. QED
    BY <2>3, <2>4
<1>12. QED
  BY <1>2, <1>5, <1>6, <1>9, <1>10, <1>11 DEF Alike, f, t, g, H

\* The innermost frame is gone.
LEMMA TrackPop ==
    ASSUME NEW r, NEW c, NEW s, IsSeq(s), s # <<>>, Head(s).at # "format",
           NEW G, Tracked(r, c, s, G), NEW d, Honest(d),
           d.errors = <<>> => c.errors = <<>> /\ (Tail(s) # <<>> => d.args = Head(Tail(G)).args)
    PROVE  Tracked(r, d, Tail(s), Tail(G))
<1>1. Sound(r, d, Tail(s), Tail(G))
  BY TrackTop DEF Sound
<1>2. Alike(Tail(s), Tail(G)) /\ Interrupts(r, Tail(s), Tail(G))
  BY TrackTop
<1>3. QED
  BY <1>1, <1>2 DEF Tracked

\* The innermost frame's link to the next.
LEMMA TopLink ==
    ASSUME NEW r, NEW c, NEW s, IsSeq(s), s # <<>>, Head(s).at # "format",
           NEW G, Tracked(r, c, s, G), c.errors = <<>>
    PROVE  /\ Linked(r, Head(s), Head(G), Tail(s), Tail(G))
           /\ c.args = Head(G).args
<1>1. c.args = Head(G).args
  BY DEF Tracked, Sound
<1>2. QED
  BY <1>1, TrackTop

\* The call that a nested format call interrupts, and goes on after it.
LEMMA TrackFormat ==
    ASSUME NEW r, NEW c, NEW s, IsSeq(s), NEW G, Tracked(r, c, s, G),
           NEW f, f.at = "format", f.saved = c, NEW d, Honest(d), d.errors = <<>> => d.args = Args,
           s # <<>> /\ c.errors = <<>> =>
             \A v : ~Strict \/ Writes(r, <<>>, r[f.key], Args, v) => Wanted(r, s, G, v)
    PROVE  Tracked(r, d, <<f>> \o s, <<Goal("text", r[f.key], Args)>> \o G)
<1> DEFINE g == Goal("text", r[f.key], Args)
           t == <<f>> \o s
           H == <<g>> \o G
<1>1. t = On(f, s) /\ H = On(g, G) /\ g.args = Args /\ g.is = "text" /\ g.of = r[f.key]
  BY DEF On, Goal
<1>2. Returns(r, f, g, s, G)
  BY <1>1 DEF Returns, Tracked, Right
<1> HIDE DEF g, t, H
<1>3. /\ IsSeq(G) /\ Len(G) = Len(s) /\ IsSeq(H) /\ Len(H) = Len(t) /\ Head(H) = g
      /\ DOMAIN s = 1 .. Len(s) /\ DOMAIN t = 1 .. (Len(s) + 1) /\ Len(s) \in Nat
      /\ t[1] = f /\ H[1] = g /\ Suffix(t, 2) = s /\ Suffix(H, 2) = G
      /\ \A i \in 1 .. Len(s) :
           /\ t[i + 1] = s[i] /\ H[i + 1] = G[i]
           /\ Suffix(t, (i + 1) + 1) = Suffix(s, i + 1)
           /\ Suffix(H, (i + 1) + 1) = Suffix(G, i + 1)
  BY <1>1, Beside DEF Tracked, Alike
<1>4. OwnOf(t) = {}
  BY <1>1, OwnOfCons DEF On
<1>5. Sound(r, d, t, H)
  BY <1>1, <1>3, <1>4 DEF Sound
<1>6. ASSUME NEW i \in DOMAIN t, t[i].at = "format"
      PROVE  Returns(r, t[i], H[i], Suffix(t, i + 1), Suffix(H, i + 1))
  <2>1. CASE i = 1
    BY <1>2, <1>3, <2>1
  <2>2. CASE i # 1
    <3>1. PICK j \in 1 .. Len(s) : i = j + 1
      <4>1. i - 1 \in 1 .. Len(s) /\ i = (i - 1) + 1
        BY <1>3, <1>6, <2>2
      <4>2. QED
        BY <4>1
    <3>2. Returns(r, s[j], G[j], Suffix(s, j + 1), Suffix(G, j + 1))
      BY <1>3, <1>6, <3>1 DEF Tracked, Interrupts
    <3>3. QED
      BY <1>3, <3>1, <3>2
  <2>3. QED
    BY <2>1, <2>2
<1>7. QED
  BY <1>3, <1>5, <1>6 DEF Tracked, Alike, Interrupts, g, t, H

\* The interrupted call goes on with what it saved.
LEMMA TrackReturn ==
    ASSUME NEW r, NEW c, NEW s, IsSeq(s), s # <<>>, Head(s).at = "format",
           NEW G, Tracked(r, c, s, G), NEW d, Later(d, Head(s).saved)
    PROVE  Tracked(r, d, Tail(s), Tail(G))
<1>1. Returns(r, Head(s), Head(G), Tail(s), Tail(G))
  BY TrackTop
<1>2. Sound(r, d, Tail(s), Tail(G))
  BY <1>1 DEF Returns, Sound, Later
<1>3. Alike(Tail(s), Tail(G)) /\ Interrupts(r, Tail(s), Tail(G))
  BY TrackTop
<1>4. QED
  BY <1>2, <1>3 DEF Tracked

-----------------------------------------------------------------------------
(* Contexts.                                                               *)

\* What the operations on contexts make is later.
LEMMA LaterOps ==
    ASSUME NEW c, DOMAIN c = Fields, Honest(c)
    PROVE  /\ Later(c, c) /\ Later(Enter(c), c) /\ Later(Exit(c), c) /\ Later(Pop(c), c)
           /\ \A k : Later(Push(c, k), c)
           /\ \A e : Later(With(c, e), c) /\ With(c, e).errors # <<>> /\ DOMAIN With(c, e) = Fields
           /\ DOMAIN Enter(c) = Fields /\ DOMAIN Exit(c) = Fields
<1>1. Later(c, c) /\ Later(Enter(c), c) /\ Later(Exit(c), c) /\ Later(Pop(c), c)
  BY DEF Later, Honest, Enter, Exit, Pop, Over, Fields
<1>2. \A k : Later(Push(c, k), c)
  BY DEF Later, Honest, Push, Over, Fields
<1>3. ASSUME NEW e
      PROVE  Later(With(c, e), c) /\ With(c, e).errors # <<>> /\ DOMAIN With(c, e) = Fields
  <2>1. With(c, e).errors = Append(c.errors, e) /\ DOMAIN With(c, e) = Fields
    BY DEF With, Fields
  <2>2. IsSeq(Append(c.errors, e)) /\ Append(c.errors, e) # <<>>
    BY AppendSeq DEF Honest
  <2>3. QED
    BY <2>1, <2>2 DEF Later, Honest
<1>4. DOMAIN Enter(c) = Fields /\ DOMAIN Exit(c) = Fields
  BY DEF Enter, Exit, Fields
<1>5. QED
  BY <1>1, <1>2, <1>3, <1>4

\* A text that is counted and fits, or was too long before, or is reported.
LEMMA LaterCharge ==
    ASSUME NEW c, DOMAIN c = Fields, Honest(c), NEW v
    PROVE  /\ DOMAIN Charge(c, v) = Fields
           /\ ~Over(Charge(c, v)) \/ Over(c) => Later(Charge(c, v), c)
           /\ Over(c) => Charge(c, v).errors # <<>>
           /\ \A e : Later(With(Charge(c, v), e), c) /\ With(Charge(c, v), e).errors # <<>>
<1> DEFINE d == Charge(c, v)
<1>1. DOMAIN d = Fields /\ d.errors = c.errors /\ d.args = c.args
  BY DEF Charge, Fields
<1> HIDE DEF d
<1>2. ~Over(d) \/ Over(c) => Later(d, c)
  BY <1>1 DEF Later, Honest
<1>3. ASSUME NEW e PROVE Later(With(d, e), c) /\ With(d, e).errors # <<>>
  <2>1. With(d, e).errors = Append(c.errors, e)
    BY <1>1 DEF With, Fields
  <2>2. IsSeq(Append(c.errors, e)) /\ Append(c.errors, e) # <<>>
    BY AppendSeq DEF Honest
  <2>3. QED
    BY <2>1, <2>2 DEF Later, Honest
<1>4. QED
  BY <1>1, <1>2, <1>3 DEF d, Honest

-----------------------------------------------------------------------------
(* Steps.  A step keeps MeaningInv when it lands right.                    *)

\* The rules for the resource at hand, and the innermost frame.
LEMMA Rules ==
    ASSUME MeaningRules, MeaningInv
    PROVE  PatternRules(catalog) /\ ArgumentRules(catalog) /\ ExpressionRules(catalog)
BY DEF MeaningRules, MeaningInv

\* What is known of the innermost frames.
LEMMA TopFrame ==
    ASSUME IInv
    PROVE  /\ IsSeq(control) /\ DOMAIN ctx = Fields
           /\ control # <<>> =>
                /\ IsSeq(Rest) /\ "at" \in DOMAIN Top /\ (Top.at # "format" => Rest # <<>>)
                /\ Top.at = "placeable" =>
                     /\ Head(Rest).at = "pattern" /\ "at" \in DOMAIN Head(Rest) /\ Tail(Rest) # <<>>
                     /\ Pattern = Head(Rest) /\ Below = Tail(Rest)
<1>1. StackOK(control) /\ IsSeq(control) /\ DOMAIN ctx = Fields
  BY AtHand, StackSums
<1>2. ASSUME control # <<>> PROVE IsSeq(Rest) /\ Fit(Top, Rest) /\ StackOK(Rest)
  BY <1>1, <1>2, StackTop DEF Top, Rest
<1>3. \A f, s : Fit(f, s) => "at" \in DOMAIN f /\ (f.at # "format" => s # <<>>)
                             /\ (f.at = "placeable" => s # <<>> /\ Head(s).at = "pattern")
                             /\ (f.at = "pattern" => s # <<>>)
  BY DEF Fit, Under, Kinds, Guards, Bodies
<1>4. ASSUME control # <<>>, Top.at = "placeable"
      PROVE  /\ Head(Rest).at = "pattern" /\ "at" \in DOMAIN Head(Rest) /\ Tail(Rest) # <<>>
             /\ Pattern = Head(Rest) /\ Below = Tail(Rest)
  <2>1. Rest # <<>> /\ Head(Rest).at = "pattern"
    BY <1>2, <1>3, <1>4
  <2>2. Fit(Head(Rest), Tail(Rest))
    BY <1>2, <1>4, <2>1, StackTop
  <2>3. Pattern = Head(Rest) /\ Below = Tail(Rest)
    BY <1>1, <1>4, <2>1, SecondFrame DEF Pattern, Below, Rest
  <2>4. QED
    BY <1>3, <2>1, <2>2, <2>3
<1>5. QED
  BY <1>1, <1>2, <1>3, <1>4

\* Where a step lands: with goals for the frames there.
LEMMA Goes ==
    ASSUME MeaningInv, NEW c, NEW s, NEW n, Go(c, s, n),
           NEW G, Tracked(catalog, c, s, G), Expects(catalog, c, n, s, G)
    PROVE  MeaningInv'
<1>1. /\ catalog' = catalog /\ cache' = cache /\ answers' = answers
      /\ ctx' = c /\ control' = s /\ now' = n
  BY DEF Go
<1>2. Tracked(catalog', ctx', control', G) /\ Expects(catalog', ctx', now', control', G)
  BY <1>1
<1>3. catalog' \in Catalogs /\ Kept(catalog', answers') /\ \A x \in cache' : Genuine(catalog', x)
  BY <1>1 DEF MeaningInv
<1>4. QED
  BY <1>2, <1>3 DEF MeaningInv, Tracked, Expects, Kept, Genuine, Alike, Sound, Interrupts, Returns,
     Linked, Advances, TermAdvances, CallAdvances, SelectAdvances, Wanted, Wants, Right, Honest,
     Over, IsSeq, OwnOf, Suffix, Gives, Bound, Joined, Variant, Goal

\* A pattern starts that makes what the innermost frame wants.
LEMMA StartsRight ==
    ASSUME MeaningInv, NEW c, DOMAIN c = Fields, NEW s, IsSeq(s), s # <<>>,
           NEW G, Tracked(catalog, c, s, G), NEW p, StartPattern(c, p, s),
           c.errors = <<>> =>
             \A t : Writes(catalog, <<>>, p, c.args, t) => Wanted(catalog, s, G, t)
    PROVE  MeaningInv'
<1>1. Honest(c)
  BY DEF Tracked, Sound
<1>2. CASE Over(c)
  <2> DEFINE d == With(c, Error("budget", ""))
  <2>1. Go(d, s, Value(<<>>))
    BY <1>2 DEF StartPattern
  <2>2. Later(d, c) /\ d.errors # <<>>
    BY <1>1, LaterOps
  <2> HIDE DEF d
  <2>3. Tracked(catalog, d, s, G) /\ Expects(catalog, d, Value(<<>>), s, G)
    BY <2>2, TrackContext DEF Expects
  <2>4. QED
    BY <2>1, <2>3, Goes
<1>3. CASE ~Over(c)
  <2> DEFINE f == [at |-> "pattern", todo |-> p, out |-> <<>>]
             g == Goal("text", p, c.args)
  <2>1. Go(c, <<f>> \o s, Run)
    BY <1>3 DEF StartPattern
  <2>2. f.at = "pattern" /\ f.todo = p /\ f.out = <<>> /\ DOMAIN f = {"at", "todo", "out"}
        /\ g.is = "text" /\ g.of = p /\ g.args = c.args
    BY DEF Goal
  <2> HIDE DEF f, g
  <2>3. Advances(catalog, f, g)
    BY <2>2 DEF Advances, Right
  <2>4. ASSUME c.errors = <<>> PROVE Linked(catalog, f, g, s, G)
    <3>1. c.args = Head(G).args
      BY <2>4 DEF Tracked, Sound
    <3>2. \A v : Right(catalog, g, v) => Wanted(catalog, s, G, v)
      BY <2>2, <2>4 DEF Right
    <3>3. QED
      BY <2>2, <2>3, <3>1, <3>2 DEF Linked
  <2>5. Tracked(catalog, c, <<f>> \o s, <<g>> \o G)
    BY <1>1, <2>2, <2>4, TrackPush
  <2>6. Expects(catalog, c, Run, <<f>> \o s, <<g>> \o G)
    BY DEF Expects, Run
  <2>7. QED
    BY <2>1, <2>5, <2>6, Goes
<1>4. QED
  BY <1>2, <1>3

\* The innermost frame is left, with a value that is right for its goal.
LEMMA LeavesRight ==
    ASSUME MeaningInv, NEW c, NEW s, IsSeq(s), s # <<>>, Head(s).at \notin {"format", "body"},
           NEW G, Tracked(catalog, c, s, G), NEW d, Later(d, c),
           NEW n, n.is \in {"value", "raise"}, Go(d, Tail(s), n),
           d.errors = <<>> /\ n.is = "value" => Right(catalog, Head(G), n.value)
    PROVE  MeaningInv'
<1>1. ASSUME d.errors = <<>>
      PROVE  /\ c.errors = <<>> /\ d.args = Head(Tail(G)).args
             /\ \A v : Right(catalog, Head(G), v) => Wanted(catalog, Tail(s), Tail(G), v)
  <2>1. c.errors = <<>> /\ d.args = c.args
    BY <1>1 DEF Later
  <2>2. Linked(catalog, Head(s), Head(G), Tail(s), Tail(G)) /\ c.args = Head(G).args
    BY <2>1, TopLink
  <2>3. QED
    BY <2>1, <2>2 DEF Linked
<1>2. Honest(d)
  BY DEF Later
<1>3. Tracked(catalog, d, Tail(s), Tail(G))
  BY <1>1, <1>2, TrackPop
<1>4. Expects(catalog, d, n, Tail(s), Tail(G))
  BY <1>1 DEF Expects
<1>5. QED
  BY <1>3, <1>4, Goes

\* A frame on top has a goal whose results the frame below wants, and what is evaluated
\* for the frame is what it wants.
Serves(r, d, f, g, s, G) ==
    d.errors = <<>> =>
        /\ Advances(r, f, g) /\ g.args = d.args
        /\ \A v : Right(r, g, v) => Wanted(r, s, G, v)
Asks(r, d, n, f, g) ==
    /\ n.is \in {"eval", "run"}
    /\ d.errors = <<>> /\ n.is = "eval" =>
         \A v : Says(r, n.expr, d.args, v) => Wants(r, f, g, v)

LEMMA PushesRight ==
    ASSUME MeaningInv, NEW c, NEW s, IsSeq(s), s # <<>>, NEW G, Tracked(catalog, c, s, G),
           NEW d, Later(d, c), NEW f, f.at \notin {"format", "body"}, NEW g,
           Serves(catalog, d, f, g, s, G),
           NEW n, Asks(catalog, d, n, f, g), Go(d, <<f>> \o s, n)
    PROVE  MeaningInv'
<1>1. ASSUME d.errors = <<>> PROVE c.errors = <<>> /\ Linked(catalog, f, g, s, G)
  <2>1. c.errors = <<>> /\ d.args = c.args
    BY <1>1 DEF Later
  <2>2. c.args = Head(G).args
    BY <2>1 DEF Tracked, Sound
  <2>3. QED
    BY <1>1, <2>1, <2>2 DEF Linked, Serves
<1>2. Honest(d) /\ (d.errors = <<>> => d.args = g.args)
  BY DEF Later, Serves
<1>3. Tracked(catalog, d, <<f>> \o s, <<g>> \o G)
  BY <1>1, <1>2, TrackPush
<1>4. Head(<<f>> \o s) = f /\ Head(<<g>> \o G) = g
  BY ConsSeq DEF Tracked, Alike
<1>5. Expects(catalog, d, n, <<f>> \o s, <<g>> \o G)
  BY <1>4 DEF Expects, Wanted, Asks
<1>6. QED
  BY <1>3, <1>5, Goes

\* The frames stay.
LEMMA StaysRight ==
    ASSUME MeaningInv, NEW c, NEW s, NEW G, Tracked(catalog, c, s, G),
           NEW d, Later(d, c), NEW n, Go(d, s, n), Expects(catalog, d, n, s, G)
    PROVE  MeaningInv'
BY TrackContext, Goes

\* A pattern that is done, or is cut short with a report, and one that goes on.
LEMMA PatternEndsRight ==
    ASSUME MeaningRules, MeaningInv, NEW c, NEW s, IsSeq(s), s # <<>>, Head(s).at = "pattern",
           NEW G, Tracked(catalog, c, s, G), NEW d, Later(d, c),
           d.errors = <<>> => Head(s).todo = <<>>, Go(d, Tail(s), Value(Head(s).out))
    PROVE  MeaningInv'
<1>1. ASSUME d.errors = <<>> PROVE Right(catalog, Head(G), Head(s).out)
  <2>1. Advances(catalog, Head(s), Head(G))
    BY <1>1, TopLink DEF Linked, Later
  <2>2. Writes(catalog, Head(s).out, <<>>, Head(G).args, Head(s).out)
    BY Rules DEF PatternRules
  <2>3. QED
    BY <1>1, <2>1, <2>2 DEF Advances
<1>2. Value(Head(s).out).is = "value" /\ Value(Head(s).out).value = Head(s).out
  BY DEF Value
<1>3. QED
  BY <1>1, <1>2, LeavesRight

\* A pattern goes on after one element.
LEMMA PatternGoesOnRight ==
    ASSUME MeaningInv, NEW c, NEW s, IsSeq(s), s # <<>>, Head(s).at = "pattern",
           "at" \in DOMAIN Head(s), Tail(s) # <<>>,
           NEW G, Tracked(catalog, c, s, G), NEW d, Later(d, c), NEW x,
           d.errors = <<>> =>
             \A t : Writes(catalog, Head(s).out \o x, Tail(Head(s).todo), Head(G).args, t)
                      => Writes(catalog, Head(s).out, Head(s).todo, Head(G).args, t),
           Go(d, <<Emit(Head(s), x)>> \o Tail(s), Run)
    PROVE  MeaningInv'
<1> DEFINE f == Emit(Head(s), x)
           g == Head(G)
<1>1. f.at = "pattern"
  BY DEF Emit
<1>2. ASSUME d.errors = <<>>
      PROVE  /\ c.errors = <<>> /\ d.args = g.args /\ g.args = Head(Tail(G)).args
             /\ Linked(catalog, f, g, Tail(s), Tail(G))
  <2>1. c.errors = <<>> /\ d.args = c.args
    BY <1>2 DEF Later
  <2>2. Linked(catalog, Head(s), g, Tail(s), Tail(G)) /\ c.args = g.args
    BY <2>1, TopLink
  <2>3. Advances(catalog, Head(s), g)
    BY <2>2 DEF Linked
  <2>4. {"at", "todo", "out"} \subseteq DOMAIN Head(s)
    BY <2>3 DEF Advances
  <2>5. /\ {"at", "todo", "out"} \subseteq DOMAIN f
        /\ f.todo = Tail(Head(s).todo) /\ f.out = Head(s).out \o x
    BY <2>4 DEF Emit
  <2> HIDE DEF f
  <2>6. \A t : Writes(catalog, f.out, f.todo, g.args, t) => Right(catalog, g, t)
    BY <1>2, <2>3, <2>5 DEF Advances
  <2>7. Advances(catalog, f, g)
    BY <1>1, <2>5, <2>6 DEF Advances
  <2>8. QED
    BY <1>1, <2>1, <2>2, <2>7 DEF Linked
<1> HIDE DEF f, g
<1>3. Honest(d)
  BY DEF Later
<1>4. Tracked(catalog, d, Tail(s), Tail(G))
  BY <1>2, <1>3, TrackPop
<1>5. IsSeq(Tail(s))
  BY Decompose
<1>6. Tracked(catalog, d, <<f>> \o Tail(s), <<g>> \o Tail(G))
  BY <1>1, <1>2, <1>3, <1>4, <1>5, TrackPush
<1>7. Expects(catalog, d, Run, <<f>> \o Tail(s), <<g>> \o Tail(G))
  BY DEF Expects, Run
<1>8. QED
  BY <1>6, <1>7, Goes DEF f

-----------------------------------------------------------------------------
(* The actions.                                                            *)

\* The goals of the frames at hand.
LEMMA Goals ==
    ASSUME IInv, MeaningInv
    PROVE  /\ \E G : Tracked(catalog, ctx, control, G) /\ Expects(catalog, ctx, now, control, G)
           /\ Honest(ctx)
BY DEF MeaningInv, Tracked, Sound

\* What answers at once: literals, variables, refused and unknown references.
LEMMA AnswersRight ==
    ASSUME IInv, MeaningRules, MeaningInv,
           Literal \/ Variable \/ MessageReference \/ ResolveRefused
    PROVE  MeaningInv'
<1>1. DOMAIN ctx = Fields /\ Honest(ctx) /\ ExpressionRules(catalog)
  BY TopFrame, Goals, Rules
<1>2. PICK G : Tracked(catalog, ctx, control, G) /\ Expects(catalog, ctx, now, control, G)
  BY Goals
<1>3. Later(ctx, ctx) /\ \A e : Later(With(ctx, e), ctx) /\ With(ctx, e).errors # <<>>
  BY <1>1, LaterOps
<1>4. ASSUME NEW v, Is("eval"), Go(ctx, control, Value(v)), Says(catalog, now.expr, ctx.args, v)
      PROVE  MeaningInv'
  <2>1. Expects(catalog, ctx, Value(v), control, G)
    BY <1>2, <1>4 DEF Expects, Value, Is
  <2>2. QED
    BY <1>2, <1>3, <1>4, <2>1, StaysRight
<1>5. ASSUME NEW e, Go(ctx, control, Raise(e)) PROVE MeaningInv'
  <2>1. Expects(catalog, ctx, Raise(e), control, G)
    BY DEF Expects, Raise
  <2>2. QED
    BY <1>2, <1>3, <1>5, <2>1, StaysRight
<1>6. CASE Literal
  <2>1. Is("eval") /\ Go(ctx, control, Value(now.expr.text)) /\ now.expr.form = "literal"
    BY <1>6 DEF Literal, Evaluates, Yield, Step
  <2>2. Says(catalog, now.expr, ctx.args, now.expr.text)
    BY <1>1, <2>1 DEF ExpressionRules, ReferenceRules
  <2>3. QED
    BY <1>4, <2>1, <2>2
<1>7. CASE Variable
  <2>1. Is("eval") /\ now.expr.form = "var"
    BY <1>7 DEF Variable, Evaluates
  <2>2. CASE now.expr.name \in DOMAIN ctx.args
    <3>1. Go(ctx, control, Value(ctx.args[now.expr.name]))
      BY <1>7, <2>2 DEF Variable, Yield, Step
    <3>2. Says(catalog, now.expr, ctx.args, ctx.args[now.expr.name])
      BY <1>1, <2>1, <2>2 DEF ExpressionRules, ReferenceRules
    <3>3. QED
      BY <1>4, <2>1, <3>1, <3>2
  <2>3. CASE now.expr.name \notin DOMAIN ctx.args
    <3>1. Go(ctx, control, Raise(Error("variable", now.expr.name)))
      BY <1>7, <2>3 DEF Variable, Throw, Step
    <3>2. QED
      BY <1>5, <3>1
  <2>4. QED
    BY <2>2, <2>3
<1>8. CASE MessageReference
  <2>1. Is("eval") /\ now.expr.form = "message"
    BY <1>8 DEF MessageReference, Evaluates
  <2>2. CASE now.expr.key \in DOMAIN catalog
    <3> DEFINE n == Resolve(now.expr.key)
    <3>1. Go(ctx, control, n) /\ n.is = "resolve" /\ n.key = now.expr.key
      BY <1>8, <2>2 DEF MessageReference, Step, Resolve
    <3>2. \A v : catalog[now.expr.key] # NoPattern
                   /\ Writes(catalog, <<>>, catalog[now.expr.key], ctx.args, v)
                     => Says(catalog, now.expr, ctx.args, v)
      BY <1>1, <2>1, <2>2 DEF ExpressionRules, ReferenceRules
    <3> HIDE DEF n
    <3>3. Expects(catalog, ctx, n, control, G)
      BY <1>2, <2>1, <3>1, <3>2 DEF Expects, Is
    <3>4. QED
      BY <1>2, <1>3, <3>1, <3>3, StaysRight
  <2>3. CASE now.expr.key \notin DOMAIN catalog
    <3>1. Go(ctx, control, Raise(Error("message", now.expr.key)))
      BY <1>8, <2>3 DEF MessageReference, Throw, Step
    <3>2. QED
      BY <1>5, <3>1
  <2>4. QED
    BY <2>2, <2>3
<1>9. CASE ResolveRefused
  <2>1. PICK e : Go(With(ctx, e), control, Value(Lost))
    BY <1>9 DEF ResolveRefused, Yield, Step
  <2>2. Expects(catalog, With(ctx, e), Value(Lost), control, G)
    BY <1>3 DEF Expects
  <2>3. QED
    BY <1>2, <1>3, <2>1, <2>2, StaysRight
<1>10. QED
  BY <1>6, <1>7, <1>8, <1>9

\* A message's pattern starts, under the arguments at hand.
LEMMA ResolveMessageRight ==
    ASSUME IInv, MeaningInv, ResolveMessage
    PROVE  MeaningInv'
<1> DEFINE f == [at |-> "message", global |-> global]
           g == Goal("text", catalog[now.key], ctx.args)
           d == Push(ctx, now.key)
<1>1. StartPattern(d, catalog[now.key], <<f>> \o control) /\ now.is = "resolve"
  BY DEF ResolveMessage, Is
<1>2. f.at = "message" /\ g.is = "text" /\ g.of = catalog[now.key] /\ g.args = ctx.args
  BY DEF Goal
<1>3. DOMAIN ctx = Fields /\ Honest(ctx) /\ IsSeq(control) /\ control # <<>>
  BY TopFrame, Goals, <1>1 DEF IInv, NowInv, Is, Under
<1>4. Later(d, ctx) /\ DOMAIN d = Fields
  BY <1>3, LaterOps, PathOps
<1>5. catalog[now.key] # NoPattern
  BY DEF ResolveMessage, Refusal
<1>6. PICK G : Tracked(catalog, ctx, control, G) /\ Expects(catalog, ctx, now, control, G)
  BY Goals
<1> HIDE DEF f, g, d
<1>7. ASSUME d.errors = <<>>
      PROVE  ctx.errors = <<>> /\ d.args = g.args /\ Linked(catalog, f, g, control, G)
  <2>1. ctx.errors = <<>> /\ d.args = ctx.args
    BY <1>4, <1>7 DEF Later
  <2>2. \A v : Right(catalog, g, v) => Wanted(catalog, control, G, v)
    BY <1>1, <1>2, <1>5, <1>6, <2>1 DEF Expects, Right
  <2>3. g.args = Head(G).args
    BY <1>2, <1>3, <1>6, <2>1 DEF Tracked, Sound
  <2>4. Advances(catalog, f, g)
    BY <1>2 DEF Advances
  <2>5. QED
    BY <1>2, <2>1, <2>2, <2>3, <2>4 DEF Linked
<1>8. Honest(d)
  BY <1>4 DEF Later
<1>9. Tracked(catalog, d, <<f>> \o control, <<g>> \o G)
  BY <1>2, <1>3, <1>6, <1>7, <1>8, TrackPush
<1>10. IsSeq(<<f>> \o control) /\ <<f>> \o control # <<>>
       /\ Head(<<f>> \o control) = f /\ Head(<<g>> \o G) = g
  BY <1>3, <1>6, ConsSeq DEF Tracked, Alike
<1>11. d.errors = <<>> =>
         \A t : Writes(catalog, <<>>, catalog[now.key], d.args, t)
                  => Wanted(catalog, <<f>> \o control, <<g>> \o G, t)
  BY <1>2, <1>7, <1>10 DEF Wanted, Wants, Right
<1>12. QED
  BY <1>1, <1>4, <1>9, <1>10, <1>11, StartsRight

\* A message's or a term's pattern is done.
LEMMA BodiesRight ==
    ASSUME IInv, MeaningInv, LeaveMessage \/ LeaveTerm
    PROVE  MeaningInv'
<1>1. now.is = "value" /\ control # <<>> /\ Top.at \in {"message", "body"}
  BY DEF LeaveMessage, LeaveTerm, At, Is
<1>2. DOMAIN ctx = Fields /\ Honest(ctx) /\ IsSeq(control) /\ Rest # <<>>
  BY <1>1, TopFrame, Goals
<1>3. PICK G : Tracked(catalog, ctx, control, G) /\ Expects(catalog, ctx, now, control, G)
  BY Goals
<1> DEFINE d == Pop(ctx)
<1>4. Later(d, ctx) /\ DOMAIN d = Fields
  BY <1>2, LaterOps, PathOps
<1>5. ctx.errors = <<>> => Right(catalog, Head(G), now.value)
  BY <1>1, <1>3 DEF Expects, Wanted, Wants, Top
<1> HIDE DEF d
<1>6. CASE LeaveMessage
  <2>1. Go(d, Tail(control), now) /\ Head(control).at = "message"
    BY <1>6 DEF LeaveMessage, At, Top, Rest, d
  <2>2. d.errors = <<>> => Right(catalog, Head(G), now.value)
    BY <1>4, <1>5 DEF Later
  <2>3. QED
    BY <1>1, <1>2, <1>3, <1>4, <2>1, <2>2, LeavesRight
<1>7. CASE LeaveTerm
  <2> DEFINE c == [d EXCEPT !.args = Top.args]
  <2>1. Go(c, Tail(control), now) /\ Head(control).at = "body" /\ Top = Head(control)
    BY <1>7 DEF LeaveTerm, Step, At, Top, Rest, d
  <2>2. c.args = Top.args /\ c.errors = d.errors /\ c.chars = d.chars
    BY <1>4 DEF Fields
  <2> HIDE DEF c
  <2>3. Honest(c) /\ (c.errors = <<>> => ctx.errors = <<>>)
    BY <1>4, <2>2 DEF Later, Honest, Over
  <2>4. c.errors = <<>> => /\ ctx.errors = <<>> /\ c.args = Head(Tail(G)).args
                           /\ Linked(catalog, Head(control), Head(G), Tail(control), Tail(G))
    <3>1. ASSUME ctx.errors = <<>>
          PROVE  Linked(catalog, Head(control), Head(G), Tail(control), Tail(G))
      BY <1>1, <1>2, <1>3, <2>1, <3>1, TopLink
    <3>2. QED
      BY <2>1, <2>2, <2>3, <3>1 DEF Linked
  <2>5. Tracked(catalog, c, Tail(control), Tail(G))
    BY <1>1, <1>2, <1>3, <2>1, <2>3, <2>4, TrackPop
  <2>6. Expects(catalog, c, now, Tail(control), Tail(G))
    BY <1>1, <1>5, <2>4 DEF Expects, Linked
  <2>7. QED
    BY <2>1, <2>5, <2>6, Goes
<1>8. QED
  BY <1>6, <1>7

\* The elements of a pattern.
LEMMA PatternRight ==
    ASSUME IInv, MeaningRules, MeaningInv, EndPattern \/ Text \/ Placeable
    PROVE  MeaningInv'
<1>1. control # <<>> /\ Head(control).at = "pattern" /\ Top = Head(control) /\ Rest = Tail(control)
  BY DEF EndPattern, Text, Placeable, At, Top, Rest
<1>2. /\ DOMAIN ctx = Fields /\ Honest(ctx) /\ IsSeq(control)
      /\ "at" \in DOMAIN Head(control) /\ Tail(control) # <<>> /\ PatternRules(catalog)
  BY <1>1, TopFrame, Goals, Rules
<1>3. PICK G : Tracked(catalog, ctx, control, G) /\ Expects(catalog, ctx, now, control, G)
  BY Goals
<1>4. Later(ctx, ctx) /\ Later(Enter(ctx), ctx)
      /\ \A e : Later(With(ctx, e), ctx) /\ With(ctx, e).errors # <<>>
  BY <1>2, LaterOps
<1>5. CASE EndPattern
  <2>1. Go(ctx, Tail(control), Value(Head(control).out)) /\ Head(control).todo = <<>>
    BY <1>1, <1>5 DEF EndPattern, Step
  <2>2. QED
    BY <1>1, <1>2, <1>3, <1>4, <2>1, PatternEndsRight
<1>6. CASE Text
  <2> DEFINE x == Element.text
             c == Charge(ctx, x)
             e == Error("budget", "")
  <2>1. Head(control).todo # <<>> /\ Head(Head(control).todo).form = "text"
        /\ x = Head(Head(control).todo).text
    BY <1>1, <1>6 DEF Text, Element
  <2>2. /\ ~Over(c) => Later(c, ctx)
        /\ Later(With(c, e), ctx) /\ With(c, e).errors # <<>>
    BY <1>2, LaterCharge
  <2>3. IF Over(c) THEN Go(With(c, e), Tail(control), Value(Head(control).out))
                   ELSE Go(c, <<Emit(Head(control), x)>> \o Tail(control), Run)
    BY <1>1, <1>6 DEF Text, Step
  <2>4. \A t : Writes(catalog, Head(control).out \o x, Tail(Head(control).todo), Head(G).args, t)
                 => Writes(catalog, Head(control).out, Head(control).todo, Head(G).args, t)
    BY <1>2, <2>1 DEF PatternRules
  <2> HIDE DEF c, e, x
  <2>5. CASE Over(c)
    BY <1>1, <1>2, <1>3, <2>2, <2>3, <2>5, PatternEndsRight
  <2>6. CASE ~Over(c)
    BY <1>1, <1>2, <1>3, <2>2, <2>3, <2>4, <2>6, PatternGoesOnRight
  <2>7. QED
    BY <2>5, <2>6
<1>7. CASE Placeable
  <2>1. Head(control).todo # <<>> /\ Head(Head(control).todo).form # "text"
        /\ Element = Head(Head(control).todo)
    BY <1>1, <1>7 DEF Placeable, Element
  <2>2. CASE MayEnter(ctx)
    <3> DEFINE f == [at |-> "placeable"]
               g == Goal("value", Element, ctx.args)
               d == Enter(ctx)
               n == Eval(Element)
    <3>1. Go(d, <<f>> \o control, n)
      BY <1>7, <2>2 DEF Placeable, Step
    <3>2. f.at = "placeable" /\ g.is = "value" /\ g.of = Element /\ g.args = ctx.args
          /\ n.is = "eval" /\ n.expr = Element
      BY DEF Goal, Eval
    <3> HIDE DEF f, g, d, n
    <3>3. d.errors = <<>> => ctx.errors = <<>> /\ d.args = ctx.args
      BY <1>4 DEF Later, d
    <3>4. Advances(catalog, f, g)
      BY <3>2 DEF Advances
    <3>5. ctx.errors = <<>> => ctx.args = Head(G).args
      BY <1>1, <1>3 DEF Tracked, Sound
    <3>6. ctx.errors = <<>> => \A v : Right(catalog, g, v) => Wanted(catalog, control, G, v)
      BY <1>1, <2>1, <3>2, <3>5 DEF Right, Wanted, Wants
    <3>7. \A v : Says(catalog, n.expr, g.args, v) => Wants(catalog, f, g, v)
      BY <3>2 DEF Wants, Right
    <3>8. Later(d, ctx)
      BY <1>4 DEF d
    <3>9. f.at \notin {"format", "body"} /\ Serves(catalog, d, f, g, control, G) /\ Asks(catalog, d, n, f, g)
      BY <3>2, <3>3, <3>4, <3>6, <3>7 DEF Serves, Asks
    <3>10. QED
      BY <1>1, <1>2, <1>3, <3>1, <3>8, <3>9, PushesRight
  <2>3. CASE ~MayEnter(ctx)
    <3>1. Go(With(ctx, TooDeep), <<Emit(Head(control), Lost)>> \o Tail(control), Run)
      BY <1>1, <1>7, <2>3 DEF Placeable, Step
    <3>2. QED
      BY <1>1, <1>2, <1>3, <1>4, <3>1, PatternGoesOnRight
  <2>4. QED
    BY <2>2, <2>3
<1>8. QED
  BY <1>5, <1>6, <1>7

\* A placeable's value becomes text, or fails.
LEMMA PlaceableRight ==
    ASSUME IInv, MeaningRules, MeaningInv, PlaceableValue \/ PlaceableRaises
    PROVE  MeaningInv'
<1> DEFINE c == Exit(ctx)
<1>1. control # <<>> /\ Head(control).at = "placeable" /\ Top = Head(control) /\ Rest = Tail(control)
  BY DEF PlaceableValue, PlaceableRaises, At, Top, Rest
<1>2. /\ DOMAIN ctx = Fields /\ Honest(ctx) /\ IsSeq(control) /\ PatternRules(catalog)
      /\ IsSeq(Rest) /\ Rest # <<>> /\ Head(Rest).at = "pattern" /\ "at" \in DOMAIN Head(Rest)
      /\ Tail(Rest) # <<>> /\ Pattern = Head(Rest) /\ Below = Tail(Rest)
  BY <1>1, TopFrame, Goals, Rules
<1>3. PICK G : Tracked(catalog, ctx, control, G) /\ Expects(catalog, ctx, now, control, G)
  BY Goals
<1>4. Later(c, ctx) /\ DOMAIN c = Fields
  BY <1>2, LaterOps
<1> HIDE DEF c
<1>5. Honest(c)
  BY <1>4 DEF Later
<1>6. ASSUME c.errors = <<>>
      PROVE  /\ ctx.errors = <<>> /\ c.args = Head(Tail(G)).args
             /\ \A v : Right(catalog, Head(G), v) => Wanted(catalog, Tail(control), Tail(G), v)
  <2>1. ctx.errors = <<>> /\ c.args = ctx.args
    BY <1>4, <1>6 DEF Later
  <2>2. Linked(catalog, Head(control), Head(G), Tail(control), Tail(G)) /\ ctx.args = Head(G).args
    BY <1>1, <1>2, <1>3, <2>1, TopLink
  <2>3. QED
    BY <1>1, <2>1, <2>2 DEF Linked
<1>7. Tracked(catalog, c, Rest, Tail(G))
  BY <1>1, <1>2, <1>3, <1>5, <1>6, TrackPop
<1>8. \A e : Later(With(c, e), c) /\ With(c, e).errors # <<>>
  BY <1>4, <1>5, LaterOps
<1>9. CASE PlaceableValue
  <2> DEFINE d == Charge(c, now.value)
             e == Error("budget", "")
             x == Isolated(now.value)
  <2>1. /\ now.is = "value" /\ now.value # Float
        /\ IF ~Over(d) THEN Go(d, <<Emit(Head(Rest), x)>> \o Tail(Rest), Run)
           ELSE Go(IF Over(c) THEN d ELSE With(d, e), Tail(Rest), Value(Head(Rest).out))
    BY <1>2, <1>9 DEF PlaceableValue, Step, Is, c
  <2>2. /\ ~Over(d) \/ Over(c) => Later(d, c)
        /\ Over(c) => d.errors # <<>>
        /\ Later(With(d, e), c) /\ With(d, e).errors # <<>>
    BY <1>4, <1>5, LaterCharge
  <2> HIDE DEF d, e, x
  <2>3. CASE ~Over(d)
    <3>1. ASSUME d.errors = <<>>, NEW t,
                 Writes(catalog, Head(Rest).out \o x, Tail(Head(Rest).todo), Head(Tail(G)).args, t)
          PROVE  Writes(catalog, Head(Rest).out, Head(Rest).todo, Head(Tail(G)).args, t)
      <4>1. c.errors = <<>>
        BY <2>2, <2>3, <3>1 DEF Later
      <4>2. Right(catalog, Head(G), now.value)
        BY <1>1, <1>3, <1>6, <2>1, <4>1 DEF Expects, Wanted, Wants
      <4>3. Wanted(catalog, Rest, Tail(G), now.value)
        BY <1>1, <1>6, <4>1, <4>2
      <4>4. /\ Head(Rest).todo # <<>> /\ Head(Head(Rest).todo).form # "text"
            /\ Says(catalog, Head(Head(Rest).todo), Head(Tail(G)).args, now.value)
        BY <1>2, <4>3 DEF Wanted, Wants
      <4>5. QED
        BY <1>2, <2>1, <3>1, <4>4 DEF PatternRules, x
    <3>2. QED
      BY <1>2, <1>7, <2>1, <2>2, <2>3, <3>1, PatternGoesOnRight
  <2>4. CASE Over(d) /\ Over(c)
    BY <1>2, <1>7, <2>1, <2>2, <2>4, PatternEndsRight
  <2>5. CASE Over(d) /\ ~Over(c)
    BY <1>2, <1>7, <2>1, <2>2, <2>5, PatternEndsRight
  <2>6. QED
    BY <2>3, <2>4, <2>5
<1>10. CASE PlaceableRaises
  <2>1. PICK e : Go(With(c, e), <<Emit(Head(Rest), Lost)>> \o Tail(Rest), Run)
    BY <1>2, <1>10 DEF PlaceableRaises, FailPlaceable, Step, c
  <2>2. QED
    BY <1>2, <1>7, <1>8, <2>1, PatternGoesOnRight
<1>11. QED
  BY <1>9, <1>10

\* What evaluates further expressions: a nested placeable, a function, a selection.
LEMMA GuardsRight ==
    ASSUME IInv, MeaningRules, MeaningInv, Nest \/ Call \/ Select
    PROVE  MeaningInv'
<1> DEFINE e == now.expr
           g == Goal("value", e, ctx.args)
           c == Enter(ctx)
<1>1. now.is = "eval" /\ e.form \in {"nest", "call", "select"}
  BY DEF Nest, Call, Select, Evaluates, Is
<1>2. DOMAIN ctx = Fields /\ Honest(ctx) /\ IsSeq(control) /\ control # <<>> /\ ExpressionRules(catalog)
  BY <1>1, TopFrame, Goals, Rules DEF IInv, NowInv, Is, Under
<1>3. PICK G : Tracked(catalog, ctx, control, G) /\ Expects(catalog, ctx, now, control, G)
  BY Goals
<1>4. Later(c, ctx) /\ Later(ctx, ctx)
      /\ \A x : Later(With(ctx, x), ctx) /\ With(ctx, x).errors # <<>> /\ DOMAIN With(ctx, x) = Fields
  BY <1>2, LaterOps
<1>5. g.is = "value" /\ g.of = e /\ g.args = ctx.args
  BY DEF Goal
<1> HIDE DEF g, c
<1>6. c.errors = <<>> =>
        /\ ctx.errors = <<>> /\ g.args = c.args
        /\ \A v : Right(catalog, g, v) => Wanted(catalog, control, G, v)
  BY <1>1, <1>3, <1>4, <1>5 DEF Later, Expects, Right
<1>7. ASSUME NEW f, f.at \notin {"format", "body"}, Advances(catalog, f, g),
             NEW n, Asks(catalog, c, n, f, g), Go(c, <<f>> \o control, n)
      PROVE  MeaningInv'
  <2>1. Serves(catalog, c, f, g, control, G)
    BY <1>6, <1>7 DEF Serves
  <2>2. QED
    BY <1>2, <1>3, <1>4, <1>7, <2>1, PushesRight
<1>8. ASSUME NEW x, Throw(x) PROVE MeaningInv'
  <2>1. Go(ctx, control, Raise(x)) /\ Expects(catalog, ctx, Raise(x), control, G)
    BY <1>8 DEF Throw, Step, Expects, Raise
  <2>2. QED
    BY <1>3, <1>4, <2>1, StaysRight
<1>9. CASE Nest
  <2>1. CASE MayEnter(ctx)
    <3> DEFINE f == [at |-> "nest"]
               n == Eval(e.of)
    <3>1. Go(c, <<f>> \o control, n) /\ e.form = "nest"
      BY <1>9, <2>1 DEF Nest, Evaluates, Guard, Step, c
    <3>2. f.at = "nest" /\ n.is = "eval" /\ n.expr = e.of
      BY DEF Eval
    <3> HIDE DEF f, n
    <3>3. Advances(catalog, f, g)
      BY <1>2, <1>5, <3>1, <3>2 DEF Advances, Right, ExpressionRules, ReferenceRules
    <3>4. Asks(catalog, c, n, f, g)
      BY <1>5, <1>6, <3>2 DEF Asks, Wants
    <3>5. QED
      BY <1>7, <3>1, <3>2, <3>3, <3>4
  <2>2. CASE ~MayEnter(ctx)
    BY <1>8, <1>9, <2>2 DEF Nest, Guard
  <2>3. QED
    BY <2>1, <2>2
<1>10. CASE Call
  <2>1. CASE MayEnter(ctx)
    <3> DEFINE f == Arguments(e, e.args)
    <3>1. Go(c, <<f>> \o control, Run) /\ e.form = "call"
      BY <1>10, <2>1 DEF Call, Evaluates, Step, c
    <3>2. /\ f.at = "call" /\ f.expr = e /\ f.todo = e.args /\ f.got = <<>>
          /\ {"at", "todo", "got"} \subseteq DOMAIN f
      BY <3>1 DEF Arguments
    <3> HIDE DEF f
    <3>3. Advances(catalog, f, g)
      BY <1>2, <1>5, <3>1, <3>2 DEF Advances, Right, ExpressionRules, CallRule, CallAdvances
    <3>4. Asks(catalog, c, Run, f, g)
      BY DEF Asks, Run
    <3>5. QED
      BY <1>7, <3>1, <3>2, <3>3, <3>4
  <2>2. CASE ~MayEnter(ctx)
    BY <1>8, <1>10, <2>2 DEF Call
  <2>3. QED
    BY <2>1, <2>2
<1>11. CASE Select
  <2>1. CASE MayEnter(ctx)
    <3> DEFINE f == [at |-> "select", expr |-> e]
               n == Eval(e.on)
    <3>1. Go(c, <<f>> \o control, n) /\ e.form = "select"
      BY <1>11, <2>1 DEF Select, Evaluates, c
    <3>2. f.at = "select" /\ f.expr = e /\ n.is = "eval" /\ n.expr = e.on
      BY DEF Eval
    <3> HIDE DEF f, n
    <3>3. Advances(catalog, f, g)
      BY <1>2, <1>5, <3>1, <3>2 DEF Advances, Right, ExpressionRules, SelectRule, SelectAdvances
    <3>4. Asks(catalog, c, n, f, g)
      BY <1>5, <1>6, <3>2 DEF Asks, Wants
    <3>5. QED
      BY <1>7, <3>1, <3>2, <3>3, <3>4
  <2>2. CASE ~MayEnter(ctx)
    <3> DEFINE d == With(ctx, TooDeep)
    <3>1. StartPattern(d, e.other, control)
      BY <1>11, <2>2 DEF Select
    <3>2. Tracked(catalog, d, control, G) /\ d.errors # <<>> /\ DOMAIN d = Fields
      BY <1>3, <1>4, TrackContext
    <3> HIDE DEF d
    <3>3. QED
      BY <1>2, <3>1, <3>2, StartsRight
  <2>3. QED
    BY <2>1, <2>2
<1>12. QED
  BY <1>9, <1>10, <1>11

\* A term is refused, unknown, or its arguments begin.
LEMMA TermReferenceRight ==
    ASSUME IInv, MeaningRules, MeaningInv, TermReference
    PROVE  MeaningInv'
<1> DEFINE e == now.expr
           g == Goal("value", e, ctx.args)
           f == Arguments(e, Passed(e))
<1>1. now.is = "eval" /\ e.form = "term"
  BY DEF TermReference, Evaluates, Is
<1>2. DOMAIN ctx = Fields /\ Honest(ctx) /\ IsSeq(control) /\ control # <<>> /\ ExpressionRules(catalog)
  BY <1>1, TopFrame, Goals, Rules DEF IInv, NowInv, Is, Under
<1>3. PICK G : Tracked(catalog, ctx, control, G) /\ Expects(catalog, ctx, now, control, G)
  BY Goals
<1>4. Later(ctx, ctx) /\ \A x : Later(With(ctx, x), ctx) /\ With(ctx, x).errors # <<>>
  BY <1>2, LaterOps
<1>5. \/ Go(ctx, control, Raise(Error("term", e.key)))
      \/ \E x : Go(With(ctx, x), control, Value(Lost))
      \/ /\ e.key \in DOMAIN catalog /\ catalog[e.key] # NoPattern
         /\ Go(ctx, <<f>> \o control, Run)
  BY DEF TermReference, Throw, Yield, Step
<1>6. CASE Go(ctx, control, Raise(Error("term", e.key)))
  <2>1. Expects(catalog, ctx, Raise(Error("term", e.key)), control, G)
    BY DEF Expects, Raise
  <2>2. QED
    BY <1>3, <1>4, <1>6, <2>1, StaysRight
<1>7. ASSUME NEW x, Go(With(ctx, x), control, Value(Lost)) PROVE MeaningInv'
  <2>1. Expects(catalog, With(ctx, x), Value(Lost), control, G)
    BY <1>4 DEF Expects
  <2>2. QED
    BY <1>3, <1>4, <1>7, <2>1, StaysRight
<1>8. CASE /\ e.key \in DOMAIN catalog /\ catalog[e.key] # NoPattern
           /\ Go(ctx, <<f>> \o control, Run)
  <2>1. g.is = "value" /\ g.of = e /\ g.args = ctx.args
    BY DEF Goal
  <2>2. /\ f.at = "term" /\ f.expr = e /\ f.todo = Passed(e) /\ f.got = <<>>
        /\ {"at", "todo", "got"} \subseteq DOMAIN f
    BY <1>1 DEF Arguments
  <2> HIDE DEF f, g
  <2>3. ASSUME NEW vs, NEW t, e.positional = <<>>, Takes(catalog, <<>>, Passed(e), ctx.args, vs),
               Writes(catalog, <<>>, catalog[e.key], Bound(e, vs), t)
        PROVE  Says(catalog, e, ctx.args, t)
    BY <1>1, <1>2, <1>8, <2>3 DEF ExpressionRules, TermRule
  <2>4. Advances(catalog, f, g)
    <3>1. ASSUME NEW vs, NEW t, f.expr.positional = <<>>, Takes(catalog, f.got, f.todo, g.args, vs),
                 Writes(catalog, <<>>, catalog[f.expr.key], Bound(f.expr, vs), t)
          PROVE  Right(catalog, g, t)
      BY <2>1, <2>2, <2>3, <3>1 DEF Right
    <3>2. TermAdvances(catalog, f, g)
      BY <3>1 DEF TermAdvances
    <3>3. QED
      BY <2>2, <3>2 DEF Advances
  <2>5. Serves(catalog, ctx, f, g, control, G)
    BY <1>1, <1>3, <2>1, <2>4 DEF Serves, Expects, Right
  <2>6. Asks(catalog, ctx, Run, f, g)
    BY DEF Asks, Run
  <2>7. QED
    BY <1>2, <1>3, <1>4, <1>8, <2>2, <2>5, <2>6, PushesRight
<1>9. QED
  BY <1>5, <1>6, <1>7, <1>8

\* The frame of a term's or a function's arguments, without errors so far.
LEMMA ArgumentsTop ==
    ASSUME IInv, MeaningInv, control # <<>>, Head(control).at \in {"term", "call"},
           NEW G, Tracked(catalog, ctx, control, G), ctx.errors = <<>>
    PROVE  /\ Advances(catalog, Head(control), Head(G))
           /\ {"at", "todo", "got"} \subseteq DOMAIN Head(control)
           /\ ctx.args = Head(G).args /\ Head(G).args = Head(Tail(G)).args
           /\ \A v : Right(catalog, Head(G), v) => Wanted(catalog, Rest, Tail(G), v)
<1>1. Linked(catalog, Head(control), Head(G), Tail(control), Tail(G)) /\ ctx.args = Head(G).args
  BY TopFrame, TopLink
<1>2. QED
  BY <1>1 DEF Linked, Advances, Rest

\* Arguments, one after the other.
LEMMA NextArgumentRight ==
    ASSUME IInv, MeaningInv, NextArgument
    PROVE  MeaningInv'
<1>1. /\ control # <<>> /\ Head(control).at \in {"term", "call"} /\ Rest = Tail(control)
      /\ Head(control).todo # <<>> /\ Element = Head(Head(control).todo)
  BY DEF NextArgument, AtArguments, At, Top, Rest, Element
<1>2. DOMAIN ctx = Fields /\ Honest(ctx) /\ IsSeq(control)
  BY <1>1, TopFrame, Goals
<1>3. PICK G : Tracked(catalog, ctx, control, G) /\ Expects(catalog, ctx, now, control, G)
  BY Goals
<1>4. Later(ctx, ctx) /\ Later(Enter(ctx), ctx)
  BY <1>2, LaterOps
<1>5. ASSUME NEW d, Later(d, ctx), Go(d, control, Eval(Element)) PROVE MeaningInv'
  <2>1. ASSUME d.errors = <<>>, NEW v, Says(catalog, Element, d.args, v)
        PROVE  Wanted(catalog, control, G, v)
    <3>1. d.args = Head(G).args
      BY <1>1, <1>3, <1>5, <2>1, ArgumentsTop DEF Later
    <3>2. QED
      BY <1>1, <2>1, <3>1 DEF Wanted, Wants
  <2>2. Expects(catalog, d, Eval(Element), control, G)
    BY <2>1 DEF Expects, Eval
  <2>3. QED
    BY <1>3, <1>5, <2>2, StaysRight
<1>6. CASE Go(ctx, Rest, Raise(TooDeep))
  <2>1. Raise(TooDeep).is = "raise"
    BY DEF Raise
  <2>2. QED
    BY <1>1, <1>2, <1>3, <1>4, <1>6, <2>1, LeavesRight
<1>7. \/ Go(ctx, control, Eval(Element)) \/ Go(Enter(ctx), control, Eval(Element))
      \/ Go(ctx, Rest, Raise(TooDeep))
  BY DEF NextArgument, Step
<1>8. QED
  BY <1>4, <1>5, <1>6, <1>7

\* What was found joins the values found before.
LEMMA ArgumentValueRight ==
    ASSUME IInv, MeaningRules, MeaningInv, ArgumentValue
    PROVE  MeaningInv'
<1> DEFINE d == IF At("term") THEN Exit(ctx) ELSE ctx
           h == Head(control)
           v == now.value
           f == Got(h, v)
<1>1. /\ control # <<>> /\ h.at \in {"term", "call"} /\ now.is = "value"
      /\ Go(d, <<f>> \o Tail(control), Run)
  BY DEF ArgumentValue, AtArguments, At, Top, Rest, Is, Step
<1>2. /\ DOMAIN ctx = Fields /\ Honest(ctx) /\ IsSeq(control) /\ ArgumentRules(catalog)
      /\ "at" \in DOMAIN h /\ IsSeq(Tail(control)) /\ Tail(control) # <<>>
  BY <1>1, TopFrame, Goals, Rules DEF Top, Rest
<1>3. PICK G : Tracked(catalog, ctx, control, G) /\ Expects(catalog, ctx, now, control, G)
  BY Goals
<1>4. Later(d, ctx)
  BY <1>2, LaterOps
<1>5. f.at = h.at
  BY <1>2 DEF Got
<1> DEFINE g == Head(G)
<1> HIDE DEF d
<1>6. ASSUME d.errors = <<>>
      PROVE  /\ ctx.errors = <<>> /\ d.args = g.args /\ g.args = Head(Tail(G)).args
             /\ Linked(catalog, f, g, Tail(control), Tail(G))
  <2>1. ctx.errors = <<>> /\ d.args = ctx.args
    BY <1>4, <1>6 DEF Later
  <2>2. /\ Advances(catalog, h, g) /\ {"at", "todo", "got"} \subseteq DOMAIN h
        /\ ctx.args = g.args /\ g.args = Head(Tail(G)).args
        /\ \A w : Right(catalog, g, w) => Wanted(catalog, Tail(control), Tail(G), w)
    BY <1>1, <1>3, <2>1, ArgumentsTop DEF Rest
  <2>3. h.todo # <<>> /\ Says(catalog, Head(h.todo), g.args, v)
    BY <1>1, <1>3, <2>1 DEF Expects, Wanted, Wants
  <2>4. /\ {"at", "todo", "got"} \subseteq DOMAIN f /\ f.todo = Tail(h.todo)
        /\ f.got = Append(h.got, v) /\ f.expr = h.expr
    BY <2>2 DEF Got
  <2> HIDE DEF f, g, h, v
  <2>5. ASSUME NEW vs, Takes(catalog, f.got, f.todo, g.args, vs)
        PROVE  Takes(catalog, h.got, h.todo, g.args, vs)
    BY <1>2, <2>3, <2>4, <2>5 DEF ArgumentRules
  <2>6. Advances(catalog, f, g)
    <3>1. ASSUME TermAdvances(catalog, h, g) PROVE TermAdvances(catalog, f, g)
      <4>1. ASSUME NEW vs, NEW t, f.expr.positional = <<>>, Takes(catalog, f.got, f.todo, g.args, vs),
                   Writes(catalog, <<>>, catalog[f.expr.key], Bound(f.expr, vs), t)
            PROVE  Right(catalog, g, t)
        BY <2>4, <2>5, <3>1, <4>1 DEF TermAdvances
      <4>2. QED
        BY <4>1 DEF TermAdvances
    <3>2. CallAdvances(catalog, h, g) => CallAdvances(catalog, f, g)
      BY <2>4, <2>5 DEF CallAdvances
    <3>3. QED
      BY <1>1, <1>5, <2>2, <2>4, <3>1, <3>2 DEF Advances
  <2>7. QED
    BY <1>1, <1>5, <2>1, <2>2, <2>6 DEF Linked
<1> HIDE DEF f, g
<1>7. Honest(d)
  BY <1>4 DEF Later
<1>8. Tracked(catalog, d, Tail(control), Tail(G))
  BY <1>1, <1>2, <1>3, <1>6, <1>7, TrackPop
<1>9. f.at # "format"
  BY <1>1, <1>5
<1>10. Tracked(catalog, d, <<f>> \o Tail(control), <<g>> \o Tail(G))
  BY <1>2, <1>6, <1>7, <1>8, <1>9, TrackPush
<1>11. Expects(catalog, d, Run, <<f>> \o Tail(control), <<g>> \o Tail(G))
  BY DEF Expects, Run
<1>12. QED
  BY <1>1, <1>10, <1>11, Goes

\* A term's pattern starts, with the named arguments it is passed.
LEMMA EnterTermRight ==
    ASSUME IInv, MeaningRules, MeaningInv, EnterTerm
    PROVE  MeaningInv'
<1> DEFINE h == Head(control)
           e == h.expr
           f == [at |-> "body", args |-> ctx.args]
           args == Bound(e, h.got)
           c == IF e.positional = <<>> THEN ctx ELSE With(ctx, Error("positional", e.key))
           b == [c EXCEPT !.args = args]
           d == Push(b, e.key)
           p == catalog[e.key]
           g == Goal("text", p, args)
<1>1. /\ control # <<>> /\ h.at = "term" /\ h.todo = <<>>
      /\ StartPattern(d, p, <<f>> \o Tail(control))
  BY DEF EnterTerm, At, Top, Rest
<1>2. /\ DOMAIN ctx = Fields /\ Honest(ctx) /\ IsSeq(control) /\ ArgumentRules(catalog)
      /\ IsSeq(Tail(control)) /\ Tail(control) # <<>>
  BY <1>1, TopFrame, Goals, Rules DEF Top, Rest
<1>3. PICK G : Tracked(catalog, ctx, control, G) /\ Expects(catalog, ctx, now, control, G)
  BY Goals
<1>4. Later(c, ctx) /\ DOMAIN c = Fields /\ (c.errors = <<>> => e.positional = <<>>)
  BY <1>2, LaterOps
<1>5. Honest(d) /\ DOMAIN d = Fields /\ d.errors = c.errors /\ d.args = args
  <2> HIDE DEF c, args
  <2>1. DOMAIN b = Fields /\ b.errors = c.errors /\ b.chars = c.chars /\ b.args = args
    BY <1>4 DEF Fields
  <2> HIDE DEF b
  <2>2. DOMAIN d = Fields /\ d.errors = b.errors /\ d.chars = b.chars /\ d.args = b.args
    BY <2>1 DEF Push, Fields
  <2> HIDE DEF d
  <2>3. QED
    BY <1>4, <2>1, <2>2 DEF Later, Honest, Over
<1>6. f.at = "body" /\ f.args = ctx.args /\ g.is = "text" /\ g.of = p /\ g.args = args
  BY DEF Goal
<1> HIDE DEF f, g, d, b
<1>7. ASSUME d.errors = <<>>
      PROVE  /\ ctx.errors = <<>> /\ ctx.args = Head(Tail(G)).args
             /\ Linked(catalog, f, g, Tail(control), Tail(G))
  <2>1. ctx.errors = <<>> /\ e.positional = <<>>
    BY <1>4, <1>5, <1>7 DEF Later
  <2>2. /\ Advances(catalog, h, Head(G)) /\ ctx.args = Head(G).args
        /\ Head(G).args = Head(Tail(G)).args
        /\ \A w : Right(catalog, Head(G), w) => Wanted(catalog, Tail(control), Tail(G), w)
    BY <1>1, <1>3, <2>1, ArgumentsTop DEF Rest
  <2>3. Takes(catalog, h.got, h.todo, Head(G).args, h.got)
    BY <1>1, <1>2 DEF ArgumentRules
  <2> HIDE DEF h
  <2>4. ASSUME NEW t, Right(catalog, g, t) PROVE Right(catalog, Head(G), t)
    <3>1. Writes(catalog, <<>>, catalog[h.expr.key], Bound(h.expr, h.got), t)
      BY <1>6, <2>4 DEF Right
    <3>2. QED
      BY <1>1, <2>1, <2>2, <2>3, <3>1 DEF Advances, TermAdvances
  <2>5. Advances(catalog, f, g)
    BY <1>6 DEF Advances
  <2>6. QED
    BY <1>6, <2>1, <2>2, <2>4, <2>5 DEF Linked
<1>8. Tracked(catalog, ctx, Tail(control), Tail(G))
  <2>1. ctx.errors = <<>> => ctx.args = Head(Tail(G)).args
    BY <1>1, <1>3, ArgumentsTop
  <2>2. QED
    BY <1>1, <1>2, <1>3, <2>1, TrackPop
<1>9. Tracked(catalog, d, <<f>> \o Tail(control), <<g>> \o Tail(G))
  BY <1>2, <1>5, <1>6, <1>7, <1>8, TrackPush
<1>10. /\ IsSeq(<<f>> \o Tail(control)) /\ <<f>> \o Tail(control) # <<>>
       /\ Head(<<f>> \o Tail(control)) = f /\ Head(<<g>> \o Tail(G)) = g
  BY <1>2, <1>8, ConsSeq DEF Tracked, Alike
<1>11. \A t : Writes(catalog, <<>>, p, d.args, t)
                => Wanted(catalog, <<f>> \o Tail(control), <<g>> \o Tail(G), t)
  BY <1>5, <1>6, <1>10 DEF Wanted, Wants, Right
<1>12. QED
  BY <1>1, <1>5, <1>9, <1>10, <1>11, StartsRight

\* What returns or raises under a guard leaves it.
LEMMA GuardedRight ==
    ASSUME IInv, MeaningRules, MeaningInv,
           \/ LeaveNest \/ ArgumentRaises \/ SelectorValue \/ SelectorRaises
           \/ FunctionReturns \/ FunctionFloat \/ FunctionRefuses \/ FunctionFails
    PROVE  MeaningInv'
<1> DEFINE c == Exit(ctx)
           h == Head(control)
<1>1. /\ control # <<>> /\ h.at \in {"nest", "term", "call", "select"}
      /\ Top = h /\ Rest = Tail(control)
  BY DEF LeaveNest, ArgumentRaises, SelectorValue, SelectorRaises, FunctionReturns,
     FunctionFloat, FunctionRefuses, FunctionFails, Applies, AtArguments, At, Top, Rest
<1>2. /\ DOMAIN ctx = Fields /\ Honest(ctx) /\ IsSeq(control) /\ ArgumentRules(catalog)
      /\ IsSeq(Tail(control)) /\ Tail(control) # <<>>
  BY <1>1, TopFrame, Goals, Rules
<1>3. PICK G : Tracked(catalog, ctx, control, G) /\ Expects(catalog, ctx, now, control, G)
  BY Goals
<1>4. Later(c, ctx) /\ DOMAIN c = Fields /\ (c.errors = <<>> => ctx.errors = <<>>)
  BY <1>2, LaterOps DEF Later
<1>5. \A e : Later(With(c, e), ctx) /\ With(c, e).errors # <<>> /\ DOMAIN With(c, e) = Fields
  <2>1. Honest(c)
    BY <1>4 DEF Later
  <2> HIDE DEF c
  <2>2. \A e : Later(With(c, e), c) /\ With(c, e).errors # <<>> /\ DOMAIN With(c, e) = Fields
    BY <1>4, <2>1, LaterOps
  <2>3. QED
    BY <2>2 DEF Later
<1>6. h.at \notin {"format", "body"}
  BY <1>1
<1>7. ASSUME ctx.errors = <<>>
      PROVE  /\ Advances(catalog, h, Head(G)) /\ ctx.args = Head(G).args
             /\ Head(G).args = Head(Tail(G)).args
             /\ \A v : Right(catalog, Head(G), v) => Wanted(catalog, Tail(control), Tail(G), v)
  <2>1. Linked(catalog, h, Head(G), Tail(control), Tail(G)) /\ ctx.args = Head(G).args
    BY <1>1, <1>2, <1>3, <1>6, <1>7, TopLink
  <2>2. QED
    BY <1>6, <2>1 DEF Linked
<1> HIDE DEF c, h
<1>8. ASSUME NEW d, Later(d, ctx), NEW n, n.is \in {"value", "raise"}, Go(d, Tail(control), n),
             d.errors = <<>> /\ n.is = "value" => Right(catalog, Head(G), n.value)
      PROVE  MeaningInv'
  BY <1>1, <1>2, <1>3, <1>6, <1>8, LeavesRight DEF h
<1>9. ASSUME NEW d, Later(d, ctx), DOMAIN d = Fields, NEW p, StartPattern(d, p, Tail(control)),
             d.errors = <<>> =>
               \A t : Writes(catalog, <<>>, p, d.args, t) => Right(catalog, Head(G), t)
      PROVE  MeaningInv'
  <2>1. d.errors = <<>> => ctx.errors = <<>> /\ d.args = Head(Tail(G)).args
    BY <1>7, <1>9 DEF Later
  <2>2. Honest(d)
    BY <1>9 DEF Later
  <2>3. Tracked(catalog, d, Tail(control), Tail(G))
    BY <1>1, <1>2, <1>3, <1>6, <2>1, <2>2, TrackPop DEF h
  <2>4. d.errors = <<>> =>
          \A t : Writes(catalog, <<>>, p, d.args, t) => Wanted(catalog, Tail(control), Tail(G), t)
    BY <1>7, <1>9, <2>1
  <2>5. QED
    BY <1>2, <1>9, <2>3, <2>4, StartsRight
<1>10. ASSUME NEW v, h.at = "call", h.todo = <<>>, Gives(catalog, h.expr, h.got, v),
              Go(c, Tail(control), Value(v))
       PROVE  MeaningInv'
  <2>1. ASSUME c.errors = <<>> PROVE Right(catalog, Head(G), v)
    <3>1. CallAdvances(catalog, h, Head(G))
      BY <1>4, <1>7, <1>10, <2>1 DEF Advances
    <3>2. Takes(catalog, h.got, h.todo, Head(G).args, h.got)
      BY <1>2, <1>10 DEF ArgumentRules
    <3>3. QED
      BY <1>10, <3>1, <3>2 DEF CallAdvances
  <2>2. Value(v).is = "value" /\ Value(v).value = v
    BY DEF Value
  <2>3. QED
    BY <1>4, <1>8, <1>10, <2>1, <2>2
<1>11. CASE LeaveNest
  <2>1. Go(c, Tail(control), now) /\ now.is \in {"value", "raise"} /\ h.at = "nest"
    BY <1>1, <1>11 DEF LeaveNest, At, Is, Step, c
  <2>2. ASSUME c.errors = <<>>, now.is = "value" PROVE Right(catalog, Head(G), now.value)
    <3>1. ctx.errors = <<>>
      BY <1>4, <2>2
    <3>2. Says(catalog, Head(G).of.of, Head(G).args, now.value)
      BY <1>3, <2>1, <2>2, <3>1 DEF Expects, Wanted, Wants, h
    <3>3. QED
      BY <1>7, <2>1, <3>1, <3>2 DEF Advances
  <2>3. QED
    BY <1>4, <1>8, <2>1, <2>2
<1>12. CASE ArgumentRaises
  <2>1. Go(c, Tail(control), now) /\ now.is = "raise"
    BY <1>1, <1>12 DEF ArgumentRaises, Is, Step, c
  <2>2. QED
    BY <1>4, <1>8, <2>1
<1>13. CASE SelectorValue
  <2>1. now.is = "value" /\ h.at = "select"
    BY <1>1, <1>13 DEF SelectorValue, At, Is
  <2>2. CASE now.value = Float
    <3> DEFINE n == Raise(Error("float", ""))
    <3>1. Go(c, Tail(control), n) /\ n.is = "raise"
      BY <1>1, <1>13, <2>2 DEF SelectorValue, Raise, c
    <3> HIDE DEF n
    <3>2. QED
      BY <1>4, <1>8, <3>1
  <2>3. CASE now.value # Float
    <3> DEFINE p == Variant(h.expr, now.value)
    <3>1. StartPattern(c, p, Tail(control))
      BY <1>1, <1>13, <2>3 DEF SelectorValue, c
    <3>2. ASSUME c.errors = <<>>, NEW t, Writes(catalog, <<>>, p, c.args, t)
          PROVE  Right(catalog, Head(G), t)
      <4>1. ctx.errors = <<>> /\ c.args = Head(G).args
        BY <1>4, <1>7, <3>2 DEF Later
      <4>2. Says(catalog, h.expr.on, Head(G).args, now.value)
        BY <1>3, <2>1, <4>1 DEF Expects, Wanted, Wants, h
      <4>3. SelectAdvances(catalog, h, Head(G))
        BY <1>7, <2>1, <4>1 DEF Advances
      <4>4. QED
        BY <2>3, <3>2, <4>1, <4>2, <4>3 DEF SelectAdvances
    <3> HIDE DEF p
    <3>3. QED
      BY <1>4, <1>9, <3>1, <3>2
  <2>4. QED
    BY <2>2, <2>3
<1>14. CASE SelectorRaises
  <2>1. StartPattern(With(c, now.error), h.expr.other, Tail(control))
    BY <1>1, <1>14 DEF SelectorRaises, c
  <2>2. QED
    BY <1>5, <1>9, <2>1
<1>15. CASE FunctionReturns
  <2>1. /\ h.at = "call" /\ h.todo = <<>> /\ h.expr.does = "return"
        /\ Go(c, Tail(control), Value(Joined(h.got)))
    BY <1>1, <1>15 DEF FunctionReturns, Applies, At, Step, c
  <2>2. Gives(catalog, h.expr, h.got, Joined(h.got))
    BY <2>1 DEF Gives
  <2>3. QED
    BY <1>10, <2>1, <2>2
<1>16. CASE FunctionFloat
  <2>1. /\ h.at = "call" /\ h.todo = <<>> /\ h.expr.does = "float"
        /\ Go(c, Tail(control), Value(Float))
    BY <1>1, <1>16 DEF FunctionFloat, Applies, At, Step, c
  <2>2. Gives(catalog, h.expr, h.got, Float)
    BY <2>1 DEF Gives
  <2>3. QED
    BY <1>10, <2>1, <2>2
<1>17. CASE FunctionRefuses
  <2> DEFINE n == Raise(Error("function", ""))
  <2>1. Go(c, Tail(control), n) /\ n.is = "raise"
    BY <1>1, <1>17 DEF FunctionRefuses, Step, Raise, c
  <2> HIDE DEF n
  <2>2. QED
    BY <1>4, <1>8, <2>1
<1>18. CASE FunctionFails
  <2> DEFINE d == With(c, Error("failed", ""))
  <2>1. Go(d, Tail(control), Value(Lost)) /\ Value(Lost).is = "value"
    BY <1>1, <1>18 DEF FunctionFails, Step, Value, c
  <2>2. Later(d, ctx) /\ d.errors # <<>>
    BY <1>5
  <2> HIDE DEF d
  <2>3. QED
    BY <1>8, <2>1, <2>2
<1>19. QED
  BY <1>11, <1>12, <1>13, <1>14, <1>15, <1>16, <1>17, <1>18

\* What the cache and the answers hold.
LEMMA KeptOps ==
    ASSUME NEW r, NEW xs, Kept(r, xs), NEW x, Genuine(r, x)
    PROVE  Kept(r, Append(xs, x))
<1>1. /\ IsSeq(xs) /\ IsSeq(Append(xs, x)) /\ Len(xs) \in Nat
      /\ DOMAIN xs = 1 .. Len(xs) /\ DOMAIN Append(xs, x) = 1 .. (Len(xs) + 1)
      /\ Append(xs, x)[Len(xs) + 1] = x
      /\ \A i \in 1 .. Len(xs) : Append(xs, x)[i] = xs[i]
  BY AppendSeq DEF Kept
<1>2. ASSUME NEW i \in DOMAIN Append(xs, x) PROVE Genuine(r, Append(xs, x)[i])
  <2>1. CASE i = Len(xs) + 1
    BY <1>1, <2>1
  <2>2. CASE i # Len(xs) + 1
    <3>1. i \in 1 .. Len(xs)
      BY <1>1, <2>2
    <3>2. QED
      BY <1>1, <3>1 DEF Kept
  <2>3. QED
    BY <2>1, <2>2
<1>3. QED
  BY <1>1, <1>2 DEF Kept

\* Where a format call's step lands: the recorded results are right, too.
LEMMA Records ==
    ASSUME catalog' = catalog, catalog \in Catalogs, Kept(catalog, answers'),
           \A x \in cache' : Genuine(catalog, x),
           NEW c, NEW s, NEW n, ctx' = c, control' = s, now' = n,
           NEW G, Tracked(catalog, c, s, G), Expects(catalog, c, n, s, G)
    PROVE  MeaningInv'
<1>1. Tracked(catalog', ctx', control', G) /\ Expects(catalog', ctx', now', control', G)
  OBVIOUS
<1>2. catalog' \in Catalogs /\ Kept(catalog', answers') /\ \A x \in cache' : Genuine(catalog', x)
  OBVIOUS
<1>3. QED
  BY <1>1, <1>2 DEF MeaningInv, Tracked, Expects, Kept, Genuine, Alike, Sound, Interrupts, Returns,
     Linked, Advances, TermAdvances, CallAdvances, SelectAdvances, Wanted, Wants, Right, Honest,
     Over, IsSeq, OwnOf, Suffix, Gives, Bound, Joined, Variant, Goal

\* No call is in progress.
LEMMA TrackNothing ==
    ASSUME NEW r
    PROVE  /\ Tracked(r, Fresh, <<>>, <<>>) /\ Expects(r, Fresh, Idle, <<>>, <<>>)
           /\ Honest(Fresh) /\ Fresh.args = Args /\ DOMAIN Fresh = Fields
<1>1. Fresh.errors = <<>> /\ Fresh.chars = 0 /\ Fresh.args = Args /\ DOMAIN Fresh = Fields
  BY DEF Fresh, Fields
<1>2. Honest(Fresh)
  BY <1>1, EmptyIsSeq, ResolverAssumption DEF Honest, Over
<1>3. Sound(r, Fresh, <<>>, <<>>) /\ Interrupts(r, <<>>, <<>>) /\ Alike(<<>>, <<>>)
  BY <1>1, <1>2, EmptyIsSeq, NoFrames DEF Sound, Interrupts, Alike
<1>4. Expects(r, Fresh, Idle, <<>>, <<>>)
  BY DEF Expects, Idle
<1>5. QED
  BY <1>1, <1>2, <1>3, <1>4 DEF Tracked

\* At first nothing is in progress and nothing recorded.
LEMMA InitMeaningInv == Init => MeaningInv
<1> SUFFICES ASSUME Init PROVE MeaningInv
  OBVIOUS
<1>1. catalog \in Catalogs /\ answers = <<>> /\ cache = {}
      /\ ctx = Fresh /\ control = <<>> /\ now = Idle
  BY DEF Init
<1>2. Kept(catalog, <<>>)
  BY EmptyIsSeq DEF Kept
<1>3. Tracked(catalog, Fresh, <<>>, <<>>) /\ Expects(catalog, Fresh, Idle, <<>>, <<>>)
  BY TrackNothing
<1>4. QED
  BY <1>1, <1>2, <1>3 DEF MeaningInv

\* A format call begins; what interrupts another one is what that wants, unless
\* its failure is not seen.
LEMMA BeginsRight ==
    ASSUME MeaningInv, NEW k, NEW c, NEW s, IsSeq(s), NEW G, Tracked(catalog, c, s, G),
           s # <<>> /\ c.errors = <<>> =>
             \A v : ~Strict \/ Writes(catalog, <<>>, catalog[k], Args, v) => Wanted(catalog, s, G, v),
           Begin(k, c, s)
    PROVE  MeaningInv'
<1> DEFINE f == [at |-> "format", key |-> k, saved |-> c]
           g == Goal("text", catalog[k], Args)
<1>1. Go(Fresh, <<f>> \o s, Resolve(k))
  BY DEF Begin, Step
<1>2. f.at = "format" /\ f.key = k /\ f.saved = c
      /\ g.is = "text" /\ g.of = catalog[k] /\ g.args = Args
  BY DEF Goal
<1>3. Honest(Fresh) /\ Fresh.args = Args
  BY TrackNothing
<1> HIDE DEF f
<1>4. Tracked(catalog, Fresh, <<f>> \o s, <<g>> \o G)
  <2>1. s # <<>> /\ c.errors = <<>> =>
          \A v : ~Strict \/ Writes(catalog, <<>>, catalog[f.key], Args, v) => Wanted(catalog, s, G, v)
    BY <1>2
  <2>2. Tracked(catalog, Fresh, <<f>> \o s, <<Goal("text", catalog[f.key], Args)>> \o G)
    BY <1>2, <1>3, <2>1, TrackFormat
  <2>3. QED
    BY <1>2, <2>2
<1> HIDE DEF g
<1>5. Head(<<f>> \o s) = f /\ Head(<<g>> \o G) = g
  BY ConsSeq DEF Tracked, Alike
<1>6. Expects(catalog, Fresh, Resolve(k), <<f>> \o s, <<g>> \o G)
  BY <1>2, <1>3, <1>5 DEF Expects, Resolve, Wanted, Wants, Right
<1>7. QED
  BY <1>1, <1>4, <1>6, Goes

\* A nested format call has its result, the one that is to be cached included.
LEMMA NestedRight ==
    ASSUME MeaningInv, catalog' = catalog, Kept(catalog, answers'),
           \A x \in cache' : Genuine(catalog, x),
           NEW c, DOMAIN c = Fields, NEW s, NEW G, Tracked(catalog, c, s, G),
           NEW x, Nested(x, c, s),
           c.errors = <<>> /\ (Strict => x.errors = <<>>) => Wanted(catalog, s, G, x.out)
    PROVE  MeaningInv'
<1> DEFINE d == With(c, Error("failed", ""))
<1>1. Honest(c) /\ catalog \in Catalogs
  BY DEF Tracked, Sound, MeaningInv
<1>2. Later(d, c) /\ d.errors # <<>> /\ Later(c, c)
  BY <1>1, LaterOps
<1>3. CASE Strict /\ x.errors # <<>>
  <2>1. ctx' = d /\ control' = s /\ now' = Value(Lost)
    BY <1>3 DEF Nested
  <2> HIDE DEF d
  <2>2. Tracked(catalog, d, s, G) /\ Expects(catalog, d, Value(Lost), s, G)
    BY <1>2, TrackContext DEF Expects
  <2>3. QED
    BY <1>1, <2>1, <2>2, Records
<1>4. CASE ~(Strict /\ x.errors # <<>>)
  <2>1. ctx' = c /\ control' = s /\ now' = Value(x.out)
    BY <1>4 DEF Nested
  <2>2. Expects(catalog, c, Value(x.out), s, G)
    BY <1>4 DEF Expects, Value
  <2>3. QED
    BY <1>1, <2>1, <2>2, Records
<1>5. QED
  BY <1>3, <1>4

\* Calls from outside, of which a cached result answers some at once.
LEMMA FormatRight ==
    ASSUME IInv, MeaningInv, NEW k, Format(k)
    PROVE  MeaningInv'
<1>1. Begin(k, Fresh, <<>>)
  BY DEF Format
<1>2. Tracked(catalog, Fresh, <<>>, <<>>)
  BY TrackNothing
<1>3. QED
  BY <1>1, <1>2, EmptyIsSeq, BeginsRight

\* A result from the cache is as right as it was when it was put there.
LEMMA FormatHitRight ==
    ASSUME MeaningInv, NEW k, FormatHit(k)
    PROVE  MeaningInv'
<1>1. PICK x \in cache : answers' = Append(answers, x)
  BY DEF FormatHit, Hits
<1>2. Kept(catalog, answers')
  BY <1>1, KeptOps DEF MeaningInv
<1>3. PICK G : Tracked(catalog, ctx, control, G) /\ Expects(catalog, ctx, now, control, G)
  BY DEF MeaningInv
<1>4. catalog' = catalog /\ ctx' = ctx /\ control' = control /\ now' = now /\ cache' = cache
  BY DEF FormatHit
<1>5. catalog \in Catalogs /\ \A y \in cache' : Genuine(catalog, y)
  BY <1>4 DEF MeaningInv
<1>6. QED
  BY <1>2, <1>3, <1>4, <1>5, Records

\* Nothing happens, or the cache loses results.
LEMMA UntouchedRight ==
    ASSUME MeaningInv, cache' \subseteq cache, UNCHANGED <<catalog, ctx, control, now, answers>>
    PROVE  MeaningInv'
<1>1. PICK G : Tracked(catalog, ctx, control, G) /\ Expects(catalog, ctx, now, control, G)
  BY DEF MeaningInv
<1>2. /\ catalog' = catalog /\ ctx' = ctx /\ control' = control /\ now' = now
      /\ catalog \in Catalogs /\ Kept(catalog, answers') /\ \A x \in cache' : Genuine(catalog, x)
  BY DEF MeaningInv
<1>3. QED
  BY <1>1, <1>2, Records

\* A custom function formats a message, from the cache or not.
LEMMA FunctionFormatsRight ==
    ASSUME IInv, MeaningRules, MeaningInv, FunctionFormats
    PROVE  MeaningInv'
<1> DEFINE c == Exit(ctx)
           h == Head(control)
           k == h.expr.of
<1>1. /\ control # <<>> /\ h.at = "call" /\ h.todo = <<>> /\ h.expr.does = "format"
      /\ Top = h /\ Rest = Tail(control)
  BY DEF FunctionFormats, Applies, At, Top, Rest
<1>2. /\ DOMAIN ctx = Fields /\ Honest(ctx) /\ IsSeq(control) /\ ArgumentRules(catalog)
      /\ IsSeq(Tail(control)) /\ Tail(control) # <<>>
  BY <1>1, TopFrame, Goals, Rules
<1>3. PICK G : Tracked(catalog, ctx, control, G) /\ Expects(catalog, ctx, now, control, G)
  BY Goals
<1>4. Later(c, ctx) /\ DOMAIN c = Fields
  BY <1>2, LaterOps
<1> HIDE DEF c
<1>5. c.errors = <<>> =>
        /\ ctx.errors = <<>> /\ c.args = Head(Tail(G)).args
        /\ Linked(catalog, h, Head(G), Tail(control), Tail(G))
  <2>1. ASSUME ctx.errors = <<>>
        PROVE  /\ Linked(catalog, h, Head(G), Tail(control), Tail(G)) /\ ctx.args = Head(G).args
    BY <1>1, <1>2, <1>3, <2>1, TopLink
  <2>2. QED
    BY <1>1, <1>4, <2>1 DEF Later, Linked
<1>6. Honest(c) /\ Tracked(catalog, c, Tail(control), Tail(G))
  BY <1>1, <1>2, <1>3, <1>4, <1>5, TrackPop DEF Later
<1>7. ASSUME c.errors = <<>>, NEW v, ~Strict \/ Writes(catalog, <<>>, catalog[k], Args, v)
      PROVE  Wanted(catalog, Tail(control), Tail(G), v)
  <2>1. CallAdvances(catalog, h, Head(G))
    BY <1>1, <1>5, <1>7 DEF Linked, Advances
  <2>2. Takes(catalog, h.got, h.todo, Head(G).args, h.got)
    BY <1>1, <1>2 DEF ArgumentRules
  <2>3. Gives(catalog, h.expr, h.got, v)
    BY <1>1, <1>7 DEF Gives
  <2>4. Right(catalog, Head(G), v)
    BY <2>1, <2>2, <2>3 DEF CallAdvances
  <2>5. QED
    BY <1>5, <1>7, <2>4 DEF Linked
<1>8. CASE Hits(k) = {}
  <2>1. Begin(k, c, Tail(control))
    BY <1>1, <1>8 DEF FunctionFormats, c
  <2> HIDE DEF h, k
  <2>2. QED
    BY <1>2, <1>6, <1>7, <2>1, BeginsRight
<1>9. CASE Hits(k) # {}
  <2>1. PICK x \in Hits(k) : Nested(x, c, Tail(control))
    BY <1>1, <1>9 DEF FunctionFormats, c
  <2>2. catalog' = catalog /\ cache' = cache /\ answers' = answers
    BY <1>1, <1>9 DEF FunctionFormats
  <2>3. x \in cache /\ x.key = k
    BY <2>1 DEF Hits
  <2>4. Kept(catalog, answers') /\ \A y \in cache' : Genuine(catalog, y)
    BY <2>2 DEF MeaningInv
  <2>5. Genuine(catalog, x)
    BY <2>3 DEF MeaningInv
  <2> HIDE DEF h, k
  <2>6. c.errors = <<>> /\ (Strict => x.errors = <<>>) => Wanted(catalog, Tail(control), Tail(G), x.out)
    BY <1>7, <2>3, <2>5 DEF Genuine
  <2>7. QED
    BY <1>4, <1>6, <2>1, <2>2, <2>4, <2>6, NestedRight
<1>10. QED
  BY <1>8, <1>9

\* A format call is done, and the result is recorded.
LEMMA EndFormatRight ==
    ASSUME IInv, MeaningInv, EndFormat
    PROVE  MeaningInv'
<1> DEFINE h == Head(control)
           x == [key |-> h.key, out |-> now.value, errors |-> ctx.errors]
<1>1. /\ control # <<>> /\ h.at = "format" /\ now.is = "value" /\ Top = h /\ Rest = Tail(control)
      /\ catalog' = catalog
      /\ cache' = IF Caching THEN (cache \ Hits(x.key)) \cup {x} ELSE cache
  BY DEF EndFormat, At, Is, Top, Rest
<1>2. /\ DOMAIN ctx = Fields /\ Honest(ctx) /\ IsSeq(control) /\ IsSeq(Tail(control))
      /\ catalog \in Catalogs
  BY <1>1, TopFrame, Goals DEF MeaningInv
<1>3. PICK G : Tracked(catalog, ctx, control, G) /\ Expects(catalog, ctx, now, control, G)
  BY Goals
<1>4. Returns(catalog, h, Head(G), Tail(control), Tail(G))
  BY <1>1, <1>2, <1>3, TrackTop
<1>5. Genuine(catalog, x)
  <2>1. ASSUME ctx.errors = <<>> PROVE Writes(catalog, <<>>, catalog[h.key], Args, now.value)
    <3>1. Right(catalog, Head(G), now.value)
      BY <1>1, <1>3, <2>1 DEF Expects, Wanted, Wants
    <3>2. Head(G) = Goal("text", catalog[h.key], Args)
      BY <1>4 DEF Returns
    <3>3. QED
      BY <3>1, <3>2 DEF Right, Goal
  <2>2. QED
    BY <2>1 DEF Genuine
<1>6. x.key = h.key /\ x.out = now.value /\ x.errors = ctx.errors
  OBVIOUS
<1>7. IF Tail(control) = <<>>
        THEN answers' = Append(answers, x) /\ ctx' = Fresh /\ control' = <<>> /\ now' = Idle
        ELSE Nested(x, h.saved, Tail(control)) /\ answers' = answers
  BY <1>1 DEF EndFormat
<1> HIDE DEF x
<1>8. \A y \in cache' : Genuine(catalog, y)
  BY <1>1, <1>5 DEF MeaningInv
<1>9. CASE Tail(control) = <<>>
  <2>1. Kept(catalog, answers')
    BY <1>5, <1>7, <1>9, KeptOps DEF MeaningInv
  <2>2. Tracked(catalog, Fresh, <<>>, <<>>) /\ Expects(catalog, Fresh, Idle, <<>>, <<>>)
    BY TrackNothing
  <2>3. QED
    BY <1>1, <1>2, <1>7, <1>8, <1>9, <2>1, <2>2, Records
<1>10. CASE Tail(control) # <<>>
  <2> DEFINE c == h.saved
  <2>1. DOMAIN c = Fields
    <3>1. Fit(h, Tail(control))
      BY <1>1, AtHand, StackTop
    <3>2. QED
      BY <1>1, <3>1 DEF Fit, Fits
  <2>2. Sound(catalog, c, Tail(control), Tail(G))
    BY <1>4 DEF Returns
  <2>3. Later(c, c)
    BY <2>2 DEF Later, Sound
  <2>4. Tracked(catalog, c, Tail(control), Tail(G))
    BY <1>1, <1>2, <1>3, <2>3, TrackReturn
  <2>5. c.errors = <<>> /\ (Strict => x.errors = <<>>)
          => Wanted(catalog, Tail(control), Tail(G), x.out)
    <3>1. ASSUME c.errors = <<>>, Strict => x.errors = <<>>
          PROVE  ~Strict \/ Right(catalog, Head(G), x.out)
      BY <1>1, <1>3, <1>6, <3>1 DEF Expects, Wanted, Wants
    <3>2. QED
      BY <1>4, <1>10, <3>1 DEF Returns
  <2>6. Kept(catalog, answers')
    BY <1>7, <1>10 DEF MeaningInv
  <2> HIDE DEF c, h
  <2>7. Nested(x, c, Tail(control))
    BY <1>7, <1>10 DEF c
  <2>8. QED
    BY <1>1, <1>8, <2>1, <2>4, <2>5, <2>6, <2>7, NestedRight
<1>11. QED
  BY <1>9, <1>10

\* Each step keeps MeaningInv.
LEMMA NextMeaningInv == MeaningRules /\ IInv /\ MeaningInv /\ [Next]_vars => MeaningInv'
<1> SUFFICES ASSUME MeaningRules, IInv, MeaningInv, [Next]_vars PROVE MeaningInv'
  OBVIOUS
<1>1. CASE EndFormat
  BY <1>1, EndFormatRight
<1>2. CASE ResolveMessage
  BY <1>2, ResolveMessageRight
<1>3. CASE LeaveMessage \/ LeaveTerm
  BY <1>3, BodiesRight
<1>4. CASE EndPattern \/ Text \/ Placeable
  BY <1>4, PatternRight
<1>5. CASE PlaceableValue \/ PlaceableRaises
  BY <1>5, PlaceableRight
<1>6. CASE Literal \/ Variable \/ MessageReference \/ ResolveRefused
  BY <1>6, AnswersRight
<1>7. CASE Nest \/ Call \/ Select
  BY <1>7, GuardsRight
<1>8. CASE TermReference
  BY <1>8, TermReferenceRight
<1>9. CASE EnterTerm
  BY <1>9, EnterTermRight
<1>10. CASE NextArgument
  BY <1>10, NextArgumentRight
<1>11. CASE ArgumentValue
  BY <1>11, ArgumentValueRight
<1>12. CASE \/ LeaveNest \/ ArgumentRaises \/ SelectorValue \/ SelectorRaises
            \/ FunctionReturns \/ FunctionFloat \/ FunctionRefuses \/ FunctionFails
  BY <1>12, GuardedRight
<1>13. CASE FunctionFormats
  BY <1>13, FunctionFormatsRight
<1>14. ASSUME NEW k, Format(k) PROVE MeaningInv'
  BY <1>14, FormatRight
<1>15. ASSUME NEW k, FormatHit(k) PROVE MeaningInv'
  BY <1>15, FormatHitRight
<1>16. CASE ClearCache
  BY <1>16, UntouchedRight DEF ClearCache
<1>17. CASE UNCHANGED vars
  BY <1>17, UntouchedRight DEF vars
<1>18. CASE Resolving
  BY <1>1, <1>2, <1>3, <1>4, <1>5, <1>6, <1>7, <1>8, <1>9, <1>10, <1>11, <1>12, <1>13, <1>18
     DEF Resolving
<1>19. QED
  BY <1>14, <1>15, <1>16, <1>17, <1>18 DEF Next

\* For every relation with the rules of the meaning, so for the meaning, for every
\* resource, limit and mode: a format call that reports no error returned the whole
\* text, with what its references, arguments, selections and functions stand for,
\* whether it was resolved now or kept in the cache, and however deep custom functions
\* called back.  A fallback, a cut or a variable that a term saw of its caller's is
\* never silent.
THEOREM NoLoss == ASSUME MeaningRules PROVE Spec => []NoSilentLoss
<1>1. MeaningInv => NoSilentLoss
  BY DEF MeaningInv, Kept, Genuine, NoSilentLoss
<1>2. Init => MeaningInv
  BY InitMeaningInv
<1>3. IInv /\ MeaningInv /\ [Next]_vars => MeaningInv'
  BY NextMeaningInv
<1>4. QED
  BY <1>1, <1>2, <1>3, Invariance, PTL DEF Spec

-----------------------------------------------------------------------------
(***************************************************************************)
(* Cycles.  Beside each frame lies the path of its pattern: the keys whose *)
(* patterns led there, of which each refers, in one step or more, to all   *)
(* that come after it.  What a frame has left to do is in the last of      *)
(* them; so a key on the path that is referred to again reaches itself.    *)
(***************************************************************************)
\* Reported cycles are real.
Real(r, es) == IsSeq(es) /\ \A i \in DOMAIN es : es[i].kind = "cyclic" => Reaches(r, es[i].of, es[i].of)

\* A path of patterns, of which each leads to all that come after it.
Chained(r, p) ==
    /\ IsSeq(p) /\ \A i \in DOMAIN p : r[p[i]] # NoPattern
    /\ \A i, j \in DOMAIN p : i < j => Reaches(r, p[i], p[j])

\* What the innermost pattern of a path mentions.
Near(r, p, keys) == p # <<>> /\ keys \subseteq MentionedIn(r[Last(p)])

\* A frame that waits for a value has something to go on with.
Waits(f) == f.at \in {"pattern", "term", "call"} => f.todo # <<>>

\* What a frame has left to do is in the pattern whose call it belongs to.
Belongs(r, f, p) ==
    /\ f.at \in {"pattern", "term", "call"} => Near(r, p, MentionedIn(f.todo))
    /\ f.at = "pattern" => {"at", "todo", "out"} \subseteq DOMAIN f
    /\ f.at \in {"term", "call"} => {"at", "expr", "todo", "got"} \subseteq DOMAIN f
    /\ f.at = "term" => f.expr.key \in References(r, Last(p)) /\ r[f.expr.key] # NoPattern
    /\ f.at = "select" => f.expr.form = "select" /\ Near(r, p, Mentions(f.expr))

\* The paths of the frames, P, for the frames s.
Along(P) == IF P = <<>> THEN <<>> ELSE Head(P)
Hangs(r, f, p, s, P) ==
    /\ Chained(r, p) /\ Belongs(r, f, p)
    /\ s # <<>> => Waits(Head(s))
    /\ f.at \in Bodies => \E k : p = Append(Along(P), k)
    /\ f.at = "format" => p = <<>> /\ f.saved.path = Along(P) /\ Real(r, f.saved.errors)
    /\ f.at \notin Bodies \cup {"format"} => p = Along(P)
Hung(r, s, P) ==
    /\ Alike(s, P)
    /\ \A i \in DOMAIN s : Hangs(r, s[i], P[i], Suffix(s, i + 1), Suffix(P, i + 1))
Walks(r, c, s, P) == Real(r, c.errors) /\ c.path = Along(P) /\ Hung(r, s, P)

Leads(r, p, n, s) ==
    /\ n.is = "eval" => Near(r, p, Mentions(n.expr))
    /\ n.is = "resolve" => (p # <<>> => n.key \in References(r, Last(p)))
    /\ n.is = "raise" => n.error.kind # "cyclic"
    /\ n.is # "run" /\ s # <<>> => Waits(Head(s))

ReferenceInv ==
    /\ IsSeq(answers) /\ \A i \in DOMAIN answers : Real(catalog, answers[i].errors)
    /\ \A x \in cache : Real(catalog, x.errors)
    /\ \E P : Walks(catalog, ctx, control, P) /\ Leads(catalog, ctx.path, now, control)

-----------------------------------------------------------------------------
(* Paths beside frames.                                                    *)

\* What a reference leads to, a chain of them leads to.
LEMMA Transitive ==
    ASSUME NEW r, NEW k, NEW l, NEW m, Reaches(r, k, l), Reaches(r, l, m)
    PROVE  Reaches(r, k, m)
BY DEF Reaches

\* What the last pattern of a path refers to, all of them reach.
LEMMA LeadsOn ==
    ASSUME NEW r, NEW p, Chained(r, p), p # <<>>, NEW k, k \in References(r, Last(p))
    PROVE  \A i \in DOMAIN p : Reaches(r, p[i], k)
<1>1. Reaches(r, Last(p), k)
  BY DEF Reaches
<1>2. DOMAIN p = 1 .. Len(p) /\ Len(p) \in Nat /\ Last(p) = p[Len(p)]
  BY SeqDomain DEF Chained, Last
<1>3. ASSUME NEW i \in DOMAIN p PROVE Reaches(r, p[i], k)
  <2>1. CASE i = Len(p)
    BY <1>1, <1>2, <2>1
  <2>2. CASE i # Len(p)
    <3>1. i < Len(p) /\ Len(p) \in DOMAIN p
      BY <1>2, <2>2
    <3>2. Reaches(r, p[i], p[Len(p)])
      BY <3>1 DEF Chained
    <3>3. QED
      BY <1>1, <1>2, <3>2, Transitive
  <2>3. QED
    BY <2>1, <2>2
<1>4. QED
  BY <1>3

\* A path goes on with a key that its last pattern refers to.
LEMMA ChainGrows ==
    ASSUME NEW r, NEW p, Chained(r, p), NEW k, r[k] # NoPattern,
           p # <<>> => k \in References(r, Last(p))
    PROVE  /\ Chained(r, Append(p, k)) /\ Append(p, k) # <<>> /\ Last(Append(p, k)) = k
           /\ Front(Append(p, k)) = p
<1> DEFINE q == Append(p, k)
           n == Len(p)
<1>1. IsSeq(p)
  BY DEF Chained
<1>2. /\ IsSeq(q) /\ q # <<>> /\ n \in Nat /\ DOMAIN p = 1 .. n /\ DOMAIN q = 1 .. (n + 1)
      /\ q[n + 1] = k /\ \A i \in 1 .. n : q[i] = p[i]
  BY <1>1, AppendSeq
<1>3. Len(q) = n + 1
  <2>1. DOMAIN q = 1 .. Len(q) /\ Len(q) \in Nat
    BY <1>2, SeqDomain
  <2>2. QED
    BY <1>2, <2>1
<1>4. Last(q) = k
  BY <1>2, <1>3 DEF Last
<1>5. Front(q) = p
  <2>1. p \in Seq({p[i] : i \in DOMAIN p} \cup {k})
    BY <1>1, <1>2, SeqDef DEF IsSeq
  <2>2. QED
    BY <2>1 DEF Front
<1> HIDE DEF q
<1>6. ASSUME NEW i \in DOMAIN q PROVE r[q[i]] # NoPattern
  <2>1. i = n + 1 \/ i \in 1 .. n
    BY <1>2
  <2>2. QED
    BY <1>2, <2>1 DEF Chained
<1>7. ASSUME NEW i \in DOMAIN q, NEW j \in DOMAIN q, i < j PROVE Reaches(r, q[i], q[j])
  <2>1. CASE j = n + 1
    <3>1. i \in DOMAIN p /\ q[i] = p[i] /\ q[j] = k /\ p # <<>>
      BY <1>2, <1>7, <2>1
    <3>2. QED
      BY <3>1, LeadsOn
  <2>2. CASE j # n + 1
    <3>1. i \in DOMAIN p /\ j \in DOMAIN p /\ q[i] = p[i] /\ q[j] = p[j]
      BY <1>2, <1>7, <2>2
    <3>2. QED
      BY <1>7, <3>1 DEF Chained
  <2>3. QED
    BY <2>1, <2>2
<1>8. Chained(r, q)
  BY <1>2, <1>6, <1>7 DEF Chained
<1>9. QED
  BY <1>2, <1>4, <1>5, <1>8 DEF q

\* No frames, one more on top, and the paths that go with them.
LEMMA HungNothing == ASSUME NEW r PROVE Hung(r, <<>>, <<>>) /\ Along(<<>>) = <<>> /\ Chained(r, <<>>)
<1>1. IsSeq(<<>>) /\ DOMAIN <<>> = {}
  BY EmptyIsSeq
<1>2. QED
  BY <1>1 DEF Hung, Alike, Along, Chained

\* One more frame, with its path.
LEMMA HungOn ==
    ASSUME NEW r, NEW s, IsSeq(s), NEW P, Hung(r, s, P), NEW f, NEW p, Hangs(r, f, p, s, P)
    PROVE  Hung(r, <<f>> \o s, <<p>> \o P) /\ Along(<<p>> \o P) = p
<1> DEFINE t == On(f, s)
           Q == On(p, P)
<1>1. IsSeq(P) /\ Len(P) = Len(s)
  BY DEF Hung, Alike
<1>2. t = On(f, s) /\ Q = On(p, P)
  OBVIOUS
<1> HIDE DEF t, Q
<1>3. /\ IsSeq(t) /\ IsSeq(Q) /\ Len(Q) = Len(t) /\ Len(s) \in Nat
      /\ DOMAIN s = 1 .. Len(s) /\ DOMAIN t = 1 .. (Len(s) + 1)
      /\ t[1] = f /\ Q[1] = p /\ Suffix(t, 2) = s /\ Suffix(Q, 2) = P /\ Head(Q) = p
      /\ \A i \in 1 .. Len(s) :
           /\ i + 1 \in 1 .. (Len(s) + 1) /\ t[i + 1] = s[i] /\ Q[i + 1] = P[i]
           /\ Suffix(t, (i + 1) + 1) = Suffix(s, i + 1)
           /\ Suffix(Q, (i + 1) + 1) = Suffix(P, i + 1)
  BY <1>1, <1>2, Beside
<1>4. ASSUME NEW j \in DOMAIN t PROVE Hangs(r, t[j], Q[j], Suffix(t, j + 1), Suffix(Q, j + 1))
  <2>1. CASE j = 1
    BY <1>3, <2>1
  <2>2. CASE j # 1
    <3>1. j - 1 \in 1 .. Len(s) /\ (j - 1) + 1 = j
      BY <1>3, <2>2
    <3>2. Hangs(r, s[j - 1], P[j - 1], Suffix(s, (j - 1) + 1), Suffix(P, (j - 1) + 1))
      BY <1>3, <3>1 DEF Hung
    <3>3. /\ t[j] = s[j - 1] /\ Q[j] = P[j - 1]
          /\ Suffix(t, j + 1) = Suffix(s, (j - 1) + 1) /\ Suffix(Q, j + 1) = Suffix(P, (j - 1) + 1)
      BY <1>3, <3>1
    <3>4. QED
      BY <3>2, <3>3
  <2>3. QED
    BY <2>1, <2>2
<1>5. Q # <<>>
  <2>1. Len(Q) # 0
    <3>1. Len(t) \in Nat /\ DOMAIN t = 1 .. Len(t)
      BY <1>3, SeqDomain
    <3>2. QED
      BY <1>3, <3>1
  <2>2. QED
    BY <2>1, EmptyIsSeq
<1>6. Hung(r, t, Q) /\ Along(Q) = p
  BY <1>3, <1>4, <1>5 DEF Hung, Alike, Along
<1>7. QED
  BY <1>2, <1>6 DEF On

\* What hangs on top, and the rest.
LEMMA HungTop ==
    ASSUME NEW r, NEW s, IsSeq(s), s # <<>>, NEW P, Hung(r, s, P)
    PROVE  /\ IsSeq(Tail(s)) /\ Hung(r, Tail(s), Tail(P))
           /\ Hangs(r, Head(s), Along(P), Tail(s), Tail(P))
<1> DEFINE f == Head(s)
           t == Tail(s)
           p == Head(P)
           Q == Tail(P)
<1>1. IsSeq(P) /\ Len(P) = Len(s) /\ Len(s) \in Nat
  BY SeqDomain DEF Hung, Alike
<1>2. IsSeq(t) /\ s = On(f, t) /\ Len(t) \in Nat
  BY Decompose, SeqDomain DEF On
<1> HIDE DEF f, t
<1>3. Len(s) = Len(t) + 1
  BY <1>2, OneOnTop
<1>4. P # <<>>
  BY <1>1, <1>2, <1>3, EmptyIsSeq
<1>5. IsSeq(Q) /\ P = On(p, Q) /\ Len(Q) \in Nat
  BY <1>1, <1>4, Decompose, SeqDomain DEF On
<1> HIDE DEF p, Q
<1>6. Len(Q) = Len(t)
  <2>1. Len(P) = Len(Q) + 1
    BY <1>5, OneOnTop
  <2>2. QED
    BY <1>1, <1>2, <1>3, <1>5, <2>1
<1>7. /\ DOMAIN t = 1 .. Len(t) /\ DOMAIN s = 1 .. (Len(t) + 1)
      /\ s[1] = f /\ P[1] = p /\ Suffix(s, 2) = t /\ Suffix(P, 2) = Q
      /\ \A i \in 1 .. Len(t) :
           /\ i + 1 \in 1 .. (Len(t) + 1) /\ s[i + 1] = t[i] /\ P[i + 1] = Q[i]
           /\ Suffix(s, (i + 1) + 1) = Suffix(t, i + 1)
           /\ Suffix(P, (i + 1) + 1) = Suffix(Q, i + 1)
  BY <1>2, <1>5, <1>6, Beside
<1>8. ASSUME NEW i \in DOMAIN t PROVE Hangs(r, t[i], Q[i], Suffix(t, i + 1), Suffix(Q, i + 1))
  <2>1. Hangs(r, s[i + 1], P[i + 1], Suffix(s, (i + 1) + 1), Suffix(P, (i + 1) + 1))
    BY <1>7 DEF Hung
  <2>2. QED
    BY <1>7, <2>1
<1>9. Hangs(r, f, p, t, Q)
  <2>1. 1 \in DOMAIN s /\ 1 + 1 = 2
    BY <1>2, <1>7
  <2>2. Hangs(r, s[1], P[1], Suffix(s, 1 + 1), Suffix(P, 1 + 1))
    BY <2>1 DEF Hung
  <2>3. QED
    BY <1>7, <2>1, <2>2
<1>10. Hung(r, t, Q)
  BY <1>2, <1>5, <1>6, <1>8 DEF Hung, Alike
<1>11. Along(P) = p
  BY <1>4 DEF Along, p
<1>12. QED
  BY <1>2, <1>9, <1>10, <1>11 DEF f, t, Q

\* The path of the innermost frame.
LEMMA AlongIsChained ==
    ASSUME NEW r, NEW s, IsSeq(s), NEW P, Hung(r, s, P)
    PROVE  Chained(r, Along(P))
<1>1. CASE s = <<>>
  <2>1. P = <<>>
    <3>1. IsSeq(P) /\ Len(P) = 0
      BY <1>1, EmptyIsSeq DEF Hung, Alike
    <3>2. P \in Seq({P[i] : i \in DOMAIN P})
      BY <3>1 DEF IsSeq
    <3>3. QED
      BY <3>1, <3>2, EmptySeq
  <2>2. QED
    BY <2>1, HungNothing
<1>2. CASE s # <<>>
  BY <1>2, HungTop DEF Hangs
<1>3. QED
  BY <1>1, <1>2

\* The operations on contexts: where they are and what was reported there.
LEMMA RealWith ==
    ASSUME NEW r, NEW c, DOMAIN c = Fields, Real(r, c.errors),
           NEW e, e.kind # "cyclic" \/ Reaches(r, e.of, e.of)
    PROVE  /\ DOMAIN With(c, e) = Fields /\ With(c, e).path = c.path
           /\ Real(r, With(c, e).errors)
<1> DEFINE es == c.errors
           n == Len(es)
<1>1. With(c, e).errors = Append(es, e) /\ DOMAIN With(c, e) = Fields /\ With(c, e).path = c.path
  BY DEF With, Fields
<1>2. /\ IsSeq(Append(es, e)) /\ n \in Nat
      /\ DOMAIN es = 1 .. n /\ DOMAIN Append(es, e) = 1 .. (n + 1)
      /\ Append(es, e)[n + 1] = e /\ \A i \in 1 .. n : Append(es, e)[i] = es[i]
  BY AppendSeq DEF Real
<1> HIDE DEF es
<1>3. ASSUME NEW i \in 1 .. (n + 1), Append(es, e)[i].kind = "cyclic"
      PROVE  Reaches(r, Append(es, e)[i].of, Append(es, e)[i].of)
  <2>1. CASE i = n + 1
    <3>1. Append(es, e)[i] = e
      BY <1>2, <2>1
    <3>2. QED
      BY <1>3, <3>1
  <2>2. CASE i # n + 1
    <3>1. i \in DOMAIN es /\ Append(es, e)[i] = es[i]
      BY <1>2, <2>2
    <3>2. QED
      BY <1>3, <3>1 DEF Real, es
  <2>3. QED
    BY <2>1, <2>2
<1>4. Real(r, Append(es, e))
  BY <1>2, <1>3 DEF Real
<1>5. QED
  BY <1>1, <1>4 DEF es

\* The other operations report nothing; only Push and Pop change the path.
LEMMA RealOps ==
    ASSUME NEW c, DOMAIN c = Fields
    PROVE  /\ \A v : DOMAIN Charge(c, v) = Fields /\ Charge(c, v).path = c.path
                     /\ Charge(c, v).errors = c.errors
           /\ DOMAIN Enter(c) = Fields /\ Enter(c).path = c.path /\ Enter(c).errors = c.errors
           /\ DOMAIN Exit(c) = Fields /\ Exit(c).path = c.path /\ Exit(c).errors = c.errors
           /\ \A a : DOMAIN [c EXCEPT !.args = a] = Fields
                     /\ [c EXCEPT !.args = a].path = c.path /\ [c EXCEPT !.args = a].errors = c.errors
           /\ \A k : DOMAIN Push(c, k) = Fields /\ Push(c, k).path = Append(c.path, k)
                     /\ Push(c, k).errors = c.errors
           /\ DOMAIN Pop(c) = Fields /\ Pop(c).path = Front(c.path) /\ Pop(c).errors = c.errors
<1>1. \A v : DOMAIN Charge(c, v) = Fields /\ Charge(c, v).path = c.path /\ Charge(c, v).errors = c.errors
  BY DEF Charge, Fields
<1>2. /\ DOMAIN Enter(c) = Fields /\ Enter(c).path = c.path /\ Enter(c).errors = c.errors
      /\ DOMAIN Exit(c) = Fields /\ Exit(c).path = c.path /\ Exit(c).errors = c.errors
  BY DEF Enter, Exit, Fields
<1>3. \A a : DOMAIN [c EXCEPT !.args = a] = Fields
             /\ [c EXCEPT !.args = a].path = c.path /\ [c EXCEPT !.args = a].errors = c.errors
  BY DEF Fields
<1>4. /\ \A k : DOMAIN Push(c, k) = Fields /\ Push(c, k).path = Append(c.path, k)
                /\ Push(c, k).errors = c.errors
      /\ DOMAIN Pop(c) = Fields /\ Pop(c).path = Front(c.path) /\ Pop(c).errors = c.errors
  BY DEF Push, Pop, Fields
<1>5. QED
  BY <1>1, <1>2, <1>3, <1>4

\* One more frame of the pattern at hand, of a pattern that it refers to, of a new format call.
LEMMA WalkOn ==
    ASSUME NEW r, NEW c, NEW s, IsSeq(s), NEW P, Walks(r, c, s, P), s # <<>> => Waits(Head(s)),
           NEW d, Real(r, d.errors), NEW f, Belongs(r, f, d.path),
           \/ f.at \notin Bodies \cup {"format"} /\ d.path = c.path
           \/ f.at \in Bodies /\ \E k : /\ d.path = Append(c.path, k) /\ r[k] # NoPattern
                                        /\ c.path # <<>> => k \in References(r, Last(c.path))
           \/ f.at = "format" /\ d.path = <<>> /\ f.saved.path = c.path /\ Real(r, f.saved.errors)
    PROVE  Walks(r, d, <<f>> \o s, <<d.path>> \o P)
<1> DEFINE p == d.path
<1>1. Chained(r, c.path) /\ c.path = Along(P) /\ Hung(r, s, P)
  BY AlongIsChained DEF Walks
<1>2. Chained(r, p)
  <2>1. CASE d.path = c.path
    BY <1>1, <2>1
  <2>2. ASSUME NEW k, d.path = Append(c.path, k), r[k] # NoPattern,
               c.path # <<>> => k \in References(r, Last(c.path))
        PROVE  Chained(r, p)
    BY <1>1, <2>2, ChainGrows
  <2>3. CASE d.path = <<>>
    BY <2>3, HungNothing
  <2>4. QED
    BY <2>1, <2>2, <2>3
<1>3. Hangs(r, f, p, s, P)
  BY <1>1, <1>2 DEF Hangs, Bodies
<1>4. Hung(r, <<f>> \o s, <<p>> \o P) /\ Along(<<p>> \o P) = p
  BY <1>1, <1>3, HungOn
<1>5. QED
  BY <1>4 DEF Walks

\* The innermost frame, and the walk without it.
LEMMA WalkBack ==
    ASSUME NEW r, NEW c, NEW s, IsSeq(s), s # <<>>, NEW P, Walks(r, c, s, P)
    PROVE  /\ Belongs(r, Head(s), c.path) /\ (Tail(s) # <<>> => Waits(Head(Tail(s))))
           /\ \A d : Real(r, d.errors) /\ Head(s).at \notin Bodies \cup {"format"} /\ d.path = c.path
                       => Walks(r, d, Tail(s), Tail(P))
           /\ \A d : Real(r, d.errors) /\ Head(s).at \in Bodies /\ d.path = Front(c.path)
                       => Walks(r, d, Tail(s), Tail(P))
           /\ Head(s).at = "format" => Walks(r, Head(s).saved, Tail(s), Tail(P))
<1> DEFINE f == Head(s)
           p == c.path
           t == Tail(s)
           Q == Tail(P)
<1>1. IsSeq(t) /\ Hung(r, t, Q) /\ Hangs(r, f, p, t, Q)
  BY HungTop DEF Walks
<1> HIDE DEF f, p, t, Q
<1>2. Chained(r, Along(Q))
  BY <1>1, AlongIsChained
<1>3. ASSUME f.at \in Bodies PROVE Front(p) = Along(Q)
  <2>1. PICK k : p = Append(Along(Q), k)
    BY <1>1, <1>3 DEF Hangs
  <2>2. Front(Append(Along(Q), k)) = Along(Q)
    <3>1. IsSeq(Along(Q))
      BY <1>2 DEF Chained
    <3> DEFINE q == Along(Q)
    <3>2. q \in Seq({q[i] : i \in DOMAIN q} \cup {k})
      BY <3>1, SeqDomain, SeqDef DEF IsSeq
    <3> HIDE DEF q
    <3>3. Front(Append(q, k)) = q
      BY <3>2 DEF Front
    <3>4. QED
      BY <3>3 DEF q
  <2>3. QED
    BY <2>1, <2>2
<1>4. Belongs(r, f, p) /\ (t # <<>> => Waits(Head(t)))
  BY <1>1 DEF Hangs
<1>5. f.at \notin Bodies \cup {"format"} => p = Along(Q)
  BY <1>1 DEF Hangs
<1>6. f.at = "format" => f.saved.path = Along(Q) /\ Real(r, f.saved.errors)
  BY <1>1 DEF Hangs
<1>7. QED
  BY <1>1, <1>3, <1>4, <1>5, <1>6 DEF Walks, f, p, t, Q

\* Where a step lands.
LEMMA LandsReal ==
    ASSUME catalog' = catalog, IsSeq(answers'), \A i \in DOMAIN answers' : Real(catalog, answers'[i].errors),
           \A x \in cache' : Real(catalog, x.errors),
           NEW c, NEW s, NEW n, ctx' = c, control' = s, now' = n,
           NEW P, Walks(catalog, c, s, P), Leads(catalog, c.path, n, s)
    PROVE  ReferenceInv'
<1>1. Walks(catalog', ctx', control', P) /\ Leads(catalog', ctx'.path, now', control')
  OBVIOUS
<1>2. /\ IsSeq(answers') /\ \A i \in DOMAIN answers' : Real(catalog', answers'[i].errors)
      /\ \A x \in cache' : Real(catalog', x.errors)
  OBVIOUS
<1>3. QED
  BY <1>1, <1>2 DEF ReferenceInv, Walks, Leads, Hung, Hangs, Real, Chained, Near, Waits, Belongs,
     Along, Alike, IsSeq, Suffix, References, Reaches, Last, Bodies

\* The same for the steps that record nothing.
LEMMA GoesReal ==
    ASSUME ReferenceInv, NEW c, NEW s, NEW n, Go(c, s, n),
           NEW P, Walks(catalog, c, s, P), Leads(catalog, c.path, n, s)
    PROVE  ReferenceInv'
<1>1. /\ catalog' = catalog /\ cache' = cache /\ answers' = answers
      /\ ctx' = c /\ control' = s /\ now' = n
  BY DEF Go
<1>2. /\ IsSeq(answers') /\ \A i \in DOMAIN answers' : Real(catalog, answers'[i].errors)
      /\ \A x \in cache' : Real(catalog, x.errors)
  BY <1>1 DEF ReferenceInv
<1>3. QED
  BY <1>1, <1>2, LandsReal

\* What is at hand before a step.
LEMMA AtWalk ==
    ASSUME IInv, ReferenceInv
    PROVE  /\ \E P : Walks(catalog, ctx, control, P) /\ Leads(catalog, ctx.path, now, control)
           /\ Real(catalog, ctx.errors) /\ DOMAIN ctx = Fields /\ IsSeq(control)
BY TopFrame DEF ReferenceInv, Walks

\* What comes next, when it is no expression.
Plain(r, p, n) ==
    \/ n.is = "value"
    \/ n.is = "raise" /\ n.error.kind # "cyclic"
    \/ n.is = "resolve" /\ (p # <<>> => n.key \in References(r, Last(p)))

\* A pattern that is part of the one at hand starts.
LEMMA StartsReal ==
    ASSUME ReferenceInv, NEW c, DOMAIN c = Fields, NEW s, IsSeq(s), NEW P, Walks(catalog, c, s, P),
           s # <<>> => Waits(Head(s)),
           NEW p, Near(catalog, c.path, MentionedIn(p)), StartPattern(c, p, s)
    PROVE  ReferenceInv'
<1> DEFINE e == Error("budget", "")
           f == [at |-> "pattern", todo |-> p, out |-> <<>>]
<1>1. Real(catalog, c.errors) /\ e.kind = "budget"
  BY DEF Walks, Error
<1> HIDE DEF e
<1>2. CASE Over(c)
  <2>1. Go(With(c, e), s, Value(<<>>))
    BY <1>2 DEF StartPattern, e
  <2>2. With(c, e).path = c.path /\ Real(catalog, With(c, e).errors)
    BY <1>1, RealWith
  <2>3. Walks(catalog, With(c, e), s, P)
    BY <2>2 DEF Walks
  <2>4. Leads(catalog, With(c, e).path, Value(<<>>), s)
    BY DEF Leads, Value
  <2>5. QED
    BY <2>1, <2>3, <2>4, GoesReal
<1>3. CASE ~Over(c)
  <2>1. Go(c, <<f>> \o s, Run)
    BY <1>3 DEF StartPattern
  <2>2. f.at = "pattern" /\ f.todo = p /\ DOMAIN f = {"at", "todo", "out"}
    OBVIOUS
  <2> HIDE DEF f
  <2>3. Belongs(catalog, f, c.path) /\ f.at \notin Bodies \cup {"format"}
    BY <2>2 DEF Belongs, Bodies
  <2>4. Walks(catalog, c, <<f>> \o s, <<c.path>> \o P)
    BY <1>1, <2>3, WalkOn
  <2>5. Leads(catalog, c.path, Run, <<f>> \o s)
    BY DEF Leads, Run
  <2>6. QED
    BY <2>1, <2>4, <2>5, GoesReal
<1>4. QED
  BY <1>2, <1>3

\* The frames stay, the innermost is left, or one is put on them.
LEMMA StaysReal ==
    ASSUME IInv, ReferenceInv, now.is # "run", NEW d, d.path = ctx.path, Real(catalog, d.errors),
           NEW n, Plain(catalog, ctx.path, n), Go(d, control, n)
    PROVE  ReferenceInv'
<1>1. PICK P : Walks(catalog, ctx, control, P) /\ Leads(catalog, ctx.path, now, control)
  BY AtWalk
<1>2. Walks(catalog, d, control, P)
  BY <1>1 DEF Walks
<1>3. Leads(catalog, d.path, n, control)
  BY <1>1 DEF Leads, Plain
<1>4. QED
  BY <1>2, <1>3, GoesReal

\* A value or an exception leaves the innermost frame.
LEMMA PopsReal ==
    ASSUME IInv, ReferenceInv, control # <<>>,
           NEW d, Real(catalog, d.errors),
           \/ Head(control).at \notin Bodies \cup {"format"} /\ d.path = ctx.path
           \/ Head(control).at \in Bodies /\ d.path = Front(ctx.path),
           NEW n, n.is = "value" \/ (n.is = "raise" /\ n.error.kind # "cyclic"),
           Go(d, Tail(control), n)
    PROVE  ReferenceInv'
<1>1. PICK P : Walks(catalog, ctx, control, P)
  BY AtWalk
<1>2. /\ Tail(control) # <<>> => Waits(Head(Tail(control)))
      /\ Walks(catalog, d, Tail(control), Tail(P))
  BY <1>1, AtWalk, WalkBack
<1>3. Leads(catalog, d.path, n, Tail(control))
  BY <1>2 DEF Leads
<1>4. QED
  BY <1>2, <1>3, GoesReal

\* A frame is put on the others, for what the pattern at hand contains.
LEMMA PushesReal ==
    ASSUME IInv, ReferenceInv, control # <<>> => Waits(Head(control)),
           NEW d, d.path = ctx.path, Real(catalog, d.errors),
           NEW f, f.at \notin Bodies \cup {"format"}, Belongs(catalog, f, ctx.path),
           NEW n, \/ n.is = "run"
                  \/ n.is = "eval" /\ Waits(f) /\ Near(catalog, ctx.path, Mentions(n.expr)),
           Go(d, <<f>> \o control, n)
    PROVE  ReferenceInv'
<1>1. PICK P : Walks(catalog, ctx, control, P)
  BY AtWalk
<1>2. Walks(catalog, d, <<f>> \o control, <<d.path>> \o P)
  BY <1>1, AtWalk, WalkOn
<1>3. Head(<<f>> \o control) = f
  BY AtWalk, ConsSeq
<1> DEFINE s == <<f>> \o control
<1> HIDE DEF s
<1>4. Leads(catalog, d.path, n, s)
  BY <1>3 DEF Leads, s
<1>5. QED
  BY <1>2, <1>4, GoesReal DEF s

\* The innermost frame is replaced.
LEMMA GoesOnReal ==
    ASSUME IInv, ReferenceInv, NEW s, IsSeq(s), s # <<>>, Head(s).at \notin Bodies \cup {"format"},
           NEW c, NEW P, Walks(catalog, c, s, P),
           NEW d, d.path = c.path, Real(catalog, d.errors),
           NEW f, f.at \notin Bodies \cup {"format"}, Belongs(catalog, f, c.path),
           Go(d, <<f>> \o Tail(s), Run)
    PROVE  ReferenceInv'
<1>1. /\ Tail(s) # <<>> => Waits(Head(Tail(s)))
      /\ Walks(catalog, d, Tail(s), Tail(P))
  BY WalkBack
<1>2. IsSeq(Tail(s))
  BY Decompose
<1>3. Walks(catalog, d, <<f>> \o Tail(s), <<d.path>> \o Tail(P))
  BY <1>1, <1>2, WalkOn
<1>4. Leads(catalog, d.path, Run, <<f>> \o Tail(s))
  BY DEF Leads, Run
<1>5. QED
  BY <1>3, <1>4, GoesReal

\* A refused reference: if the path has the key already, the references that led
\* here lead from it to itself.
LEMMA RefusedReal ==
    ASSUME IInv, ReferenceInv, NEW k, ctx.path # <<>> => k \in References(catalog, Last(ctx.path)),
           NEW e, e \in Refusal(k) \/ e \in GlobalRefusal(k)
    PROVE  e.kind # "cyclic" \/ Reaches(catalog, e.of, e.of)
<1>1. PICK P : Walks(catalog, ctx, control, P)
  BY AtWalk
<1>2. Chained(catalog, ctx.path)
  BY <1>1, AtWalk, AlongIsChained DEF Walks
<1>3. ctx.seen = {ctx.path[i] : i \in DOMAIN ctx.path}
  BY AtHand DEF Good, Fits, PathOK
<1>4. ASSUME e.kind = "cyclic" PROVE k \in ctx.seen /\ e.of = k
  BY <1>4 DEF Refusal, GlobalRefusal, Error
<1>5. ASSUME k \in ctx.seen PROVE Reaches(catalog, k, k)
  <2>1. PICK i \in DOMAIN ctx.path : ctx.path[i] = k
    BY <1>3, <1>5
  <2>2. ctx.path # <<>>
    BY <2>1, EmptyIsSeq
  <2>3. QED
    BY <1>2, <2>1, <2>2, LeadsOn
<1>6. QED
  BY <1>4, <1>5

\* Each key of a path has a pattern.
LEMMA LastPatterned ==
    ASSUME NEW r, NEW p, Chained(r, p), p # <<>>
    PROVE  r[Last(p)] # NoPattern
<1>1. DOMAIN p = 1 .. Len(p) /\ Len(p) \in Nat /\ p \in Seq({p[i] : i \in DOMAIN p})
  BY SeqDomain DEF Chained, IsSeq
<1>2. Len(p) \in DOMAIN p
  BY <1>1, EmptySeq
<1>3. QED
  BY <1>2 DEF Chained, Last

\* What answers at once, refused references included.
LEMMA AnswersReal ==
    ASSUME MentionRules, IInv, ReferenceInv,
           Literal \/ Variable \/ MessageReference \/ ResolveRefused
    PROVE  ReferenceInv'
<1>1. PICK P : Walks(catalog, ctx, control, P) /\ Leads(catalog, ctx.path, now, control)
  BY AtWalk
<1>2. Real(catalog, ctx.errors) /\ DOMAIN ctx = Fields
  BY AtWalk
<1>3. ASSUME now.is = "eval", NEW v, Go(ctx, control, Value(v)) PROVE ReferenceInv'
  BY <1>2, <1>3, StaysReal DEF Plain, Value
<1>4. ASSUME now.is = "eval", NEW e, Go(ctx, control, Raise(e)), e.kind # "cyclic" PROVE ReferenceInv'
  BY <1>2, <1>4, StaysReal DEF Plain, Raise
<1>5. CASE Literal
  BY <1>3, <1>5 DEF Literal, Evaluates, Is, Yield, Step
<1>6. CASE Variable
  <2>1. Error("variable", now.expr.name).kind # "cyclic"
    BY DEF Error
  <2>2. QED
    BY <1>3, <1>4, <1>6, <2>1 DEF Variable, Evaluates, Is, Yield, Throw, Step
<1>7. CASE MessageReference
  <2>1. Error("message", now.expr.key).kind # "cyclic"
    BY DEF Error
  <2>2. now.is = "eval" /\ now.expr.form = "message"
    BY <1>7 DEF MessageReference, Evaluates, Is
  <2>3. CASE now.expr.key \in DOMAIN catalog
    <3>1. Go(ctx, control, Resolve(now.expr.key))
      BY <1>7, <2>3 DEF MessageReference, Step
    <3>2. Near(catalog, ctx.path, Mentions(now.expr)) /\ Chained(catalog, ctx.path)
      BY <1>1, <2>2, AtWalk, AlongIsChained DEF Leads, Walks
    <3>3. now.expr.key \in MentionedIn(catalog[Last(ctx.path)]) /\ ctx.path # <<>>
      BY <2>2, <3>2 DEF MentionRules, Near
    <3>4. catalog[Last(ctx.path)] # NoPattern
      BY <3>2, <3>3, LastPatterned
    <3>5. now.expr.key \in References(catalog, Last(ctx.path))
      BY <2>3, <3>3, <3>4 DEF References
    <3>6. QED
      BY <1>2, <2>2, <3>1, <3>5, StaysReal DEF Plain, Resolve
  <2>4. CASE now.expr.key \notin DOMAIN catalog
    BY <1>4, <1>7, <2>1, <2>2, <2>4 DEF MessageReference, Throw, Step
  <2>5. QED
    BY <2>3, <2>4
<1>8. CASE ResolveRefused
  <2>1. now.is = "resolve"
    BY <1>8 DEF ResolveRefused, Is
  <2>2. PICK e : /\ e \in Refusal(now.key) \/ e \in GlobalRefusal(now.key)
                 /\ Go(With(ctx, e), control, Value(Lost))
    BY <1>8 DEF ResolveRefused, Yield, Step
  <2>3. e.kind # "cyclic" \/ Reaches(catalog, e.of, e.of)
    BY <1>1, <2>1, <2>2, RefusedReal DEF Leads
  <2>4. With(ctx, e).path = ctx.path /\ Real(catalog, With(ctx, e).errors)
    BY <1>2, <2>3, RealWith
  <2>5. QED
    BY <2>1, <2>2, <2>4, StaysReal DEF Plain, Value
<1>9. QED
  BY <1>5, <1>6, <1>7, <1>8

\* The innermost frame belongs to the last pattern of the path.
LEMMA TopBelongs ==
    ASSUME IInv, ReferenceInv, control # <<>>
    PROVE  /\ Belongs(catalog, Head(control), ctx.path)
           /\ Tail(control) # <<>> => Waits(Head(Tail(control)))
           /\ now.is # "run" => Waits(Head(control))
<1>1. PICK P : Walks(catalog, ctx, control, P) /\ Leads(catalog, ctx.path, now, control)
  BY AtWalk
<1>2. /\ Belongs(catalog, Head(control), ctx.path)
      /\ Tail(control) # <<>> => Waits(Head(Tail(control)))
  BY <1>1, AtWalk, WalkBack
<1>3. QED
  BY <1>1, <1>2 DEF Leads

\* The first of what is left, and what is left after it.
LEMMA NearParts ==
    ASSUME MentionRules, NEW r, NEW p, NEW es, Near(r, p, MentionedIn(es)), es # <<>>
    PROVE  Near(r, p, Mentions(Head(es))) /\ Near(r, p, MentionedIn(Tail(es)))
BY DEF MentionRules, Near

\* So does a frame that goes on.
LEMMA FramesGoOn ==
    ASSUME MentionRules, NEW r, NEW f, NEW p, Belongs(r, f, p), f.todo # <<>>
    PROVE  /\ \A x : f.at = "pattern" => Belongs(r, Emit(f, x), p) /\ Emit(f, x).at = "pattern"
           /\ \A v : f.at \in {"term", "call"} => Belongs(r, Got(f, v), p) /\ Got(f, v).at = f.at
<1>1. ASSUME f.at \in {"pattern", "term", "call"} PROVE Near(r, p, MentionedIn(Tail(f.todo)))
  BY <1>1, NearParts DEF Belongs
<1>2. ASSUME NEW x, f.at = "pattern" PROVE Belongs(r, Emit(f, x), p) /\ Emit(f, x).at = "pattern"
  <2>1. /\ Emit(f, x).at = "pattern" /\ Emit(f, x).todo = Tail(f.todo)
        /\ {"at", "todo", "out"} \subseteq DOMAIN Emit(f, x)
    BY <1>2 DEF Belongs, Emit
  <2>2. QED
    BY <1>1, <1>2, <2>1 DEF Belongs
<1>3. ASSUME NEW v, f.at \in {"term", "call"} PROVE Belongs(r, Got(f, v), p) /\ Got(f, v).at = f.at
  <2>1. /\ Got(f, v).at = f.at /\ Got(f, v).todo = Tail(f.todo) /\ Got(f, v).expr = f.expr
        /\ {"at", "expr", "todo", "got"} \subseteq DOMAIN Got(f, v)
    BY <1>3 DEF Belongs, Got
  <2>2. QED
    BY <1>1, <1>3, <2>1 DEF Belongs
<1>4. QED
  BY <1>2, <1>3

\* The elements of a pattern.
LEMMA PatternReal ==
    ASSUME MentionRules, IInv, ReferenceInv, EndPattern \/ Text \/ Placeable
    PROVE  ReferenceInv'
<1> DEFINE h == Head(control)
<1>1. /\ control # <<>> /\ h.at = "pattern" /\ now.is = "run" /\ Top = h /\ Rest = Tail(control)
      /\ Text \/ Placeable => h.todo # <<>>
  BY DEF EndPattern, Text, Placeable, At, Is, Top, Rest
<1>2. PICK P : Walks(catalog, ctx, control, P)
  BY AtWalk
<1>3. Real(catalog, ctx.errors) /\ DOMAIN ctx = Fields /\ IsSeq(control)
  BY AtWalk
<1>4. Belongs(catalog, h, ctx.path) /\ h.at \notin Bodies \cup {"format"}
  BY <1>1, TopBelongs DEF Bodies
<1> HIDE DEF h
<1>5. ASSUME NEW d, d.path = ctx.path, Real(catalog, d.errors), NEW x, h.todo # <<>>,
             Go(d, <<Emit(h, x)>> \o Tail(control), Run)
      PROVE  ReferenceInv'
  <2>1. Belongs(catalog, Emit(h, x), ctx.path) /\ Emit(h, x).at = "pattern"
    BY <1>1, <1>4, <1>5, FramesGoOn
  <2>2. Emit(h, x).at \notin Bodies \cup {"format"}
    BY <2>1 DEF Bodies
  <2>3. QED
    BY <1>1, <1>2, <1>3, <1>4, <1>5, <2>1, <2>2, GoesOnReal DEF h
<1>6. ASSUME NEW d, d.path = ctx.path, Real(catalog, d.errors), NEW v, Go(d, Tail(control), Value(v))
      PROVE  ReferenceInv'
  BY <1>1, <1>4, <1>6, PopsReal DEF h, Value
<1>7. CASE EndPattern
  BY <1>1, <1>3, <1>6, <1>7 DEF EndPattern, Step
<1>8. CASE Text
  <2> DEFINE c == Charge(ctx, Element.text)
             e == Error("budget", "")
  <2>1. IF Over(c) THEN Go(With(c, e), Tail(control), Value(h.out))
                   ELSE Go(c, <<Emit(h, Element.text)>> \o Tail(control), Run)
    BY <1>1, <1>8 DEF Text, Step
  <2>2. c.path = ctx.path /\ DOMAIN c = Fields /\ c.errors = ctx.errors
    BY <1>3, RealOps
  <2>3. e.kind # "cyclic"
    BY DEF Error
  <2> HIDE DEF c, e
  <2>4. Real(catalog, c.errors) /\ Real(catalog, With(c, e).errors) /\ With(c, e).path = ctx.path
    BY <1>3, <2>2, <2>3, RealWith
  <2>5. QED
    BY <1>1, <1>5, <1>6, <1>8, <2>1, <2>2, <2>4
<1>9. CASE Placeable
  <2>1. CASE MayEnter(ctx)
    <3> DEFINE f == [at |-> "placeable"]
    <3>1. Go(Enter(ctx), <<f>> \o control, Eval(Head(h.todo)))
      BY <1>1, <1>9, <2>1 DEF Placeable, Step, Element
    <3>2. f.at \notin Bodies \cup {"format"} /\ Belongs(catalog, f, ctx.path) /\ Waits(f)
      BY DEF Bodies, Belongs, Waits
    <3>3. Near(catalog, ctx.path, Mentions(Head(h.todo)))
      BY <1>1, <1>4, <1>9, NearParts DEF Belongs
    <3>4. Enter(ctx).path = ctx.path /\ Real(catalog, Enter(ctx).errors)
      BY <1>3, RealOps
    <3>5. Waits(Head(control))
      BY <1>1, <1>9 DEF Waits, h
    <3> HIDE DEF f
    <3>6. QED
      BY <3>1, <3>2, <3>3, <3>4, <3>5, PushesReal DEF Eval
  <2>2. CASE ~MayEnter(ctx)
    <3>1. Go(With(ctx, TooDeep), <<Emit(h, Lost)>> \o Tail(control), Run)
      BY <1>1, <1>9, <2>2 DEF Placeable, Step
    <3>2. TooDeep.kind # "cyclic"
      BY DEF TooDeep, Error
    <3>3. With(ctx, TooDeep).path = ctx.path /\ Real(catalog, With(ctx, TooDeep).errors)
      BY <1>3, <3>2, RealWith
    <3>4. QED
      BY <1>1, <1>5, <1>9, <3>1, <3>3
  <2>3. QED
    BY <2>1, <2>2
<1>10. QED
  BY <1>7, <1>8, <1>9

\* A placeable's value becomes text, or fails.
LEMMA PlaceableReal ==
    ASSUME MentionRules, IInv, ReferenceInv, PlaceableValue \/ PlaceableRaises
    PROVE  ReferenceInv'
<1> DEFINE c == Exit(ctx)
           t == Tail(control)
           h == Head(t)
<1>1. /\ control # <<>> /\ Head(control).at = "placeable" /\ Top = Head(control) /\ Rest = t
      /\ now.is \in {"value", "raise"}
  BY DEF PlaceableValue, PlaceableRaises, At, Is, Top, Rest
<1>2. /\ DOMAIN ctx = Fields /\ IsSeq(control) /\ Real(catalog, ctx.errors)
      /\ IsSeq(t) /\ t # <<>> /\ h.at = "pattern"
      /\ Tail(t) # <<>> /\ Pattern = h /\ Below = Tail(t)
  BY <1>1, TopFrame, AtWalk
<1>3. PICK P : Walks(catalog, ctx, control, P) /\ Leads(catalog, ctx.path, now, control)
  BY AtWalk
<1>4. DOMAIN c = Fields /\ c.path = ctx.path /\ Real(catalog, c.errors)
  BY <1>2, RealOps
<1> HIDE DEF c
<1>5. Walks(catalog, c, t, Tail(P)) /\ Waits(h)
  <2>1. Head(control).at \notin Bodies \cup {"format"}
    BY <1>1 DEF Bodies
  <2>2. QED
    BY <1>1, <1>2, <1>3, <1>4, <2>1, WalkBack
<1>6. Belongs(catalog, h, c.path) /\ (Tail(t) # <<>> => Waits(Head(Tail(t)))) /\ h.todo # <<>>
      /\ h.at \notin Bodies \cup {"format"}
      /\ \A d : Real(catalog, d.errors) /\ d.path = c.path => Walks(catalog, d, Tail(t), Tail(Tail(P)))
  <2>1. h.at \notin Bodies \cup {"format"}
    BY <1>2 DEF Bodies
  <2>2. h.todo # <<>>
    BY <1>2, <1>5 DEF Waits
  <2> HIDE DEF h, t
  <2>3. QED
    BY <1>2, <1>5, <2>1, <2>2, WalkBack DEF h
<1> HIDE DEF h, t
<1>7. ASSUME NEW d, d.path = c.path, Real(catalog, d.errors), NEW x, Go(d, <<Emit(h, x)>> \o Tail(t), Run)
      PROVE  ReferenceInv'
  <2>1. Belongs(catalog, Emit(h, x), c.path) /\ Emit(h, x).at = "pattern"
    BY <1>2, <1>6, FramesGoOn
  <2>2. Emit(h, x).at \notin Bodies \cup {"format"}
    BY <2>1 DEF Bodies
  <2>3. QED
    BY <1>2, <1>5, <1>6, <1>7, <2>1, <2>2, GoesOnReal DEF h
<1>8. ASSUME NEW d, d.path = c.path, Real(catalog, d.errors), NEW v, Go(d, Tail(t), Value(v))
      PROVE  ReferenceInv'
  <2>1. Walks(catalog, d, Tail(t), Tail(Tail(P)))
    BY <1>6, <1>8
  <2>2. Leads(catalog, d.path, Value(v), Tail(t))
    BY <1>6 DEF Leads, Value
  <2>3. QED
    BY <1>8, <2>1, <2>2, GoesReal
<1>9. ASSUME NEW d, DOMAIN d = Fields, d.path = c.path, Real(catalog, d.errors),
             NEW e, e.kind # "cyclic"
      PROVE  With(d, e).path = c.path /\ Real(catalog, With(d, e).errors)
  BY <1>9, RealWith
<1>10. CASE PlaceableValue
  <2> DEFINE d == Charge(c, now.value)
             e == Error("budget", "")
  <2>1. IF ~Over(d) THEN Go(d, <<Emit(h, Isolated(now.value))>> \o Tail(t), Run)
        ELSE Go(IF Over(c) THEN d ELSE With(d, e), Tail(t), Value(h.out))
    BY <1>2, <1>10 DEF PlaceableValue, Step, c
  <2>2. DOMAIN d = Fields /\ d.path = c.path /\ Real(catalog, d.errors) /\ e.kind # "cyclic"
    BY <1>4, RealOps DEF Error
  <2> HIDE DEF d, e
  <2>3. With(d, e).path = c.path /\ Real(catalog, With(d, e).errors)
    BY <1>9, <2>2
  <2>4. QED
    BY <1>7, <1>8, <2>1, <2>2, <2>3
<1>11. CASE PlaceableRaises
  <2>1. PICK e : e.kind # "cyclic" /\ Go(With(c, e), <<Emit(h, Lost)>> \o Tail(t), Run)
    <3>1. CASE Is("raise")
      <4>1. now.error.kind # "cyclic"
        BY <1>3, <3>1 DEF Leads, Is
      <4>2. Go(With(c, now.error), <<Emit(h, Lost)>> \o Tail(t), Run)
        BY <1>2, <1>11, <3>1 DEF PlaceableRaises, FailPlaceable, Step, Is, c
      <4>3. QED
        BY <4>1, <4>2
    <3>2. CASE ~Is("raise")
      <4>1. Error("float", "").kind # "cyclic"
        BY DEF Error
      <4>2. Go(With(c, Error("float", "")), <<Emit(h, Lost)>> \o Tail(t), Run)
        BY <1>2, <1>11, <3>2 DEF PlaceableRaises, FailPlaceable, Step, c
      <4>3. QED
        BY <4>1, <4>2
    <3>3. QED
      BY <3>1, <3>2
  <2>2. With(c, e).path = c.path /\ Real(catalog, With(c, e).errors)
    BY <1>4, <1>9, <2>1
  <2>3. QED
    BY <1>7, <2>1, <2>2
<1>12. QED
  BY <1>10, <1>11

\* An expression is evaluated, of the pattern at hand.
LEMMA AtExpression ==
    ASSUME IInv, ReferenceInv, now.is = "eval"
    PROVE  /\ Near(catalog, ctx.path, Mentions(now.expr)) /\ catalog[Last(ctx.path)] # NoPattern
           /\ control # <<>> => Waits(Head(control))
<1>1. PICK P : Walks(catalog, ctx, control, P) /\ Leads(catalog, ctx.path, now, control)
  BY AtWalk
<1>2. Chained(catalog, ctx.path)
  BY <1>1, AtWalk, AlongIsChained DEF Walks
<1>3. Near(catalog, ctx.path, Mentions(now.expr)) /\ (control # <<>> => Waits(Head(control)))
  BY <1>1 DEF Leads
<1>4. catalog[Last(ctx.path)] # NoPattern
  BY <1>2, <1>3, LastPatterned DEF Near
<1>5. QED
  BY <1>3, <1>4

\* What evaluates further expressions: a nested placeable, a function, a selection.
LEMMA GuardsReal ==
    ASSUME MentionRules, IInv, ReferenceInv, Nest \/ Call \/ Select
    PROVE  ReferenceInv'
<1>1. now.is = "eval"
  BY DEF Nest, Call, Select, Evaluates, Is
<1>2. /\ Near(catalog, ctx.path, Mentions(now.expr))
      /\ control # <<>> => Waits(Head(control))
  BY <1>1, AtExpression
<1>3. Real(catalog, ctx.errors) /\ DOMAIN ctx = Fields /\ IsSeq(control)
  BY AtWalk
<1>4. Enter(ctx).path = ctx.path /\ Real(catalog, Enter(ctx).errors)
  BY <1>3, RealOps
<1>5. TooDeep.kind # "cyclic"
  BY DEF TooDeep, Error
<1>6. ASSUME Go(ctx, control, Raise(TooDeep)) PROVE ReferenceInv'
  BY <1>1, <1>3, <1>5, <1>6, StaysReal DEF Plain, Raise
<1>7. CASE Nest
  <2>1. CASE MayEnter(ctx)
    <3> DEFINE f == [at |-> "nest"]
    <3>1. Go(Enter(ctx), <<f>> \o control, Eval(now.expr.of)) /\ now.expr.form = "nest"
      BY <1>7, <2>1 DEF Nest, Guard, Step, Evaluates
    <3>2. f.at \notin Bodies \cup {"format"} /\ Belongs(catalog, f, ctx.path) /\ Waits(f)
      BY DEF Bodies, Belongs, Waits
    <3>3. Near(catalog, ctx.path, Mentions(now.expr.of))
      BY <1>2, <3>1 DEF Near, MentionRules
    <3> HIDE DEF f
    <3>4. QED
      BY <1>2, <1>4, <3>1, <3>2, <3>3, PushesReal DEF Eval
  <2>2. CASE ~MayEnter(ctx)
    BY <1>6, <1>7, <2>2 DEF Nest, Guard, Throw, Step
  <2>3. QED
    BY <2>1, <2>2
<1>8. CASE Call
  <2>1. CASE MayEnter(ctx)
    <3> DEFINE f == Arguments(now.expr, now.expr.args)
    <3>1. Go(Enter(ctx), <<f>> \o control, Run) /\ now.expr.form = "call"
      BY <1>8, <2>1 DEF Call, Step, Evaluates
    <3>2. f.at = "call" /\ f.todo = now.expr.args /\ DOMAIN f = {"at", "expr", "todo", "got"}
      BY <3>1 DEF Arguments
    <3> HIDE DEF f
    <3>3. Near(catalog, ctx.path, MentionedIn(f.todo))
      BY <1>2, <3>1, <3>2 DEF Near, MentionRules
    <3>4. Belongs(catalog, f, ctx.path) /\ f.at \notin Bodies \cup {"format"}
      BY <3>2, <3>3 DEF Belongs, Bodies
    <3>5. QED
      BY <1>2, <1>4, <3>1, <3>4, PushesReal DEF Run
  <2>2. CASE ~MayEnter(ctx)
    BY <1>6, <1>8, <2>2 DEF Call, Throw, Step
  <2>3. QED
    BY <2>1, <2>2
<1>9. CASE Select
  <2>1. CASE MayEnter(ctx)
    <3> DEFINE f == [at |-> "select", expr |-> now.expr]
    <3>1. Go(Enter(ctx), <<f>> \o control, Eval(now.expr.on)) /\ now.expr.form = "select"
      BY <1>9, <2>1 DEF Select, Evaluates
    <3>2. f.at = "select" /\ f.expr = now.expr
      OBVIOUS
    <3> HIDE DEF f
    <3>3. f.at \notin Bodies \cup {"format"} /\ Belongs(catalog, f, ctx.path) /\ Waits(f)
      BY <1>2, <3>1, <3>2 DEF Bodies, Belongs, Waits
    <3>4. Near(catalog, ctx.path, Mentions(now.expr.on))
      BY <1>2, <3>1 DEF Near, MentionRules
    <3>5. QED
      BY <1>2, <1>4, <3>1, <3>3, <3>4, PushesReal DEF Eval
  <2>2. CASE ~MayEnter(ctx)
    <3> DEFINE d == With(ctx, TooDeep)
    <3>1. StartPattern(d, now.expr.other, control) /\ now.expr.form = "select"
      BY <1>9, <2>2 DEF Select, Evaluates
    <3>2. DOMAIN d = Fields /\ d.path = ctx.path /\ Real(catalog, d.errors)
      BY <1>3, <1>5, RealWith
    <3> HIDE DEF d
    <3>3. PICK P : Walks(catalog, ctx, control, P)
      BY AtWalk
    <3>4. Walks(catalog, d, control, P)
      BY <3>2, <3>3 DEF Walks
    <3>5. Near(catalog, d.path, MentionedIn(now.expr.other))
      BY <1>2, <3>1, <3>2 DEF Near, MentionRules
    <3>6. QED
      BY <1>2, <1>3, <3>1, <3>2, <3>4, <3>5, StartsReal
  <2>3. QED
    BY <2>1, <2>2
<1>10. QED
  BY <1>7, <1>8, <1>9

\* A term is refused, unknown, or its arguments begin.
LEMMA TermReferenceReal ==
    ASSUME MentionRules, IInv, ReferenceInv, TermReference
    PROVE  ReferenceInv'
<1> DEFINE e == now.expr
           k == e.key
<1>1. now.is = "eval" /\ e.form = "term"
  BY DEF TermReference, Evaluates, Is
<1>2. /\ Near(catalog, ctx.path, Mentions(e)) /\ catalog[Last(ctx.path)] # NoPattern
      /\ control # <<>> => Waits(Head(control))
  BY <1>1, AtExpression
<1>3. Real(catalog, ctx.errors) /\ DOMAIN ctx = Fields
  BY AtWalk
<1>4. ctx.path # <<>> /\ k \in MentionedIn(catalog[Last(ctx.path)])
      /\ Near(catalog, ctx.path, MentionedIn(Passed(e)))
  BY <1>1, <1>2 DEF Near, MentionRules
<1>5. CASE k \notin DOMAIN catalog \/ catalog[k] = NoPattern
  <2>1. Go(ctx, control, Raise(Error("term", k)))
    BY <1>5 DEF TermReference, Throw, Step
  <2>2. Error("term", k).kind # "cyclic"
    BY DEF Error
  <2>3. QED
    BY <1>1, <1>3, <2>1, <2>2, StaysReal DEF Plain, Raise
<1>6. CASE k \in DOMAIN catalog /\ catalog[k] # NoPattern
  <2>1. k \in References(catalog, Last(ctx.path))
    BY <1>2, <1>4, <1>6 DEF References
  <2>2. ASSUME NEW x \in Refusal(k), Go(With(ctx, x), control, Value(Lost)) PROVE ReferenceInv'
    <3>1. x.kind # "cyclic" \/ Reaches(catalog, x.of, x.of)
      BY <2>1, <2>2, RefusedReal
    <3>2. With(ctx, x).path = ctx.path /\ Real(catalog, With(ctx, x).errors)
      BY <1>3, <3>1, RealWith
    <3>3. QED
      BY <1>1, <2>2, <3>2, StaysReal DEF Plain, Value
  <2>3. ASSUME Go(ctx, <<Arguments(e, Passed(e))>> \o control, Run) PROVE ReferenceInv'
    <3> DEFINE f == Arguments(e, Passed(e))
    <3>1. f.at = "term" /\ f.expr = e /\ f.todo = Passed(e) /\ DOMAIN f = {"at", "expr", "todo", "got"}
      BY <1>1 DEF Arguments
    <3>2. Go(ctx, <<f>> \o control, Run)
      BY <2>3
    <3> HIDE DEF f
    <3>3. Belongs(catalog, f, ctx.path) /\ f.at \notin Bodies \cup {"format"}
      BY <1>4, <1>6, <2>1, <3>1 DEF Belongs, Bodies
    <3>4. QED
      BY <1>2, <1>3, <3>2, <3>3, PushesReal DEF Run
  <2>4. QED
    BY <1>6, <2>2, <2>3 DEF TermReference, Yield, Step
<1>7. QED
  BY <1>5, <1>6

\* The frame of a term's or a function's arguments.
LEMMA AtArgumentsTop ==
    ASSUME IInv, ReferenceInv, AtArguments
    PROVE  /\ control # <<>> /\ Top = Head(control) /\ Rest = Tail(control)
           /\ Head(control).at \in {"term", "call"} /\ Head(control).at \notin Bodies \cup {"format"}
           /\ Belongs(catalog, Head(control), ctx.path)
           /\ now.is # "run" => Waits(Head(control))
<1>1. /\ control # <<>> /\ Top = Head(control) /\ Rest = Tail(control)
      /\ Head(control).at \in {"term", "call"}
  BY DEF AtArguments, At, Top, Rest
<1>2. Head(control).at \notin Bodies \cup {"format"}
  BY <1>1 DEF Bodies
<1>3. QED
  BY <1>1, <1>2, TopBelongs

\* Arguments, one after the other.
LEMMA NextArgumentReal ==
    ASSUME MentionRules, IInv, ReferenceInv, NextArgument
    PROVE  ReferenceInv'
<1> DEFINE h == Head(control)
<1>1. AtArguments /\ now.is = "run"
  BY DEF NextArgument, Is
<1>2. /\ control # <<>> /\ Top = h /\ Rest = Tail(control)
      /\ h.at \in {"term", "call"} /\ h.at \notin Bodies \cup {"format"}
      /\ Belongs(catalog, h, ctx.path)
  BY <1>1, AtArgumentsTop
<1>3. h.todo # <<>>
  BY <1>2 DEF NextArgument
<1>4. Real(catalog, ctx.errors) /\ DOMAIN ctx = Fields
  BY AtWalk
<1>5. Near(catalog, ctx.path, Mentions(Head(h.todo)))
  BY <1>2, <1>3, NearParts DEF Belongs
<1>6. ASSUME NEW d, d.path = ctx.path, d.errors = ctx.errors, Go(d, control, Eval(Head(h.todo)))
      PROVE  ReferenceInv'
  <2>1. PICK P : Walks(catalog, ctx, control, P)
    BY AtWalk
  <2>2. Walks(catalog, d, control, P)
    BY <1>6, <2>1 DEF Walks
  <2>3. Leads(catalog, d.path, Eval(Head(h.todo)), control)
    BY <1>3, <1>5, <1>6 DEF Leads, Eval, Waits
  <2>4. QED
    BY <1>6, <2>2, <2>3, GoesReal
<1>7. Enter(ctx).path = ctx.path /\ Enter(ctx).errors = ctx.errors
  BY <1>4, RealOps
<1>8. \/ Go(ctx, control, Eval(Head(h.todo)))
      \/ Go(Enter(ctx), control, Eval(Head(h.todo)))
      \/ Go(ctx, Tail(control), Raise(TooDeep))
  BY <1>2 DEF NextArgument, Step, Element
<1>9. CASE Go(ctx, Tail(control), Raise(TooDeep))
  <2>1. TooDeep.kind # "cyclic"
    BY DEF TooDeep, Error
  <2>2. QED
    BY <1>2, <1>4, <1>9, <2>1, PopsReal DEF Raise
<1> HIDE DEF h
<1>10. QED
  BY <1>6, <1>7, <1>8, <1>9

\* What was found joins the values found before.
LEMMA ArgumentValueReal ==
    ASSUME MentionRules, IInv, ReferenceInv, ArgumentValue
    PROVE  ReferenceInv'
<1> DEFINE h == Head(control)
           v == now.value
<1>1. AtArguments /\ now.is = "value"
  BY DEF ArgumentValue, Is
<1>2. /\ control # <<>> /\ Top = h /\ Rest = Tail(control)
      /\ h.at \in {"term", "call"} /\ h.at \notin Bodies \cup {"format"}
      /\ Belongs(catalog, h, ctx.path) /\ h.todo # <<>>
  BY <1>1, AtArgumentsTop DEF Waits
<1>3. Real(catalog, ctx.errors) /\ DOMAIN ctx = Fields /\ IsSeq(control)
  BY AtWalk
<1>4. PICK d : d \in {ctx, Exit(ctx)} /\ Go(d, <<Got(h, v)>> \o Tail(control), Run)
  BY <1>2 DEF ArgumentValue, Step
<1>5. d.path = ctx.path /\ Real(catalog, d.errors)
  BY <1>3, <1>4, RealOps
<1>6. PICK P : Walks(catalog, ctx, control, P)
  BY AtWalk
<1> HIDE DEF h, v
<1>7. Belongs(catalog, Got(h, v), ctx.path) /\ Got(h, v).at = h.at
  BY <1>2, FramesGoOn
<1>8. QED
  BY <1>2, <1>3, <1>4, <1>5, <1>6, <1>7, GoesOnReal DEF h

\* A term's pattern starts; the reference to it was in the pattern before.
LEMMA EnterTermReal ==
    ASSUME MentionRules, IInv, ReferenceInv, EnterTerm
    PROVE  ReferenceInv'
<1> DEFINE h == Head(control)
           e == h.expr
           t == Tail(control)
           x == Error("positional", e.key)
           b == IF e.positional = <<>> THEN ctx ELSE With(ctx, x)
           a == [b EXCEPT !.args = Bound(e, h.got)]
           d == Push(a, e.key)
           f == [at |-> "body", args |-> ctx.args]
<1>1. AtArguments /\ now.is = "run" /\ h.at = "term"
  BY DEF EnterTerm, AtArguments, At, Is, Top
<1>2. /\ control # <<>> /\ Top = h /\ Rest = t
      /\ h.at \notin Bodies \cup {"format"} /\ Belongs(catalog, h, ctx.path)
  BY <1>1, AtArgumentsTop
<1>3. StartPattern(d, catalog[e.key], <<f>> \o t)
  BY <1>2 DEF EnterTerm
<1>4. Real(catalog, ctx.errors) /\ DOMAIN ctx = Fields /\ IsSeq(control)
  BY AtWalk
<1>5. x.kind # "cyclic" /\ f.at = "body"
  BY DEF Error
<1> HIDE DEF x, f
<1>6. DOMAIN b = Fields /\ b.path = ctx.path /\ Real(catalog, b.errors)
  <2>1. DOMAIN With(ctx, x) = Fields /\ With(ctx, x).path = ctx.path /\ Real(catalog, With(ctx, x).errors)
    BY <1>4, <1>5, RealWith
  <2>2. QED
    BY <1>4, <2>1
<1> HIDE DEF b
<1>7. DOMAIN a = Fields /\ a.path = ctx.path /\ a.errors = b.errors
  BY <1>6, RealOps
<1> HIDE DEF a
<1>8. DOMAIN d = Fields /\ d.path = Append(ctx.path, e.key) /\ Real(catalog, d.errors)
  <2> HIDE DEF e, h
  <2>1. DOMAIN Push(a, e.key) = Fields /\ Push(a, e.key).path = Append(a.path, e.key)
        /\ Push(a, e.key).errors = a.errors
    BY <1>7, RealOps
  <2>2. QED
    BY <1>6, <1>7, <2>1
<1> HIDE DEF d
<1>9. PICK P : Walks(catalog, ctx, control, P)
  BY AtWalk
<1>10. /\ t # <<>> => Waits(Head(t))
       /\ Walks(catalog, ctx, t, Tail(P))
  BY <1>2, <1>4, <1>9, WalkBack
<1>11. IsSeq(t)
  BY <1>2, <1>4, Decompose
<1>12. e.key \in References(catalog, Last(ctx.path)) /\ catalog[e.key] # NoPattern
  BY <1>1, <1>2 DEF Belongs
<1>13. Chained(catalog, ctx.path)
  BY <1>4, <1>9, AlongIsChained DEF Walks
<1>14. d.path # <<>> /\ Last(d.path) = e.key
  BY <1>8, <1>12, <1>13, ChainGrows
<1> HIDE DEF e, t, h
<1>15. Belongs(catalog, f, d.path) /\ Waits(f) /\ f.at \in Bodies
  BY <1>5 DEF Belongs, Waits, Bodies
<1>16. Walks(catalog, d, <<f>> \o t, <<d.path>> \o Tail(P))
  <2>1. f.at \in Bodies /\ \E k : /\ d.path = Append(ctx.path, k) /\ catalog[k] # NoPattern
                                  /\ ctx.path # <<>> => k \in References(catalog, Last(ctx.path))
    BY <1>8, <1>12, <1>15
  <2> DEFINE Q == Tail(P)
  <2> HIDE DEF Q
  <2>2. Walks(catalog, ctx, t, Q)
    BY <1>10 DEF Q
  <2>3. Walks(catalog, d, <<f>> \o t, <<d.path>> \o Q)
    BY <1>8, <1>10, <1>11, <1>15, <2>1, <2>2, WalkOn
  <2>4. QED
    BY <2>3 DEF Q
<1>17. IsSeq(<<f>> \o t) /\ Head(<<f>> \o t) = f
  BY <1>11, ConsSeq
<1>18. Near(catalog, d.path, MentionedIn(catalog[e.key]))
  BY <1>14 DEF Near
<1>19. QED
  BY <1>3, <1>8, <1>15, <1>16, <1>17, <1>18, StartsReal

\* A selection mentions what its variants mention.
LEMMA VariantMentions ==
    ASSUME MentionRules, NEW e, e.form = "select"
    PROVE  MentionedIn(e.other) \subseteq Mentions(e)
           /\ \A v : MentionedIn(Variant(e, v)) \subseteq Mentions(e)
<1>1. MentionedIn(e.other) \subseteq Mentions(e)
  BY DEF MentionRules
<1>2. ASSUME NEW v \in DOMAIN e.variants PROVE MentionedIn(e.variants[v]) \subseteq Mentions(e)
  <2>1. UNION {MentionedIn(p) : p \in {e.variants[w] : w \in DOMAIN e.variants}} \subseteq Mentions(e)
    BY DEF MentionRules
  <2>2. MentionedIn(e.variants[v]) \in {MentionedIn(p) : p \in {e.variants[w] : w \in DOMAIN e.variants}}
    OBVIOUS
  <2>3. QED
    BY <2>1, <2>2
<1>3. QED
  BY <1>1, <1>2 DEF Variant

\* What returns or raises under a guard leaves it.
LEMMA GuardedReal ==
    ASSUME MentionRules, IInv, ReferenceInv,
           \/ LeaveNest \/ ArgumentRaises \/ SelectorValue \/ SelectorRaises
           \/ FunctionReturns \/ FunctionFloat \/ FunctionRefuses \/ FunctionFails
    PROVE  ReferenceInv'
<1> DEFINE c == Exit(ctx)
           h == Head(control)
           t == Tail(control)
<1>1. /\ control # <<>> /\ h.at \in {"nest", "term", "call", "select"} /\ Top = h /\ Rest = t
  BY DEF LeaveNest, ArgumentRaises, SelectorValue, SelectorRaises, FunctionReturns,
     FunctionFloat, FunctionRefuses, FunctionFails, Applies, AtArguments, At, Top, Rest
<1>2. Real(catalog, ctx.errors) /\ DOMAIN ctx = Fields /\ IsSeq(control)
  BY AtWalk
<1>3. h.at \notin Bodies \cup {"format"} /\ Belongs(catalog, h, ctx.path) /\ (t # <<>> => Waits(Head(t)))
  BY <1>1, TopBelongs DEF Bodies
<1>4. PICK P : Walks(catalog, ctx, control, P) /\ Leads(catalog, ctx.path, now, control)
  BY AtWalk
<1>5. DOMAIN c = Fields /\ c.path = ctx.path /\ Real(catalog, c.errors)
  BY <1>2, RealOps
<1> HIDE DEF c
<1>6. ASSUME NEW n, n.is = "value" \/ (n.is = "raise" /\ n.error.kind # "cyclic"), Go(c, t, n)
      PROVE  ReferenceInv'
  BY <1>1, <1>3, <1>5, <1>6, PopsReal
<1>7. now.is = "raise" => now.error.kind # "cyclic"
  BY <1>4 DEF Leads
<1>8. IsSeq(t)
  BY <1>1, <1>2, Decompose
<1>9. ASSUME NEW d, DOMAIN d = Fields, d.path = ctx.path, Real(catalog, d.errors), h.at = "select",
             NEW p, MentionedIn(p) \subseteq Mentions(h.expr), StartPattern(d, p, t)
      PROVE  ReferenceInv'
  <2> HIDE DEF h
  <2>1. Near(catalog, d.path, MentionedIn(p))
    BY <1>3, <1>9 DEF Belongs, Near
  <2>2. Walks(catalog, d, t, Tail(P))
    BY <1>1, <1>2, <1>3, <1>4, <1>9, WalkBack DEF h
  <2>3. QED
    BY <1>3, <1>8, <1>9, <2>1, <2>2, StartsReal
<1>10. CASE LeaveNest \/ ArgumentRaises
  <2>1. Go(c, t, now) /\ now.is \in {"value", "raise"}
    BY <1>1, <1>10 DEF LeaveNest, ArgumentRaises, Is, Step, c
  <2>2. QED
    BY <1>6, <1>7, <2>1
<1>11. CASE FunctionReturns \/ FunctionFloat \/ FunctionRefuses
  <2>1. Error("function", "").kind # "cyclic"
    BY DEF Error
  <2>2. Go(c, t, Value(Joined(h.got))) \/ Go(c, t, Value(Float)) \/ Go(c, t, Raise(Error("function", "")))
    <3>1. CASE FunctionReturns
      BY <1>1, <3>1 DEF FunctionReturns, Step, c
    <3>2. CASE FunctionFloat
      BY <1>1, <3>2 DEF FunctionFloat, Step, c
    <3>3. CASE FunctionRefuses
      BY <1>1, <3>3 DEF FunctionRefuses, Step, c
    <3>4. QED
      BY <1>11, <3>1, <3>2, <3>3
  <2>3. ASSUME NEW v, Go(c, t, Value(v)) PROVE ReferenceInv'
    BY <1>6, <2>3 DEF Value
  <2>4. ASSUME Go(c, t, Raise(Error("function", ""))) PROVE ReferenceInv'
    BY <1>6, <2>1, <2>4 DEF Raise
  <2>5. QED
    BY <2>2, <2>3, <2>4
<1>12. CASE FunctionFails
  <2> DEFINE e == Error("failed", "")
  <2>1. Go(With(c, e), t, Value(Lost)) /\ e.kind # "cyclic"
    BY <1>1, <1>12 DEF FunctionFails, Step, Error, c
  <2> HIDE DEF e
  <2>2. With(c, e).path = ctx.path /\ Real(catalog, With(c, e).errors)
    BY <1>5, <2>1, RealWith
  <2>3. QED
    BY <1>1, <1>3, <2>1, <2>2, PopsReal DEF Value
<1>13. CASE SelectorValue
  <2>1. h.at = "select"
    BY <1>1, <1>13 DEF SelectorValue, At
  <2>2. CASE now.value = Float
    <3>1. Go(c, t, Raise(Error("float", ""))) /\ Error("float", "").kind # "cyclic"
      BY <1>1, <1>13, <2>2 DEF SelectorValue, Error, c
    <3>2. QED
      BY <1>6, <3>1 DEF Raise
  <2>3. CASE now.value # Float
    <3>1. StartPattern(c, Variant(h.expr, now.value), t)
      BY <1>1, <1>13, <2>3 DEF SelectorValue, c
    <3>2. MentionedIn(Variant(h.expr, now.value)) \subseteq Mentions(h.expr)
      BY <1>3, <2>1, VariantMentions DEF Belongs
    <3>3. QED
      BY <1>5, <1>9, <2>1, <3>1, <3>2
  <2>4. QED
    BY <2>2, <2>3
<1>14. CASE SelectorRaises
  <2>1. h.at = "select" /\ StartPattern(With(c, now.error), h.expr.other, t) /\ now.is = "raise"
    BY <1>1, <1>14 DEF SelectorRaises, At, Is, c
  <2>2. /\ DOMAIN With(c, now.error) = Fields /\ With(c, now.error).path = ctx.path
        /\ Real(catalog, With(c, now.error).errors)
    BY <1>5, <1>7, <2>1, RealWith
  <2>3. MentionedIn(h.expr.other) \subseteq Mentions(h.expr)
    BY <1>3, <2>1, VariantMentions DEF Belongs
  <2>4. QED
    BY <1>9, <2>1, <2>2, <2>3
<1>15. QED
  BY <1>10, <1>11, <1>12, <1>13, <1>14

\* A message's or a term's pattern is done.
LEMMA BodiesReal ==
    ASSUME IInv, ReferenceInv, LeaveMessage \/ LeaveTerm
    PROVE  ReferenceInv'
<1> DEFINE h == Head(control)
           t == Tail(control)
<1>1. /\ control # <<>> /\ h.at \in Bodies /\ Top = h /\ Rest = t /\ now.is = "value"
  BY DEF LeaveMessage, LeaveTerm, At, Is, Top, Rest, Bodies
<1>2. Real(catalog, ctx.errors) /\ DOMAIN ctx = Fields
  BY AtWalk
<1> DEFINE p == Pop(ctx)
<1>3. DOMAIN p = Fields /\ p.path = Front(ctx.path) /\ p.errors = ctx.errors
  BY <1>2, RealOps
<1> HIDE DEF p
<1>4. \A a : [p EXCEPT !.args = a].path = p.path /\ [p EXCEPT !.args = a].errors = p.errors
  BY <1>3, RealOps
<1>5. \E d : d.path = p.path /\ d.errors = p.errors /\ Go(d, t, now)
  <2>1. CASE LeaveMessage
    <3>1. Go(p, t, now)
      BY <1>1, <2>1 DEF LeaveMessage, p
    <3>2. QED
      BY <3>1
  <2>2. CASE LeaveTerm
    BY <1>1, <1>4, <2>2 DEF LeaveTerm, Step, p
  <2>3. QED
    BY <2>1, <2>2
<1>6. QED
  BY <1>1, <1>2, <1>3, <1>5, PopsReal

\* A message's pattern starts; the reference to it was in the pattern before, if any.
LEMMA ResolveMessageReal ==
    ASSUME IInv, ReferenceInv, ResolveMessage
    PROVE  ReferenceInv'
<1> DEFINE k == now.key
           d == Push(ctx, k)
           f == [at |-> "message", global |-> global]
<1>1. now.is = "resolve" /\ Refusal(k) = {} /\ StartPattern(d, catalog[k], <<f>> \o control)
  BY DEF ResolveMessage, Is
<1>2. Real(catalog, ctx.errors) /\ DOMAIN ctx = Fields /\ IsSeq(control)
  BY AtWalk
<1>3. PICK P : Walks(catalog, ctx, control, P) /\ Leads(catalog, ctx.path, now, control)
  BY AtWalk
<1>4. /\ ctx.path # <<>> => k \in References(catalog, Last(ctx.path))
      /\ control # <<>> => Waits(Head(control))
  BY <1>1, <1>3 DEF Leads
<1>5. catalog[k] # NoPattern
  BY <1>1 DEF Refusal
<1> HIDE DEF k
<1>6. DOMAIN d = Fields /\ d.path = Append(ctx.path, k) /\ Real(catalog, d.errors)
  <2>1. DOMAIN d = Fields /\ d.path = Append(ctx.path, k) /\ d.errors = ctx.errors
    BY <1>2, RealOps
  <2>2. QED
    BY <1>2, <2>1
<1>7. Belongs(catalog, f, d.path) /\ Waits(f) /\ f.at \in Bodies
  BY DEF Belongs, Waits, Bodies
<1> HIDE DEF d, f
<1>8. Chained(catalog, ctx.path)
  BY <1>2, <1>3, AlongIsChained DEF Walks
<1>9. d.path # <<>> /\ Last(d.path) = k
  BY <1>4, <1>5, <1>6, <1>8, ChainGrows
<1>10. Walks(catalog, d, <<f>> \o control, <<d.path>> \o P)
  BY <1>2, <1>3, <1>4, <1>5, <1>6, <1>7, WalkOn
<1>11. IsSeq(<<f>> \o control) /\ Head(<<f>> \o control) = f
  BY <1>2, ConsSeq
<1>12. Near(catalog, d.path, MentionedIn(catalog[k]))
  BY <1>9 DEF Near
<1>13. QED
  BY <1>1, <1>6, <1>7, <1>10, <1>11, <1>12, StartsReal

\* At first nothing is in progress and nothing reported.
LEMMA InitReferenceInv == Init => ReferenceInv
<1> SUFFICES ASSUME Init PROVE ReferenceInv
  OBVIOUS
<1>1. Real(catalog, <<>>) /\ IsSeq(<<>>) /\ DOMAIN <<>> = {}
  BY EmptyIsSeq DEF Real
<1>2. Walks(catalog, Fresh, <<>>, <<>>)
  BY <1>1, HungNothing DEF Walks, Fresh
<1>3. Leads(catalog, Fresh.path, Idle, <<>>)
  BY DEF Leads, Idle
<1>4. ctx = Fresh /\ control = <<>> /\ now = Idle /\ cache = {} /\ answers = <<>>
  BY DEF Init
<1>5. QED
  BY <1>1, <1>2, <1>3, <1>4 DEF ReferenceInv

\* One more result.
LEMMA AnswersAreReal ==
    ASSUME NEW r, NEW xs, IsSeq(xs), \A i \in DOMAIN xs : Real(r, xs[i].errors), NEW x, Real(r, x.errors)
    PROVE  IsSeq(Append(xs, x)) /\ \A i \in DOMAIN Append(xs, x) : Real(r, Append(xs, x)[i].errors)
<1>1. /\ IsSeq(Append(xs, x)) /\ Len(xs) \in Nat
      /\ DOMAIN xs = 1 .. Len(xs) /\ DOMAIN Append(xs, x) = 1 .. (Len(xs) + 1)
      /\ Append(xs, x)[Len(xs) + 1] = x
      /\ \A i \in 1 .. Len(xs) : Append(xs, x)[i] = xs[i]
  BY AppendSeq
<1>2. ASSUME NEW i \in DOMAIN Append(xs, x) PROVE Real(r, Append(xs, x)[i].errors)
  <2>1. CASE i = Len(xs) + 1
    BY <1>1, <2>1
  <2>2. CASE i # Len(xs) + 1
    <3>1. i \in DOMAIN xs /\ Append(xs, x)[i] = xs[i]
      BY <1>1, <2>2
    <3>2. QED
      BY <3>1
  <2>3. QED
    BY <2>1, <2>2
<1>3. QED
  BY <1>1, <1>2

\* Nothing happens, or the cache loses results.
LEMMA UntouchedReal ==
    ASSUME ReferenceInv, cache' \subseteq cache, UNCHANGED <<catalog, ctx, control, now, answers>>
    PROVE  ReferenceInv'
<1>1. PICK P : Walks(catalog, ctx, control, P) /\ Leads(catalog, ctx.path, now, control)
  BY DEF ReferenceInv
<1>2. /\ catalog' = catalog /\ ctx' = ctx /\ control' = control /\ now' = now
      /\ IsSeq(answers') /\ \A i \in DOMAIN answers' : Real(catalog, answers'[i].errors)
      /\ \A x \in cache' : Real(catalog, x.errors)
  BY DEF ReferenceInv
<1>3. QED
  BY <1>1, <1>2, LandsReal

\* A format call begins with an empty path, and saves the one it interrupts.
LEMMA BeginsReal ==
    ASSUME ReferenceInv, NEW c, NEW s, IsSeq(s), NEW P, Walks(catalog, c, s, P),
           s # <<>> => Waits(Head(s)), NEW k, Begin(k, c, s)
    PROVE  ReferenceInv'
<1> DEFINE f == [at |-> "format", key |-> k, saved |-> c]
<1>1. Go(Fresh, <<f>> \o s, Resolve(k))
  BY DEF Begin, Step
<1>2. f.at = "format" /\ f.saved = c
  OBVIOUS
<1> HIDE DEF f
<1>3. Real(catalog, Fresh.errors) /\ Fresh.path = <<>>
  BY EmptyIsSeq DEF Real, Fresh
<1>4. Belongs(catalog, f, Fresh.path) /\ Waits(f)
  BY <1>2 DEF Belongs, Waits
<1>5. Real(catalog, c.errors)
  BY DEF Walks
<1>6. Walks(catalog, Fresh, <<f>> \o s, <<Fresh.path>> \o P)
  BY <1>2, <1>3, <1>4, <1>5, WalkOn
<1>7. Head(<<f>> \o s) = f
  BY ConsSeq
<1> DEFINE t == <<f>> \o s
<1> HIDE DEF t
<1>8. Leads(catalog, Fresh.path, Resolve(k), t)
  BY <1>3, <1>4, <1>7 DEF Leads, Resolve, t
<1>9. QED
  BY <1>1, <1>6, <1>8, GoesReal DEF t

\* A nested format call has its result, and the interrupted one its path again.
LEMMA NestedReal ==
    ASSUME NEW c, DOMAIN c = Fields, NEW s, NEW P, Walks(catalog, c, s, P), s # <<>> => Waits(Head(s)),
           NEW x, Nested(x, c, s), catalog' = catalog,
           IsSeq(answers'), \A i \in DOMAIN answers' : Real(catalog, answers'[i].errors),
           \A y \in cache' : Real(catalog, y.errors)
    PROVE  ReferenceInv'
<1> DEFINE e == Error("failed", "")
<1>1. Real(catalog, c.errors) /\ e.kind # "cyclic"
  BY DEF Walks, Error
<1>2. /\ control' = s /\ ctx' \in {c, With(c, e)}
      /\ now' \in {Value(Lost), Value(x.out)}
  BY DEF Nested
<1> HIDE DEF e
<1>3. With(c, e).path = c.path /\ Real(catalog, With(c, e).errors)
  BY <1>1, RealWith
<1>4. \A d \in {c, With(c, e)} : Walks(catalog, d, s, P)
  BY <1>3 DEF Walks
<1>5. \A v, p : Leads(catalog, p, Value(v), s)
  BY DEF Leads, Value
<1>6. PICK d \in {c, With(c, e)} : ctx' = d
  BY <1>2
<1>7. PICK v : now' = Value(v)
  BY <1>2
<1>8. QED
  BY <1>2, <1>4, <1>5, <1>6, <1>7, LandsReal

\* Calls from outside.
LEMMA FormatReal ==
    ASSUME IInv, ReferenceInv, NEW k, Format(k)
    PROVE  ReferenceInv'
<1>1. control = <<>> /\ Begin(k, Fresh, <<>>)
  BY DEF Format, IInv, NowInv
<1>2. IsSeq(<<>>) /\ Walks(catalog, Fresh, <<>>, <<>>)
  BY EmptyIsSeq, HungNothing DEF Walks, Fresh, Real
<1>3. QED
  BY <1>1, <1>2, BeginsReal

\* A result from the cache.
LEMMA FormatHitReal ==
    ASSUME ReferenceInv, NEW k, FormatHit(k)
    PROVE  ReferenceInv'
<1>1. PICK x \in cache : answers' = Append(answers, x)
  BY DEF FormatHit, Hits
<1>2. IsSeq(answers') /\ \A i \in DOMAIN answers' : Real(catalog, answers'[i].errors)
  BY <1>1, AnswersAreReal DEF ReferenceInv
<1>3. PICK P : Walks(catalog, ctx, control, P) /\ Leads(catalog, ctx.path, now, control)
  BY DEF ReferenceInv
<1>4. catalog' = catalog /\ ctx' = ctx /\ control' = control /\ now' = now /\ cache' = cache
  BY DEF FormatHit
<1>5. \A y \in cache' : Real(catalog, y.errors)
  BY <1>4 DEF ReferenceInv
<1>6. QED
  BY <1>2, <1>3, <1>4, <1>5, LandsReal

\* A custom function formats a message, from the cache or not.
LEMMA FunctionFormatsReal ==
    ASSUME IInv, ReferenceInv, FunctionFormats
    PROVE  ReferenceInv'
<1> DEFINE c == Exit(ctx)
           t == Tail(control)
           k == Head(control).expr.of
<1>1. control # <<>> /\ Head(control).at = "call" /\ Top = Head(control) /\ Rest = t
  BY DEF FunctionFormats, Applies, At, Top, Rest
<1>2. Real(catalog, ctx.errors) /\ DOMAIN ctx = Fields /\ IsSeq(control)
  BY AtWalk
<1>3. PICK P : Walks(catalog, ctx, control, P)
  BY AtWalk
<1>4. DOMAIN c = Fields /\ c.path = ctx.path /\ Real(catalog, c.errors)
  BY <1>2, RealOps
<1> HIDE DEF c
<1>5. Walks(catalog, c, t, Tail(P)) /\ (t # <<>> => Waits(Head(t)))
  <2>1. Head(control).at \notin Bodies \cup {"format"}
    BY <1>1 DEF Bodies
  <2>2. QED
    BY <1>1, <1>2, <1>3, <1>4, <2>1, WalkBack
<1>6. IsSeq(t)
  BY <1>1, <1>2, Decompose
<1>7. CASE Hits(k) = {}
  <2>1. Begin(k, c, t)
    BY <1>1, <1>7 DEF FunctionFormats, c
  <2> HIDE DEF k, t
  <2>2. QED
    BY <1>5, <1>6, <2>1, BeginsReal
<1>8. CASE Hits(k) # {}
  <2>1. PICK x \in Hits(k) : Nested(x, c, t)
    BY <1>1, <1>8 DEF FunctionFormats, c
  <2>2. catalog' = catalog /\ cache' = cache /\ answers' = answers
    BY <1>1, <1>8 DEF FunctionFormats
  <2>3. /\ IsSeq(answers') /\ \A i \in DOMAIN answers' : Real(catalog, answers'[i].errors)
        /\ \A y \in cache' : Real(catalog, y.errors)
    BY <2>2 DEF ReferenceInv
  <2> HIDE DEF k, t
  <2>4. QED
    BY <1>4, <1>5, <2>1, <2>2, <2>3, NestedReal
<1>9. QED
  BY <1>7, <1>8

\* A format call is done, and the result is recorded.
LEMMA EndFormatReal ==
    ASSUME IInv, ReferenceInv, EndFormat
    PROVE  ReferenceInv'
<1> DEFINE h == Head(control)
           t == Tail(control)
           x == [key |-> h.key, out |-> now.value, errors |-> ctx.errors]
           c == h.saved
<1>1. /\ control # <<>> /\ h.at = "format" /\ Top = h /\ Rest = t /\ catalog' = catalog
      /\ cache' = IF Caching THEN (cache \ Hits(x.key)) \cup {x} ELSE cache
      /\ IF t = <<>>
           THEN answers' = Append(answers, x) /\ ctx' = Fresh /\ control' = <<>> /\ now' = Idle
           ELSE Nested(x, c, t) /\ answers' = answers
  BY DEF EndFormat, At, Is, Top, Rest
<1>2. Real(catalog, ctx.errors) /\ IsSeq(control)
  BY AtWalk
<1>3. Real(catalog, x.errors)
  BY <1>2
<1>4. PICK P : Walks(catalog, ctx, control, P)
  BY AtWalk
<1>5. Walks(catalog, c, t, Tail(P)) /\ (t # <<>> => Waits(Head(t)))
  BY <1>1, <1>2, <1>4, WalkBack
<1>6. DOMAIN c = Fields
  <2>1. Fit(h, t)
    BY <1>1, AtHand, StackTop
  <2>2. QED
    BY <1>1, <2>1 DEF Fit, Fits
<1> HIDE DEF x
<1>7. \A y \in cache' : Real(catalog, y.errors)
  BY <1>1, <1>3 DEF ReferenceInv
<1>8. CASE t = <<>>
  <2>1. IsSeq(answers') /\ \A i \in DOMAIN answers' : Real(catalog, answers'[i].errors)
    BY <1>1, <1>3, <1>8, AnswersAreReal DEF ReferenceInv
  <2>2. Walks(catalog, Fresh, <<>>, <<>>)
    BY EmptyIsSeq, HungNothing DEF Walks, Fresh, Real
  <2>3. Leads(catalog, Fresh.path, Idle, <<>>)
    BY DEF Leads, Idle
  <2>4. QED
    BY <1>1, <1>7, <1>8, <2>1, <2>2, <2>3, LandsReal
<1>9. CASE t # <<>>
  <2>1. Nested(x, c, t) /\ answers' = answers
    BY <1>1, <1>9
  <2>2. IsSeq(answers') /\ \A i \in DOMAIN answers' : Real(catalog, answers'[i].errors)
    BY <2>1 DEF ReferenceInv
  <2> HIDE DEF c, t
  <2>3. QED
    BY <1>1, <1>5, <1>6, <1>7, <2>1, <2>2, NestedReal
<1>10. QED
  BY <1>8, <1>9

\* Each step keeps ReferenceInv.
LEMMA NextReferenceInv == MentionRules /\ IInv /\ ReferenceInv /\ [Next]_vars => ReferenceInv'
<1> SUFFICES ASSUME MentionRules, IInv, ReferenceInv, [Next]_vars PROVE ReferenceInv'
  OBVIOUS
<1>1. CASE EndFormat
  BY <1>1, EndFormatReal
<1>2. CASE ResolveMessage
  BY <1>2, ResolveMessageReal
<1>3. CASE LeaveMessage \/ LeaveTerm
  BY <1>3, BodiesReal
<1>4. CASE EndPattern \/ Text \/ Placeable
  BY <1>4, PatternReal
<1>5. CASE PlaceableValue \/ PlaceableRaises
  BY <1>5, PlaceableReal
<1>6. CASE Literal \/ Variable \/ MessageReference \/ ResolveRefused
  BY <1>6, AnswersReal
<1>7. CASE Nest \/ Call \/ Select
  BY <1>7, GuardsReal
<1>8. CASE TermReference
  BY <1>8, TermReferenceReal
<1>9. CASE EnterTerm
  BY <1>9, EnterTermReal
<1>10. CASE NextArgument
  BY <1>10, NextArgumentReal
<1>11. CASE ArgumentValue
  BY <1>11, ArgumentValueReal
<1>12. CASE \/ LeaveNest \/ ArgumentRaises \/ SelectorValue \/ SelectorRaises
            \/ FunctionReturns \/ FunctionFloat \/ FunctionRefuses \/ FunctionFails
  BY <1>12, GuardedReal
<1>13. CASE FunctionFormats
  BY <1>13, FunctionFormatsReal
<1>14. ASSUME NEW k, Format(k) PROVE ReferenceInv'
  BY <1>14, FormatReal
<1>15. ASSUME NEW k, FormatHit(k) PROVE ReferenceInv'
  BY <1>15, FormatHitReal
<1>16. CASE ClearCache
  BY <1>16, UntouchedReal DEF ClearCache
<1>17. CASE UNCHANGED vars
  BY <1>17, UntouchedReal DEF vars
<1>18. CASE Resolving
  BY <1>1, <1>2, <1>3, <1>4, <1>5, <1>6, <1>7, <1>8, <1>9, <1>10, <1>11, <1>12, <1>13, <1>18
     DEF Resolving
<1>19. QED
  BY <1>14, <1>15, <1>16, <1>17, <1>18 DEF Next

\* For every resource, limit and mode: a cyclic reference is only reported for a key
\* whose references lead back to it, along patterns, arguments and variants.  Two
\* references to one message side by side, a reference after one that failed or was
\* cut short, and a message that a custom function formats anew are never taken for
\* a cycle.
THEOREM RealCycles == ASSUME MentionRules PROVE Spec => []CyclesAreReal
<1>1. ReferenceInv => CyclesAreReal
  BY DEF ReferenceInv, Real, CyclesAreReal
<1>2. Init => ReferenceInv
  BY InitReferenceInv
<1>3. IInv /\ ReferenceInv /\ [Next]_vars => ReferenceInv'
  BY NextReferenceInv
<1>4. QED
  BY <1>1, <1>2, <1>3, Invariance, PTL DEF Spec
=============================================================================
