------------------------- MODULE IntegrityCacheProofs -------------------------
(***************************************************************************)
(* Proofs about IntegrityCache, for any keys, contents, sizes, modes and   *)
(* number of calls: no mixture of calls and no single memory fault makes a *)
(* hit return another key's or an outdated content, the counters add up,   *)
(* the audit log explains the cache, and write-once entries stay.          *)
(***************************************************************************)
EXTENDS IntegrityCache, FiniteSetTheorems, SequenceTheorems, WellFoundedInduction, TLAPS

\* What the key digests are trusted for where memory may fail: keys that print
\* alike are equal.
PrintsTellKeys ==
    \A m \in Modes : m.faulty =>
        \A r, s \in m.requests : r.key # NoKey /\ s.key # NoKey /\ r.printed = s.printed =>
            r.key = s.key

\* What "exact" says of a request: its key and how that prints tell what
\* formatting makes of the arguments.
KeysTellContents ==
    \A m \in Modes : \A r, s \in m.requests :
        r.exact /\ s.exact /\ r.key # NoKey /\ r.key = s.key /\ r.printed = s.printed =>
            s.gives \subseteq r.gives

Entries == [slot : Keys, content : Contents,
            checksum : [content : Contents, sequence : Nat, printed : {r.printed : r \in Requests}]]
Operations == {"MISS", "CORRUPTION", "HIT", "WRITE_ONCE_IDEMPOTENT", "WRITE_ONCE_CONFLICT",
               "EVICT", "PUT"}
Records == [op : Operations, key : Keys]

TypeOK ==
    /\ mode \in Modes
    /\ cache \in Seq(Entries)
    /\ stats \in [Counters -> Nat]
    /\ auditLog \in Seq(Records)
    /\ tampered \in BOOLEAN /\ cleared \in BOOLEAN /\ dropped \in BOOLEAN
    /\ DOMAIN written = {r.key : r \in mode.requests}
    /\ \A i \in DOMAIN cache : cache[i].slot \in DOMAIN written

Unique(s) == \A i, j \in DOMAIN s : s[i].slot = s[j].slot => i = j
SlotsInv == Unique(cache) /\ Len(cache) <= MaxSize

\* An entry's checksum was made for a request with its key: that of its own
\* slot, unless two entries have changed places.
Sealed(e, s) ==
    /\ s.key # NoKey /\ e.checksum.printed = s.printed
    /\ ~tampered => s.key = e.slot
    /\ s.key = e.slot => /\ e.checksum.content = written[e.slot].content
                         /\ s.exact = written[e.slot].exact
                         /\ e.checksum.content \in s.gives
EntriesInv ==
    /\ tampered => mode.faulty
    /\ \A i \in DOMAIN cache : \E s \in mode.requests : Sealed(cache[i], s)

LogInv == ~cleared /\ ~dropped => LRUOrder = Replayed(auditLog)

IInv == TypeOK /\ SlotsInv /\ CallsAreAccountedFor /\ LogInv
SafeInv == IInv /\ EntriesInv /\ HitsAreGenuine

-----------------------------------------------------------------------------
(* Sequences, and the replay of a log as it grows.                         *)

LEMMA LeastNatural ==
    ASSUME NEW S \in SUBSET Nat, S # {}
    PROVE  \E n \in S : \A m \in S : n <= m
<1>1. PICK n \in S : \A m \in S : <<m, n>> \notin OpToRel(<, Nat)
  BY NatLessThanWellFounded, WFMin
<1>2. \A m \in S : ~(m < n)
  BY <1>1 DEF OpToRel
<1>3. QED
  BY <1>2

LEMMA RemoveAtElements ==
    ASSUME NEW S, NEW s \in Seq(S), NEW k \in 1 .. Len(s)
    PROVE  /\ RemoveAt(s, k) \in Seq(S) /\ Len(RemoveAt(s, k)) = Len(s) - 1
           /\ \A j \in 1 .. (Len(s) - 1) :
                  RemoveAt(s, k)[j] = IF j < k THEN s[j] ELSE s[j + 1]
<1> DEFINE front == SubSeq(s, 1, k - 1)
           back == SubSeq(s, k + 1, Len(s))
<1>1. /\ front \in Seq(S) /\ Len(front) = k - 1
      /\ \A j \in 1 .. (k - 1) : front[j] = s[j]
  BY SubSeqProperties
<1>2. /\ back \in Seq(S) /\ Len(back) = Len(s) - k
      /\ \A j \in 1 .. (Len(s) - k) : back[j] = s[k + j]
  BY SubSeqProperties
<1>3. RemoveAt(s, k) = front \o back
  BY DEF RemoveAt
<1> HIDE DEF front, back
<1>4. /\ front \o back \in Seq(S) /\ Len(front \o back) = Len(s) - 1
      /\ \A j \in 1 .. (Len(s) - 1) :
             (front \o back)[j] = IF j <= k - 1 THEN front[j] ELSE back[j - (k - 1)]
  <2>1. Len(front) + Len(back) = Len(s) - 1
    BY <1>1, <1>2
  <2>2. /\ front \o back \in Seq(S) /\ Len(front \o back) = Len(front) + Len(back)
        /\ \A j \in 1 .. (Len(front) + Len(back)) :
               (front \o back)[j] = IF j <= Len(front) THEN front[j] ELSE back[j - Len(front)]
    BY <1>1, <1>2, ConcatProperties
  <2>3. QED
    BY <1>1, <2>1, <2>2
<1>5. ASSUME NEW j \in 1 .. (Len(s) - 1)
      PROVE  (front \o back)[j] = IF j < k THEN s[j] ELSE s[j + 1]
  <2>1. CASE j < k
    BY <1>1, <1>4, <2>1
  <2>2. CASE ~(j < k)
    <3>1. j - (k - 1) \in 1 .. (Len(s) - k) /\ k + (j - (k - 1)) = j + 1
      BY <2>2
    <3>2. QED
      BY <1>2, <1>4, <2>2, <3>1
  <2>3. QED
    BY <2>1, <2>2
<1>6. QED
  BY <1>3, <1>4, <1>5

IsReplay(g, log, n) ==
    g = [i \in 0 .. n |-> IF i = 0 THEN <<>> ELSE Replay(g[i - 1], log[i])]

\* The recursive function that replays a log exists ...
LEMMA ReplayExists ==
    ASSUME NEW log \in Seq(Records), NEW n \in Nat, n <= Len(log)
    PROVE  \E g : IsReplay(g, log, n)
<1> DEFINE Without0 == {m \in Nat : m <= Len(log) /\ ~ \E g : IsReplay(g, log, m)}
<1>1. SUFFICES ASSUME Without0 # {} PROVE FALSE
  OBVIOUS
<1>2. PICK m \in Without0 : \A k \in Without0 : m <= k
  BY <1>1, LeastNatural
<1>3. m # 0
  <2>1. IsReplay([i \in 0 .. 0 |-> <<>>], log, 0)
    BY DEF IsReplay
  <2>2. QED
    BY <2>1
<1>4. PICK g : IsReplay(g, log, m - 1)
  <2>1. m - 1 \in Nat /\ m - 1 <= Len(log) /\ m - 1 \notin Without0
    BY <1>2, <1>3
  <2>2. QED
    BY <2>1
<1>5. IsReplay([i \in 0 .. m |-> IF i = m THEN Replay(g[m - 1], log[m]) ELSE g[i]], log, m)
  BY <1>3, <1>4 DEF IsReplay
<1>6. QED
  BY <1>5

\* ... and is the same on what two logs have in common.
LEMMA ReplaysAgree ==
    ASSUME NEW a \in Seq(Records), NEW b \in Seq(Records), NEW n \in Nat, n <= Len(a), n <= Len(b),
           \A i \in 1 .. n : a[i] = b[i],
           NEW g, IsReplay(g, a, Len(a)), NEW h, IsReplay(h, b, Len(b))
    PROVE  g[n] = h[n]
<1> DEFINE Differ == {m \in Nat : m <= n /\ g[m] # h[m]}
<1>1. SUFFICES ASSUME Differ # {} PROVE FALSE
  OBVIOUS
<1>2. PICK m \in Differ : \A k \in Differ : m <= k
  BY <1>1, LeastNatural
<1>3. g[0] = <<>> /\ h[0] = <<>>
  BY DEF IsReplay
<1>4. m # 0
  BY <1>3
<1>5. g[m - 1] = h[m - 1]
  BY <1>2, <1>4
<1>6. m \in 1 .. n /\ m \in 0 .. Len(a) /\ m \in 0 .. Len(b)
  BY <1>2, <1>4
<1>7. g[m] = Replay(g[m - 1], a[m])
  BY <1>4, <1>6 DEF IsReplay
<1>8. h[m] = Replay(h[m - 1], b[m])
  BY <1>4, <1>6 DEF IsReplay
<1>9. QED
  BY <1>2, <1>5, <1>6, <1>7, <1>8

LEMMA ReplayedIs ==
    ASSUME NEW log \in Seq(Records)
    PROVE  \E g : IsReplay(g, log, Len(log)) /\ Replayed(log) = g[Len(log)]
<1>1. \E g : IsReplay(g, log, Len(log))
  BY ReplayExists
<1>2. IsReplay(CHOOSE g : IsReplay(g, log, Len(log)), log, Len(log))
  BY <1>1
<1>3. Replayed(log) = (CHOOSE g : IsReplay(g, log, Len(log)))[Len(log)]
  BY DEF Replayed, IsReplay
<1>4. QED
  BY <1>2, <1>3

\* Replaying a log that has grown is one more step.
LEMMA ReplayedAppend ==
    ASSUME NEW log \in Seq(Records), NEW x \in Records
    PROVE  Replayed(Append(log, x)) = Replay(Replayed(log), x)
<1> DEFINE more == Append(log, x)
<1>1. more \in Seq(Records) /\ Len(more) = Len(log) + 1 /\ more[Len(log) + 1] = x
  OBVIOUS
<1>2. \A i \in 1 .. Len(log) : log[i] = more[i]
  OBVIOUS
<1> HIDE DEF more
<1>3. PICK g : IsReplay(g, log, Len(log)) /\ Replayed(log) = g[Len(log)]
  BY ReplayedIs
<1>4. PICK h : IsReplay(h, more, Len(more)) /\ Replayed(more) = h[Len(more)]
  BY <1>1, ReplayedIs
<1>5. g[Len(log)] = h[Len(log)]
  BY <1>1, <1>2, <1>3, <1>4, ReplaysAgree
<1>6. h[Len(log) + 1] = Replay(h[Len(log)], more[Len(log) + 1])
  BY <1>1, <1>4 DEF IsReplay
<1>7. QED
  BY <1>1, <1>3, <1>4, <1>5, <1>6 DEF more

LEMMA ReplayedEmpty == Replayed(<<>>) = <<>>
<1>1. <<>> \in Seq(Records) /\ Len(<<>>) = 0
  OBVIOUS
<1>2. PICK g : IsReplay(g, <<>>, Len(<<>>)) /\ Replayed(<<>>) = g[Len(<<>>)]
  BY <1>1, ReplayedIs
<1>3. QED
  BY <1>1, <1>2 DEF IsReplay

-----------------------------------------------------------------------------
(* The ordered dictionary.                                                 *)

OrderOf(s) == [i \in DOMAIN s |-> s[i].slot]

\* What is left of the entries keeps them in order, one per slot.
From(s) ==
    /\ s \in Seq(Entries) /\ Unique(s)
    /\ \A j \in DOMAIN s : \E i \in DOMAIN cache : s[j] = cache[i]

LEMMA OrderIsSeq ==
    ASSUME NEW s \in Seq(Entries)
    PROVE  /\ OrderOf(s) \in Seq(Keys) /\ Len(OrderOf(s)) = Len(s)
           /\ \A j \in 1 .. Len(s) : OrderOf(s)[j] = s[j].slot
<1>1. DOMAIN s = 1 .. Len(s) /\ Len(s) \in Nat
  OBVIOUS
<1>2. \A j \in 1 .. Len(s) : s[j] \in Entries
  OBVIOUS
<1>3. \A j \in 1 .. Len(s) : s[j].slot \in Keys
  BY <1>2 DEF Entries
<1>4. OrderOf(s) \in [1 .. Len(s) -> Keys]
  BY <1>1, <1>3 DEF OrderOf
<1>5. OrderOf(s) \in Seq(Keys) /\ Len(OrderOf(s)) = Len(s)
  BY <1>1, <1>4, SeqDef
<1>6. QED
  BY <1>1, <1>5 DEF OrderOf

LEMMA PlaceOfKey ==
    ASSUME TypeOK, SlotsInv, NEW k \in Cached
    PROVE  /\ Place(k) \in DOMAIN cache /\ cache[Place(k)].slot = k
           /\ \A i \in DOMAIN cache : cache[i].slot = k => i = Place(k)
BY DEF TypeOK, SlotsInv, Unique, Cached, Place

\* Taking a key out of the dictionary, and out of the order of its keys.
LEMMA WithoutKey ==
    ASSUME TypeOK, SlotsInv, NEW k
    PROVE  /\ From(Without(k)) /\ Len(Without(k)) <= Len(cache)
           /\ k \in Cached => Len(Without(k)) = Len(cache) - 1
           /\ \A j \in DOMAIN Without(k) : Without(k)[j].slot # k
           /\ Others(LRUOrder, k) = OrderOf(Without(k))
<1>1. cache \in Seq(Entries) /\ Unique(cache)
  BY DEF TypeOK, SlotsInv
<1>2. CASE k \notin Cached
  <2>1. Without(k) = cache
    BY <1>2 DEF Without
  <2>2. Others(LRUOrder, k) = LRUOrder
    BY <1>2 DEF Others, LRUOrder, Cached
  <2>3. QED
    BY <1>1, <1>2, <2>1, <2>2 DEF From, Cached, OrderOf, LRUOrder
<1>3. CASE k \in Cached
  <2> DEFINE p == Place(k)
             rest == RemoveAt(cache, p)
  <2>1. /\ p \in 1 .. Len(cache) /\ cache[p].slot = k
        /\ \A i \in 1 .. Len(cache) : cache[i].slot = k => i = p
    BY <1>1, <1>3, PlaceOfKey
  <2>2. Without(k) = rest
    BY <1>3 DEF Without
  <2> HIDE DEF p
  <2>3. /\ rest \in Seq(Entries) /\ Len(rest) = Len(cache) - 1
        /\ \A j \in 1 .. (Len(cache) - 1) : rest[j] = IF j < p THEN cache[j] ELSE cache[j + 1]
    BY <1>1, <2>1, RemoveAtElements
  <2> HIDE DEF rest
  <2>4. \A j \in 1 .. Len(rest) : \E i \in 1 .. Len(cache) :
            i = (IF j < p THEN j ELSE j + 1) /\ i # p /\ rest[j] = cache[i]
    BY <1>1, <2>1, <2>3
  <2>5. \A j \in 1 .. Len(rest) : rest[j].slot # k
    BY <2>1, <2>4
  <2>6. Unique(rest)
    <3> SUFFICES ASSUME NEW i \in 1 .. Len(rest), NEW j \in 1 .. Len(rest), rest[i].slot = rest[j].slot
                 PROVE  i = j
      BY <2>3 DEF Unique
    <3>1. (IF i < p THEN i ELSE i + 1) = (IF j < p THEN j ELSE j + 1)
      BY <1>1, <2>4 DEF Unique
    <3>2. QED
      BY <2>1, <3>1
  <2>7. Others(LRUOrder, k) = OrderOf(rest)
    <3>0. LRUOrder = OrderOf(cache)
      BY DEF LRUOrder, OrderOf
    <3>1. LRUOrder \in Seq(Keys) /\ Len(LRUOrder) = Len(cache)
      BY <1>1, <3>0, OrderIsSeq
    <3>2. \A i \in 1 .. Len(cache) : LRUOrder[i] = cache[i].slot
      BY <1>1, <3>0, OrderIsSeq
    <3>3. (CHOOSE i \in DOMAIN LRUOrder : LRUOrder[i] = k) = p
      BY <2>1, <3>1, <3>2
    <3>4. Others(LRUOrder, k) = RemoveAt(LRUOrder, p)
      BY <2>1, <3>1, <3>2, <3>3 DEF Others
    <3>5. /\ RemoveAt(LRUOrder, p) \in Seq(Keys) /\ Len(RemoveAt(LRUOrder, p)) = Len(cache) - 1
          /\ \A j \in 1 .. (Len(cache) - 1) :
                 RemoveAt(LRUOrder, p)[j] = IF j < p THEN LRUOrder[j] ELSE LRUOrder[j + 1]
      BY <2>1, <3>1, RemoveAtElements
    <3>6. /\ OrderOf(rest) \in Seq(Keys) /\ Len(OrderOf(rest)) = Len(cache) - 1
          /\ \A j \in 1 .. (Len(cache) - 1) : OrderOf(rest)[j] = rest[j].slot
      BY <2>3, OrderIsSeq
    <3>7. ASSUME NEW j \in 1 .. (Len(cache) - 1)
          PROVE  RemoveAt(LRUOrder, p)[j] = OrderOf(rest)[j]
      <4>1. Len(cache) \in Nat /\ j \in 1 .. Len(cache) /\ j + 1 \in 1 .. Len(cache)
        BY <1>1
      <4>2. OrderOf(rest)[j] = rest[j].slot
        BY <3>6
      <4>3. CASE j < p
        BY <2>3, <3>2, <3>5, <4>1, <4>2, <4>3
      <4>4. CASE ~(j < p)
        BY <2>3, <3>2, <3>5, <4>1, <4>2, <4>4
      <4>5. QED
        BY <4>3, <4>4
    <3>8. QED
      BY <3>4, <3>5, <3>6, <3>7, SeqEqual
  <2>8. \A j \in DOMAIN rest : \E i \in DOMAIN cache : rest[j] = cache[i]
    BY <1>1, <2>3, <2>4
  <2>9. From(rest)
    BY <2>3, <2>6, <2>8 DEF From
  <2>10. DOMAIN rest = 1 .. Len(rest) /\ Len(cache) \in Nat
    BY <1>1, <2>3
  <2>11. QED
    BY <1>3, <2>2, <2>3, <2>5, <2>7, <2>9, <2>10
<1>4. QED
  BY <1>2, <1>3

\* Evicting the least recently used entry is taking its key out.
LEMMA TailIsWithout ==
    ASSUME TypeOK, SlotsInv, Len(cache) > 0
    PROVE  cache[1].slot \in Cached /\ Tail(cache) = Without(cache[1].slot)
<1>1. cache \in Seq(Entries) /\ 1 \in DOMAIN cache
  BY DEF TypeOK
<1>2. cache[1].slot \in Cached
  BY <1>1 DEF Cached
<1>3. Place(cache[1].slot) = 1
  BY <1>1, <1>2, PlaceOfKey
<1>4. Without(cache[1].slot) = RemoveAt(cache, 1)
  BY <1>2, <1>3 DEF Without
<1>5. /\ RemoveAt(cache, 1) \in Seq(Entries) /\ Len(RemoveAt(cache, 1)) = Len(cache) - 1
      /\ \A j \in 1 .. (Len(cache) - 1) : RemoveAt(cache, 1)[j] = cache[j + 1]
  <2>1. 1 \in 1 .. Len(cache)
    BY <1>1
  <2>2. /\ RemoveAt(cache, 1) \in Seq(Entries) /\ Len(RemoveAt(cache, 1)) = Len(cache) - 1
        /\ \A j \in 1 .. (Len(cache) - 1) :
               RemoveAt(cache, 1)[j] = IF j < 1 THEN cache[j] ELSE cache[j + 1]
    BY <1>1, <2>1, RemoveAtElements
  <2>3. QED
    BY <2>2
<1>6. /\ Tail(cache) \in Seq(Entries) /\ Len(Tail(cache)) = Len(cache) - 1
      /\ \A j \in 1 .. (Len(cache) - 1) : Tail(cache)[j] = cache[j + 1]
  BY <1>1
<1>7. QED
  BY <1>1, <1>2, <1>4, <1>5, <1>6, SeqEqual

\* Putting an entry at the most recently used end.
LEMMA AppendKey ==
    ASSUME NEW s, From(s), NEW e \in Entries, \A j \in DOMAIN s : s[j].slot # e.slot
    PROVE  /\ Append(s, e) \in Seq(Entries) /\ Len(Append(s, e)) = Len(s) + 1
           /\ Unique(Append(s, e))
           /\ \A j \in DOMAIN Append(s, e) :
                  Append(s, e)[j] = e \/ \E i \in DOMAIN cache : Append(s, e)[j] = cache[i]
           /\ OrderOf(Append(s, e)) = Append(OrderOf(s), e.slot)
<1>1. s \in Seq(Entries) /\ Unique(s)
  BY DEF From
<1>2. /\ Append(s, e) \in Seq(Entries) /\ Len(Append(s, e)) = Len(s) + 1
      /\ \A j \in 1 .. (Len(s) + 1) : Append(s, e)[j] = IF j <= Len(s) THEN s[j] ELSE e
  BY <1>1
<1>3. Unique(Append(s, e))
  BY <1>1, <1>2 DEF Unique
<1>4. \A j \in DOMAIN Append(s, e) :
          Append(s, e)[j] = e \/ \E i \in DOMAIN cache : Append(s, e)[j] = cache[i]
  BY <1>1, <1>2 DEF From
<1>5. OrderOf(Append(s, e)) = Append(OrderOf(s), e.slot)
  <2>1. /\ OrderOf(s) \in Seq(Keys) /\ Len(OrderOf(s)) = Len(s)
        /\ \A j \in 1 .. Len(s) : OrderOf(s)[j] = s[j].slot
    BY <1>1, OrderIsSeq
  <2>2. /\ OrderOf(Append(s, e)) \in Seq(Keys) /\ Len(OrderOf(Append(s, e))) = Len(s) + 1
        /\ \A j \in 1 .. (Len(s) + 1) : OrderOf(Append(s, e))[j] = Append(s, e)[j].slot
    <3> DEFINE more == Append(s, e)
    <3>1. more \in Seq(Entries) /\ Len(more) = Len(s) + 1
      BY <1>2
    <3> HIDE DEF more
    <3>2. /\ OrderOf(more) \in Seq(Keys) /\ Len(OrderOf(more)) = Len(s) + 1
          /\ \A j \in 1 .. (Len(s) + 1) : OrderOf(more)[j] = more[j].slot
      BY <3>1, OrderIsSeq
    <3>3. QED
      BY <3>2 DEF more
  <2>3. Append(OrderOf(s), e.slot) \in Seq(Keys) /\ Len(Append(OrderOf(s), e.slot)) = Len(s) + 1
    BY <2>1 DEF Entries
  <2>4. \A j \in 1 .. (Len(s) + 1) : OrderOf(Append(s, e))[j] = Append(OrderOf(s), e.slot)[j]
    BY <1>1, <1>2, <2>1, <2>2
  <2>5. QED
    BY <2>2, <2>3, <2>4, SeqEqual
<1>6. QED
  BY <1>2, <1>3, <1>4, <1>5

-----------------------------------------------------------------------------
(* What each call does to the entries.                                     *)

LEMMA EntryOfKey ==
    ASSUME TypeOK, SlotsInv, NEW k \in Cached
    PROVE  Entry(k) \in Entries /\ Entry(k).slot = k /\ \E i \in DOMAIN cache : Entry(k) = cache[i]
BY PlaceOfKey DEF TypeOK, Entry

\* What requests and contents are made of.
LEMMA Inputs ==
    ASSUME TypeOK, NEW r \in mode.requests
    PROVE  /\ r \in Requests /\ r.key \in Keys \cup {NoKey} /\ NoKey \notin Keys
           /\ r.gives \subseteq Contents /\ r.key \in DOMAIN written
           /\ mode.strict \in BOOLEAN /\ mode.writeOnce \in BOOLEAN
BY CacheAssumption DEF TypeOK

-----------------------------------------------------------------------------
(* The log and the counters.                                               *)

\* A log that has lost nothing has grown by what was recorded.
LEMMA Logging ==
    ASSUME TypeOK, NEW records \in Seq(Records), Logs(records)
    PROVE  /\ auditLog' \in Seq(Records) /\ dropped' \in BOOLEAN
           /\ ~dropped' => ~dropped /\ auditLog' = auditLog \o records
<1> DEFINE log == auditLog \o records
           excess == IF Len(log) > MaxAudit THEN Len(log) - MaxAudit ELSE 0
<1>1. auditLog \in Seq(Records) /\ dropped \in BOOLEAN /\ MaxAudit \in Nat \ {0}
  BY CacheAssumption DEF TypeOK
<1>2. log \in Seq(Records)
  BY <1>1, ConcatProperties
<1>3. auditLog' = SubSeq(log, excess + 1, Len(log)) /\ dropped' = (dropped \/ excess > 0)
  BY DEF Logs
<1> HIDE DEF log
<1>4. Len(log) \in Nat /\ excess \in Nat
  BY <1>1, <1>2
<1> HIDE DEF excess
<1>5. SubSeq(log, excess + 1, Len(log)) \in Seq(Records)
  BY <1>2, <1>4, SubSeqProperties
<1>6. excess = 0 => SubSeq(log, excess + 1, Len(log)) = log
  BY <1>2, <1>4
<1>7. dropped' \in BOOLEAN
  BY <1>1, <1>3
<1>8. ~dropped' => ~dropped /\ excess = 0
  <2> DEFINE lost == excess > 0
  <2>1. dropped' = (dropped \/ lost)
    BY <1>3
  <2>2. ~lost => excess = 0
    BY <1>4
  <2> HIDE DEF lost
  <2>3. ~dropped' => ~dropped /\ ~lost
    BY <2>1
  <2>4. QED
    BY <2>2, <2>3
<1>9. QED
  BY <1>3, <1>5, <1>6, <1>7, <1>8 DEF log

\* One record is one step of the replay ...
LEMMA LoggingOne ==
    ASSUME TypeOK, NEW x \in Records, Logs(<<x>>)
    PROVE  /\ auditLog' \in Seq(Records) /\ dropped' \in BOOLEAN
           /\ ~dropped' => ~dropped /\ Replayed(auditLog') = Replay(Replayed(auditLog), x)
<1>1. <<x>> \in Seq(Records) /\ auditLog \in Seq(Records)
  BY DEF TypeOK
<1>2. /\ auditLog' \in Seq(Records) /\ dropped' \in BOOLEAN
      /\ ~dropped' => ~dropped /\ auditLog' = auditLog \o <<x>>
  BY <1>1, Logging
<1>3. auditLog \o <<x>> = Append(auditLog, x)
  BY <1>1
<1>4. Replayed(Append(auditLog, x)) = Replay(Replayed(auditLog), x)
  BY <1>1, ReplayedAppend
<1>5. QED
  BY <1>2, <1>3, <1>4

LEMMA AppendToOne ==
    ASSUME NEW x \in Records, NEW y \in Records
    PROVE  Append(<<x>>, y) = <<x, y>>
<1>1. /\ Append(<<x>>, y) \in Seq(Records) /\ Len(Append(<<x>>, y)) = 2
      /\ Append(<<x>>, y)[1] = x /\ Append(<<x>>, y)[2] = y
  BY AppendProperties
<1>2. <<x, y>> \in Seq(Records) /\ Len(<<x, y>>) = 2
  OBVIOUS
<1>3. \A i \in 1 .. 2 : Append(<<x>>, y)[i] = <<x, y>>[i]
  BY <1>1
<1>4. QED
  BY <1>1, <1>2, <1>3, SeqEqual

\* ... and two are two.
LEMMA LoggingTwo ==
    ASSUME TypeOK, NEW x \in Records, NEW y \in Records, Logs(<<x, y>>)
    PROVE  /\ auditLog' \in Seq(Records) /\ dropped' \in BOOLEAN
           /\ ~dropped' => ~dropped
                           /\ Replayed(auditLog') = Replay(Replay(Replayed(auditLog), x), y)
<1>1. <<x, y>> \in Seq(Records) /\ auditLog \in Seq(Records) /\ Append(auditLog, x) \in Seq(Records)
  BY DEF TypeOK
<1>2. /\ auditLog' \in Seq(Records) /\ dropped' \in BOOLEAN
      /\ ~dropped' => ~dropped /\ auditLog' = auditLog \o <<x, y>>
  BY <1>1, Logging
<1>3. auditLog \o <<x, y>> = Append(Append(auditLog, x), y)
  BY <1>1
<1>4. Replayed(Append(auditLog, x)) = Replay(Replayed(auditLog), x)
  BY <1>1, ReplayedAppend
<1>5. Replayed(Append(Append(auditLog, x), y)) = Replay(Replayed(Append(auditLog, x)), y)
  BY <1>1, ReplayedAppend
<1>6. QED
  BY <1>2, <1>3, <1>4, <1>5

LEMMA Counting ==
    ASSUME TypeOK, NEW names, Counts(names)
    PROVE  /\ stats' \in [Counters -> Nat]
           /\ \A c \in Counters :
                  stats'[c] = IF c \in names \/ c = "calls" THEN stats[c] + 1 ELSE stats[c]
BY DEF TypeOK, Counts

Outcomes == {"hits", "misses", "unhashable_skips", "oversize_skips", "error_bloat_skips",
             "combined_weight_skips", "idempotent_writes", "write_once_conflicts", "sequence"}

\* A call that counts one outcome, and a corruption in strict mode, keeps the
\* counters' sum equal to the number of calls.
LEMMA CountsOnce ==
    ASSUME TypeOK, CallsAreAccountedFor, mode' = mode, NEW outcome \in Outcomes, Counts({outcome})
    PROVE  stats' \in [Counters -> Nat] /\ CallsAreAccountedFor'
<1>1. /\ stats \in [Counters -> Nat] /\ stats' \in [Counters -> Nat]
      /\ \A c \in Counters :
             stats'[c] = IF c \in {outcome} \/ c = "calls" THEN stats[c] + 1 ELSE stats[c]
  BY Counting DEF TypeOK
<1>2. QED
  BY <1>1 DEF Outcomes, Counters, Limits, CallsAreAccountedFor, Strict

LEMMA CountsCorruption ==
    ASSUME TypeOK, CallsAreAccountedFor, mode' = mode,
           Counts(IF Strict THEN {"corruption_detected"} ELSE {"corruption_detected", "misses"})
    PROVE  stats' \in [Counters -> Nat] /\ CallsAreAccountedFor'
<1>1. /\ stats \in [Counters -> Nat] /\ stats' \in [Counters -> Nat]
      /\ \A c \in Counters :
             stats'[c] = IF \/ c \in (IF Strict THEN {"corruption_detected"}
                                      ELSE {"corruption_detected", "misses"})
                            \/ c = "calls"
                         THEN stats[c] + 1 ELSE stats[c]
  BY Counting DEF TypeOK
<1>2. CASE Strict
  BY <1>1, <1>2 DEF Counters, Limits, CallsAreAccountedFor, Strict
<1>3. CASE ~Strict
  BY <1>1, <1>3 DEF Counters, Limits, CallsAreAccountedFor, Strict
<1>4. QED
  BY <1>2, <1>3

-----------------------------------------------------------------------------
(* The inductive invariant.                                                *)

LEMMA OrderIsOrder == LRUOrder = OrderOf(cache)
BY DEF LRUOrder, OrderOf

LEMMA InitIInv == Init => IInv
<1> SUFFICES ASSUME Init PROVE IInv
  OBVIOUS
<1>1. TypeOK
  <2>1. mode \in Modes /\ tampered \in BOOLEAN /\ cleared \in BOOLEAN /\ dropped \in BOOLEAN
    BY DEF Init
  <2>2. cache \in Seq(Entries) /\ auditLog \in Seq(Records) /\ DOMAIN cache = {}
    BY DEF Init
  <2>3. stats \in [Counters -> Nat]
    BY DEF Init
  <2>4. DOMAIN written = {r.key : r \in mode.requests}
    BY DEF Init
  <2>5. QED
    BY <2>1, <2>2, <2>3, <2>4 DEF TypeOK
<1>2. SlotsInv
  BY CacheAssumption DEF Init, SlotsInv, Unique
<1>3. CallsAreAccountedFor
  BY DEF Init, CallsAreAccountedFor, Counters, Limits
<1>4. LogInv
  <2>1. LRUOrder \in Seq(Keys) /\ Len(LRUOrder) = 0
    BY <1>1, OrderIsOrder, OrderIsSeq DEF Init, TypeOK
  <2>2. LRUOrder = <<>>
    BY <2>1
  <2>3. QED
    BY <2>2, ReplayedEmpty DEF Init, LogInv
<1>5. QED
  BY <1>1, <1>2, <1>3, <1>4 DEF IInv

\* A call that leaves the dictionary as it is and records nothing.
LEMMA RecordsNothing ==
    ASSUME IInv, UNCHANGED <<mode, cache, auditLog, history>>,
           stats' \in [Counters -> Nat], CallsAreAccountedFor'
    PROVE  IInv'
BY DEF IInv, TypeOK, SlotsInv, LogInv, LRUOrder, Replayed, Replay, Strict, history

\* A call that leaves the dictionary as it is and records what a replay passes over.
LEMMA RecordsOnly ==
    ASSUME IInv, UNCHANGED <<mode, cache, written, tampered, cleared>>,
           NEW x \in Records, Logs(<<x>>), \A order : Replay(order, x) = order,
           stats' \in [Counters -> Nat], CallsAreAccountedFor'
    PROVE  IInv'
<1>1. /\ auditLog' \in Seq(Records) /\ dropped' \in BOOLEAN
      /\ ~dropped' => ~dropped /\ Replayed(auditLog') = Replay(Replayed(auditLog), x)
  BY LoggingOne DEF IInv
<1>2. Replay(Replayed(auditLog), x) = Replayed(auditLog)
  OBVIOUS
<1>3. TypeOK'
  BY <1>1 DEF IInv, TypeOK
<1>4. SlotsInv'
  BY DEF IInv, SlotsInv
<1>5. LogInv'
  <2>1. Replayed(auditLog)' = Replayed(auditLog')
    BY DEF Replayed, Replay, Strict
  <2>2. LRUOrder' = LRUOrder
    BY DEF LRUOrder
  <2>3. QED
    BY <1>1, <1>2, <2>1, <2>2 DEF IInv, LogInv
<1>6. QED
  BY <1>3, <1>4, <1>5 DEF IInv

\* A call that changes the dictionary as the log's replay says.
LEMMA ChangesAsLogged ==
    ASSUME IInv, NEW s \in Seq(Entries), cache' = s, Unique(s), Len(s) <= MaxSize,
           \A i \in DOMAIN s : s[i].slot \in DOMAIN written,
           mode' = mode, DOMAIN written' = DOMAIN written,
           tampered' \in BOOLEAN, cleared' \in BOOLEAN, dropped' \in BOOLEAN,
           auditLog' \in Seq(Records),
           ~cleared' /\ ~dropped' => OrderOf(s) = Replayed(auditLog'),
           stats' \in [Counters -> Nat], CallsAreAccountedFor'
    PROVE  IInv'
<1>1. TypeOK'
  BY DEF IInv, TypeOK
<1>2. SlotsInv'
  BY DEF SlotsInv, Unique
<1>3. LogInv'
  <2>1. Replayed(auditLog)' = Replayed(auditLog')
    BY DEF Replayed, Replay, Strict
  <2>2. LRUOrder' = OrderOf(s)
    BY DEF LRUOrder, OrderOf
  <2>3. QED
    BY <2>1, <2>2 DEF LogInv
<1>4. QED
  BY <1>1, <1>2, <1>3 DEF IInv

\* The record of a call on a cacheable key.
LEMMA RecordIsRecord ==
    ASSUME NEW op \in Operations, NEW k \in Keys
    PROVE  Record(op, k) \in Records /\ Record(op, k).op = op /\ Record(op, k).key = k
BY DEF Record, Records

LEMMA GetMissIInv ==
    ASSUME IInv, NEW r \in mode.requests, r.key # NoKey, GetMiss(r)
    PROVE  IInv'
<1> DEFINE x == Record("MISS", r.key)
<1>1. r.key \in Keys
  BY Inputs DEF IInv
<1>2. x \in Records /\ x.op = "MISS"
  BY <1>1, RecordIsRecord DEF Operations
<1>3. UNCHANGED <<mode, cache, written, tampered, cleared>> /\ Logs(<<x>>) /\ Counts({"misses"})
  BY DEF GetMiss
<1> HIDE DEF x
<1>4. stats' \in [Counters -> Nat] /\ CallsAreAccountedFor'
  <2>1. "misses" \in Outcomes
    BY DEF Outcomes
  <2>2. QED
    BY <1>3, <2>1, CountsOnce DEF IInv
<1>5. \A order : Replay(order, x) = order
  BY <1>2 DEF Replay
<1>6. QED
  BY <1>2, <1>3, <1>4, <1>5, RecordsOnly

LEMMA GetCorruptIInv ==
    ASSUME IInv, NEW r \in mode.requests, r.key # NoKey, GetCorrupt(r)
    PROVE  IInv'
<1> DEFINE x == Record("CORRUPTION", r.key)
<1>1. r.key \in Keys /\ TypeOK /\ SlotsInv
  BY Inputs DEF IInv
<1>2. x \in Records /\ x.op = "CORRUPTION" /\ x.key = r.key
  BY <1>1, RecordIsRecord DEF Operations
<1>3. Logs(<<x>>) /\ UNCHANGED <<mode, written, tampered, cleared>> /\ r.key \in Cached
  BY DEF GetCorrupt
<1> HIDE DEF x
<1>4. CASE Strict
  <2>1. cache' = cache /\ Counts({"corruption_detected"})
    BY <1>4 DEF GetCorrupt
  <2>2. stats' \in [Counters -> Nat] /\ CallsAreAccountedFor'
    BY <1>3, <1>4, <2>1, CountsCorruption DEF IInv
  <2>3. \A order : Replay(order, x) = order
    BY <1>2, <1>4 DEF Replay
  <2>4. QED
    BY <1>2, <1>3, <2>1, <2>2, <2>3, RecordsOnly
<1>5. CASE ~Strict
  <2> DEFINE s == Without(r.key)
  <2>1. cache' = s /\ Counts({"corruption_detected", "misses"})
    BY <1>5 DEF GetCorrupt
  <2>2. stats' \in [Counters -> Nat] /\ CallsAreAccountedFor'
    BY <1>3, <1>5, <2>1, CountsCorruption DEF IInv
  <2>3. /\ s \in Seq(Entries) /\ Unique(s) /\ Len(s) <= Len(cache)
        /\ \A j \in DOMAIN s : \E i \in DOMAIN cache : s[j] = cache[i]
        /\ OrderOf(s) = Others(LRUOrder, r.key)
    BY <1>1, WithoutKey DEF From
  <2> HIDE DEF s
  <2>4. Len(s) <= MaxSize /\ \A i \in DOMAIN s : s[i].slot \in DOMAIN written
    <3>1. Len(s) <= MaxSize
      BY <1>1, <2>3, CacheAssumption DEF TypeOK, SlotsInv
    <3>2. \A i \in DOMAIN s : s[i].slot \in DOMAIN written
      BY <1>1, <2>3 DEF TypeOK
    <3>3. QED
      BY <3>1, <3>2
  <2>5. /\ auditLog' \in Seq(Records) /\ dropped' \in BOOLEAN
        /\ ~dropped' => ~dropped /\ Replayed(auditLog') = Replay(Replayed(auditLog), x)
    BY <1>1, <1>2, <1>3, LoggingOne
  <2>6. Replay(LRUOrder, x) = Others(LRUOrder, r.key)
    BY <1>2, <1>5 DEF Replay
  <2>7. ~cleared' /\ ~dropped' => OrderOf(s) = Replayed(auditLog')
    BY <1>3, <2>3, <2>5, <2>6 DEF IInv, LogInv
  <2>8. tampered' \in BOOLEAN /\ cleared' \in BOOLEAN /\ DOMAIN written' = DOMAIN written
    BY <1>1, <1>3 DEF TypeOK
  <2>9. QED
    BY <1>3, <2>1, <2>2, <2>3, <2>4, <2>5, <2>7, <2>8, ChangesAsLogged
<1>6. QED
  BY <1>4, <1>5

LEMMA GetHitIInv ==
    ASSUME IInv, NEW r \in mode.requests, r.key # NoKey, GetHit(r)
    PROVE  IInv'
<1> DEFINE x == Record("HIT", r.key)
           rest == Without(r.key)
           s == Append(rest, Entry(r.key))
<1>1. r.key \in Keys /\ TypeOK /\ SlotsInv
  BY Inputs DEF IInv
<1>2. x \in Records /\ x.op = "HIT" /\ x.key = r.key
  BY <1>1, RecordIsRecord DEF Operations
<1>3. /\ Logs(<<x>>) /\ UNCHANGED <<mode, written, tampered, cleared>> /\ r.key \in Cached
      /\ cache' = s /\ Counts({"hits"})
  BY DEF GetHit
<1> HIDE DEF x
<1>4. stats' \in [Counters -> Nat] /\ CallsAreAccountedFor'
  <2>1. "hits" \in Outcomes
    BY DEF Outcomes
  <2>2. QED
    BY <1>3, <2>1, CountsOnce DEF IInv
<1>5. /\ From(rest) /\ Len(rest) = Len(cache) - 1
      /\ \A j \in DOMAIN rest : rest[j].slot # r.key
      /\ OrderOf(rest) = Others(LRUOrder, r.key)
  BY <1>1, <1>3, WithoutKey
<1>6. Entry(r.key) \in Entries /\ Entry(r.key).slot = r.key
      /\ \E i \in DOMAIN cache : Entry(r.key) = cache[i]
  BY <1>1, <1>3, EntryOfKey
<1> HIDE DEF rest
<1>7. /\ s \in Seq(Entries) /\ Len(s) = Len(rest) + 1 /\ Unique(s)
      /\ \A j \in DOMAIN s : s[j] = Entry(r.key) \/ \E i \in DOMAIN cache : s[j] = cache[i]
      /\ OrderOf(s) = Append(OrderOf(rest), r.key)
  BY <1>5, <1>6, AppendKey
<1> HIDE DEF s
<1>8. Len(s) <= MaxSize
  BY <1>1, <1>5, <1>7 DEF SlotsInv, TypeOK
<1>9. \A i \in DOMAIN s : s[i].slot \in DOMAIN written
  BY <1>1, <1>6, <1>7 DEF TypeOK
<1>10. /\ auditLog' \in Seq(Records) /\ dropped' \in BOOLEAN
       /\ ~dropped' => ~dropped /\ Replayed(auditLog') = Replay(Replayed(auditLog), x)
  BY <1>1, <1>2, <1>3, LoggingOne
<1>11. Replay(LRUOrder, x) = Append(Others(LRUOrder, r.key), r.key)
  BY <1>2 DEF Replay
<1>12. ~cleared' /\ ~dropped' => OrderOf(s) = Replayed(auditLog')
  BY <1>3, <1>5, <1>7, <1>10, <1>11 DEF IInv, LogInv
<1>13. tampered' \in BOOLEAN /\ cleared' \in BOOLEAN /\ DOMAIN written' = DOMAIN written
  BY <1>1, <1>3 DEF TypeOK
<1>14. QED
  BY <1>3, <1>4, <1>7, <1>8, <1>9, <1>10, <1>12, <1>13, ChangesAsLogged

LEMMA BypassesIInv ==
    ASSUME IInv, NEW op, Bypasses(op)
    PROVE  IInv'
<1>1. UNCHANGED <<mode, cache, auditLog, history>> /\ Counts({"unhashable_skips"})
  BY DEF Bypasses
<1>2. stats' \in [Counters -> Nat] /\ CallsAreAccountedFor'
  <2>1. "unhashable_skips" \in Outcomes
    BY DEF Outcomes
  <2>2. QED
    BY <1>1, <2>1, CountsOnce DEF IInv
<1>3. QED
  BY <1>1, <1>2, RecordsNothing

LEMMA PutSkippedIInv ==
    ASSUME IInv, NEW c \in Contents, PutSkipped(c)
    PROVE  IInv'
<1>1. UNCHANGED <<mode, cache, auditLog, history>> /\ Counts({SizeOf[c]})
  BY DEF PutSkipped
<1>2. stats' \in [Counters -> Nat] /\ CallsAreAccountedFor'
  <2>1. SizeOf[c] \in Outcomes
    BY CacheAssumption DEF PutSkipped, Outcomes, Limits
  <2>2. QED
    BY <1>1, <2>1, CountsOnce DEF IInv
<1>3. QED
  BY <1>1, <1>2, RecordsNothing

LEMMA PutIdempotentIInv ==
    ASSUME IInv, NEW r \in mode.requests, r.key # NoKey, NEW c \in r.gives, PutIdempotent(r, c)
    PROVE  IInv'
<1> DEFINE x == Record("WRITE_ONCE_IDEMPOTENT", r.key)
<1>1. r.key \in Keys
  BY Inputs DEF IInv
<1>2. x \in Records /\ x.op = "WRITE_ONCE_IDEMPOTENT"
  BY <1>1, RecordIsRecord DEF Operations
<1>3. /\ UNCHANGED <<mode, cache, written, tampered, cleared>> /\ Logs(<<x>>)
      /\ Counts({"idempotent_writes"})
  BY DEF PutIdempotent
<1> HIDE DEF x
<1>4. stats' \in [Counters -> Nat] /\ CallsAreAccountedFor'
  <2>1. "idempotent_writes" \in Outcomes
    BY DEF Outcomes
  <2>2. QED
    BY <1>3, <2>1, CountsOnce DEF IInv
<1>5. \A order : Replay(order, x) = order
  BY <1>2 DEF Replay
<1>6. QED
  BY <1>2, <1>3, <1>4, <1>5, RecordsOnly

LEMMA PutConflictIInv ==
    ASSUME IInv, NEW r \in mode.requests, r.key # NoKey, NEW c \in r.gives, PutConflict(r, c)
    PROVE  IInv'
<1> DEFINE x == Record("WRITE_ONCE_CONFLICT", r.key)
<1>1. r.key \in Keys
  BY Inputs DEF IInv
<1>2. x \in Records /\ x.op = "WRITE_ONCE_CONFLICT"
  BY <1>1, RecordIsRecord DEF Operations
<1>3. /\ UNCHANGED <<mode, cache, written, tampered, cleared>> /\ Logs(<<x>>)
      /\ Counts({"write_once_conflicts"})
  BY DEF PutConflict
<1> HIDE DEF x
<1>4. stats' \in [Counters -> Nat] /\ CallsAreAccountedFor'
  <2>1. "write_once_conflicts" \in Outcomes
    BY DEF Outcomes
  <2>2. QED
    BY <1>3, <2>1, CountsOnce DEF IInv
<1>5. \A order : Replay(order, x) = order
  BY <1>2 DEF Replay
<1>6. QED
  BY <1>2, <1>3, <1>4, <1>5, RecordsOnly

\* The entry that a put stores, and where it finds room.
LEMMA NewEntryIsEntry ==
    ASSUME TypeOK, NEW r \in mode.requests, r.key # NoKey, NEW c \in r.gives
    PROVE  /\ NewEntry(r, c, stats.sequence + 1) \in Entries
           /\ NewEntry(r, c, stats.sequence + 1).slot = r.key
<1>1. r \in Requests /\ r.key \in Keys /\ c \in Contents
  BY Inputs
<1>2. stats.sequence + 1 \in Nat
  BY DEF TypeOK, Counters
<1>3. QED
  BY <1>1, <1>2 DEF NewEntry, Entries

LEMMA Evicting ==
    ASSUME TypeOK, SlotsInv, NEW k, Evicts(k)
    PROVE  /\ From(Tail(cache)) /\ Len(Tail(cache)) + 1 <= MaxSize
           /\ \A j \in DOMAIN Tail(cache) : Tail(cache)[j].slot # k
           /\ OrderOf(Tail(cache)) = Others(LRUOrder, cache[1].slot)
           /\ cache[1].slot \in Keys
<1> DEFINE oldest == cache[1].slot
<1>1. Len(cache) = MaxSize /\ Len(cache) > 0 /\ k \notin Cached
  BY CacheAssumption DEF Evicts, SlotsInv, TypeOK
<1>2. oldest \in Cached /\ Tail(cache) = Without(oldest)
  BY <1>1, TailIsWithout
<1>3. /\ From(Without(oldest)) /\ Len(Without(oldest)) = Len(cache) - 1
      /\ Others(LRUOrder, oldest) = OrderOf(Without(oldest))
  BY <1>2, WithoutKey
<1>4. \A j \in DOMAIN Without(oldest) : Without(oldest)[j].slot # k
  BY <1>1, <1>3 DEF From, Cached
<1>5. cache[1].slot \in Keys
  <2>1. cache \in Seq(Entries) /\ 1 \in 1 .. Len(cache)
    BY <1>1 DEF TypeOK
  <2>2. cache[1] \in Entries
    BY <2>1
  <2>3. QED
    BY <2>2 DEF Entries
<1>6. Len(Without(oldest)) + 1 <= MaxSize
  BY <1>1, <1>3 DEF TypeOK
<1>7. QED
  BY <1>2, <1>3, <1>4, <1>5, <1>6

LEMMA Replacing ==
    ASSUME TypeOK, SlotsInv, NEW k, ~Evicts(k)
    PROVE  /\ From(Without(k)) /\ Len(Without(k)) + 1 <= MaxSize
           /\ \A j \in DOMAIN Without(k) : Without(k)[j].slot # k
           /\ OrderOf(Without(k)) = Others(LRUOrder, k)
<1>1. /\ From(Without(k)) /\ (k \in Cached => Len(Without(k)) = Len(cache) - 1)
      /\ \A j \in DOMAIN Without(k) : Without(k)[j].slot # k
      /\ OrderOf(Without(k)) = Others(LRUOrder, k)
  BY WithoutKey
<1>2. Len(cache) \in Nat /\ MaxSize \in Nat /\ Len(cache) <= MaxSize
  BY CacheAssumption DEF TypeOK, SlotsInv
<1>3. k \notin Cached => Without(k) = cache /\ ~(Len(cache) >= MaxSize)
  BY DEF Without, Evicts
<1>4. QED
  BY <1>1, <1>2, <1>3

\* A key that is not in an order is not taken out of it.
LEMMA OthersOfAbsent ==
    ASSUME NEW s \in Seq(Entries), NEW k, \A j \in DOMAIN s : s[j].slot # k
    PROVE  Others(OrderOf(s), k) = OrderOf(s)
BY DEF Others, OrderOf

LEMMA PutStoreIInv ==
    ASSUME IInv, NEW r \in mode.requests, r.key # NoKey, NEW c \in r.gives, PutStore(r, c)
    PROVE  IInv'
<1> DEFINE e == NewEntry(r, c, stats.sequence + 1)
           kept == IF Evicts(r.key) THEN Tail(cache) ELSE Without(r.key)
           s == Append(kept, e)
           x == Record("EVICT", cache[1].slot)
           y == Record("PUT", r.key)
<1>1. r.key \in Keys /\ TypeOK /\ SlotsInv /\ r.key \in DOMAIN written
  BY Inputs DEF IInv
<1>2. e \in Entries /\ e.slot = r.key
  BY <1>1, NewEntryIsEntry
<1>3. y \in Records /\ y.op = "PUT" /\ y.key = r.key
  BY <1>1, RecordIsRecord DEF Operations
<1>4. /\ cache' = s /\ Counts({"sequence"}) /\ UNCHANGED <<mode, tampered, cleared>>
      /\ DOMAIN written' = DOMAIN written
      /\ Logs(Append(IF Evicts(r.key) THEN <<x>> ELSE <<>>, y))
  BY DEF PutStore
<1>5. stats' \in [Counters -> Nat] /\ CallsAreAccountedFor'
  <2>1. "sequence" \in Outcomes
    BY DEF Outcomes
  <2>2. QED
    BY <1>4, <2>1, CountsOnce DEF IInv
<1>6. /\ From(kept) /\ Len(kept) + 1 <= MaxSize
      /\ \A j \in DOMAIN kept : kept[j].slot # r.key
      /\ OrderOf(kept) = Others(LRUOrder, IF Evicts(r.key) THEN cache[1].slot ELSE r.key)
  BY <1>1, Evicting, Replacing
<1> HIDE DEF e, kept
<1>7. /\ s \in Seq(Entries) /\ Len(s) = Len(kept) + 1 /\ Unique(s)
      /\ \A j \in DOMAIN s : s[j] = e \/ \E i \in DOMAIN cache : s[j] = cache[i]
      /\ OrderOf(s) = Append(OrderOf(kept), r.key)
  BY <1>2, <1>6, AppendKey
<1> HIDE DEF s, x, y
<1>8. \A i \in DOMAIN s : s[i].slot \in DOMAIN written
  BY <1>1, <1>2, <1>7 DEF TypeOK
<1>9. /\ auditLog' \in Seq(Records) /\ dropped' \in BOOLEAN
      /\ ~cleared' /\ ~dropped' => OrderOf(s) = Replayed(auditLog')
  <2>1. CASE Evicts(r.key)
    <3>1. x \in Records /\ x.op = "EVICT" /\ x.key = cache[1].slot
      BY <1>1, <2>1, Evicting, RecordIsRecord DEF Operations, x
    <3>2. Logs(<<x, y>>)
      <4>1. Append(<<x>>, y) = <<x, y>>
        BY <1>3, <3>1, AppendToOne
      <4>2. QED
        BY <1>4, <2>1, <4>1
    <3>3. /\ auditLog' \in Seq(Records) /\ dropped' \in BOOLEAN
          /\ ~dropped' => ~dropped /\ Replayed(auditLog') = Replay(Replay(Replayed(auditLog), x), y)
      BY <1>1, <1>3, <3>1, <3>2, LoggingTwo
    <3>4. Replay(LRUOrder, x) = OrderOf(kept)
      BY <1>6, <2>1, <3>1 DEF Replay
    <3>5. Replay(OrderOf(kept), y) = Append(Others(OrderOf(kept), r.key), r.key)
      BY <1>3 DEF Replay
    <3>6. Others(OrderOf(kept), r.key) = OrderOf(kept)
      BY <1>6, OthersOfAbsent DEF From
    <3>7. QED
      BY <1>4, <1>7, <3>3, <3>4, <3>5, <3>6 DEF IInv, LogInv
  <2>2. CASE ~Evicts(r.key)
    <3>1. Logs(<<y>>)
      BY <1>4, <2>2
    <3>2. /\ auditLog' \in Seq(Records) /\ dropped' \in BOOLEAN
          /\ ~dropped' => ~dropped /\ Replayed(auditLog') = Replay(Replayed(auditLog), y)
      BY <1>1, <1>3, <3>1, LoggingOne
    <3>3. Replay(LRUOrder, y) = Append(OrderOf(kept), r.key)
      BY <1>3, <1>6, <2>2 DEF Replay
    <3>4. QED
      BY <1>4, <1>7, <3>2, <3>3 DEF IInv, LogInv
  <2>3. QED
    BY <2>1, <2>2
<1>10. Len(s) <= MaxSize
  BY <1>6, <1>7
<1>11. tampered' \in BOOLEAN /\ cleared' \in BOOLEAN
  BY <1>1, <1>4 DEF TypeOK
<1>12. QED
  BY <1>4, <1>5, <1>7, <1>8, <1>9, <1>10, <1>11, ChangesAsLogged

LEMMA ClearIInv ==
    ASSUME IInv, Clear
    PROVE  IInv'
<1> DEFINE s == <<>>
<1>1. s \in Seq(Entries) /\ Unique(s) /\ Len(s) <= MaxSize /\ DOMAIN s = {}
  BY CacheAssumption DEF Unique
<1>2. cache' = s /\ cleared' = TRUE /\ UNCHANGED <<mode, stats, auditLog, written, tampered, dropped>>
  BY DEF Clear
<1>3. stats' \in [Counters -> Nat] /\ CallsAreAccountedFor'
  BY <1>2 DEF IInv, TypeOK, CallsAreAccountedFor, Strict
<1> HIDE DEF s
<1>4. /\ tampered' \in BOOLEAN /\ cleared' \in BOOLEAN /\ dropped' \in BOOLEAN
      /\ auditLog' \in Seq(Records)
  BY <1>2 DEF IInv, TypeOK
<1>5. QED
  BY <1>1, <1>2, <1>3, <1>4, ChangesAsLogged

\* A fault changes no slot.
LEMMA FaultIInv ==
    ASSUME IInv, NEW s \in Seq(Entries), cache' = s, OrderOf(s) = LRUOrder,
           tampered' = TRUE, UNCHANGED <<mode, stats, auditLog, written, cleared, dropped>>
    PROVE  IInv'
<1>1. cache \in Seq(Entries) /\ TypeOK /\ SlotsInv
  BY DEF IInv, TypeOK
<1>2. OrderOf(cache) = OrderOf(s)
  BY OrderIsOrder
<1>3. /\ Len(s) = Len(cache) /\ DOMAIN s = 1 .. Len(s) /\ DOMAIN cache = 1 .. Len(s)
      /\ \A i \in 1 .. Len(s) : s[i].slot = cache[i].slot
  <2>1. Len(OrderOf(cache)) = Len(cache) /\ \A i \in 1 .. Len(cache) : OrderOf(cache)[i] = cache[i].slot
    BY <1>1, OrderIsSeq
  <2>2. Len(OrderOf(s)) = Len(s) /\ \A i \in 1 .. Len(s) : OrderOf(s)[i] = s[i].slot
    BY OrderIsSeq
  <2>3. QED
    BY <1>1, <1>2, <2>1, <2>2
<1>4. Unique(s) /\ Len(s) <= MaxSize /\ \A i \in DOMAIN s : s[i].slot \in DOMAIN written
  BY <1>1, <1>3 DEF SlotsInv, Unique, TypeOK
<1>5. stats' \in [Counters -> Nat] /\ CallsAreAccountedFor'
  BY DEF IInv, TypeOK, CallsAreAccountedFor, Strict
<1>6. /\ tampered' \in BOOLEAN /\ cleared' \in BOOLEAN /\ dropped' \in BOOLEAN
      /\ auditLog' \in Seq(Records) /\ mode' = mode /\ DOMAIN written' = DOMAIN written
  BY <1>1 DEF TypeOK
<1>7. ~cleared' /\ ~dropped' => OrderOf(s) = Replayed(auditLog')
  BY DEF IInv, LogInv
<1>8. QED
  BY <1>4, <1>5, <1>6, <1>7, ChangesAsLogged

\* Two sequences of as many entries in the same slots have the same order.
LEMMA SameOrder ==
    ASSUME NEW s \in Seq(Entries), NEW u \in Seq(Entries), Len(s) = Len(u),
           \A i \in 1 .. Len(s) : s[i].slot = u[i].slot
    PROVE  OrderOf(s) = OrderOf(u)
<1>1. /\ OrderOf(s) \in Seq(Keys) /\ Len(OrderOf(s)) = Len(s)
      /\ \A i \in 1 .. Len(s) : OrderOf(s)[i] = s[i].slot
  BY OrderIsSeq
<1>2. /\ OrderOf(u) \in Seq(Keys) /\ Len(OrderOf(u)) = Len(u)
      /\ \A i \in 1 .. Len(u) : OrderOf(u)[i] = u[i].slot
  BY OrderIsSeq
<1>3. QED
  BY <1>1, <1>2, SeqEqual

LEMMA CorruptContentIInv ==
    ASSUME IInv, NEW i \in DOMAIN cache, NEW c \in Contents, CorruptContent(i, c)
    PROVE  IInv'
<1> DEFINE e == [cache[i] EXCEPT !.content = c]
           s == [cache EXCEPT ![i] = e]
<1>1. cache \in Seq(Entries) /\ i \in 1 .. Len(cache) /\ cache[i] \in Entries
  BY DEF IInv, TypeOK
<1>2. e \in Entries /\ e.slot = cache[i].slot
  BY <1>1 DEF Entries
<1>3. cache' = s
  BY DEF CorruptContent
<1> HIDE DEF e
<1>4. s \in Seq(Entries) /\ Len(s) = Len(cache) /\ \A j \in 1 .. Len(cache) : s[j].slot = cache[j].slot
  BY <1>1, <1>2
<1>5. OrderOf(s) = LRUOrder
  BY <1>1, <1>4, SameOrder, OrderIsOrder
<1>6. tampered' = TRUE /\ UNCHANGED <<mode, stats, auditLog, written, cleared, dropped>>
  BY DEF CorruptContent
<1>7. QED
  BY <1>3, <1>4, <1>5, <1>6, FaultIInv

LEMMA SwapEntriesIInv ==
    ASSUME IInv, NEW i \in DOMAIN cache, NEW j \in DOMAIN cache, SwapEntries(i, j)
    PROVE  IInv'
<1> DEFINE e == [cache[j] EXCEPT !.slot = cache[i].slot]
           f == [cache[i] EXCEPT !.slot = cache[j].slot]
           s == [cache EXCEPT ![i] = e, ![j] = f]
<1>1. /\ cache \in Seq(Entries) /\ i \in 1 .. Len(cache) /\ j \in 1 .. Len(cache) /\ i # j
      /\ cache[i] \in Entries /\ cache[j] \in Entries
  BY DEF IInv, TypeOK, SwapEntries
<1>2. e \in Entries /\ e.slot = cache[i].slot /\ f \in Entries /\ f.slot = cache[j].slot
  BY <1>1 DEF Entries
<1>3. cache' = s
  BY DEF SwapEntries
<1> HIDE DEF e, f
<1>4. s \in Seq(Entries) /\ Len(s) = Len(cache) /\ \A k \in 1 .. Len(cache) : s[k].slot = cache[k].slot
  BY <1>1, <1>2
<1>5. OrderOf(s) = LRUOrder
  BY <1>1, <1>4, SameOrder, OrderIsOrder
<1>6. tampered' = TRUE /\ UNCHANGED <<mode, stats, auditLog, written, cleared, dropped>>
  BY DEF SwapEntries
<1>7. QED
  BY <1>3, <1>4, <1>5, <1>6, FaultIInv

\* Any garbage is made of contents.
LEMMA GarbageIsContents ==
    ASSUME TypeOK PROVE Garbage \subseteq Contents
BY Inputs DEF Garbage

LEMMA StutterIInv ==
    ASSUME IInv, UNCHANGED vars PROVE IInv'
BY DEF IInv, TypeOK, SlotsInv, CallsAreAccountedFor, LogInv, LRUOrder, Replayed, Replay, Strict,
       vars, history

LEMMA NextIInv == IInv /\ [Next]_vars => IInv'
<1> SUFFICES ASSUME IInv, [Next]_vars PROVE IInv'
  OBVIOUS
<1>1. ASSUME NEW r \in mode.requests, Get(r) PROVE IInv'
  BY <1>1, BypassesIInv, GetMissIInv, GetCorruptIInv, GetHitIInv DEF Get
<1>2. ASSUME NEW r \in mode.requests, NEW c \in r.gives, Put(r, c) PROVE IInv'
  <2>1. c \in Contents
    BY Inputs DEF IInv
  <2>2. QED
    BY <1>2, <2>1, PutSkippedIInv, BypassesIInv, PutIdempotentIInv, PutConflictIInv, PutStoreIInv DEF Put
<1>3. ASSUME NEW i \in DOMAIN cache, NEW c \in Garbage, CorruptContent(i, c) PROVE IInv'
  <2>1. c \in Contents
    BY GarbageIsContents DEF IInv
  <2>2. QED
    BY <1>3, <2>1, CorruptContentIInv
<1>4. ASSUME NEW i \in DOMAIN cache, NEW j \in DOMAIN cache, SwapEntries(i, j) PROVE IInv'
  BY <1>4, SwapEntriesIInv
<1>5. QED
  BY <1>1, <1>2, <1>3, <1>4, ClearIInv, StutterIInv DEF Next, Call, Corruption

-----------------------------------------------------------------------------

\* The inductive invariant holds in every reachable state.
THEOREM Invariance == Spec => []IInv
<1>1. Init => IInv
  BY InitIInv
<1>2. IInv /\ [Next]_vars => IInv'
  BY NextIInv
<1>3. QED
  BY <1>1, <1>2, PTL DEF Spec

\* The counters add up after any number of calls of any kind, in strict mode
\* and out of it.
THEOREM Accounting == Spec => []CallsAreAccountedFor
<1>1. IInv => CallsAreAccountedFor
  BY DEF IInv
<1>2. QED
  BY <1>1, Invariance, PTL

\* A dictionary of unique slots has as many slots as entries.
LEMMA SlotsAreCounted ==
    ASSUME cache \in Seq(Entries), Unique(cache)
    PROVE  Cardinality({cache[i].slot : i \in DOMAIN cache}) = Len(cache)
<1> DEFINE f == [i \in 1 .. Len(cache) |-> cache[i].slot]
           S == {cache[i].slot : i \in DOMAIN cache}
<1>1. Len(cache) \in Nat /\ DOMAIN cache = 1 .. Len(cache)
  OBVIOUS
<1>2. f \in [1 .. Len(cache) -> S]
  BY <1>1
<1>3. \A i, j \in 1 .. Len(cache) : f[i] = f[j] => i = j
  BY <1>1 DEF Unique
<1>4. \A k \in S : \E i \in 1 .. Len(cache) : f[i] = k
  BY <1>1
<1> HIDE DEF f, S
<1>5. ExistsBijection(1 .. Len(cache), S)
  BY <1>2, <1>3, <1>4 DEF ExistsBijection, Bijection, Injection, Surjection, IsInjective
<1>6. Cardinality(S) = Len(cache)
  BY <1>1, <1>5, FS_CountingElements
<1>7. QED
  BY <1>6 DEF S

\* The audit log explains the cache, which never holds more than maxsize
\* entries nor two for one key.
THEOREM Audit == Spec => []AuditExplainsCache
<1>1. IInv => AuditExplainsCache
  BY SlotsAreCounted DEF IInv, TypeOK, SlotsInv, LogInv, AuditExplainsCache
<1>2. QED
  BY <1>1, Invariance, PTL

-----------------------------------------------------------------------------
(* What write-once promises.                                               *)

LEMMA EntriesOfHit ==
    ASSUME IInv, NEW r \in mode.requests, r.key # NoKey, GetHit(r)
    PROVE  \A j \in DOMAIN cache' : \E i \in DOMAIN cache : cache'[j] = cache[i]
<1>1. TypeOK /\ SlotsInv /\ r.key \in Cached
  BY DEF IInv, GetHit
<1>2. /\ From(Without(r.key)) /\ \A j \in DOMAIN Without(r.key) : Without(r.key)[j].slot # r.key
      /\ Entry(r.key) \in Entries /\ Entry(r.key).slot = r.key
      /\ \E i \in DOMAIN cache : Entry(r.key) = cache[i]
  BY <1>1, WithoutKey, EntryOfKey
<1>3. cache' = Append(Without(r.key), Entry(r.key))
  BY DEF GetHit
<1>4. QED
  BY <1>2, <1>3, AppendKey

LEMMA EntriesOfCorrupt ==
    ASSUME IInv, NEW r \in mode.requests, r.key # NoKey, GetCorrupt(r)
    PROVE  \A j \in DOMAIN cache' : \E i \in DOMAIN cache : cache'[j] = cache[i]
<1>1. cache' = cache \/ cache' = Without(r.key)
  BY DEF GetCorrupt
<1>2. From(Without(r.key))
  BY WithoutKey DEF IInv
<1>3. QED
  BY <1>1, <1>2 DEF From

LEMMA EntriesOfStore ==
    ASSUME IInv, NEW r \in mode.requests, r.key # NoKey, NEW c \in r.gives, PutStore(r, c)
    PROVE  \A j \in DOMAIN cache' :
               \/ cache'[j] = NewEntry(r, c, stats.sequence + 1)
               \/ cache'[j].slot # r.key /\ \E i \in DOMAIN cache : cache'[j] = cache[i]
<1> DEFINE e == NewEntry(r, c, stats.sequence + 1)
           kept == IF Evicts(r.key) THEN Tail(cache) ELSE Without(r.key)
<1>1. TypeOK /\ SlotsInv
  BY DEF IInv
<1>2. e \in Entries /\ e.slot = r.key
  BY <1>1, NewEntryIsEntry
<1>3. From(kept) /\ \A j \in DOMAIN kept : kept[j].slot # r.key
  BY <1>1, Evicting, Replacing
<1>4. cache' = Append(kept, e)
  BY DEF PutStore
<1> HIDE DEF e, kept
<1>5. kept \in Seq(Entries) /\ \A j \in DOMAIN kept : \E i \in DOMAIN cache : kept[j] = cache[i]
  BY <1>3 DEF From
<1>6. \A j \in DOMAIN cache' : cache'[j] = e \/ (j \in DOMAIN kept /\ cache'[j] = kept[j])
  <2> DEFINE s == Append(kept, e)
  <2>1. /\ Len(kept) \in Nat /\ DOMAIN kept = 1 .. Len(kept)
        /\ DOMAIN s = 1 .. (Len(kept) + 1)
        /\ \A j \in 1 .. (Len(kept) + 1) : s[j] = IF j <= Len(kept) THEN kept[j] ELSE e
    BY <1>5
  <2> HIDE DEF s
  <2>2. QED
    BY <1>4, <2>1 DEF s
<1>7. QED
  BY <1>3, <1>5, <1>6 DEF e

\* In write-once mode a call adds no entry for a key that has one.
LEMMA NoSecondEntry ==
    ASSUME IInv, Next, WriteOnce, ~tampered'
    PROVE  \A j \in DOMAIN cache' :
               cache'[j].slot \notin Cached \/ \E i \in DOMAIN cache : cache'[j] = cache[i]
<1>1. CASE UNCHANGED cache
  BY <1>1
<1>2. ASSUME NEW r \in mode.requests, Get(r), ~UNCHANGED cache
      PROVE  \A j \in DOMAIN cache' : \E i \in DOMAIN cache : cache'[j] = cache[i]
  BY <1>2, EntriesOfHit, EntriesOfCorrupt DEF Get, Bypasses, GetMiss
<1>3. ASSUME NEW r \in mode.requests, NEW c \in r.gives, Put(r, c), ~UNCHANGED cache
      PROVE  \A j \in DOMAIN cache' :
                 cache'[j].slot \notin Cached \/ \E i \in DOMAIN cache : cache'[j] = cache[i]
  <2>1. r.key # NoKey /\ PutStore(r, c)
    BY <1>3 DEF Put, PutSkipped, Bypasses, PutIdempotent, PutConflict
  <2>2. r.key \notin Cached
    BY <2>1 DEF PutStore, MayStore
  <2>3. NewEntry(r, c, stats.sequence + 1).slot = r.key
    BY <2>1, NewEntryIsEntry DEF IInv
  <2>4. QED
    BY <2>1, <2>2, <2>3, EntriesOfStore
<1>4. CASE Clear
  BY <1>4 DEF Clear
<1>5. ~Corruption
  BY DEF Corruption, CorruptContent, SwapEntries
<1>6. QED
  BY <1>1, <1>2, <1>3, <1>4, <1>5 DEF Next, Call

\* In write-once mode the entry of a key that stays cached stays the same,
\* whatever else is asked, until memory fails.
THEOREM EntriesAreKept == Spec => WriteOnceHolds
<1>1. ASSUME IInv, IInv', Next, WriteOnce, ~tampered', NEW k \in Cached, k \in Cached'
      PROVE  Entry(k)' = Entry(k)
  <2>1. /\ Place(k)' \in DOMAIN cache' /\ cache'[Place(k)'].slot = k
    BY <1>1 DEF Cached, Place
  <2>2. PICK i \in DOMAIN cache : cache'[Place(k)'] = cache[i]
    BY <1>1, <2>1, NoSecondEntry
  <2>3. i = Place(k)
    BY <1>1, <2>1, <2>2, PlaceOfKey DEF IInv
  <2>4. QED
    BY <2>2, <2>3 DEF Entry
<1>2. IInv /\ IInv' /\ [Next]_vars =>
          [\A k \in Cached : (WriteOnce /\ ~tampered' /\ k \in Cached') => Entry(k)' = Entry(k)]_vars
  BY <1>1
<1>3. QED
  BY <1>2, Invariance, PTL DEF Spec, WriteOnceHolds

-----------------------------------------------------------------------------
(* What a hit returns.                                                     *)

LEMMA NextEntriesInv == IInv /\ EntriesInv /\ [Next]_vars => EntriesInv'
<1> SUFFICES ASSUME IInv, EntriesInv, [Next]_vars PROVE EntriesInv'
  OBVIOUS
<1>1. ASSUME UNCHANGED <<mode, written, tampered>>,
             \A j \in DOMAIN cache' : \E i \in DOMAIN cache : cache'[j] = cache[i]
      PROVE  EntriesInv'
  BY <1>1 DEF EntriesInv, Sealed
<1>2. ASSUME NEW r \in mode.requests, Get(r) PROVE EntriesInv'
  <2>1. CASE UNCHANGED <<mode, cache, written, tampered>>
    BY <1>1, <2>1
  <2>2. CASE r.key # NoKey /\ GetHit(r)
    BY <1>1, <2>2, EntriesOfHit DEF GetHit
  <2>3. CASE r.key # NoKey /\ GetCorrupt(r)
    BY <1>1, <2>3, EntriesOfCorrupt DEF GetCorrupt
  <2>4. QED
    BY <1>2, <2>1, <2>2, <2>3 DEF Get, GetMiss, Bypasses, history
<1>3. ASSUME NEW r \in mode.requests, NEW c \in r.gives, Put(r, c) PROVE EntriesInv'
  <2>1. CASE UNCHANGED <<mode, cache, written, tampered>>
    BY <1>1, <2>1
  <2>2. CASE r.key # NoKey /\ PutStore(r, c)
    <3> DEFINE e == NewEntry(r, c, stats.sequence + 1)
    <3>1. r.key \in DOMAIN written /\ TypeOK
      BY Inputs DEF IInv
    <3>2. /\ UNCHANGED <<mode, tampered>>
          /\ written' = [written EXCEPT ![r.key] = [exact |-> r.exact, content |-> c]]
      BY <2>2 DEF PutStore
    <3>3. \A j \in DOMAIN cache' :
              \/ cache'[j] = e
              \/ cache'[j].slot # r.key /\ \E i \in DOMAIN cache : cache'[j] = cache[i]
      BY <2>2, EntriesOfStore
    <3>4. /\ e.slot = r.key /\ e.checksum.content = c /\ e.checksum.printed = r.printed
      BY DEF NewEntry
    <3> HIDE DEF e
    <3>5. written'[r.key].exact = r.exact /\ written'[r.key].content = c
      BY <3>1, <3>2
    <3>6. ASSUME NEW j \in DOMAIN cache', cache'[j] = e PROVE Sealed(cache[j], r)'
      BY <2>2, <3>2, <3>4, <3>5, <3>6 DEF Sealed
    <3>7. ASSUME NEW j \in DOMAIN cache', cache'[j].slot # r.key,
                 NEW i \in DOMAIN cache, cache'[j] = cache[i]
          PROVE  \E s \in mode.requests : Sealed(cache[j], s)'
      <4>1. PICK s \in mode.requests : Sealed(cache[i], s)
        BY DEF EntriesInv
      <4>2. cache[i].slot # r.key => written'[cache[i].slot] = written[cache[i].slot]
        BY <3>2
      <4>3. Sealed(cache[j], s)'
        BY <3>2, <3>7, <4>1, <4>2 DEF Sealed
      <4>4. QED
        BY <4>3
    <3>8. QED
      BY <3>2, <3>3, <3>6, <3>7 DEF EntriesInv
  <2>3. QED
    BY <1>3, <2>1, <2>2 DEF Put, PutSkipped, Bypasses, PutIdempotent, PutConflict, history
<1>4. CASE Clear
  BY <1>4 DEF Clear, EntriesInv
<1>5. ASSUME NEW i \in DOMAIN cache, NEW c \in Garbage, CorruptContent(i, c) PROVE EntriesInv'
  <2>1. \A j \in DOMAIN cache' : /\ j \in DOMAIN cache /\ cache'[j].slot = cache[j].slot
                                 /\ cache'[j].checksum = cache[j].checksum
    BY <1>5 DEF CorruptContent, IInv, TypeOK, Entries
  <2>2. mode.faulty /\ tampered' = TRUE /\ UNCHANGED <<mode, written>>
    BY <1>5 DEF CorruptContent
  <2>3. QED
    BY <2>1, <2>2 DEF EntriesInv, Sealed
<1>6. ASSUME NEW i \in DOMAIN cache, NEW j \in DOMAIN cache, SwapEntries(i, j) PROVE EntriesInv'
  <2>1. mode.faulty /\ ~tampered /\ tampered' = TRUE /\ UNCHANGED <<mode, written>> /\ i # j
    BY <1>6 DEF SwapEntries, IInv, TypeOK
  <2>2. cache[i].slot # cache[j].slot
    BY <2>1 DEF IInv, SlotsInv, Unique
  <2>3. /\ DOMAIN cache' = DOMAIN cache
        /\ cache'[i].slot = cache[i].slot /\ cache'[i].checksum = cache[j].checksum
        /\ cache'[j].slot = cache[j].slot /\ cache'[j].checksum = cache[i].checksum
        /\ \A k \in DOMAIN cache : k # i /\ k # j => cache'[k] = cache[k]
    <3> DEFINE e == [cache[j] EXCEPT !.slot = cache[i].slot]
               f == [cache[i] EXCEPT !.slot = cache[j].slot]
    <3>1. cache' = [cache EXCEPT ![i] = e, ![j] = f]
      BY <1>6 DEF SwapEntries
    <3>2. cache[i] \in Entries /\ cache[j] \in Entries
      BY DEF IInv, TypeOK
    <3>3. /\ e.slot = cache[i].slot /\ e.checksum = cache[j].checksum
          /\ f.slot = cache[j].slot /\ f.checksum = cache[i].checksum
      BY <3>2 DEF Entries
    <3> HIDE DEF e, f
    <3>4. QED
      BY <2>1, <3>1, <3>3
  <2>4. ASSUME NEW k \in DOMAIN cache PROVE \E s \in mode.requests : Sealed(cache[k], s)'
    <3>1. CASE k = i
      <4>1. PICK s \in mode.requests : Sealed(cache[j], s)
        BY DEF EntriesInv
      <4>2. QED
        BY <2>1, <2>2, <2>3, <3>1, <4>1 DEF Sealed
    <3>2. CASE k = j
      <4>1. PICK s \in mode.requests : Sealed(cache[i], s)
        BY DEF EntriesInv
      <4>2. QED
        BY <2>1, <2>2, <2>3, <3>2, <4>1 DEF Sealed
    <3>3. CASE k # i /\ k # j
      <4>1. PICK s \in mode.requests : Sealed(cache[k], s)
        BY DEF EntriesInv
      <4>2. QED
        BY <2>1, <2>3, <3>3, <4>1 DEF Sealed
    <3>4. QED
      BY <3>1, <3>2, <3>3
  <2>5. QED
    BY <2>1, <2>3, <2>4 DEF EntriesInv
<1>7. CASE UNCHANGED vars
  BY <1>1, <1>7 DEF vars, history
<1>8. QED
  BY <1>2, <1>3, <1>4, <1>5, <1>6, <1>7 DEF Next, Call, Corruption

\* A hit returns the content whose checksum was made for its key.
LEMMA HitIsGenuine ==
    ASSUME PrintsTellKeys, KeysTellContents, IInv, EntriesInv,
           NEW r \in mode.requests, r.key # NoKey, GetHit(r)
    PROVE  HitsAreGenuine'
<1> DEFINE e == Entry(r.key)
<1>1. /\ e.slot = r.key /\ \E i \in DOMAIN cache : e = cache[i]
      /\ e.content = e.checksum.content /\ e.checksum.printed = r.printed
  BY EntryOfKey DEF IInv, GetHit, Verifies
<1>2. PICK s \in mode.requests : Sealed(e, s)
  BY <1>1 DEF EntriesInv
<1>3. answer' = [op |-> "get", kind |-> "hit", key |-> r.key, exact |-> r.exact,
                 gives |-> r.gives, content |-> e.content] /\ written' = written
  BY DEF GetHit
<1> HIDE DEF e
<1>4. s.key = r.key /\ s.key # NoKey /\ s.printed = r.printed
  <2>1. CASE ~tampered
    BY <1>1, <1>2, <2>1 DEF Sealed
  <2>2. CASE tampered
    <3>1. mode \in Modes /\ mode.faulty
      BY <2>2 DEF IInv, TypeOK, EntriesInv
    <3>2. QED
      BY <1>1, <1>2, <3>1 DEF Sealed, PrintsTellKeys
  <2>3. QED
    BY <2>1, <2>2
<1>5. /\ e.content = written[r.key].content /\ s.exact = written[r.key].exact
      /\ e.content \in s.gives
  BY <1>1, <1>2, <1>4 DEF Sealed
<1>6. r.exact /\ s.exact => s.gives \subseteq r.gives
  BY <1>4 DEF IInv, TypeOK, KeysTellContents
<1>7. QED
  BY <1>3, <1>5, <1>6 DEF HitsAreGenuine

LEMMA NextHits ==
    ASSUME PrintsTellKeys, KeysTellContents, IInv, EntriesInv, HitsAreGenuine, [Next]_vars
    PROVE  HitsAreGenuine'
<1>1. CASE UNCHANGED vars
  BY <1>1 DEF vars, history, HitsAreGenuine
<1>2. ASSUME answer'.op # "get" \/ answer'.kind # "hit" PROVE HitsAreGenuine'
  BY <1>2 DEF HitsAreGenuine
<1>3. ASSUME NEW r \in mode.requests, Get(r) PROVE HitsAreGenuine'
  BY <1>2, <1>3, HitIsGenuine DEF Get, GetMiss, GetCorrupt, Bypasses
<1>4. ASSUME NEW r \in mode.requests, NEW c \in r.gives, Put(r, c) PROVE HitsAreGenuine'
  BY <1>2, <1>4 DEF Put, PutSkipped, Bypasses, PutIdempotent, PutConflict, PutStore
<1>5. CASE Clear \/ Corruption
  BY <1>2, <1>5 DEF Clear, Corruption, CorruptContent, SwapEntries, Nothing
<1>6. QED
  BY <1>1, <1>3, <1>4, <1>5 DEF Next, Call

\* Where keys that print alike are equal, or memory does not fail, a hit
\* returns what was last written under its key, and what formatting makes of
\* the arguments if both calls had only such as keys tell.
THEOREM GenuineHits ==
    ASSUME PrintsTellKeys, KeysTellContents
    PROVE  Spec => []HitsAreGenuine
<1>1. Init => SafeInv
  BY InitIInv DEF Init, SafeInv, EntriesInv, HitsAreGenuine, Nothing
<1>2. SafeInv /\ [Next]_vars => SafeInv'
  BY NextIInv, NextEntriesInv, NextHits DEF SafeInv
<1>3. SafeInv => HitsAreGenuine
  BY DEF SafeInv
<1>4. QED
  BY <1>1, <1>2, <1>3, PTL DEF Spec
=============================================================================
