--------------------------- MODULE IntegrityCache ---------------------------
(***************************************************************************)
(* The format cache of runtime/cache.py: an OrderedDict in LRU order under *)
(* one Lock, entries that carry a checksum and the digest of the key they  *)
(* were stored under, write-once mode, an audit log and cumulative         *)
(* counters.  Every call holds the Lock from its lookup to its return, so  *)
(* one call is one step.  Digests are modelled as what they digest.        *)
(***************************************************************************)
EXTENDS Naturals, Sequences, FiniteSets, SequencesExt

CONSTANTS Keys,        \* the cache keys, as dict equality sees them
          NoKey,       \* what _make_key returns for unhashable arguments
          Requests,    \* [key, printed, exact, gives]: a key, str() of the tuple that is the
                       \* key, whether the key tells all of the arguments, and the contents
                       \* that formatting makes of them
          Contents,    \* formatted text and errors
          SizeOf,      \* SizeOf[c]: "fits", or the first limit that c exceeds
          MaxSize,     \* maxsize
          Modes,       \* [strict, writeOnce, requests, faulty]: how a cache is constructed,
                       \* what is asked of it, and whether memory is ever corrupted
          MaxAudit,    \* max_audit_entries
          MaxCalls     \* bound on the number of get and put calls

Limits == {"oversize_skips", "error_bloat_skips", "combined_weight_skips"}

ASSUME CacheAssumption ==
    /\ NoKey \notin Keys
    /\ \A r \in Requests : r.key \in Keys \cup {NoKey} /\ r.gives \subseteq Contents
    /\ SizeOf \in [Contents -> Limits \cup {"fits"}]
    /\ MaxSize \in Nat \ {0} /\ MaxAudit \in Nat \ {0} /\ MaxCalls \in Nat
    /\ Modes \subseteq [strict : BOOLEAN, writeOnce : BOOLEAN, requests : SUBSET Requests, faulty : BOOLEAN]

VARIABLES mode,       \* _strict and _write_once, which no call changes; the requests, the faults
          cache,      \* _cache, least recently used entry first
          stats,      \* the counters
          auditLog,   \* _audit_log
          answer,     \* what the last call returned or raised
          written,    \* history: the last write of each key
          tampered,   \* history: whether memory has been corrupted
          cleared,    \* history: whether clear() has been called
          dropped     \* history: whether the audit log has lost a record

history == <<written, tampered, cleared, dropped>>
vars == <<mode, cache, stats, auditLog, answer, history>>

Strict == mode.strict
WriteOnce == mode.writeOnce

Counters == Limits \cup {"hits", "misses", "unhashable_skips", "corruption_detected",
                         "idempotent_writes", "write_once_conflicts", "sequence", "calls"}

Nothing == [op |-> "none"]

Init ==
    /\ mode \in Modes
    /\ cache = <<>>
    /\ stats = [c \in Counters |-> 0]
    /\ auditLog = <<>>
    /\ answer = Nothing
    /\ written = [k \in {r.key : r \in mode.requests} |-> Nothing]
    /\ tampered = FALSE /\ cleared = FALSE /\ dropped = FALSE

-----------------------------------------------------------------------------
(* The OrderedDict, the checksums, the log and the counters.               *)

Cached == {cache[i].slot : i \in DOMAIN cache}
Place(k) == CHOOSE i \in DOMAIN cache : cache[i].slot = k
Entry(k) == cache[Place(k)]
Without(k) == IF k \in Cached THEN RemoveAt(cache, Place(k)) ELSE cache

\* IntegrityCacheEntry.create; the checksum covers content, sequence and key digest.
NewEntry(r, c, seq) ==
    [slot |-> r.key, content |-> c,
     checksum |-> [content |-> c, sequence |-> seq, printed |-> r.printed]]

\* verify() and the key-binding check; e.checksum stands for what was stored.
Verifies(e, r) == e.content = e.checksum.content /\ e.checksum.printed = r.printed

Logs(records) ==
    LET log == auditLog \o records
        excess == IF Len(log) > MaxAudit THEN Len(log) - MaxAudit ELSE 0
    IN  /\ auditLog' = SubSeq(log, excess + 1, Len(log))
        /\ dropped' = (dropped \/ excess > 0)

Record(op, k) == [op |-> op, key |-> k]

Counts(names) ==
    stats' = [c \in Counters |-> IF c \in names \cup {"calls"} THEN stats[c] + 1 ELSE stats[c]]

-----------------------------------------------------------------------------
(* get                                                                     *)

Bypasses(op) ==
    /\ Counts({"unhashable_skips"})
    /\ answer' = [op |-> op, kind |-> "bypass"]
    /\ UNCHANGED <<mode, cache, auditLog, history>>

GetMiss(r) ==
    /\ r.key \notin Cached
    /\ Counts({"misses"})
    /\ Logs(<<Record("MISS", r.key)>>)
    /\ answer' = [op |-> "get", kind |-> "miss"]
    /\ UNCHANGED <<mode, cache, written, tampered, cleared>>

\* Mutant: a lenient cache neither counts the miss nor drops the entry.
GetCorruptIgnored(r) ==
    /\ r.key \in Cached
    /\ ~Verifies(Entry(r.key), r)
    /\ Logs(<<Record("CORRUPTION", r.key)>>)
    /\ Counts({"corruption_detected"})
    /\ answer' = [op |-> "get", kind |-> "miss"]
    /\ UNCHANGED <<mode, cache, written, tampered, cleared>>

GetCorrupt(r) ==
    /\ r.key \in Cached
    /\ ~Verifies(Entry(r.key), r)
    /\ Logs(<<Record("CORRUPTION", r.key)>>)
    /\ IF Strict
       THEN /\ Counts({"corruption_detected"})
            /\ answer' = [op |-> "get", kind |-> "CacheCorruptionError"]
            /\ UNCHANGED cache
       ELSE /\ Counts({"corruption_detected", "misses"})
            /\ answer' = [op |-> "get", kind |-> "miss"]
            /\ cache' = Without(r.key)
    /\ UNCHANGED <<mode, written, tampered, cleared>>

\* Mutant: a hit does not renew the entry's place in the LRU order.
GetHitStaysPut(r) ==
    /\ r.key \in Cached
    /\ Verifies(Entry(r.key), r)
    /\ Counts({"hits"})
    /\ Logs(<<Record("HIT", r.key)>>)
    /\ answer' = [op |-> "get", kind |-> "hit", key |-> r.key, exact |-> r.exact,
                  gives |-> r.gives, content |-> Entry(r.key).content]
    /\ UNCHANGED <<mode, cache, written, tampered, cleared>>

GetHit(r) ==
    /\ r.key \in Cached
    /\ Verifies(Entry(r.key), r)
    /\ cache' = Append(Without(r.key), Entry(r.key))
    /\ Counts({"hits"})
    /\ Logs(<<Record("HIT", r.key)>>)
    /\ answer' = [op |-> "get", kind |-> "hit", key |-> r.key, exact |-> r.exact,
                  gives |-> r.gives, content |-> Entry(r.key).content]
    /\ UNCHANGED <<mode, written, tampered, cleared>>

Get(r) == \/ r.key = NoKey /\ Bypasses("get")
          \/ r.key # NoKey /\ (GetMiss(r) \/ GetCorrupt(r) \/ GetHit(r))

-----------------------------------------------------------------------------
(* put                                                                     *)

\* The three limits are tested before the key is even made.
PutSkipped(c) ==
    /\ SizeOf[c] # "fits"
    /\ Counts({SizeOf[c]})
    /\ answer' = [op |-> "put", kind |-> "skipped"]
    /\ UNCHANGED <<mode, cache, auditLog, history>>

PutIdempotent(r, c) ==
    /\ WriteOnce /\ r.key \in Cached
    /\ Entry(r.key).checksum.content = c
    /\ Counts({"idempotent_writes"})
    /\ Logs(<<Record("WRITE_ONCE_IDEMPOTENT", r.key)>>)
    /\ answer' = [op |-> "put", kind |-> "idempotent"]
    /\ UNCHANGED <<mode, cache, written, tampered, cleared>>

PutConflict(r, c) ==
    /\ WriteOnce /\ r.key \in Cached
    /\ Entry(r.key).checksum.content # c
    /\ Counts({"write_once_conflicts"})
    /\ Logs(<<Record("WRITE_ONCE_CONFLICT", r.key)>>)
    /\ answer' = [op |-> "put", kind |-> IF Strict THEN "WriteConflictError" ELSE "refused"]
    /\ UNCHANGED <<mode, cache, written, tampered, cleared>>

\* Mutant: write-once looks at the content only, so a different one is stored.
MayStoreNewContent(r, c) ==
    ~(WriteOnce /\ r.key \in Cached /\ Entry(r.key).checksum.content = c)

MayStore(r, c) == ~(WriteOnce /\ r.key \in Cached)

Evicts(k) == k \notin Cached /\ Len(cache) >= MaxSize

PutStore(r, c) ==
    LET seq == stats.sequence + 1
        evicted == IF Evicts(r.key) THEN <<Record("EVICT", cache[1].slot)>> ELSE <<>>
        kept == IF Evicts(r.key) THEN Tail(cache) ELSE Without(r.key)
    IN  /\ MayStore(r, c)
        /\ cache' = Append(kept, NewEntry(r, c, seq))
        /\ Counts({"sequence"})
        /\ Logs(Append(evicted, Record("PUT", r.key)))
        /\ answer' = [op |-> "put", kind |-> "stored"]
        /\ written' = [written EXCEPT ![r.key] = [exact |-> r.exact, content |-> c]]
        /\ UNCHANGED <<mode, tampered, cleared>>

Put(r, c) ==
    \/ PutSkipped(c)
    \/ SizeOf[c] = "fits" /\ r.key = NoKey /\ Bypasses("put")
    \/ /\ SizeOf[c] = "fits" /\ r.key # NoKey
       /\ PutIdempotent(r, c) \/ PutConflict(r, c) \/ PutStore(r, c)

\* clear() empties the dict and nothing else: counters, sequence and log stay.
Clear ==
    /\ cache' = <<>>
    /\ cleared' = TRUE
    /\ answer' = Nothing
    /\ UNCHANGED <<mode, stats, auditLog, written, tampered, dropped>>

-----------------------------------------------------------------------------
(* Memory corruption, as the checksums are there to meet: an entry's       *)
(* content changes, or two entries change places.  One fault: an old entry *)
(* that is put back later would verify, since nothing dates the current    *)
(* one.                                                                    *)

CorruptContent(i, c) ==
    /\ mode.faulty /\ ~tampered
    /\ cache[i].content # c
    /\ cache' = [cache EXCEPT ![i].content = c]
    /\ tampered' = TRUE
    /\ answer' = Nothing
    /\ UNCHANGED <<mode, stats, auditLog, written, cleared, dropped>>

SwapEntries(i, j) ==
    /\ mode.faulty /\ ~tampered
    /\ i < j
    /\ cache' = [cache EXCEPT ![i] = [cache[j] EXCEPT !.slot = cache[i].slot],
                              ![j] = [cache[i] EXCEPT !.slot = cache[j].slot]]
    /\ tampered' = TRUE
    /\ answer' = Nothing
    /\ UNCHANGED <<mode, stats, auditLog, written, cleared, dropped>>

Call == /\ stats.calls < MaxCalls
        /\ \E r \in mode.requests : Get(r) \/ \E c \in r.gives : Put(r, c)

Garbage == UNION {r.gives : r \in mode.requests}

Corruption == \E i \in DOMAIN cache : \/ \E c \in Garbage : CorruptContent(i, c)
                                      \/ \E j \in DOMAIN cache : SwapEntries(i, j)

Next == Call \/ Clear \/ Corruption

Spec == Init /\ [][Next]_vars

-----------------------------------------------------------------------------
(* Properties.                                                             *)

\* A hit returns what was last written under that key, even when an entry's
\* memory changed or two entries changed places in between; and that is what
\* formatting makes of the arguments of the call that hit, unless one of the
\* two calls had an argument that keys do not tell.
HitsAreGenuine ==
    answer.op = "get" /\ answer.kind = "hit" =>
        LET write == written[answer.key]
        IN  /\ answer.content = write.content
            /\ answer.exact /\ write.exact => answer.content \in answer.gives

\* Every call is accounted for by exactly one outcome: in strict mode a
\* corruption is no miss, and a bypass is neither a hit nor a miss.
CallsAreAccountedFor ==
    stats.calls = stats.hits + stats.misses + stats.unhashable_skips
                  + stats.oversize_skips + stats.error_bloat_skips
                  + stats.combined_weight_skips + stats.idempotent_writes
                  + stats.write_once_conflicts + stats.sequence
                  + (IF Strict THEN stats.corruption_detected ELSE 0)

Others(order, k) ==
    IF \E i \in DOMAIN order : order[i] = k
    THEN RemoveAt(order, CHOOSE i \in DOMAIN order : order[i] = k)
    ELSE order

Replay(order, record) ==
    CASE record.op \in {"PUT", "HIT"} -> Append(Others(order, record.key), record.key)
      [] record.op = "EVICT" -> Others(order, record.key)
      [] record.op = "CORRUPTION" -> IF Strict THEN order ELSE Others(order, record.key)
      [] OTHER -> order

Replayed(log) ==
    LET order[i \in 0 .. Len(log)] ==
            IF i = 0 THEN <<>> ELSE Replay(order[i - 1], log[i])
    IN  order[Len(log)]

LRUOrder == [i \in DOMAIN cache |-> cache[i].slot]

\* The audit log explains the cache: replaying it gives the keys and their
\* LRU order, as long as no record was dropped and nothing was cleared; and no
\* mixture of updates, evictions, corruption and clears exceeds maxsize or gives
\* a key two entries.
AuditExplainsCache ==
    /\ Len(cache) <= MaxSize
    /\ Cardinality({cache[i].slot : i \in DOMAIN cache}) = Len(cache)
    /\ ~cleared /\ ~dropped => LRUOrder = Replayed(auditLog)

\* Write-once: while a key stays cached its entry stays the same.
WriteOnceHolds ==
    [][\A k \in Cached : (WriteOnce /\ ~tampered' /\ k \in Cached')
            => Entry(k)' = Entry(k)]_vars
=============================================================================
