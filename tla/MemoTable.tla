------------------------------ MODULE MemoTable ------------------------------
(***************************************************************************)
(* What the two process-wide caches of ftllexengine promise their callers: *)
(* a table from keys (locale codes, messages) to objects.  A caller asks   *)
(* for a key and gets, in one step, the one object that the table has for  *)
(* it; if there is none, a new object, nobody else's, goes into the table  *)
(* and is the answer.  Entries may be forgotten at any time; what callers  *)
(* hold they keep.                                                         *)
(***************************************************************************)
CONSTANTS Threads, Keys, Objects, None, Refused

VARIABLES memo,     \* the table: a function from some of the keys to objects
          asked,    \* asked[t]: the key that t asked for last
          apart,    \* the threads that wait for an answer that is not cached
          answer    \* answer[t]: None while t waits, then what t was given

memoVars == <<memo, asked, apart, answer>>

Held == { memo[k] : k \in DOMAIN memo } \cup { answer[t] : t \in Threads }

MemoInit ==
    /\ memo = [ k \in {} |-> None ]
    /\ asked = [ t \in Threads |-> None ]
    /\ apart = {}
    /\ answer = [ t \in Threads |-> None ]

Ask(t, k) ==
    /\ asked' = [ asked EXCEPT ![t] = k ]
    /\ apart' = apart \ {t} \/ apart' = apart \cup {t}
    /\ answer' = [ answer EXCEPT ![t] = None ]
    /\ memo' = memo

Waiting(t) == t \notin apart /\ asked[t] \in Keys /\ answer[t] = None

AnswerKnown(t) ==
    /\ Waiting(t)
    /\ asked[t] \in DOMAIN memo
    /\ answer' = [ answer EXCEPT ![t] = memo[asked[t]] ]
    /\ UNCHANGED <<memo, asked, apart>>

(* A new object, and perhaps some older entries make room for it.          *)
AnswerNew(t) ==
    /\ Waiting(t)
    /\ asked[t] \notin DOMAIN memo
    /\ \E o \in Objects \ Held, K \in SUBSET DOMAIN memo :
          /\ memo' = [ k \in K \cup {asked[t]} |-> IF k = asked[t] THEN o ELSE memo[k] ]
          /\ answer' = [ answer EXCEPT ![t] = o ]
    /\ UNCHANGED <<asked, apart>>

(* A caller who wants no cache gets an object of his own.                  *)
AnswerApart(t) ==
    /\ t \in apart
    /\ apart' = apart \ {t}
    /\ \E o \in Objects \ Held : answer' = [ answer EXCEPT ![t] = o ]
    /\ UNCHANGED <<memo, asked>>

Refuse(t) ==
    /\ Waiting(t)
    /\ answer' = [ answer EXCEPT ![t] = Refused ]
    /\ UNCHANGED <<memo, asked, apart>>

Forget ==
    /\ \E K \in SUBSET DOMAIN memo : memo' = [ k \in K |-> memo[k] ]
    /\ UNCHANGED <<asked, apart, answer>>

MemoNext ==
    \/ Forget
    \/ \E t \in Threads :
          \/ \E k \in Keys : Ask(t, k)
          \/ AnswerKnown(t) \/ AnswerNew(t) \/ AnswerApart(t) \/ Refuse(t)

MemoSpec == MemoInit /\ [][MemoNext]_memoVars
=============================================================================
