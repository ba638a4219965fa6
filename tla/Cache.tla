------------------------------- MODULE Cache --------------------------------
(***************************************************************************)
(* The response cache of the edge (services/gateway/internal/cache): a     *)
(* list of entries, most recently used first, with an index by key.  Every *)
(* operation holds the mutex throughout.                                   *)
(*                                                                         *)
(* The index is the set of keys it has; the element it points to is the    *)
(* one whose entry has that key, for an element never changes its key.     *)
(***************************************************************************)
EXTENDS Integers, Sequences

CONSTANTS
    Entry,      \* keys: method and parameters of a call
    Cap,        \* capacity
    TTL         \* time to live of an entry, in ticks

ASSUME CacheConstantsOK == Cap \in Nat /\ TTL \in Nat \ {0}

VARIABLES
    now,        \* the clock
    ll,         \* the list: records [key, val, expires]
    m           \* keys in the index

cacheVars == <<ll, m>>

Init == ll = << >> /\ m = {}

-----------------------------------------------------------------------------
\* container/list, for the element at position i.
PushFront(s, e) == [j \in 1 .. Len(s) + 1 |-> IF j = 1 THEN e ELSE s[j - 1]]
RemoveAt(s, i) == [j \in 1 .. Len(s) - 1 |-> IF j < i THEN s[j] ELSE s[j + 1]]

\* Mutant: a use does not change the order.
MoveNowhere(s, i) == s

MoveToFront(s, i) ==
    [j \in 1 .. Len(s) |-> IF j = 1 THEN s[i] ELSE IF j <= i THEN s[j - 1] ELSE s[j]]

At(i, k) == i \in 1 .. Len(ll) /\ ll[i].key = k

-----------------------------------------------------------------------------
\* Mutants: an expired entry stays in the index; an entry is served at the instant
\* it expires.
UnindexNot(k) == UNCHANGED m
FreshAtEnd(i) == now <= ll[i].expires

Unindex(k) == m' = m \ {k}
Fresh(i) == now < ll[i].expires

\* Get: no entry, an entry that has expired, a live entry (at position i).
Miss(k) == k \notin m /\ UNCHANGED <<ll, m>>

Expired(k) ==
    /\ k \in m
    /\ \E i \in 1 .. Len(ll) :
        At(i, k) /\ ~Fresh(i) /\ ll' = RemoveAt(ll, i)
    /\ Unindex(k)

Hit(k, i) ==
    /\ k \in m
    /\ At(i, k)
    /\ Fresh(i)
    /\ ll' = MoveToFront(ll, i)
    /\ UNCHANGED m

\* Mutant: one entry too many is evicted.
OverEarly(s) == Len(s) >= Cap

Over(s) == Len(s) > Cap

\* Set of a key that has an entry, and of one that has none.
Overwrite(e) ==
    /\ e.key \in m
    /\ \E i \in 1 .. Len(ll) :
        At(i, e.key) /\ ll' = MoveToFront([ll EXCEPT ![i] = e], i)
    /\ UNCHANGED m

Insert(e) ==
    /\ e.key \notin m
    /\ LET s == PushFront(ll, e) IN
        IF Over(s)
        THEN ll' = RemoveAt(s, Len(s)) /\ m' = (m \cup {e.key}) \ {s[Len(s)].key}
        ELSE ll' = s /\ m' = m \cup {e.key}

Set(k, v) ==
    LET e == [key |-> k, val |-> v, expires |-> now + TTL] IN Overwrite(e) \/ Insert(e)

-----------------------------------------------------------------------------
\* The list and the index agree, entries are found under one key each, and the
\* capacity holds after every operation.
Coherent ==
    /\ {ll[i].key : i \in 1 .. Len(ll)} = m
    /\ \A i, j \in 1 .. Len(ll) : ll[i].key = ll[j].key => i = j
    /\ Len(ll) <= Cap

=============================================================================
