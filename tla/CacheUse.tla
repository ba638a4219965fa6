------------------------------ MODULE CacheUse ------------------------------
(***************************************************************************)
(* Cache under arbitrary use, with the history that its contract speaks    *)
(* of: when each key was stored last, and in which order keys were used.   *)
(***************************************************************************)
EXTENDS Cache, FiniteSets

CONSTANTS
    Val,        \* values
    MaxTime,    \* bound: length of a behaviour in ticks
    MaxUse      \* bound: hits and stores in a behaviour

ASSUME UseConstantsOK == MaxTime \in Nat /\ MaxUse \in Nat

VARIABLES
    count,      \* ghost: hits and stores so far
    used,       \* ghost: used[k]: the last of them that was of k, 0 for none
    stored,     \* ghost: stored[k]: when k was stored last
    content,    \* ghost: content[k]: what was stored then
    got         \* outcome of the last Get: [key, val], or << >>

vars == <<now, ll, m, count, used, stored, content, got>>

UseInit ==
    /\ Init
    /\ now = 0
    /\ count = 0
    /\ used = [k \in Entry |-> 0]
    /\ stored = [k \in Entry |-> 0]
    /\ content \in [Entry -> Val]
    /\ got = << >>

Use(k) ==
    /\ count < MaxUse
    /\ count' = count + 1
    /\ used' = [used EXCEPT ![k] = count + 1]

GetMiss(k) ==
    /\ Miss(k) \/ Expired(k)
    /\ got' = << >>
    /\ UNCHANGED <<now, count, used, stored, content>>

GetHit(k) ==
    /\ \E i \in 1 .. Len(ll) : Hit(k, i) /\ got' = <<k, ll[i].val>>
    /\ Use(k)
    /\ UNCHANGED <<now, stored, content>>

Store(k, v) ==
    /\ Set(k, v)
    /\ Use(k)
    /\ stored' = [stored EXCEPT ![k] = now]
    /\ content' = [content EXCEPT ![k] = v]
    /\ got' = << >>
    /\ UNCHANGED now

Tick ==
    /\ now < MaxTime
    /\ now' = now + 1
    /\ got' = << >>
    /\ UNCHANGED <<ll, m, count, used, stored, content>>

Next ==
    \/ Tick
    \/ \E k \in Entry : GetMiss(k) \/ GetHit(k) \/ \E v \in Val : Store(k, v)

Spec == UseInit /\ [][Next]_vars

-----------------------------------------------------------------------------
\* A hit returns what was stored last for that key, less than TTL ago, whatever
\* happened to the entry's place in between.
HitIsLastStore ==
    got # << >> => /\ used[got[1]] > 0
                   /\ got[2] = content[got[1]]
                   /\ now < stored[got[1]] + TTL

\* Entries are alive for TTL from the last store, unless they make room.
Live(k) == used[k] > 0 /\ now < stored[k] + TTL

\* "evicting the least-recently-used entry when full": a live key that is gone
\* was used before every key that is there.
EvictsLeastRecent ==
    \A k \in Entry : Live(k) /\ k \notin m => \A j \in m : used[j] > used[k]

\* And it made room only for as many keys as the cache holds: a lookup of a live
\* key misses only when Cap others were used after it.
MissesOnlyWhenFull ==
    \A k \in Entry : Live(k) /\ k \notin m =>
        Cardinality({j \in Entry : used[j] > used[k]}) >= Cap

=============================================================================
