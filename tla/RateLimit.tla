----------------------------- MODULE RateLimit ------------------------------
(***************************************************************************)
(* The per-client token bucket of the edge (services/gateway/internal/     *)
(* ratelimit).  Buckets are created full on first use and refilled lazily, *)
(* from the time that passed since the bucket was looked at last.          *)
(*                                                                         *)
(* Time is counted in ticks.  A token is divided into Unit parts so that   *)
(* the refill per tick, Rate parts, is exact where the code uses a float.  *)
(***************************************************************************)
EXTENDS Integers

CONSTANTS
    Key,        \* client names
    Unit,       \* parts of a token
    Rate,       \* parts refilled per tick
    Burst,      \* tokens a bucket holds
    MaxTime     \* bound: length of a behaviour in ticks

ASSUME RateConstantsOK ==
    /\ Unit \in Nat \ {0}
    /\ Rate \in Nat \ {0}
    /\ Burst \in Nat
    /\ MaxTime \in Nat

VARIABLES
    now,        \* the limiter's clock
    buckets,    \* keys that have a bucket
    tokens,     \* tokens[k]: parts in the bucket of k at time last[k]
    last,       \* last[k]
    since       \* ghost: since[k][s]: admissions of k at time s or later

vars == <<now, buckets, tokens, last, since>>

Time == 0 .. MaxTime
Full == Burst * Unit
Smaller(a, b) == IF a <= b THEN a ELSE b

Init ==
    /\ now = 0
    /\ buckets = {}
    /\ tokens = [k \in Key |-> 0]
    /\ last = [k \in Key |-> 0]
    /\ since = [k \in Key |-> [s \in Time |-> 0]]

-----------------------------------------------------------------------------
\* Mutants: a refilled bucket is not capped; only whole tokens are refilled.
FilledUncapped(k) ==
    IF k \in buckets THEN tokens[k] + Rate * (now - last[k]) ELSE Full

FilledWhole(k) ==
    IF k \in buckets THEN Smaller(Full, tokens[k] + Unit * ((Rate * (now - last[k])) \div Unit)) ELSE Full

\* What the bucket of k holds now, a new bucket being full.
Filled(k) ==
    IF k \in buckets THEN Smaller(Full, tokens[k] + Rate * (now - last[k])) ELSE Full

\* Allow with a token left.
Admitted(k) ==
    /\ Filled(k) >= Unit
    /\ buckets' = buckets \cup {k}
    /\ tokens' = [tokens EXCEPT ![k] = Filled(k) - Unit]
    /\ last' = [last EXCEPT ![k] = now]
    /\ since' = [since EXCEPT ![k] = [s \in Time |-> IF s <= now THEN @[s] + 1 ELSE @[s]]]
    /\ UNCHANGED now

\* Allow without: nothing is taken and the refill is recorded.  The wait that is
\* returned ends up in an error message and is left out.
Denied(k) ==
    /\ Filled(k) < Unit
    /\ buckets' = buckets \cup {k}
    /\ tokens' = [tokens EXCEPT ![k] = Filled(k)]
    /\ last' = [last EXCEPT ![k] = now]
    /\ UNCHANGED <<now, since>>

Tick ==
    /\ now < MaxTime
    /\ now' = now + 1
    /\ UNCHANGED <<buckets, tokens, last, since>>

Next == Tick \/ \E k \in Key : Admitted(k) \/ Denied(k)

Spec == Init /\ [][Next]_vars

-----------------------------------------------------------------------------
TypeOK ==
    /\ now \in Time
    /\ buckets \subseteq Key
    /\ tokens \in [Key -> 0 .. Full]
    /\ last \in [Key -> 0 .. now]
    /\ since \in [Key -> [Time -> Nat]]

\* "admits rate events/second per key with the given burst": in every interval,
\* wherever it starts, a key gets at most the burst plus what the rate yields
\* over the interval, however its calls are spread and denied.
WithinRate ==
    \A k \in Key : \A s \in 0 .. now :
        since[k][s] * Unit <= Full + Rate * (now - s)

\* And no less: a key is denied only when one admission more would exceed that
\* allowance in some interval.  Neither denials nor idle time cost a client
\* anything it is entitled to.
DeniesOnlyAtLimit ==
    \A k \in Key : Filled(k) < Unit =>
        \E s \in 0 .. now : (since[k][s] + 1) * Unit > Full + Rate * (now - s)

=============================================================================
