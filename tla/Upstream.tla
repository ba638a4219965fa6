------------------------------ MODULE Upstream ------------------------------
(***************************************************************************)
(* The pool of upstream nodes (services/gateway/internal/upstream) and the *)
(* circuit breaker it keeps per endpoint (.../internal/breaker).           *)
(*                                                                         *)
(* Concurrent calls walk the endpoints in round-robin order, skip the ones *)
(* whose breaker refuses, and report success or failure to the breaker of  *)
(* the endpoint they tried.  A report may arrive long after the breaker    *)
(* admitted the call, when its state has moved on.                         *)
(*                                                                         *)
(* Time is counted in ticks.  The HTTP client bounds every try by Timeout, *)
(* which the gateway configures below the breaker's Cooldown (5s and 10s). *)
(***************************************************************************)
EXTENDS Integers

CONSTANTS
    Caller,     \* goroutines that use the pool
    N,          \* number of endpoints
    Threshold,  \* consecutive failures that trip a breaker
    Cooldown,   \* ticks an open breaker refuses calls
    Timeout     \* ticks after which the client gives up on a try

ASSUME UpstreamConstantsOK ==
    /\ N \in Nat
    /\ Threshold \in Nat \ {0}
    /\ Timeout \in Nat
    /\ Cooldown \in Nat /\ Timeout < Cooldown

VARIABLES
    state,      \* state[e]: "closed", "open" or "half-open"
    failures,   \* failures[e], counted up to Threshold
    probing,    \* probing[e]: the half-open probe has been handed out
    age,        \* age[e]: ticks since openedAt, up to Cooldown; 0 unless open
    next,       \* the round-robin counter modulo N
    pc,         \* pc[c]: "idle", "pick" or "try"
    first,      \* first[c]: local start of Call
    i,          \* i[c]: loop variable of Call
    ttl,        \* ttl[c]: ticks left of the try in flight
    verdict     \* ghost: verdict[c][e]: what this call learnt about e

brVars == <<state, failures, probing, age>>
callVars == <<first, i, ttl, verdict>>
vars == <<brVars, next, pc, callVars>>

Endpoint == 0 .. N - 1
PoolSize == IF N = 0 THEN 1 ELSE N

\* The endpoint call c is looking at, and the calls in flight to e.
At(c) == (first[c] + i[c]) % PoolSize
InFlight(e) == {c \in Caller : pc[c] = "try" /\ At(c) = e}

NoVerdict == [e \in Endpoint |-> "unknown"]

Init ==
    /\ state = [e \in Endpoint |-> "closed"]
    /\ failures = [e \in Endpoint |-> 0]
    /\ probing = [e \in Endpoint |-> FALSE]
    /\ age = [e \in Endpoint |-> 0]
    /\ next = 0
    /\ pc = [c \in Caller |-> "idle"]
    /\ first = [c \in Caller |-> 0]
    /\ i = [c \in Caller |-> 0]
    /\ ttl = [c \in Caller |-> 0]
    /\ verdict = [c \in Caller |-> NoVerdict]

-----------------------------------------------------------------------------
(* The breaker.                                                              *)

\* Mutants: half-open lets everybody through; an open breaker stays open.
AllowsAnyProbe(e) == state[e] # "open" \/ age[e] >= Cooldown
AllowsOnlyClosed(e) == state[e] = "closed" \/ (state[e] = "half-open" /\ ~probing[e])

\* Allow: the answer, and what a positive answer does.
Allows(e) ==
    \/ state[e] = "closed"
    \/ state[e] = "open" /\ age[e] >= Cooldown
    \/ state[e] = "half-open" /\ ~probing[e]

Allow(e) ==
    /\ state' = [state EXCEPT ![e] = IF @ = "open" THEN "half-open" ELSE @]
    /\ probing' = [probing EXCEPT ![e] = @ \/ state[e] # "closed"]
    /\ age' = [age EXCEPT ![e] = 0]
    /\ UNCHANGED failures

Success(e) ==
    /\ failures' = [failures EXCEPT ![e] = 0]
    /\ state' = [state EXCEPT ![e] = "closed"]
    /\ probing' = [probing EXCEPT ![e] = FALSE]
    /\ age' = [age EXCEPT ![e] = 0]

\* One failure more; the count only matters up to Threshold.
Bump(n) == IF n < Threshold THEN n + 1 ELSE n

\* A failed try, at any time after its admission.
Failure(e) ==
    /\ failures' = [failures EXCEPT ![e] = Bump(@)]
    /\ probing' = [probing EXCEPT ![e] = FALSE]
    /\ IF state[e] = "half-open" \/ Bump(failures[e]) >= Threshold
       THEN state' = [state EXCEPT ![e] = "open"] /\ age' = [age EXCEPT ![e] = 0]
       ELSE UNCHANGED <<state, age>>

-----------------------------------------------------------------------------
(* Call.                                                                     *)

\* Call returns; its locals are gone.
Return(c) ==
    /\ pc' = [pc EXCEPT ![c] = "idle"]
    /\ first' = [first EXCEPT ![c] = 0]
    /\ i' = [i EXCEPT ![c] = 0]
    /\ verdict' = [verdict EXCEPT ![c] = NoVerdict]

\* Take the next start position.
Start(c) ==
    /\ pc[c] = "idle"
    /\ pc' = [pc EXCEPT ![c] = "pick"]
    /\ first' = [first EXCEPT ![c] = next]
    /\ next' = (next + 1) % PoolSize
    /\ UNCHANGED <<brVars, i, ttl, verdict>>

\* Mutant: the loop does not move on.
Again(n) == n

\* The loop variable of Call, after an endpoint that refused or failed.
Further(n) == n + 1

\* The breaker refuses: go on to the next endpoint.
Refused(c) ==
    /\ pc[c] = "pick" /\ i[c] < N
    /\ ~Allows(At(c))
    /\ i' = [i EXCEPT ![c] = Further(@)]
    /\ verdict' = [verdict EXCEPT ![c][At(c)] = "refused"]
    /\ UNCHANGED <<brVars, next, pc, first, ttl>>

\* The breaker admits the call and the request is sent.
Try(c) ==
    /\ pc[c] = "pick" /\ i[c] < N
    /\ Allows(At(c))
    /\ Allow(At(c))
    /\ pc' = [pc EXCEPT ![c] = "try"]
    /\ ttl' = [ttl EXCEPT ![c] = Timeout]
    /\ UNCHANGED <<next, first, i, verdict>>

\* An answer with a status below 500: Call returns it.
Answered(c) ==
    /\ pc[c] = "try"
    /\ Success(At(c))
    /\ Return(c)
    /\ ttl' = [ttl EXCEPT ![c] = 0]
    /\ UNCHANGED next

\* Mutant: a try that was cancelled reports nothing to the breaker.
ReportUnlessCancelled(e) == Failure(e) \/ UNCHANGED brVars

Report(e) == Failure(e)

\* A transport error, a timeout, a cancelled request or a status of 500 and up:
\* fail over to the next endpoint.
TryFailed(c) ==
    /\ pc[c] = "try"
    /\ Report(At(c))
    /\ pc' = [pc EXCEPT ![c] = "pick"]
    /\ ttl' = [ttl EXCEPT ![c] = 0]
    /\ i' = [i EXCEPT ![c] = Further(@)]
    /\ verdict' = [verdict EXCEPT ![c][At(c)] = "failed"]
    /\ UNCHANGED <<next, first>>

\* Mutant: the loop stops one endpoint early.
ExhaustedEarly(c) == i[c] >= N - 1

Exhausted(c) == i[c] >= N

\* The loop is over: Call returns ErrNoUpstream.
NoUpstream(c) ==
    /\ pc[c] = "pick" /\ Exhausted(c)
    /\ Return(c)
    /\ UNCHANGED <<brVars, next, ttl>>

\* Time passes; a try whose time is up has to end first.
Tick ==
    /\ \A c \in Caller : pc[c] = "try" => ttl[c] > 0
    /\ ttl' = [c \in Caller |-> IF pc[c] = "try" THEN ttl[c] - 1 ELSE ttl[c]]
    /\ age' = [e \in Endpoint |-> IF state[e] = "open" /\ age[e] < Cooldown
                                  THEN age[e] + 1 ELSE age[e]]
    /\ UNCHANGED <<state, failures, probing, next, pc, first, i, verdict>>

Next ==
    \/ \E c \in Caller : Start(c) \/ Refused(c) \/ Try(c)
    \/ \E c \in Caller : Answered(c) \/ TryFailed(c) \/ NoUpstream(c)
    \/ Tick

Spec == Init /\ [][Next]_vars

\* Goroutines are scheduled, a try ends one way or the other, time passes, and
\* somebody keeps calling (the indexer polls for ever).
Fairness ==
    /\ \A c \in Caller : WF_vars(Start(c) \/ Refused(c) \/ Try(c) \/ NoUpstream(c))
    /\ \A c \in Caller : WF_vars(Answered(c) \/ TryFailed(c))
    /\ WF_vars(Tick)

FairSpec == Spec /\ Fairness

-----------------------------------------------------------------------------
TypeOK ==
    /\ state \in [Endpoint -> {"closed", "open", "half-open"}]
    /\ failures \in [Endpoint -> 0 .. Threshold]
    /\ probing \in [Endpoint -> BOOLEAN]
    /\ age \in [Endpoint -> 0 .. Cooldown]
    /\ next \in 0 .. PoolSize - 1
    /\ pc \in [Caller -> {"idle", "pick", "try"}]
    /\ first \in [Caller -> 0 .. PoolSize - 1]
    /\ i \in [Caller -> 0 .. N]
    /\ \A c \in Caller : pc[c] = "try" => i[c] < N
    /\ ttl \in [Caller -> 0 .. Timeout]
    /\ verdict \in [Caller -> [Endpoint -> {"unknown", "refused", "failed"}]]

\* "In half-open exactly one probe is admitted": a half-open breaker has exactly
\* one call in flight to its endpoint.  Neither a straggler that was admitted
\* before the breaker opened nor an earlier probe is still under way, so the
\* next report the breaker gets is the probe's own, and it will get one.
SingleProbe ==
    \A e \in Endpoint : state[e] = "half-open" =>
        /\ \E c \in Caller : c \in InFlight(e)
        /\ \A c, d \in InFlight(e) : c = d

\* "ErrNoUpstream means every endpoint failed or is circuit-broken": the call
\* that returns it asked every endpoint, and each refused or failed it.
NoUpstreamIsExhaustive ==
    [][\A c \in Caller :
          pc[c] = "pick" /\ pc'[c] = "idle"
             => \A e \in Endpoint : verdict[c][e] \in {"refused", "failed"}]_vars

\* "probes again after cooldown": no endpoint stays shut out.
ProbedAgain == \A e \in Endpoint : state[e] = "open" ~> state[e] # "open"

\* A half-open breaker is decided: the probe cannot get lost.
ProbeDecides == \A e \in Endpoint : state[e] = "half-open" ~> state[e] # "half-open"

\* A call is sent to an endpoint at most once, however breakers open and close
\* during its walk: a transaction that is broadcast through the pool is not posted
\* to one relay twice.
NeverTwice ==
    [][\A c \in Caller :
          pc[c] = "pick" /\ pc'[c] = "try" => verdict[c][At(c)] = "unknown"]_vars

=============================================================================
