--------------------------- MODULE UpstreamProofs ---------------------------
(***************************************************************************)
(* Proofs about Upstream, for every number of callers and endpoints, every *)
(* threshold, and every timeout below the cooldown.                        *)
(*                                                                         *)
(* SingleProbe is not inductive: it needs that an open breaker whose       *)
(* cooldown is over has no straggler in flight (PartStragglers), and that  *)
(* a half-open breaker has handed out its probe (PartFlag).  That a call   *)
(* tries every endpoint once rests on what its loop has done so far (Walk).*)
(***************************************************************************)
EXTENDS Upstream, TLAPS

-----------------------------------------------------------------------------
\* A call that is still in its loop looks at an endpoint of the pool.
LEMMA AtType ==
  ASSUME TypeOK, NEW c \in Caller, i[c] < N
  PROVE  At(c) \in Endpoint
<1>1. N \in Nat \ {0} /\ first[c] \in Nat /\ i[c] \in Nat
  BY UpstreamConstantsOK DEF TypeOK, PoolSize
<1>2. PoolSize = N
  BY <1>1 DEF PoolSize
<1>3. (first[c] + i[c]) % N \in 0 .. N - 1
  BY <1>1
<1> QED
  BY <1>2, <1>3 DEF At, Endpoint

\* The pool's modulus is never zero.
LEMMA SizeType == PoolSize \in Nat \ {0}
  BY UpstreamConstantsOK DEF PoolSize

\* The failure count stays in range.
LEMMA BumpType == \A n \in 0 .. Threshold : Bump(n) \in 0 .. Threshold
  BY UpstreamConstantsOK DEF Bump

-----------------------------------------------------------------------------
\* Init is well-typed.
LEMMA InitType == Init => TypeOK
<1> SUFFICES ASSUME Init PROVE TypeOK
  OBVIOUS
<1>1. /\ Threshold \in Nat /\ Cooldown \in Nat /\ Timeout \in Nat /\ N \in Nat
      /\ PoolSize \in Nat \ {0}
  BY UpstreamConstantsOK, SizeType
<1>2. 0 \in 0 .. Threshold /\ 0 \in 0 .. Cooldown /\ 0 \in 0 .. Timeout /\ 0 \in 0 .. N
      /\ 0 \in 0 .. PoolSize - 1
  BY <1>1
<1>3. state \in [Endpoint -> {"closed", "open", "half-open"}] /\ failures \in [Endpoint -> 0 .. Threshold]
  BY <1>2 DEF Init
<1>4. probing \in [Endpoint -> BOOLEAN] /\ age \in [Endpoint -> 0 .. Cooldown]
  BY <1>2 DEF Init
<1>5. next \in 0 .. PoolSize - 1 /\ first \in [Caller -> 0 .. PoolSize - 1]
  BY <1>2 DEF Init
<1>6. pc \in [Caller -> {"idle", "pick", "try"}] /\ i \in [Caller -> 0 .. N] /\ ttl \in [Caller -> 0 .. Timeout]
  BY <1>2 DEF Init
<1>7. verdict \in [Caller -> [Endpoint -> {"unknown", "refused", "failed"}]]
  BY DEF Init, NoVerdict
<1>8. \A c \in Caller : pc[c] # "try"
  BY DEF Init
<1> QED
  BY <1>3, <1>4, <1>5, <1>6, <1>7, <1>8 DEF TypeOK

\* Every step keeps the state well-typed.
LEMMA StepType == TypeOK /\ [Next]_vars => TypeOK'
<1> SUFFICES ASSUME TypeOK, [Next]_vars PROVE TypeOK'
  OBVIOUS
<1>0. /\ Threshold \in Nat \ {0} /\ Cooldown \in Nat /\ Timeout \in Nat /\ N \in Nat
      /\ PoolSize \in Nat \ {0} /\ (next + 1) % PoolSize \in 0 .. PoolSize - 1
      /\ 0 \in 0 .. PoolSize - 1 /\ 0 \in 0 .. N /\ 0 \in 0 .. Cooldown /\ 0 \in 0 .. Timeout
      /\ 0 \in 0 .. Threshold /\ Timeout \in 0 .. Timeout
  <2>1. /\ Threshold \in Nat \ {0} /\ Cooldown \in Nat /\ Timeout \in Nat /\ N \in Nat
        /\ PoolSize \in Nat \ {0} /\ next \in Nat
    BY UpstreamConstantsOK, SizeType DEF TypeOK
  <2> QED  BY <2>1
<1>1. NoVerdict \in [Endpoint -> {"unknown", "refused", "failed"}]
  BY DEF NoVerdict
<1>2. ASSUME NEW c \in Caller, Start(c)
      PROVE  TypeOK'
  <2>1. first' \in [Caller -> 0 .. PoolSize - 1] /\ next' \in 0 .. PoolSize - 1
    BY <1>0, <1>2 DEF Start, TypeOK
  <2>2. pc' \in [Caller -> {"idle", "pick", "try"}] /\ \A d \in Caller : pc'[d] = "try" => pc[d] = "try"
    BY <1>2 DEF Start, TypeOK
  <2> QED  BY <1>2, <2>1, <2>2 DEF Start, TypeOK, brVars
<1>3. ASSUME NEW c \in Caller, Refused(c)
      PROVE  TypeOK'
  <2>1. i' \in [Caller -> 0 .. N] /\ \A d \in Caller : pc'[d] = "try" => i'[d] < N
    BY <1>0, <1>3 DEF Refused, Further, TypeOK
  <2>2. verdict' \in [Caller -> [Endpoint -> {"unknown", "refused", "failed"}]]
    BY <1>3 DEF Refused, TypeOK
  <2> QED  BY <1>3, <2>1, <2>2 DEF Refused, TypeOK, brVars
<1>4. ASSUME NEW c \in Caller, Try(c)
      PROVE  TypeOK'
  <2>1. state' \in [Endpoint -> {"closed", "open", "half-open"}] /\ age' \in [Endpoint -> 0 .. Cooldown]
    BY <1>0, <1>4 DEF Try, Allow, TypeOK
  <2>2. probing' \in [Endpoint -> BOOLEAN]
    BY <1>4 DEF Try, Allow, TypeOK
  <2>3. pc' \in [Caller -> {"idle", "pick", "try"}] /\ ttl' \in [Caller -> 0 .. Timeout]
    BY <1>0, <1>4 DEF Try, TypeOK
  <2>4. \A d \in Caller : pc'[d] = "try" => i'[d] < N
    BY <1>4 DEF Try, TypeOK
  <2> QED  BY <1>4, <2>1, <2>2, <2>3, <2>4 DEF Try, Allow, TypeOK
<1>5. ASSUME NEW c \in Caller, Return(c)
      PROVE  /\ pc' \in [Caller -> {"idle", "pick", "try"}] /\ first' \in [Caller -> 0 .. PoolSize - 1]
             /\ i' \in [Caller -> 0 .. N] /\ \A d \in Caller : pc'[d] = "try" => i'[d] < N
             /\ verdict' \in [Caller -> [Endpoint -> {"unknown", "refused", "failed"}]]
  <2>1. pc' \in [Caller -> {"idle", "pick", "try"}] /\ first' \in [Caller -> 0 .. PoolSize - 1]
    BY <1>0, <1>5 DEF Return, TypeOK
  <2>2. i' \in [Caller -> 0 .. N] /\ verdict' \in [Caller -> [Endpoint -> {"unknown", "refused", "failed"}]]
    BY <1>0, <1>1, <1>5 DEF Return, TypeOK
  <2>3. \A d \in Caller : pc'[d] = "try" => i'[d] < N
    BY <1>5 DEF Return, TypeOK
  <2> QED  BY <2>1, <2>2, <2>3
<1>6. ASSUME NEW c \in Caller, Answered(c)
      PROVE  TypeOK'
  <2>1. state' \in [Endpoint -> {"closed", "open", "half-open"}] /\ age' \in [Endpoint -> 0 .. Cooldown]
    BY <1>0, <1>6 DEF Answered, Success, TypeOK
  <2>2. probing' \in [Endpoint -> BOOLEAN] /\ failures' \in [Endpoint -> 0 .. Threshold]
    BY <1>0, <1>6 DEF Answered, Success, TypeOK
  <2>3. ttl' \in [Caller -> 0 .. Timeout]
    BY <1>0, <1>6 DEF Answered, TypeOK
  <2>4. Return(c) /\ next' = next
    BY <1>6 DEF Answered
  <2> QED  BY <1>5, <2>1, <2>2, <2>3, <2>4 DEF TypeOK
<1>7. ASSUME NEW c \in Caller, TryFailed(c)
      PROVE  TypeOK'
  <2>1. state' \in [Endpoint -> {"closed", "open", "half-open"}] /\ age' \in [Endpoint -> 0 .. Cooldown]
    BY <1>0, <1>7 DEF TryFailed, Report, Failure, TypeOK
  <2>2. probing' \in [Endpoint -> BOOLEAN] /\ failures' \in [Endpoint -> 0 .. Threshold]
    <3>1. probing' = [probing EXCEPT ![At(c)] = FALSE]
      BY <1>7 DEF TryFailed, Report, Failure
    <3>2. failures' = [failures EXCEPT ![At(c)] = Bump(failures[At(c)])]
      BY <1>7 DEF TryFailed, Report, Failure
    <3>3. probing' \in [Endpoint -> BOOLEAN]
      BY <3>1 DEF TypeOK
    <3>4. At(c) \in Endpoint
      BY <1>7, AtType DEF TryFailed, TypeOK
    <3>5. Bump(failures[At(c)]) \in 0 .. Threshold
      BY <3>4, BumpType DEF TypeOK
    <3>6. failures' \in [Endpoint -> 0 .. Threshold]
      BY <3>2, <3>5 DEF TypeOK
    <3> QED  BY <3>3, <3>6
  <2>3. ttl' \in [Caller -> 0 .. Timeout] /\ pc' \in [Caller -> {"idle", "pick", "try"}]
    BY <1>0, <1>7 DEF TryFailed, TypeOK
  <2>4. i' \in [Caller -> 0 .. N] /\ \A d \in Caller : pc'[d] = "try" => i'[d] < N
    BY <1>0, <1>7 DEF TryFailed, Further, TypeOK
  <2>5. verdict' \in [Caller -> [Endpoint -> {"unknown", "refused", "failed"}]]
    BY <1>7 DEF TryFailed, TypeOK
  <2> QED  BY <1>7, <2>1, <2>2, <2>3, <2>4, <2>5 DEF TryFailed, TypeOK
<1>8. ASSUME NEW c \in Caller, NoUpstream(c)
      PROVE  TypeOK'
  BY <1>5, <1>8 DEF NoUpstream, TypeOK, brVars
<1>9. CASE Tick
  <2>1. ttl' \in [Caller -> 0 .. Timeout]
    BY <1>0, <1>9 DEF Tick, TypeOK
  <2>2. age' \in [Endpoint -> 0 .. Cooldown]
    BY <1>0, <1>9 DEF Tick, TypeOK
  <2> QED  BY <1>9, <2>1, <2>2 DEF Tick, TypeOK
<1>10. CASE UNCHANGED vars
  BY <1>10 DEF TypeOK, vars, brVars, callVars
<1> QED
  BY <1>2, <1>3, <1>4, <1>6, <1>7, <1>8, <1>9, <1>10 DEF Next

\* Pool and breakers are always well-typed: counters stay in range and no call
\* looks at an endpoint outside the pool.
THEOREM TypeCorrect == Spec => []TypeOK
  BY InitType, StepType, PTL DEF Spec

-----------------------------------------------------------------------------
\* Who is in flight after a step: a try joins its endpoint's calls, a report
\* leaves them, every other step changes nothing.
LEMMA FlightFacts ==
  ASSUME TypeOK, NEW e \in Endpoint, NEW c \in Caller
  PROVE  /\ Start(c) \/ Refused(c) \/ NoUpstream(c) => InFlight(e)' = InFlight(e)
         /\ Try(c) => InFlight(e)' = IF At(c) = e THEN InFlight(e) \cup {c} ELSE InFlight(e)
         /\ Answered(c) \/ TryFailed(c) => InFlight(e)' = InFlight(e) \ {c}
         /\ Tick => InFlight(e)' = InFlight(e)
<1>1. ASSUME Start(c) \/ Refused(c) \/ NoUpstream(c)
      PROVE  InFlight(e)' = InFlight(e)
  <2>1. \A d \in Caller : d # c => pc'[d] = pc[d] /\ first'[d] = first[d] /\ i'[d] = i[d]
    BY <1>1 DEF Start, Refused, NoUpstream, Return, TypeOK
  <2>2. pc[c] # "try" /\ pc'[c] # "try"
    BY <1>1 DEF Start, Refused, NoUpstream, Return, TypeOK
  <2> QED  BY <2>1, <2>2 DEF InFlight, At
<1>2. ASSUME Try(c)
      PROVE  InFlight(e)' = IF At(c) = e THEN InFlight(e) \cup {c} ELSE InFlight(e)
  <2>1. \A d \in Caller : d # c => pc'[d] = pc[d]
    BY <1>2 DEF Try, TypeOK
  <2>2. first' = first /\ i' = i /\ pc[c] = "pick" /\ pc'[c] = "try"
    BY <1>2 DEF Try, TypeOK
  <2> QED  BY <2>1, <2>2 DEF InFlight, At
<1>3. ASSUME Answered(c) \/ TryFailed(c)
      PROVE  InFlight(e)' = InFlight(e) \ {c}
  <2>1. \A d \in Caller : d # c => pc'[d] = pc[d] /\ first'[d] = first[d] /\ i'[d] = i[d]
    BY <1>3 DEF Answered, TryFailed, Return, TypeOK
  <2>2. pc'[c] # "try"
    BY <1>3 DEF Answered, TryFailed, Return, TypeOK
  <2> QED  BY <2>1, <2>2 DEF InFlight, At
<1>4. Tick => InFlight(e)' = InFlight(e)
  BY DEF Tick, InFlight, At
<1> QED
  BY <1>1, <1>2, <1>3, <1>4

\* The invariant for one endpoint: a half-open breaker has handed out its probe;
\* a try in flight to an open breaker's endpoint ends within Timeout of the
\* moment the breaker opened; a half-open breaker has one call in flight.
PartFlag(e) == state[e] = "half-open" => probing[e]
PartStragglers(e) ==
    state[e] = "open" => \A c \in InFlight(e) : ttl[c] + age[e] <= Timeout
PartProbe(e) ==
    state[e] = "half-open" =>
        /\ \E c \in Caller : c \in InFlight(e)
        /\ \A c, d \in InFlight(e) : c = d

Part(e) == PartFlag(e) /\ PartStragglers(e) /\ PartProbe(e)

\* A step that leaves an endpoint's breaker alone and starts no try there keeps
\* its part of the invariant.
LEMMA Untouched ==
  ASSUME TypeOK, NEW e \in Endpoint, Part(e),
         state'[e] = state[e], probing'[e] = probing[e], age'[e] = age[e],
         InFlight(e)' = InFlight(e), \A c \in InFlight(e) : ttl'[c] = ttl[c]
  PROVE  Part(e)'
<1>1. PartFlag(e)'
  BY DEF Part, PartFlag
<1>2. PartStragglers(e)'
  BY DEF Part, PartStragglers
<1>3. PartProbe(e)'
  BY DEF Part, PartProbe
<1> QED
  BY <1>1, <1>2, <1>3 DEF Part

\* "In half-open exactly one probe is admitted", whatever order late reports,
\* probes, timeouts and new calls come in, for every timeout below the cooldown.
THEOREM OneProbe == Spec => []SingleProbe
<1> DEFINE Inv == TypeOK /\ \A e \in Endpoint : Part(e)
<1>1. Init => Inv
  <2> SUFFICES ASSUME Init PROVE Inv
    OBVIOUS
  <2>1. \A e \in Endpoint : state[e] = "closed"
    BY DEF Init
  <2> QED
    BY <2>1, InitType DEF Part, PartFlag, PartStragglers, PartProbe
<1>2. Inv /\ [Next]_vars => Inv'
  <2> SUFFICES ASSUME Inv, [Next]_vars, NEW e \in Endpoint PROVE Part(e)'
    BY StepType
  <2>0. /\ TypeOK /\ TypeOK' /\ Part(e)
        /\ Timeout \in Nat /\ Cooldown \in Nat /\ Timeout < Cooldown
    BY StepType, UpstreamConstantsOK
  <2>1. ASSUME NEW c \in Caller, Start(c) \/ Refused(c) \/ NoUpstream(c)
        PROVE  Part(e)'
    <3>1. InFlight(e)' = InFlight(e)
      BY <2>0, <2>1, FlightFacts
    <3>2. UNCHANGED <<state, probing, age, ttl>>
      BY <2>1 DEF Start, Refused, NoUpstream, brVars
    <3> QED  BY <2>0, <3>1, <3>2, Untouched
  <2>2. ASSUME NEW c \in Caller, Try(c)
        PROVE  Part(e)'
    <3>1. At(c) \in Endpoint /\ c \notin InFlight(e)
      BY <2>0, <2>2, AtType DEF Try, InFlight
    <3>2. CASE At(c) # e
      <4>1. state'[e] = state[e] /\ probing'[e] = probing[e] /\ age'[e] = age[e]
        BY <2>0, <2>2, <3>1, <3>2 DEF Try, Allow, TypeOK
      <4>2. InFlight(e)' = InFlight(e)
        BY <2>0, <2>2, <3>2, FlightFacts
      <4>3. \A d \in InFlight(e) : ttl'[d] = ttl[d]
        BY <2>0, <2>2, <3>1 DEF Try, TypeOK, InFlight
      <4> QED  BY <2>0, <4>1, <4>2, <4>3, Untouched
    <3>3. CASE At(c) = e
      <4>1. InFlight(e)' = InFlight(e) \cup {c}
        BY <2>0, <2>2, <3>3, FlightFacts
      <4>2. CASE state[e] = "closed"
        <5>1. state'[e] = "closed"
          BY <2>0, <2>2, <3>3, <4>2 DEF Try, Allow, TypeOK
        <5> QED  BY <5>1 DEF Part, PartFlag, PartStragglers, PartProbe
      <4>3. CASE state[e] = "open"
        <5>1. state'[e] = "half-open" /\ probing'[e] = TRUE
          BY <2>0, <2>2, <3>3, <4>3 DEF Try, Allow, TypeOK
        <5>2. age[e] >= Cooldown
          BY <2>2, <3>3, <4>3 DEF Try, Allows
        <5>3. InFlight(e) = {}
          <6> SUFFICES ASSUME NEW d \in InFlight(e) PROVE FALSE
            OBVIOUS
          <6>1. ttl[d] \in Nat /\ age[e] \in Nat
            BY <2>0 DEF TypeOK, InFlight
          <6>2. ttl[d] + age[e] <= Timeout
            BY <2>0, <4>3 DEF Part, PartStragglers
          <6> QED  BY <2>0, <5>2, <6>1, <6>2
        <5>4. InFlight(e)' = {c}
          BY <4>1, <5>3
        <5> QED  BY <5>1, <5>4 DEF Part, PartFlag, PartStragglers, PartProbe
      <4>4. CASE state[e] = "half-open"
        BY <2>0, <2>2, <3>3, <4>4 DEF Try, Allows, Part, PartFlag
      <4> QED  BY <2>0, <4>2, <4>3, <4>4 DEF TypeOK
    <3> QED  BY <3>2, <3>3
  <2>3. ASSUME NEW c \in Caller, Answered(c) \/ TryFailed(c), At(c) # e
        PROVE  Part(e)'
    <3>1. state'[e] = state[e] /\ probing'[e] = probing[e] /\ age'[e] = age[e]
      BY <2>0, <2>3 DEF Answered, TryFailed, Report, Success, Failure, TypeOK
    <3>2. InFlight(e)' = InFlight(e) \ {c} /\ c \notin InFlight(e)
      BY <2>0, <2>3, FlightFacts DEF InFlight
    <3>3. \A d \in InFlight(e) : ttl'[d] = ttl[d]
      BY <2>0, <2>3, <3>2 DEF Answered, TryFailed, TypeOK, InFlight
    <3> QED  BY <2>0, <3>1, <3>2, <3>3, Untouched
  <2>4. ASSUME NEW c \in Caller, Answered(c), At(c) = e
        PROVE  Part(e)'
    <3>1. state'[e] = "closed"
      BY <2>0, <2>4 DEF Answered, Success, TypeOK
    <3> QED  BY <3>1 DEF Part, PartFlag, PartStragglers, PartProbe
  <2>5. ASSUME NEW c \in Caller, TryFailed(c), At(c) = e
        PROVE  Part(e)'
    <3>1. InFlight(e)' = InFlight(e) \ {c} /\ c \in InFlight(e)
      BY <2>0, <2>5, FlightFacts DEF InFlight, TryFailed
    <3>2. \A d \in InFlight(e)' : d \in Caller /\ ttl'[d] \in 0 .. Timeout
      BY <2>0, <3>1 DEF InFlight, TypeOK
    <3>3. CASE state[e] = "half-open" \/ Bump(failures[e]) >= Threshold
      <4>1. state'[e] = "open" /\ age'[e] = 0
        BY <2>0, <2>5, <3>3 DEF TryFailed, Report, Failure, TypeOK
      <4>2. \A d \in InFlight(e)' : ttl'[d] + age'[e] <= Timeout
        BY <2>0, <3>2, <4>1
      <4> QED  BY <4>1, <4>2 DEF Part, PartFlag, PartStragglers, PartProbe
    <3>4. CASE ~(state[e] = "half-open" \/ Bump(failures[e]) >= Threshold)
      <4>1. state' = state /\ age' = age /\ state[e] # "half-open"
        BY <2>5, <3>4 DEF TryFailed, Report, Failure
      <4>2. \A d \in InFlight(e)' : d \in InFlight(e) /\ ttl'[d] = ttl[d]
        BY <2>0, <2>5, <3>1 DEF TryFailed, TypeOK, InFlight
      <4> QED  BY <2>0, <4>1, <4>2 DEF Part, PartFlag, PartStragglers, PartProbe
    <3> QED  BY <3>3, <3>4
  <2>6. CASE Tick
    <3>1. state' = state /\ probing' = probing
      BY <2>6 DEF Tick
    <3>2. InFlight(e)' = InFlight(e)
      BY <2>6 DEF Tick, InFlight, At
    <3>3. PartFlag(e)'
      BY <2>0, <3>1 DEF Part, PartFlag
    <3>4. PartStragglers(e)'
      <4> SUFFICES ASSUME state[e] = "open", NEW d \in InFlight(e)
                   PROVE  ttl'[d] + age'[e] <= Timeout
        BY <3>1, <3>2 DEF PartStragglers
      <4>1. ttl'[d] = ttl[d] - 1 /\ ttl[d] \in Nat /\ age[e] \in Nat
        BY <2>0, <2>6 DEF Tick, TypeOK, InFlight
      <4>2. age'[e] = age[e] \/ age'[e] = age[e] + 1
        BY <2>0, <2>6 DEF Tick, TypeOK
      <4>3. ttl[d] + age[e] <= Timeout
        BY <2>0 DEF Part, PartStragglers
      <4> QED  BY <2>0, <4>1, <4>2, <4>3
    <3>5. PartProbe(e)'
      BY <2>0, <3>1, <3>2 DEF Part, PartProbe
    <3> QED  BY <3>3, <3>4, <3>5 DEF Part
  <2>7. CASE UNCHANGED vars
    <3>1. InFlight(e)' = InFlight(e) /\ UNCHANGED <<state, probing, age, ttl>>
      BY <2>7 DEF vars, brVars, callVars, InFlight, At
    <3> QED  BY <2>0, <3>1, Untouched
  <2> QED
    BY <2>1, <2>2, <2>3, <2>4, <2>5, <2>6, <2>7 DEF Next
<1>3. Inv => SingleProbe
  BY DEF Part, PartProbe, SingleProbe
<1> QED
  BY <1>1, <1>2, <1>3, PTL DEF Spec

-----------------------------------------------------------------------------
\* The endpoint that a walk from position f looks at in its n-th turn.
Slot(f, n) == (f + n) % PoolSize

\* N turns from any start visit every endpoint, and none twice.
LEMMA SlotFacts ==
  ASSUME N > 0, NEW f \in 0 .. PoolSize - 1
  PROVE  /\ \A n \in 0 .. N - 1 : Slot(f, n) \in Endpoint
         /\ \A n, k \in 0 .. N - 1 : Slot(f, n) = Slot(f, k) => n = k
         /\ \A e \in Endpoint : \E n \in 0 .. N - 1 : Slot(f, n) = e
<1>1. N \in Nat \ {0} /\ PoolSize = N /\ f \in 0 .. N - 1
  BY UpstreamConstantsOK DEF PoolSize
<1>2. ASSUME NEW x \in Nat, x < N PROVE x % N = x
  BY <1>1, <1>2
<1>3. ASSUME NEW x \in Nat, N <= x, x < N + N PROVE x % N = x - N
  BY <1>1, <1>3
<1>4. ASSUME NEW n \in 0 .. N - 1
      PROVE  Slot(f, n) = IF f + n < N THEN f + n ELSE f + n - N
  <2>1. Slot(f, n) = (f + n) % N /\ f + n \in Nat /\ f + n < N + N
    BY <1>1 DEF Slot
  <2>2. CASE f + n < N
    BY <1>2, <2>1, <2>2
  <2>3. CASE N <= f + n
    <3> DEFINE x == f + n
    <3>1. x \in Nat /\ N <= x /\ x < N + N
      BY <2>1, <2>3
    <3> HIDE DEF x
    <3>2. x % N = x - N
      BY <1>3, <3>1
    <3> QED  BY <1>1, <2>1, <2>3, <3>1, <3>2 DEF x
  <2> QED  BY <1>1, <2>1, <2>2, <2>3
<1>5. ASSUME NEW e \in Endpoint PROVE \E n \in 0 .. N - 1 : Slot(f, n) = e
  <2>1. CASE e >= f
    <3>1. e - f \in 0 .. N - 1 /\ f + (e - f) = e /\ e < N
      BY <1>1, <2>1 DEF Endpoint
    <3> QED  BY <1>4, <3>1
  <2>2. CASE e < f
    <3> DEFINE n == e - f + N
    <3>1. n \in 0 .. N - 1 /\ ~(f + n < N) /\ f + n - N = e
      BY <1>1, <2>2 DEF Endpoint
    <3> HIDE DEF n
    <3>2. Slot(f, n) = e
      BY <1>4, <3>1
    <3> QED  BY <3>1, <3>2
  <2> QED  BY <1>1, <2>1, <2>2 DEF Endpoint
<1>6. \A n \in 0 .. N - 1 : Slot(f, n) \in Endpoint
  BY <1>1, <1>4 DEF Endpoint
<1>7. ASSUME NEW n \in 0 .. N - 1, NEW k \in 0 .. N - 1, Slot(f, n) = Slot(f, k) PROVE n = k
  BY <1>1, <1>4, <1>7
<1> QED  BY <1>5, <1>6, <1>7

\* What a call knows in the middle of its walk: the endpoints of the turns taken
\* have refused or failed it, those of the turns to come are untouched.
Walk(c) ==
    /\ pc[c] = "idle" => i[c] = 0 /\ verdict[c] = NoVerdict
    /\ \A n \in 0 .. N - 1 :
        IF n < i[c] THEN verdict[c][Slot(first[c], n)] \in {"refused", "failed"}
                    ELSE verdict[c][Slot(first[c], n)] = "unknown"

WalkInv == \A c \in Caller : Walk(c)

\* A turn with the given outcome takes the walk one further.
LEMMA TurnTaken ==
  ASSUME TypeOK, NEW c \in Caller, Walk(c), i[c] < N, NEW w \in {"refused", "failed"},
         i' = [i EXCEPT ![c] = Further(@)], first' = first, pc'[c] = "pick",
         verdict' = [verdict EXCEPT ![c][At(c)] = w]
  PROVE  Walk(c)'
<1>1. /\ N \in Nat \ {0} /\ i[c] \in 0 .. N - 1 /\ first[c] \in 0 .. PoolSize - 1
      /\ At(c) = Slot(first[c], i[c])
  BY UpstreamConstantsOK DEF TypeOK, At, Slot
<1>2. /\ \A n \in 0 .. N - 1 : Slot(first[c], n) \in Endpoint
      /\ \A n, k \in 0 .. N - 1 : Slot(first[c], n) = Slot(first[c], k) => n = k
  BY <1>1, SlotFacts
<1>3. i'[c] = i[c] + 1
  BY DEF TypeOK, Further
<1>4. \A e \in Endpoint : verdict'[c][e] = IF e = At(c) THEN w ELSE verdict[c][e]
  BY <1>1, <1>2 DEF TypeOK
<1>5. ASSUME NEW n \in 0 .. N - 1
      PROVE  IF n < i'[c] THEN verdict'[c][Slot(first[c], n)] \in {"refused", "failed"}
                          ELSE verdict'[c][Slot(first[c], n)] = "unknown"
  <2>1. CASE n = i[c]
    BY <1>1, <1>2, <1>3, <1>4, <2>1
  <2>2. CASE n # i[c]
    <3>1. verdict'[c][Slot(first[c], n)] = verdict[c][Slot(first[c], n)]
      BY <1>1, <1>2, <1>4, <2>2
    <3>2. n < i'[c] <=> n < i[c]
      BY <1>1, <1>3, <2>2
    <3> QED  BY <3>1, <3>2 DEF Walk
  <2> QED  BY <2>1, <2>2
<1> QED
  BY <1>5 DEF Walk, Slot

\* A call whose locals do not change keeps its knowledge.
LEMMA WalkUntouched ==
  ASSUME NEW c \in Caller, Walk(c), first'[c] = first[c], i'[c] = i[c],
         verdict'[c] = verdict[c], pc'[c] = "idle" => pc[c] = "idle"
  PROVE  Walk(c)'
  BY DEF Walk, Slot, NoVerdict, Endpoint

\* A call that is at rest knows nothing.
LEMMA WalkAtRest ==
  ASSUME NEW c \in Caller, first'[c] \in 0 .. PoolSize - 1, i'[c] = 0, verdict'[c] = NoVerdict
  PROVE  Walk(c)'
<1>1. N \in Nat
  BY UpstreamConstantsOK
<1>2. ASSUME NEW n \in 0 .. N - 1
      PROVE  verdict'[c][Slot(first'[c], n)] = "unknown" /\ ~(n < i'[c])
  <2>1. Slot(first'[c], n) \in Endpoint
    BY <1>1, SlotFacts
  <2> QED  BY <1>1, <2>1 DEF NoVerdict
<1> QED
  BY <1>2 DEF Walk, Slot, NoVerdict, Endpoint

\* Every call's knowledge is kept through every interleaving.
LEMMA WalkStep ==
  TypeOK /\ TypeOK' /\ WalkInv /\ [Next]_vars => WalkInv'
<1> SUFFICES ASSUME TypeOK, TypeOK', \A d \in Caller : Walk(d), [Next]_vars, NEW c \in Caller
             PROVE  Walk(c)'
  BY DEF WalkInv
<1>1. ASSUME NEW d \in Caller, d # c,
             Start(d) \/ Refused(d) \/ Try(d) \/ Answered(d) \/ TryFailed(d) \/ NoUpstream(d)
      PROVE  Walk(c)'
  <2>1. first'[c] = first[c] /\ i'[c] = i[c] /\ verdict'[c] = verdict[c] /\ pc'[c] = pc[c]
    BY <1>1 DEF Start, Refused, Try, Answered, TryFailed, NoUpstream, Return, TypeOK
  <2> QED  BY <2>1, WalkUntouched
<1>2. CASE Start(c)
  <2>1. first'[c] \in 0 .. PoolSize - 1 /\ i'[c] = 0 /\ verdict'[c] = NoVerdict
    BY <1>2 DEF Start, TypeOK, Walk
  <2> QED  BY <2>1, WalkAtRest
<1>3. CASE Refused(c)
  <2>1. pc'[c] = "pick"
    BY <1>3 DEF Refused
  <2> QED  BY <1>3, <2>1, TurnTaken DEF Refused
<1>4. CASE Try(c)
  <2>1. first'[c] = first[c] /\ i'[c] = i[c] /\ verdict'[c] = verdict[c] /\ pc'[c] = "try"
    BY <1>4 DEF Try, TypeOK
  <2> QED  BY <2>1, WalkUntouched
<1>5. CASE Answered(c) \/ NoUpstream(c)
  <2>1. first'[c] \in 0 .. PoolSize - 1 /\ i'[c] = 0 /\ verdict'[c] = NoVerdict
    BY <1>5 DEF Answered, NoUpstream, Return, TypeOK
  <2> QED  BY <2>1, WalkAtRest
<1>6. CASE TryFailed(c)
  <2>1. pc'[c] = "pick" /\ i[c] < N
    BY <1>6 DEF TryFailed, TypeOK
  <2> QED  BY <1>6, <2>1, TurnTaken DEF TryFailed
<1>7. CASE Tick \/ UNCHANGED vars
  <2>1. first' = first /\ i' = i /\ verdict' = verdict /\ pc' = pc
    BY <1>7 DEF Tick, vars, callVars
  <2> QED  BY <2>1, WalkUntouched
<1> QED
  BY <1>1, <1>2, <1>3, <1>4, <1>5, <1>6, <1>7 DEF Next

\* Walk is an invariant.
LEMMA WalkAlways == Spec => []WalkInv
<1>1. Init => WalkInv
  <2> SUFFICES ASSUME Init, NEW c \in Caller PROVE Walk(c)
    BY DEF WalkInv
  <2>1. N \in Nat /\ first[c] \in 0 .. PoolSize - 1
    BY UpstreamConstantsOK, SizeType DEF Init
  <2>2. ASSUME NEW n \in 0 .. N - 1
        PROVE  verdict[c][Slot(first[c], n)] = "unknown" /\ ~(n < i[c])
    <3>1. Slot(first[c], n) \in Endpoint
      BY <2>1, SlotFacts
    <3> QED  BY <2>1, <3>1 DEF Init, NoVerdict
  <2> QED  BY <2>2 DEF Init, Walk
<1> QED
  BY <1>1, WalkStep, TypeCorrect, PTL DEF Spec

\* A call is sent to an endpoint at most once, however the breakers move during
\* its walk, for every pool.
THEOREM TriesOnce == Spec => NeverTwice
<1>1. TypeOK /\ WalkInv /\ [Next]_vars =>
        [\A c \in Caller :
            pc[c] = "pick" /\ pc'[c] = "try" => verdict[c][At(c)] = "unknown"]_vars
  <2> SUFFICES ASSUME TypeOK, \A d \in Caller : Walk(d), Next, NEW c \in Caller,
                      pc[c] = "pick", pc'[c] = "try"
               PROVE  verdict[c][At(c)] = "unknown"
    BY DEF WalkInv
  <2>1. Try(c)
    BY DEF Next, Start, Refused, Try, Answered, TryFailed, NoUpstream, Return, Tick, TypeOK
  <2>2. i[c] \in 0 .. N - 1
    BY <2>1, UpstreamConstantsOK DEF Try, TypeOK
  <2>3. At(c) = Slot(first[c], i[c]) /\ ~(i[c] < i[c])
    BY <2>2 DEF At, Slot
  <2> QED  BY <2>2, <2>3 DEF Walk
<1> QED
  BY <1>1, TypeCorrect, WalkAlways, PTL DEF Spec, NeverTwice

\* "ErrNoUpstream means every endpoint failed or is circuit-broken", for every
\* pool and every interleaving of the calls.
THEOREM FailoverExhaustive == Spec => NoUpstreamIsExhaustive
<1>1. TypeOK /\ WalkInv /\ [Next]_vars =>
        [\A c \in Caller :
            pc[c] = "pick" /\ pc'[c] = "idle"
               => \A e \in Endpoint : verdict[c][e] \in {"refused", "failed"}]_vars
  <2> SUFFICES ASSUME TypeOK, \A d \in Caller : Walk(d), Next, NEW c \in Caller,
                      pc[c] = "pick", pc'[c] = "idle", NEW e \in Endpoint
               PROVE  verdict[c][e] \in {"refused", "failed"}
    BY DEF WalkInv
  <2>1. NoUpstream(c)
    BY DEF Next, Start, Refused, Try, Answered, TryFailed, NoUpstream, Return, Tick, TypeOK
  <2>2. N \in Nat /\ N > 0 /\ first[c] \in 0 .. PoolSize - 1 /\ i[c] = N
    BY <2>1, UpstreamConstantsOK DEF NoUpstream, Exhausted, TypeOK, Endpoint
  <2>3. PICK n \in 0 .. N - 1 : Slot(first[c], n) = e
    BY <2>2, SlotFacts
  <2>4. n < i[c]
    BY <2>2
  <2> QED  BY <2>3, <2>4 DEF Walk
<1> QED
  BY <1>1, TypeCorrect, WalkAlways, PTL DEF Spec, NoUpstreamIsExhaustive

=============================================================================
