----------------------------- MODULE EdgeProofs -----------------------------
(***************************************************************************)
(* Proofs about RateLimit, for every rate, burst and set of clients, and   *)
(* about Edge, which uses it, for every set of handlers, batch size, and   *)
(* capacity and time to live of the cache.                                 *)
(*                                                                         *)
(* Neither bound of the limiter mentions the bucket; the invariant that    *)
(* does (Account) says that in no interval up to the last refill do        *)
(* admissions and the tokens left exceed the allowance, and that in some   *)
(* interval they use it up exactly: the one that starts where the bucket   *)
(* was last full.                                                          *)
(***************************************************************************)
EXTENDS Edge, SequenceTheorems, FiniteSetTheorems, TLAPS

Account(k) ==
    /\ \A s \in Time : k \notin buckets \/ s > last[k] => since[k][s] = 0
    /\ k \in buckets =>
        /\ \A s \in 0 .. last[k] : since[k][s] * Unit + tokens[k] <= Full + Rate * (last[k] - s)
        /\ \E s \in 0 .. last[k] : since[k][s] * Unit + tokens[k] = Full + Rate * (last[k] - s)

Inv == TypeOK /\ \A k \in Key : Account(k)

-----------------------------------------------------------------------------
\* Products of the constants with times and counts.
LEMMA Products ==
  /\ Full \in Nat /\ Unit \in Nat \ {0} /\ Rate \in Nat \ {0}
  /\ \A x \in Nat : Rate * x \in Nat /\ x * Unit \in Nat
  /\ \A x \in Nat : (x + 1) * Unit = x * Unit + Unit
  /\ \A a, b, c \in Int : Rate * (a - b) + Rate * (b - c) = Rate * (a - c)
<1>1. Unit \in Nat \ {0} /\ Rate \in Nat \ {0} /\ Burst \in Nat
  BY RateConstantsOK
<1>2. \A x, y \in Nat : x * y \in Nat
  OBVIOUS
<1>3. Full \in Nat
  BY <1>1, <1>2 DEF Full
<1>4. \A x \in Nat : (x + 1) * Unit = x * Unit + Unit
  BY <1>1
<1>5. \A a, b, c \in Int : Rate * (a - b) + Rate * (b - c) = Rate * (a - c)
  BY <1>1
<1> QED
  BY <1>1, <1>2, <1>3, <1>4, <1>5

\* The account of a key with the refill that is due now.
LEMMA FilledFacts ==
  ASSUME Inv, NEW k \in Key
  PROVE  /\ Filled(k) \in 0 .. Full
         /\ \A s \in 0 .. now : since[k][s] * Unit + Filled(k) <= Full + Rate * (now - s)
         /\ \E s \in 0 .. now : since[k][s] * Unit + Filled(k) = Full + Rate * (now - s)
<1>1. /\ now \in Nat /\ now <= MaxTime /\ MaxTime \in Nat
      /\ last[k] \in Nat /\ last[k] <= now
      /\ tokens[k] \in Nat /\ tokens[k] <= Full
  <2>1. now \in 0 .. MaxTime /\ MaxTime \in Nat /\ last[k] \in 0 .. now /\ tokens[k] \in 0 .. Full
    BY RateConstantsOK DEF Inv, TypeOK, Time
  <2> QED  BY <2>1, Products
<1>2. \A s \in 0 .. now : s \in Time /\ since[k][s] \in Nat
  BY <1>1 DEF Inv, TypeOK, Time
<1>3. Account(k)
  BY DEF Inv
<1>4. Full \in Nat /\ \A s \in 0 .. now : Rate * (now - s) \in Nat
  <2>1. \A s \in 0 .. now : now - s \in Nat
    BY <1>1
  <2> QED  BY <2>1, Products
<1>5. now \in 0 .. now /\ now - now = 0 /\ Rate * 0 = 0 /\ 0 * Unit = 0
  BY <1>1, Products
<1>6. CASE k \notin buckets
  <2>1. Filled(k) = Full
    BY <1>6 DEF Filled
  <2>2. \A s \in 0 .. now : since[k][s] * Unit = 0
    BY <1>2, <1>3, <1>5, <1>6 DEF Account
  <2>3. Full \in 0 .. Full
    BY <1>4
  <2>4. \A s \in 0 .. now : 0 + Full <= Full + Rate * (now - s)
    BY <1>4
  <2>5. 0 + Full = Full + Rate * (now - now)
    BY <1>4, <1>5
  <2> QED  BY <1>5, <2>1, <2>2, <2>3, <2>4, <2>5
<1>7. CASE k \in buckets
  <2> DEFINE more == Rate * (now - last[k])
  <2>1. more \in Nat
    <3>1. now - last[k] \in Nat
      BY <1>1
    <3> QED  BY <3>1, Products
  <2>2. \A s \in 0 .. now : Rate * (last[k] - s) + more = Rate * (now - s)
    <3> SUFFICES ASSUME NEW s \in 0 .. now PROVE Rate * (last[k] - s) + more = Rate * (now - s)
      OBVIOUS
    <3>1. now \in Int /\ last[k] \in Int /\ s \in Int
      BY <1>1
    <3>2. Rate * (now - last[k]) + Rate * (last[k] - s) = Rate * (now - s)
      BY <3>1, Products
    <3>3. Rate * (last[k] - s) \in Int
      BY <3>1, Products
    <3> QED  BY <2>1, <3>2, <3>3
  <2>3. Filled(k) = Smaller(Full, tokens[k] + more)
    BY <1>7 DEF Filled
  <2> HIDE DEF more
  <2>4. /\ Filled(k) \in Nat /\ Filled(k) <= Full /\ Filled(k) <= tokens[k] + more
        /\ Filled(k) = Full \/ Filled(k) = tokens[k] + more
    BY <1>1, <1>4, <2>1, <2>3 DEF Smaller
  <2>5. ASSUME NEW s \in 0 .. now
        PROVE  since[k][s] * Unit + Filled(k) <= Full + Rate * (now - s)
    <3>1. CASE s <= last[k]
      <4>1. since[k][s] * Unit + tokens[k] <= Full + Rate * (last[k] - s)
        BY <1>1, <1>3, <1>7, <3>1 DEF Account
      <4>2. since[k][s] * Unit \in Nat /\ Rate * (last[k] - s) \in Nat
        <5>1. last[k] - s \in Nat
          BY <1>1, <3>1
        <5> QED  BY <1>2, <5>1, Products
      <4>3. Rate * (last[k] - s) + more = Rate * (now - s)
        BY <2>2
      <4> DEFINE a == since[k][s] * Unit
      <4> DEFINE d == Rate * (last[k] - s)
      <4> DEFINE e == Rate * (now - s)
      <4> HIDE DEF a, d, e
      <4>4. a + Filled(k) <= Full + e
        <5>1. /\ a \in Nat /\ d \in Nat /\ d + more = e /\ a + tokens[k] <= Full + d
              /\ Filled(k) <= tokens[k] + more
          BY <2>4, <4>1, <4>2, <4>3 DEF a, d, e
        <5>2. tokens[k] \in Nat /\ more \in Nat /\ Full \in Nat /\ Filled(k) \in Nat
          BY <1>1, <1>4, <2>1, <2>4
        <5> QED  BY <5>1, <5>2
      <4> QED  BY <4>4 DEF a, e
    <3>2. CASE ~(s <= last[k])
      <4>1. since[k][s] = 0
        BY <1>1, <1>2, <1>3, <3>2 DEF Account
      <4>2. Rate * (now - s) \in Nat
        BY <1>4
      <4> QED  BY <1>4, <1>5, <2>4, <4>1, <4>2
    <3> QED  BY <3>1, <3>2
  <2>6. \E s \in 0 .. now : since[k][s] * Unit + Filled(k) = Full + Rate * (now - s)
    <3>1. CASE Filled(k) = tokens[k] + more
      <4>1. PICK s \in 0 .. last[k] : since[k][s] * Unit + tokens[k] = Full + Rate * (last[k] - s)
        BY <1>3, <1>7 DEF Account
      <4>2. s \in 0 .. now
        BY <1>1
      <4>3. since[k][s] * Unit \in Nat /\ Rate * (last[k] - s) \in Nat
        <5>1. last[k] - s \in Nat
          BY <1>1
        <5> QED  BY <1>2, <4>2, <5>1, Products
      <4>4. Rate * (last[k] - s) + more = Rate * (now - s)
        BY <2>2, <4>2
      <4> DEFINE a == since[k][s] * Unit
      <4> DEFINE d == Rate * (last[k] - s)
      <4> DEFINE e == Rate * (now - s)
      <4> HIDE DEF a, d, e
      <4>5. a + Filled(k) = Full + e
        <5>1. a \in Nat /\ d \in Nat /\ d + more = e /\ a + tokens[k] = Full + d
          BY <4>1, <4>3, <4>4 DEF a, d, e
        <5>2. tokens[k] \in Nat /\ more \in Nat /\ Full \in Nat
          BY <1>1, <1>4, <2>1
        <5> QED  BY <3>1, <5>1, <5>2
      <4> QED  BY <4>2, <4>5 DEF a, e
    <3>2. CASE Filled(k) # tokens[k] + more
      <4>1. Filled(k) = Full /\ Full < tokens[k] + more
        BY <1>1, <1>4, <2>1, <2>4, <3>2
      <4>2. last[k] # now
        <5>1. last[k] = now => more = 0
          BY <1>1, <1>5 DEF more
        <5> QED  BY <1>1, <1>4, <4>1, <5>1
      <4>3. since[k][now] = 0
        BY <1>1, <1>2, <1>3, <1>5, <4>2 DEF Account
      <4>4. 0 + Full = Full + Rate * (now - now)
        BY <1>4, <1>5
      <4> QED  BY <1>5, <4>1, <4>3, <4>4
    <3> QED  BY <3>1, <3>2
  <2> QED  BY <1>4, <2>4, <2>5, <2>6
<1> QED
  BY <1>6, <1>7

-----------------------------------------------------------------------------
\* Both outcomes of Allow leave the key's account balanced: an admission moves
\* one token from the bucket to the count.
LEMMA AllowKeepsAccount ==
  ASSUME Inv, NEW k \in Key, Admitted(k) \/ Denied(k)
  PROVE  Account(k)' /\ tokens'[k] \in 0 .. Full
<1> DEFINE f == Filled(k)
<1>1. /\ f \in 0 .. Full
      /\ \A s \in 0 .. now : since[k][s] * Unit + f <= Full + Rate * (now - s)
      /\ \E s \in 0 .. now : since[k][s] * Unit + f = Full + Rate * (now - s)
  BY FilledFacts
<1>2. /\ Full \in Nat /\ Unit \in Nat \ {0} /\ now \in Nat /\ now <= MaxTime /\ MaxTime \in Nat
      /\ last[k] \in 0 .. now
      /\ \A s \in 0 .. now : s \in Time /\ since[k][s] \in Nat /\ since[k][s] * Unit \in Nat
  <2>1. now \in 0 .. MaxTime /\ MaxTime \in Nat /\ last[k] \in 0 .. now
    BY RateConstantsOK DEF Inv, TypeOK, Time
  <2>2. \A s \in 0 .. now : s \in Time /\ since[k][s] \in Nat
    BY <2>1 DEF Inv, TypeOK, Time
  <2>3. \A x \in Nat : x * Unit \in Nat
    BY Products
  <2>4. \A s \in 0 .. now : since[k][s] * Unit \in Nat
    BY <2>2, <2>3
  <2>5. Full \in Nat /\ Unit \in Nat \ {0}
    BY Products
  <2>6. now \in Nat /\ now <= MaxTime
    BY <2>1
  <2> QED  BY <2>1, <2>2, <2>4, <2>5, <2>6
<1>3. k \in buckets' /\ last'[k] = now
  BY DEF Admitted, Denied, Inv, TypeOK
<1> HIDE DEF f
<1>4. \A s \in Time : s > now => since'[k][s] = 0
  <2> SUFFICES ASSUME NEW s \in Time, s > now PROVE since'[k][s] = 0
    OBVIOUS
  <2>1. s > last[k]
    BY <1>2 DEF Time
  <2>2. since[k][s] = 0
    BY <2>1 DEF Inv, Account
  <2>3. ~(s <= now)
    BY <1>2 DEF Time
  <2>4. since \in [Key -> [Time -> Nat]]
    BY DEF Inv, TypeOK
  <2>5. CASE Admitted(k)
    <3>1. since'[k] = [r \in Time |-> IF r <= now THEN since[k][r] + 1 ELSE since[k][r]]
      BY <2>4, <2>5 DEF Admitted
    <3> QED  BY <2>2, <2>3, <3>1
  <2>6. CASE Denied(k)
    <3>1. since' = since
      BY <2>6 DEF Denied
    <3> QED  BY <2>2, <3>1
  <2> QED  BY <2>5, <2>6
<1>5. /\ tokens'[k] \in 0 .. Full
      /\ \A s \in 0 .. now : since'[k][s] * Unit + tokens'[k] = since[k][s] * Unit + f
  <2>1. CASE Admitted(k)
    <3>1. tokens'[k] = f - Unit /\ f >= Unit
      BY <2>1 DEF Admitted, Inv, TypeOK, f
    <3>2. \A s \in 0 .. now : since'[k][s] = since[k][s] + 1
      BY <1>2, <2>1 DEF Admitted, Inv, TypeOK, Time
    <3>3. ASSUME NEW s \in 0 .. now
          PROVE  since'[k][s] * Unit + tokens'[k] = since[k][s] * Unit + f
      <4>1. since'[k][s] * Unit = since[k][s] * Unit + Unit
        BY <1>2, <3>2, Products
      <4> DEFINE a == since[k][s] * Unit
      <4>2. a \in Nat
        BY <1>2
      <4> HIDE DEF a
      <4>3. (a + Unit) + (f - Unit) = a + f
        BY <1>1, <1>2, <4>2
      <4> QED  BY <3>1, <4>1, <4>3 DEF a
    <3>4. tokens'[k] \in 0 .. Full
      BY <1>1, <1>2, <3>1
    <3> QED  BY <3>3, <3>4
  <2>2. CASE Denied(k)
    <3>1. tokens'[k] = f /\ since' = since
      BY <2>2 DEF Denied, Inv, TypeOK, f
    <3> QED  BY <1>1, <3>1
  <2> QED  BY <2>1, <2>2
<1>6. \A s \in Time : k \notin buckets' \/ s > last'[k] => since'[k][s] = 0
  BY <1>3, <1>4
<1>7. \A s \in 0 .. last'[k] : since'[k][s] * Unit + tokens'[k] <= Full + Rate * (last'[k] - s)
  BY <1>1, <1>3, <1>5
<1>8. \E s \in 0 .. last'[k] : since'[k][s] * Unit + tokens'[k] = Full + Rate * (last'[k] - s)
  BY <1>1, <1>3, <1>5
<1> QED
  BY <1>5, <1>6, <1>7, <1>8 DEF Account

\* The accounts of the limiter are kept, by its own steps and by those of the
\* handlers that use it.
LEMMA AccountsKept == (Init => Inv) /\ (Inv /\ [Next]_vars => Inv')
<1>1. Init => Inv
  <2> SUFFICES ASSUME Init PROVE Inv
    OBVIOUS
  <2>1. 0 \in Time /\ 0 \in 0 .. Full /\ 0 \in 0 .. 0
    BY Products, RateConstantsOK DEF Time
  <2>2. now \in Time /\ buckets \subseteq Key /\ tokens \in [Key -> 0 .. Full]
    BY <2>1 DEF Init
  <2>3. last \in [Key -> 0 .. now]
    BY <2>1 DEF Init
  <2>4. since \in [Key -> [Time -> Nat]]
    BY DEF Init
  <2>5. \A k \in Key : Account(k)
    BY DEF Init, Account
  <2> QED  BY <2>2, <2>3, <2>4, <2>5 DEF Inv, TypeOK
<1>2. Inv /\ [Next]_vars => Inv'
  <2> SUFFICES ASSUME Inv, [Next]_vars PROVE Inv'
    OBVIOUS
  <2>1. CASE Tick
    <3>1. now' \in Time /\ \A k \in Key : last'[k] \in 0 .. now'
      <4>1. now \in 0 .. MaxTime /\ MaxTime \in Nat /\ \A k \in Key : last[k] \in 0 .. now
        BY RateConstantsOK DEF Inv, TypeOK, Time
      <4> QED  BY <2>1, <4>1 DEF Tick, Time
    <3>2. last' \in [Key -> 0 .. now']
      BY <2>1, <3>1 DEF Tick, Inv, TypeOK
    <3>3. UNCHANGED <<buckets, tokens, last, since>>
      BY <2>1 DEF Tick
    <3>4. TypeOK'
      BY <3>1, <3>2, <3>3 DEF Inv, TypeOK
    <3>5. \A k \in Key : Account(k)'
      BY <3>3 DEF Inv, Account
    <3> QED  BY <3>4, <3>5 DEF Inv
  <2>2. ASSUME NEW k \in Key, Admitted(k) \/ Denied(k)
        PROVE  Inv'
    <3>1. Account(k)' /\ tokens'[k] \in 0 .. Full
      BY <2>2, AllowKeepsAccount
    <3>2. \A j \in Key : j # k =>
            /\ tokens'[j] = tokens[j] /\ last'[j] = last[j] /\ since'[j] = since[j]
            /\ (j \in buckets' <=> j \in buckets)
      BY <2>2 DEF Admitted, Denied, Inv, TypeOK
    <3>3. \A j \in Key : Account(j)'
      <4> SUFFICES ASSUME NEW j \in Key, j # k PROVE Account(j)'
        BY <3>1
      <4>1. Account(j)
        BY DEF Inv
      <4> QED  BY <3>2, <4>1 DEF Account
    <3>4. now' = now /\ buckets' \subseteq Key
      BY <2>2 DEF Admitted, Denied, Inv, TypeOK
    <3>5. tokens' \in [Key -> 0 .. Full]
      <4>1. tokens' = [tokens EXCEPT ![k] = tokens'[k]]
        BY <2>2 DEF Admitted, Denied, Inv, TypeOK
      <4> QED  BY <3>1, <4>1 DEF Inv, TypeOK
    <3>6. last' \in [Key -> 0 .. now']
      <4>1. now \in 0 .. now
        BY RateConstantsOK DEF Inv, TypeOK, Time
      <4> QED  BY <2>2, <3>4, <4>1 DEF Admitted, Denied, Inv, TypeOK
    <3>7. since' \in [Key -> [Time -> Nat]]
      <4>1. since \in [Key -> [Time -> Nat]]
        BY DEF Inv, TypeOK
      <4>2. CASE Admitted(k)
        <5> DEFINE row == [r \in Time |-> IF r <= now THEN since[k][r] + 1 ELSE since[k][r]]
        <5>1. row \in [Time -> Nat]
          BY <4>1
        <5>2. since' = [since EXCEPT ![k] = row]
          BY <4>2 DEF Admitted
        <5> HIDE DEF row
        <5> QED  BY <4>1, <5>1, <5>2
      <4>3. CASE Denied(k)
        <5>1. since' = since
          BY <4>3 DEF Denied
        <5> QED  BY <4>1, <5>1
      <4> QED  BY <2>2, <4>2, <4>3
    <3>8. now' \in Time
      BY <3>4 DEF Inv, TypeOK
    <3> QED  BY <3>3, <3>4, <3>5, <3>6, <3>7, <3>8 DEF Inv, TypeOK
  <2>3. CASE UNCHANGED vars
    <3>1. UNCHANGED <<now, buckets, tokens, last, since>>
      BY <2>3 DEF vars
    <3>2. TypeOK'
      BY <3>1 DEF Inv, TypeOK
    <3>3. \A k \in Key : Account(k)'
      BY <3>1 DEF Inv, Account
    <3> QED  BY <3>2, <3>3 DEF Inv
  <2> QED
    BY <2>1, <2>2, <2>3 DEF Next
<1> QED
  BY <1>1, <1>2

\* The accounts are exact: the two bounds follow from them.
LEMMA AccountsAreExact == Inv => WithinRate /\ DeniesOnlyAtLimit
<1> SUFFICES ASSUME Inv, NEW k \in Key
             PROVE  /\ \A s \in 0 .. now : since[k][s] * Unit <= Full + Rate * (now - s)
                    /\ Filled(k) < Unit =>
                          \E s \in 0 .. now :
                              (since[k][s] + 1) * Unit > Full + Rate * (now - s)
  BY DEF WithinRate, DeniesOnlyAtLimit
<1> DEFINE f == Filled(k)
<1>1. /\ f \in 0 .. Full
      /\ \A s \in 0 .. now : since[k][s] * Unit + f <= Full + Rate * (now - s)
      /\ \E s \in 0 .. now : since[k][s] * Unit + f = Full + Rate * (now - s)
  BY FilledFacts
<1>2. \A s \in 0 .. now : /\ since[k][s] \in Nat /\ since[k][s] * Unit \in Nat
                          /\ Full + Rate * (now - s) \in Nat
  <2>1. now \in 0 .. MaxTime /\ MaxTime \in Nat
    BY RateConstantsOK DEF Inv, TypeOK, Time
  <2>2. \A s \in 0 .. now : s \in Time /\ now - s \in Nat
    BY <2>1 DEF Time
  <2>3. \A s \in 0 .. now : since[k][s] \in Nat
    BY <2>2 DEF Inv, TypeOK
  <2>4. \A s \in 0 .. now : Rate * (now - s) \in Nat /\ since[k][s] * Unit \in Nat
    BY <2>2, <2>3, Products
  <2> QED  BY <2>3, <2>4, Products
<1>3. f \in Nat /\ Unit \in Nat
  BY <1>1, Products
<1> HIDE DEF f
<1>4. \A s \in 0 .. now : since[k][s] * Unit <= Full + Rate * (now - s)
  <2> SUFFICES ASSUME NEW s \in 0 .. now PROVE since[k][s] * Unit <= Full + Rate * (now - s)
    OBVIOUS
  <2> DEFINE a == since[k][s] * Unit
  <2> DEFINE b == Full + Rate * (now - s)
  <2>1. a \in Nat /\ b \in Nat /\ a + f <= b
    BY <1>1, <1>2
  <2> HIDE DEF a, b
  <2>2. a <= b
    BY <1>3, <2>1
  <2> QED  BY <2>2 DEF a, b
<1>5. ASSUME f < Unit
      PROVE  \E s \in 0 .. now : (since[k][s] + 1) * Unit > Full + Rate * (now - s)
  <2>1. PICK s \in 0 .. now : since[k][s] * Unit + f = Full + Rate * (now - s)
    BY <1>1
  <2> DEFINE a == since[k][s] * Unit
  <2> DEFINE b == Full + Rate * (now - s)
  <2>2. a \in Nat /\ b \in Nat /\ a + f = b /\ (since[k][s] + 1) * Unit = a + Unit
    BY <1>2, <2>1, Products
  <2> HIDE DEF a, b
  <2>3. a + Unit > b
    BY <1>3, <1>5, <2>2
  <2> QED  BY <2>2, <2>3 DEF b
<1> QED  BY <1>4, <1>5 DEF f

\* The limiter grants what it promises and withholds nothing: in every interval
\* a key gets at most burst plus rate times the interval's length, and a key is
\* denied only where one more admission would exceed that.
THEOREM ExactLimit == Spec => [](WithinRate /\ DeniesOnlyAtLimit)
  BY AccountsKept, AccountsAreExact, PTL DEF Spec

\* A key is denied only where one admission more would exceed its allowance.
THEOREM NoUndueDenial == Spec => []DeniesOnlyAtLimit
  BY ExactLimit, PTL

-----------------------------------------------------------------------------
(***************************************************************************)
(* The edge.  Every step of a handler is, to the limiter, a step of the    *)
(* limiter or none (EdgeUsesLimiter), so the bounds above hold for what is *)
(* admitted.  Tokens are accounted for: each admission of a client was     *)
(* served or is in the hands of a handler (Balanced).  Every entry of the  *)
(* cache is a node's answer under the key of its request (GoodEntry).      *)
(***************************************************************************)
Pcs == {"idle", "next", "lookup", "call"}

Busy(k) == {h \in Handler : client[h] = k /\ pc[h] \in {"lookup", "call"}}

Result == {"absent", "value"}

GoodEntry ==
    {x \in [key : Method \X Params, val : [for : Request, result : Result, born : Nat], expires : Nat] :
        x.key = CacheKey(x.val.for) /\ x.expires = x.val.born + TTL}

EdgeType ==
    /\ client \in [Handler -> Key]
    /\ pc \in [Handler -> Pcs]
    /\ DOMAIN cur = Handler /\ DOMAIN reply = Handler
    /\ \A h \in Handler : pc[h] \in {"lookup", "call"} => cur[h] \in Request
    /\ served \in [Key -> Nat]
    /\ ll \in Seq(GoodEntry)

Balance(k) == IsFiniteSet(Busy(k)) /\ served[k] + Cardinality(Busy(k)) = since[k][0]
Balanced == \A k \in Key : Balance(k)

EdgeInv == EdgeType /\ CachedReplyFits

Whole == Inv /\ EdgeInv /\ Balanced

\* A function on 1 .. n is a sequence.
LEMMA SeqOfFunction ==
  ASSUME NEW S, NEW n \in Nat, NEW f \in [1 .. n -> S]
  PROVE  f \in Seq(S) /\ Len(f) = n
<1>1. f \in Seq(S)
  BY SeqDef
<1>2. Len(f) \in Nat /\ DOMAIN f = 1 .. Len(f)
  BY <1>1, LenProperties
<1>3. 1 .. n = 1 .. Len(f)
  BY <1>2
<1> QED
  BY <1>1, <1>2, <1>3

\* The operations of the cache rearrange, drop and replace entries.
LEMMA ListStays ==
  ASSUME NEW S, NEW s \in Seq(S), NEW e \in S
  PROVE  /\ Len(s) \in Nat
         /\ C!PushFront(s, e) \in Seq(S) /\ Len(C!PushFront(s, e)) = Len(s) + 1
         /\ \A i \in 1 .. Len(s) : /\ C!RemoveAt(s, i) \in Seq(S)
                                   /\ C!MoveToFront(s, i) \in Seq(S)
                                   /\ [s EXCEPT ![i] = e] \in Seq(S)
                                   /\ Len([s EXCEPT ![i] = e]) = Len(s)
<1> DEFINE n == Len(s)
<1>1. n \in Nat /\ n + 1 \in Nat /\ DOMAIN s = 1 .. n /\ \A j \in 1 .. n : s[j] \in S
  BY LenProperties, ElementOfSeq
<1>2. C!PushFront(s, e) \in [1 .. n + 1 -> S]
  BY <1>1 DEF C!PushFront
<1>3. ASSUME NEW i \in 1 .. n
      PROVE  /\ C!RemoveAt(s, i) \in [1 .. n - 1 -> S] /\ n - 1 \in Nat
             /\ C!MoveToFront(s, i) \in [1 .. n -> S]
             /\ [s EXCEPT ![i] = e] \in [1 .. n -> S]
  <2>1. n - 1 \in Nat
    BY <1>1
  <2>2. C!RemoveAt(s, i) \in [1 .. n - 1 -> S]
    BY <1>1 DEF C!RemoveAt
  <2>3. C!MoveToFront(s, i) \in [1 .. n -> S]
    BY <1>1 DEF C!MoveToFront
  <2>4. s \in [1 .. n -> S]
    BY <1>1
  <2> QED  BY <2>1, <2>2, <2>3, <2>4
<1>4. C!PushFront(s, e) \in Seq(S) /\ Len(C!PushFront(s, e)) = n + 1
  BY <1>1, <1>2, SeqOfFunction
<1> QED
  BY <1>1, <1>3, <1>4, SeqOfFunction

\* A lookup that hits or misses, and a store of a good entry, keep entries good.
LEMMA CacheStaysGood ==
  ASSUME ll \in Seq(GoodEntry), NEW k,
         \/ C!Miss(k) \/ C!Expired(k) \/ \E i \in 1 .. Len(ll) : C!Hit(k, i)
         \/ \E v : [key |-> k, val |-> v, expires |-> now + TTL] \in GoodEntry /\ C!Set(k, v)
  PROVE  ll' \in Seq(GoodEntry)
<1>1. CASE C!Miss(k)
  BY <1>1 DEF C!Miss
<1>2. CASE C!Expired(k)
  <2>1. PICK i \in 1 .. Len(ll) : ll' = C!RemoveAt(ll, i)
    BY <1>2 DEF C!Expired
  <2>2. ll[i] \in GoodEntry
    BY ElementOfSeq
  <2> QED  BY <2>1, <2>2, ListStays
<1>3. CASE \E i \in 1 .. Len(ll) : C!Hit(k, i)
  <2>1. PICK i \in 1 .. Len(ll) : ll' = C!MoveToFront(ll, i)
    BY <1>3 DEF C!Hit
  <2>2. ll[i] \in GoodEntry
    BY ElementOfSeq
  <2> QED  BY <2>1, <2>2, ListStays
<1>4. ASSUME NEW v, [key |-> k, val |-> v, expires |-> now + TTL] \in GoodEntry, C!Set(k, v)
      PROVE  ll' \in Seq(GoodEntry)
  <2> DEFINE e == [key |-> k, val |-> v, expires |-> now + TTL]
  <2>1. e \in GoodEntry /\ (C!Overwrite(e) \/ C!Insert(e))
    BY <1>4 DEF C!Set
  <2> HIDE DEF e
  <2>2. CASE C!Overwrite(e)
    <3>1. PICK i \in 1 .. Len(ll) : ll' = C!MoveToFront([ll EXCEPT ![i] = e], i)
      BY <2>2 DEF C!Overwrite
    <3> DEFINE t == [ll EXCEPT ![i] = e]
    <3>2. t \in Seq(GoodEntry) /\ Len(t) = Len(ll)
      BY <2>1, ListStays
    <3> HIDE DEF t
    <3>3. C!MoveToFront(t, i) \in Seq(GoodEntry)
      BY <2>1, <3>2, ListStays
    <3> QED  BY <3>1, <3>3 DEF t
  <2>3. CASE C!Insert(e)
    <3> DEFINE t == C!PushFront(ll, e)
    <3>1. t \in Seq(GoodEntry) /\ Len(t) = Len(ll) + 1 /\ Len(ll) \in Nat
      BY <2>1, ListStays
    <3>2. ll' = t \/ ll' = C!RemoveAt(t, Len(t))
      BY <2>3 DEF C!Insert
    <3> HIDE DEF t
    <3>3. Len(t) \in 1 .. Len(t)
      BY <3>1
    <3>4. C!RemoveAt(t, Len(t)) \in Seq(GoodEntry)
      BY <2>1, <3>1, <3>3, ListStays
    <3> QED  BY <3>1, <3>2, <3>4
  <2> QED  BY <2>1, <2>2, <2>3
<1> QED
  BY <1>1, <1>2, <1>3, <1>4

-----------------------------------------------------------------------------
\* A handler that writes a response: the rest of the type, and the replies.
LEMMA RespondKeeps ==
  ASSUME EdgeInv, NEW h \in Handler, NEW r, Respond(h, r), ll' \in Seq(GoodEntry),
         served' \in [Key -> Nat],
         r.kind = "cached" => r.for = r.to /\ r.age < TTL /\ r.result # "null"
  PROVE  EdgeInv'
<1>1. /\ reply' = [reply EXCEPT ![h] = r] /\ UNCHANGED client
      /\ pc' = [pc EXCEPT ![h] = IF left[h] = 1 THEN "idle" ELSE "next"]
      /\ cur' = [cur EXCEPT ![h] = << >>]
  BY DEF Respond
<1>2. /\ client \in [Handler -> Key] /\ pc \in [Handler -> Pcs]
      /\ DOMAIN cur = Handler /\ DOMAIN reply = Handler
      /\ \A g \in Handler : pc[g] \in {"lookup", "call"} => cur[g] \in Request
  BY DEF EdgeInv, EdgeType
<1>3. /\ pc' \in [Handler -> Pcs] /\ DOMAIN cur' = Handler /\ DOMAIN reply' = Handler
      /\ pc'[h] \in {"idle", "next"}
      /\ \A g \in Handler : g # h => pc'[g] = pc[g] /\ cur'[g] = cur[g] /\ reply'[g] = reply[g]
      /\ reply'[h] = r
  BY <1>1, <1>2 DEF Pcs
<1>4. EdgeType'
  <2>1. \A g \in Handler : pc'[g] \in {"lookup", "call"} => cur'[g] \in Request
    BY <1>2, <1>3
  <2> QED  BY <1>1, <1>2, <1>3, <2>1 DEF EdgeType, GoodEntry, Request, CacheKey
<1>5. CachedReplyFits'
  BY <1>3 DEF EdgeInv, CachedReplyFits
<1> QED
  BY <1>4, <1>5 DEF EdgeInv

\* One lookup or call more is counted.
LEMMA CountNat ==
  ASSUME EdgeInv, NEW h \in Handler, Count(h)
  PROVE  /\ served' \in [Key -> Nat]
         /\ served'[client[h]] = served[client[h]] + 1
         /\ \A k \in Key : k # client[h] => served'[k] = served[k]
<1>1. client[h] \in Key /\ served \in [Key -> Nat]
  BY DEF EdgeInv, EdgeType
<1>2. served[client[h]] + 1 \in Nat
  BY <1>1
<1> QED
  BY <1>1, <1>2 DEF Count

\* Every step of the edge.
LEMMA EdgeStepKeeps ==
  ASSUME EdgeInv, now \in Nat, [EdgeNext]_edgeVars
  PROVE  EdgeInv'
<1>1. /\ client \in [Handler -> Key] /\ pc \in [Handler -> Pcs]
      /\ DOMAIN cur = Handler /\ DOMAIN reply = Handler
      /\ \A g \in Handler : pc[g] \in {"lookup", "call"} => cur[g] \in Request
      /\ served \in [Key -> Nat] /\ ll \in Seq(GoodEntry)
  BY DEF EdgeInv, EdgeType
<1>2. Plain.kind # "cached" /\ NoReply.kind # "cached"
  BY DEF Plain, NoReply
<1>3. CASE EdgeTick \/ ChainMoves \/ UNCHANGED edgeVars
  <2>1. UNCHANGED <<client, pc, cur, reply, served, ll>>
    BY <1>3 DEF EdgeTick, ChainMoves, edgeVars, cacheVars, handlerVars
  <2> QED  BY <2>1 DEF EdgeInv, EdgeType, CachedReplyFits, GoodEntry, Request, CacheKey
<1>4. ASSUME NEW h \in Handler, NEW k \in Key, NEW n \in 1 .. MaxBatch, Serve(h, k, n)
      PROVE  EdgeInv'
  <2>1. /\ pc' = [pc EXCEPT ![h] = "next"] /\ client' = [client EXCEPT ![h] = k]
        /\ reply' = [reply EXCEPT ![h] = NoReply] /\ UNCHANGED <<ll, cur, served>>
    BY <1>4 DEF Serve, cacheVars
  <2>2. /\ client' \in [Handler -> Key] /\ pc' \in [Handler -> Pcs] /\ DOMAIN reply' = Handler
        /\ \A g \in Handler : pc'[g] \in {"lookup", "call"} => pc[g] \in {"lookup", "call"}
        /\ \A g \in Handler : reply'[g] = reply[g] \/ reply'[g] = NoReply
    BY <1>1, <2>1 DEF Pcs
  <2>3. EdgeType'
    BY <1>1, <2>1, <2>2 DEF EdgeType, GoodEntry, Request, CacheKey
  <2>4. CachedReplyFits'
    BY <1>2, <2>2 DEF EdgeInv, CachedReplyFits
  <2> QED  BY <2>3, <2>4 DEF EdgeInv
<1>5. ASSUME NEW h \in Handler, NEW q \in Request, Admit(h, q) PROVE EdgeInv'
  <2>1. /\ pc' = [pc EXCEPT ![h] = IF q.method \in cacheable THEN "lookup" ELSE "call"]
        /\ cur' = [cur EXCEPT ![h] = q] /\ UNCHANGED <<ll, client, reply, served>>
    BY <1>5 DEF Admit, cacheVars
  <2>2. /\ pc' \in [Handler -> Pcs] /\ DOMAIN cur' = Handler /\ cur'[h] = q
        /\ \A g \in Handler : g # h => pc'[g] = pc[g] /\ cur'[g] = cur[g]
    BY <1>1, <2>1 DEF Pcs
  <2>3. \A g \in Handler : pc'[g] \in {"lookup", "call"} => cur'[g] \in Request
    BY <1>1, <2>2
  <2>4. EdgeType'
    BY <1>1, <2>1, <2>2, <2>3 DEF EdgeType, GoodEntry, Request, CacheKey
  <2> QED  BY <2>1, <2>4 DEF EdgeInv, CachedReplyFits
<1>6. ASSUME NEW h \in Handler, Invalid(h) \/ Limited(h) PROVE EdgeInv'
  <2>1. Respond(h, Plain) /\ UNCHANGED <<ll, served>>
    BY <1>6 DEF Invalid, Limited, cacheVars
  <2> QED  BY <1>1, <1>2, <2>1, RespondKeeps
<1>7. ASSUME NEW h \in Handler, Cached(h) PROVE EdgeInv'
  <2>1. PICK i \in 1 .. Len(ll) :
          /\ C!Hit(CacheKey(cur[h]), i)
          /\ Respond(h, [kind |-> "cached", to |-> cur[h], result |-> ll[i].val.result,
                         for |-> ll[i].val.for, age |-> now - ll[i].val.born])
    BY <1>7 DEF Cached
  <2> DEFINE r == [kind |-> "cached", to |-> cur[h], result |-> ll[i].val.result,
                   for |-> ll[i].val.for, age |-> now - ll[i].val.born]
  <2>2. cur[h] \in Request
    BY <1>1, <1>7 DEF Cached
  <2>3. ll[i] \in GoodEntry
    BY <1>1, ElementOfSeq
  <2>4. ll[i].key = CacheKey(cur[h]) /\ now < ll[i].expires
    BY <2>1 DEF C!Hit, C!At, C!Fresh
  <2>5. /\ ll[i].key = CacheKey(ll[i].val.for) /\ ll[i].expires = ll[i].val.born + TTL
        /\ ll[i].val.for \in Request /\ ll[i].val.result \in Result /\ ll[i].val.born \in Nat
    BY <2>3 DEF GoodEntry
  <2>6. ll[i].val.for = cur[h]
    <3>1. \A p, q \in Request : p.method = q.method /\ p.params = q.params => p = q
      BY DEF Request
    <3>2. ll[i].val.for.method = cur[h].method /\ ll[i].val.for.params = cur[h].params
      BY <2>4, <2>5 DEF CacheKey
    <3> QED  BY <2>2, <2>5, <3>1, <3>2
  <2>7. now - ll[i].val.born < TTL
    BY <2>4, <2>5, EdgeConstantsOK
  <2>8. ll[i].val.result # "null"
    BY <2>5 DEF Result
  <2>9. r.for = r.to /\ r.age < TTL /\ r.result # "null"
    BY <2>6, <2>7, <2>8
  <2>10. ll' \in Seq(GoodEntry)
    BY <1>1, <2>1, CacheStaysGood
  <2>11. served' \in [Key -> Nat]
    BY <1>7, CountNat DEF Cached
  <2> HIDE DEF r
  <2>12. Respond(h, r)
    BY <2>1 DEF r
  <2> QED  BY <2>9, <2>10, <2>11, <2>12, RespondKeeps
<1>8. ASSUME NEW h \in Handler, NotCached(h) PROVE EdgeInv'
  <2>1. /\ pc' = [pc EXCEPT ![h] = "call"] /\ pc[h] = "lookup"
        /\ C!Miss(CacheKey(cur[h])) \/ C!Expired(CacheKey(cur[h]))
        /\ UNCHANGED <<client, cur, reply, served>>
    BY <1>8 DEF NotCached
  <2>2. ll' \in Seq(GoodEntry)
    BY <1>1, <2>1, CacheStaysGood
  <2>3. /\ pc' \in [Handler -> Pcs]
        /\ \A g \in Handler : pc'[g] \in {"lookup", "call"} => pc[g] \in {"lookup", "call"}
    BY <1>1, <2>1 DEF Pcs
  <2>4. EdgeType'
    BY <1>1, <2>1, <2>2, <2>3 DEF EdgeType, GoodEntry, Request, CacheKey
  <2> QED  BY <2>1, <2>4 DEF EdgeInv, CachedReplyFits
<1>9. ASSUME NEW h \in Handler, CallFails(h) PROVE EdgeInv'
  <2>1. Respond(h, Plain) /\ UNCHANGED ll /\ Count(h)
    BY <1>9 DEF CallFails, cacheVars
  <2> QED  BY <1>1, <1>2, <2>1, CountNat, RespondKeeps
<1>10. ASSUME NEW h \in Handler, CallReturns(h) PROVE EdgeInv'
  <2>1. Respond(h, Plain) /\ Count(h) /\ cur[h] \in Request
    BY <1>1, <1>10 DEF CallReturns
  <2>2. ll' \in Seq(GoodEntry)
    <3>1. PICK r \in Answers(cur[h]) :
            IF Stores(cur[h], r)
            THEN C!Set(CacheKey(cur[h]), [for |-> cur[h], result |-> r, born |-> now])
            ELSE UNCHANGED cacheVars
      BY <1>10 DEF CallReturns
    <3>2. CASE ~Stores(cur[h], r)
      BY <1>1, <3>1, <3>2 DEF cacheVars
    <3>3. CASE Stores(cur[h], r)
      <4> DEFINE k == CacheKey(cur[h])
      <4> DEFINE v == [for |-> cur[h], result |-> r, born |-> now]
      <4>1. r \in Result
        BY <3>1, <3>3 DEF Answers, Stores, Result
      <4>2. k \in Method \X Params
        BY <2>1 DEF CacheKey, Request, Method, Params
      <4>3. v \in [for : Request, result : Result, born : Nat] /\ v.for = cur[h] /\ v.born = now
        BY <2>1, <4>1
      <4>4. now + TTL \in Nat
        BY EdgeConstantsOK
      <4>5. C!Set(k, v)
        BY <3>1, <3>3
      <4>6. k = CacheKey(v.for)
        BY <4>3
      <4> HIDE DEF k, v
      <4>7. [key |-> k, val |-> v, expires |-> now + TTL] \in GoodEntry
        BY <4>2, <4>3, <4>4, <4>6 DEF GoodEntry
      <4> QED  BY <1>1, <4>5, <4>7, CacheStaysGood
    <3> QED  BY <3>2, <3>3
  <2> QED  BY <1>2, <2>1, <2>2, CountNat, RespondKeeps
<1> QED
  BY <1>3, <1>4, <1>5, <1>6, <1>7, <1>8, <1>9, <1>10 DEF EdgeNext

\* To the limiter, a step of the edge is one of its own steps or none.
LEMMA EdgeUsesLimiter ==
  ASSUME EdgeInv, [EdgeNext]_edgeVars
  PROVE  [Next]_vars
<1>1. \A h \in Handler : client[h] \in Key
  BY DEF EdgeInv, EdgeType
<1>2. CASE EdgeTick
  BY <1>2 DEF EdgeTick, Next
<1>3. CASE ChainMoves \/ UNCHANGED edgeVars
  BY <1>3 DEF ChainMoves, edgeVars, limiterVars, vars
<1>4. ASSUME NEW h \in Handler, NEW k, NEW n, Serve(h, k, n) PROVE UNCHANGED vars
  BY <1>4 DEF Serve, limiterVars, vars
<1>5. ASSUME NEW h \in Handler, NEW q, Admit(h, q) PROVE Next
  BY <1>1, <1>5 DEF Admit, TakeToken, Next
<1>6. ASSUME NEW h \in Handler, Limited(h) PROVE Next
  BY <1>1, <1>6 DEF Limited, Next
<1>7. ASSUME NEW h \in Handler,
             Invalid(h) \/ Cached(h) \/ NotCached(h) \/ CallFails(h) \/ CallReturns(h)
      PROVE  UNCHANGED vars
  BY <1>7 DEF Invalid, Cached, NotCached, CallFails, CallReturns, limiterVars, vars
<1> QED
  BY <1>2, <1>3, <1>4, <1>5, <1>6, <1>7 DEF EdgeNext

\* A handler that starts to work for a client is one more, one that stops one less.
LEMMA OneHandler ==
  ASSUME NEW B, NEW h, IsFiniteSet(B)
  PROVE  /\ Cardinality(B) \in Nat
         /\ h \notin B => /\ IsFiniteSet(B \cup {h})
                          /\ Cardinality(B \cup {h}) = Cardinality(B) + 1
         /\ h \in B => /\ IsFiniteSet(B \ {h})
                       /\ Cardinality(B \ {h}) = Cardinality(B) - 1
  BY FS_CardinalityType, FS_AddElement, FS_RemoveElement

\* Tokens are accounted for after every step.
LEMMA EdgeKeepsBalance ==
  ASSUME EdgeInv, TypeOK, Balanced, [EdgeNext]_edgeVars
  PROVE  Balanced'
<1>1. /\ client \in [Handler -> Key] /\ pc \in [Handler -> Pcs] /\ served \in [Key -> Nat]
  BY DEF EdgeInv, EdgeType
<1>2. 0 \in Time /\ 0 <= now /\ \A k \in Key : since[k][0] \in Nat
  BY RateConstantsOK DEF TypeOK, Time
<1>3. \A k \in Key : Balance(k)
  BY DEF Balanced
<1>4. ASSUME \A k \in Key : Busy(k)' = Busy(k), UNCHANGED <<served, since>>
      PROVE  Balanced'
  BY <1>3, <1>4 DEF Balanced, Balance
<1>5. CASE EdgeTick \/ ChainMoves \/ UNCHANGED edgeVars
  <2>1. UNCHANGED <<client, pc, served, since>>
    BY <1>5 DEF EdgeTick, Tick, ChainMoves, edgeVars, limiterVars, handlerVars
  <2> QED  BY <1>4, <2>1 DEF Busy
<1>6. ASSUME NEW h \in Handler, NEW k \in Key, NEW n, Serve(h, k, n) PROVE Balanced'
  <2>1. /\ pc[h] = "idle" /\ pc' = [pc EXCEPT ![h] = "next"]
        /\ client' = [client EXCEPT ![h] = k] /\ UNCHANGED <<served, since>>
    BY <1>6 DEF Serve, limiterVars
  <2>2. /\ pc[h] \notin {"lookup", "call"} /\ pc'[h] \notin {"lookup", "call"}
        /\ \A g \in Handler : g # h => pc'[g] = pc[g] /\ client'[g] = client[g]
    BY <1>1, <2>1
  <2>3. \A c \in Key : Busy(c)' = Busy(c)
    BY <2>2 DEF Busy
  <2> QED  BY <1>4, <2>1, <2>3
<1>7. ASSUME NEW h \in Handler, Invalid(h) \/ Limited(h) \/ NotCached(h) PROVE Balanced'
  <2>1. /\ UNCHANGED <<client, served, since>>
        /\ \/ pc[h] = "next" /\ pc' = [pc EXCEPT ![h] = IF left[h] = 1 THEN "idle" ELSE "next"]
           \/ pc[h] = "lookup" /\ pc' = [pc EXCEPT ![h] = "call"]
    BY <1>7 DEF Invalid, Limited, Denied, NotCached, Respond, limiterVars
  <2>2. /\ pc'[h] \in {"lookup", "call"} <=> pc[h] \in {"lookup", "call"}
        /\ \A g \in Handler : g # h => pc'[g] = pc[g]
    BY <1>1, <2>1
  <2>3. \A c \in Key : Busy(c)' = Busy(c)
    BY <2>1, <2>2 DEF Busy
  <2> QED  BY <1>4, <2>1, <2>3
<1>8. ASSUME NEW h \in Handler, NEW q \in Request, Admit(h, q) PROVE Balanced'
  <2>0. PICK c \in Key : c = client[h]
    BY <1>1
  <2>1. /\ pc[h] = "next" /\ UNCHANGED <<client, served>>
        /\ pc' = [pc EXCEPT ![h] = IF q.method \in cacheable THEN "lookup" ELSE "call"]
        /\ since' = [since EXCEPT ![c] = [s \in Time |-> IF s <= now THEN @[s] + 1 ELSE @[s]]]
    BY <1>8, <2>0 DEF Admit, TakeToken, Admitted
  <2>2. c \in Key /\ since \in [Key -> [Time -> Nat]]
    BY <1>1 DEF TypeOK
  <2>3. since'[c][0] = since[c][0] + 1 /\ \A k \in Key : k # c => since'[k] = since[k]
    BY <1>2, <2>1, <2>2
  <2>4. /\ pc[h] \notin {"lookup", "call"} /\ pc'[h] \in {"lookup", "call"}
        /\ \A g \in Handler : g # h => pc'[g] = pc[g]
    BY <1>1, <2>1
  <2>5. /\ h \notin Busy(c) /\ Busy(c)' = Busy(c) \cup {h}
        /\ \A k \in Key : k # c => Busy(k)' = Busy(k)
    BY <2>0, <2>1, <2>4 DEF Busy
  <2>6. Balance(c)'
    <3> DEFINE b == Busy(c)
    <3>1. IsFiniteSet(b) /\ served[c] + Cardinality(b) = since[c][0]
      BY <1>3, <2>2 DEF Balance
    <3>2. served[c] \in Nat /\ h \notin b
      BY <1>1, <2>2, <2>5
    <3> HIDE DEF b
    <3>3. /\ IsFiniteSet(b \cup {h}) /\ Cardinality(b) \in Nat
          /\ Cardinality(b \cup {h}) = Cardinality(b) + 1
      BY <3>1, <3>2, OneHandler
    <3>4. served[c] + Cardinality(b \cup {h}) = since[c][0] + 1
      BY <3>1, <3>2, <3>3
    <3> QED  BY <2>1, <2>3, <2>5, <3>3, <3>4 DEF Balance, b
  <2>7. \A k \in Key : k # c => Balance(k)'
    BY <1>3, <2>1, <2>3, <2>5 DEF Balance
  <2>8. \A k \in Key : Balance(k)'
    BY <2>6, <2>7
  <2> QED  BY <2>8 DEF Balanced
<1>9. ASSUME NEW h \in Handler, Cached(h) \/ CallFails(h) \/ CallReturns(h) PROVE Balanced'
  <2>0. PICK c \in Key : c = client[h]
    BY <1>1
  <2>1. /\ pc[h] \in {"lookup", "call"} /\ UNCHANGED <<client, since>> /\ Count(h)
        /\ pc' = [pc EXCEPT ![h] = IF left[h] = 1 THEN "idle" ELSE "next"]
    BY <1>9 DEF Cached, CallFails, CallReturns, Respond, limiterVars
  <2>2. /\ served'[c] = served[c] + 1 /\ c \in Key
        /\ \A k \in Key : k # c => served'[k] = served[k]
    BY <2>0, <2>1, CountNat
  <2>3. /\ pc'[h] \notin {"lookup", "call"}
        /\ \A g \in Handler : g # h => pc'[g] = pc[g]
    BY <1>1, <2>1
  <2>4. /\ h \in Busy(c) /\ Busy(c)' = Busy(c) \ {h}
        /\ \A k \in Key : k # c => Busy(k)' = Busy(k)
    BY <2>0, <2>1, <2>3 DEF Busy
  <2>5. Balance(c)'
    <3> DEFINE b == Busy(c)
    <3>1. IsFiniteSet(b) /\ served[c] + Cardinality(b) = since[c][0]
      BY <1>3, <2>2 DEF Balance
    <3>2. served[c] \in Nat /\ h \in b
      BY <1>1, <2>2, <2>4
    <3> HIDE DEF b
    <3>3. /\ IsFiniteSet(b \ {h}) /\ Cardinality(b) \in Nat
          /\ Cardinality(b \ {h}) = Cardinality(b) - 1
      BY <3>1, <3>2, OneHandler
    <3>4. (served[c] + 1) + Cardinality(b \ {h}) = since[c][0]
      BY <3>1, <3>2, <3>3
    <3> QED  BY <2>1, <2>2, <2>4, <3>3, <3>4 DEF Balance, b
  <2>6. \A k \in Key : k # c => Balance(k)'
    BY <1>3, <2>1, <2>2, <2>4 DEF Balance
  <2>7. \A k \in Key : Balance(k)'
    BY <2>5, <2>6
  <2> QED  BY <2>7 DEF Balanced
<1> QED
  BY <1>5, <1>6, <1>7, <1>8, <1>9 DEF EdgeNext

\* Together: the limiter's accounts, the cache and the tokens.
LEMMA EdgeInvariance == EdgeSpec => []Whole
<1>1. EdgeInit => EdgeInv
  <2> SUFFICES ASSUME EdgeInit PROVE EdgeInv
    OBVIOUS
  <2>1. /\ client \in [Handler -> Key] /\ pc = [h \in Handler |-> "idle"]
        /\ cur = [h \in Handler |-> << >>] /\ reply = [h \in Handler |-> NoReply]
        /\ served = [k \in Key |-> 0] /\ ll = << >>
    BY DEF EdgeInit, C!Init
  <2>2. ll \in Seq(GoodEntry)
    BY <2>1, EmptySeq
  <2>3. EdgeType
    BY <2>1, <2>2 DEF EdgeType, Pcs
  <2>4. CachedReplyFits
    BY <2>1 DEF CachedReplyFits, NoReply
  <2> QED  BY <2>3, <2>4 DEF EdgeInv
<1>2. EdgeInit => Balanced
  <2> SUFFICES ASSUME EdgeInit, NEW k \in Key PROVE Balance(k)
    BY DEF Balanced
  <2>1. /\ pc = [h \in Handler |-> "idle"] /\ served = [c \in Key |-> 0]
        /\ since = [c \in Key |-> [s \in Time |-> 0]]
    BY DEF EdgeInit, Init
  <2>2. Busy(k) = {}
    BY <2>1 DEF Busy
  <2>3. served[k] = 0 /\ since[k][0] = 0
    BY <2>1, RateConstantsOK DEF Time
  <2> QED  BY <2>2, <2>3, FS_EmptySet DEF Balance
<1>3. ASSUME Whole, [EdgeNext]_edgeVars PROVE EdgeInv' /\ Balanced'
  <2>1. TypeOK /\ now \in Nat
    BY <1>3, RateConstantsOK DEF Whole, Inv, TypeOK, Time
  <2> QED  BY <1>3, <2>1, EdgeStepKeeps, EdgeKeepsBalance DEF Whole
<1>4. ASSUME Whole, [EdgeNext]_edgeVars PROVE Inv'
  BY <1>4, EdgeUsesLimiter, AccountsKept DEF Whole
<1>5. EdgeInit => Inv
  BY AccountsKept DEF EdgeInit
<1>6. EdgeInit => Whole
  BY <1>1, <1>2, <1>5 DEF Whole
<1>7. Whole /\ [EdgeNext]_edgeVars => Whole'
  BY <1>3, <1>4 DEF Whole
<1> QED
  BY <1>6, <1>7, PTL DEF EdgeSpec

\* A response from the cache is a node's answer to a request with the same method
\* and parameters, younger than TTL and never null, whichever handler stored it.
THEOREM CachedAnswersFit == EdgeSpec => []CachedReplyFits
<1>1. Whole => CachedReplyFits
  BY DEF Whole, EdgeInv
<1> QED
  BY <1>1, EdgeInvariance, PTL

\* The limiter's bounds hold for concurrent handlers that work through batches.
THEOREM ExactAtTheEdge == EdgeSpec => [](WithinRate /\ DeniesOnlyAtLimit)
<1>1. Whole => WithinRate /\ DeniesOnlyAtLimit
  BY AccountsAreExact DEF Whole
<1> QED
  BY <1>1, EdgeInvariance, PTL

\* No client gets more lookups and node calls than its bucket grants: each was
\* paid for with a token of its own.
THEOREM TokensPaidFor == EdgeSpec => []ServedWithinRate
<1>1. Whole => ServedWithinRate
  <2> SUFFICES ASSUME Whole, NEW k \in Key PROVE served[k] * Unit <= Full + Rate * now
    BY DEF ServedWithinRate
  <2>1. now \in Nat /\ 0 \in 0 .. now /\ now - 0 = now /\ since[k][0] \in Nat
    BY RateConstantsOK DEF Whole, Inv, TypeOK, Time
  <2>2. since[k][0] * Unit <= Full + Rate * now
    BY <2>1, AccountsAreExact DEF Whole, WithinRate
  <2>3. served[k] \in Nat /\ served[k] <= since[k][0]
    <3>1. IsFiniteSet(Busy(k)) /\ served[k] + Cardinality(Busy(k)) = since[k][0]
      BY DEF Whole, Balanced, Balance
    <3>2. Cardinality(Busy(k)) \in Nat
      BY <3>1, FS_CardinalityType
    <3>3. served[k] \in Nat
      BY DEF Whole, EdgeInv, EdgeType
    <3> QED  BY <3>1, <3>2, <3>3
  <2>4. served[k] * Unit <= since[k][0] * Unit
    <3> DEFINE a == served[k]
    <3> DEFINE b == since[k][0]
    <3>1. a \in Nat /\ b \in Nat /\ a <= b /\ Unit \in Nat
      BY <2>1, <2>3, Products
    <3> HIDE DEF a, b
    <3>2. (b - a) * Unit >= 0 /\ b * Unit = a * Unit + (b - a) * Unit
      BY <3>1
    <3>3. a * Unit \in Nat /\ b * Unit \in Nat /\ (b - a) * Unit \in Int
      BY <3>1
    <3>4. a * Unit <= b * Unit
      BY <3>2, <3>3
    <3> QED  BY <3>4 DEF a, b
  <2> DEFINE x == served[k] * Unit
  <2> DEFINE y == since[k][0] * Unit
  <2> DEFINE z == Full + Rate * now
  <2>5. x \in Nat /\ y \in Nat /\ z \in Nat /\ x <= y /\ y <= z
    BY <2>1, <2>2, <2>3, <2>4, Products
  <2> HIDE DEF x, y, z
  <2>6. x <= z
    BY <2>5
  <2> QED  BY <2>6 DEF x, z
<1> QED
  BY <1>1, EdgeInvariance, PTL

=============================================================================
