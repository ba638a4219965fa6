-------------------------- MODULE EngineCallProofs --------------------------
(***************************************************************************)
(* Proofs about Wire and EngineCall, for every width of bytes, integers,   *)
(* words and lengths, every set of requests and responses of the contract  *)
(* and every set of fields that a newer engine appends.                    *)
(*                                                                         *)
(* The codec's functions are recursive.  That they satisfy their equations *)
(* follows from Recursion, a statement of first order: a function whose    *)
(* argument grows smaller by some measure exists.  On top of it,           *)
(*   - ReadVarintPut: what Buf.varint writes, Reader.varint reads back and *)
(*     leaves what follows, for integers that need the last group too;     *)
(*   - ReadFieldPut, FieldsPut: the same for a field and for a message;    *)
(*   - Segment, Contents: which values of which kind a message has, put    *)
(*     together field by field; hence RequestBack and ResponseBack;        *)
(*   - UnframeCut: part of a frame is no frame.                            *)
(* CallInv then says what is on the wire in each state of the call.        *)
(***************************************************************************)
EXTENDS EngineCall, SequenceTheorems, WellFoundedInduction, TLAPS

\* Every set of natural numbers that is not empty has a least element.
LEMMA Least ==
  ASSUME NEW T \in SUBSET Nat, T # {}
  PROVE  \E x \in T : \A y \in T : x <= y
<1> DEFINE R == OpToRel(<, Nat)
<1>1. IsWellFoundedOn(R, Nat)
  BY NatLessThanWellFounded, Zenon
<1>2. \A x, y \in Nat : x < y => <<x, y>> \in R
  BY DEF OpToRel
<1> HIDE DEF R
<1>3. PICK x \in T : \A y \in T : ~(<<y, x>> \in R)
  BY <1>1, WFMin
<1>4. \A y \in T : ~(y < x)
  BY <1>2, <1>3
<1> QED
  BY <1>4

\* Induction: a set with 0 and the successor of each of its members is Nat.
LEMMA Induction ==
  ASSUME NEW T, 0 \in T, \A n \in Nat : n \in T => n + 1 \in T
  PROVE  \A n \in Nat : n \in T
<1> SUFFICES ASSUME NEW m \in Nat, m \notin T PROVE FALSE
  OBVIOUS
<1> DEFINE U == {n \in Nat : n \notin T}
<1>1. PICK x \in U : \A y \in U : x <= y
  BY Least
<1>2. x # 0 /\ x - 1 \in Nat /\ x - 1 \notin U
  BY <1>1
<1> QED
  BY <1>2

\* What a recursive function is to satisfy, at every argument and at those of a
\* measure below n.
Solution(h, D, Stop, nxt, base, step) ==
    \A d \in D : h[d] = IF d \in Stop THEN base[d] ELSE step[<<d, h[nxt[d]]>>]
Solves(h, D, mu, Stop, nxt, base, step, n) ==
    \A d \in D : mu[d] < n => h[d] = IF d \in Stop THEN base[d] ELSE step[<<d, h[nxt[d]]>>]

\* A recursion whose argument grows smaller has a solution.
LEMMA Recursion ==
  ASSUME NEW D, NEW V, NEW mu \in [D -> Nat], NEW Stop, NEW nxt \in [D -> D], NEW base \in [D -> V],
         NEW step \in [D \X V -> V], \A d \in D : d \notin Stop => mu[nxt[d]] < mu[d]
  PROVE  \E h \in [D -> V] : Solution(h, D, Stop, nxt, base, step)
<1> DEFINE Upto(h, n) == Solves(h, D, mu, Stop, nxt, base, step, n)
           Good == {n \in Nat : \E h \in [D -> V] : Upto(h, n)}
<1>1. 0 \in Good
  <2> DEFINE h == base
  <2>1. Upto(base, 0)
    BY DEF Solves
  <2> QED BY <2>1
<1>2. ASSUME NEW n \in Nat, n \in Good PROVE n + 1 \in Good
  <2>1. PICK h \in [D -> V] : Upto(h, n)
    BY <1>2
  <2> DEFINE g == [d \in D |-> IF mu[d] < n THEN h[d] ELSE IF d \in Stop THEN base[d] ELSE step[<<d, h[nxt[d]]>>]]
  <2>2. g \in [D -> V]
    OBVIOUS
  <2>3. Upto(g, n + 1)
    <3> SUFFICES ASSUME NEW d \in D, mu[d] < n + 1
                 PROVE  g[d] = IF d \in Stop THEN base[d] ELSE step[<<d, g[nxt[d]]>>]
      BY DEF Solves
    <3>1. d \notin Stop => nxt[d] \in D /\ mu[nxt[d]] \in Nat /\ mu[d] \in Nat /\ mu[nxt[d]] < n
      OBVIOUS
    <3>2. d \notin Stop => g[nxt[d]] = h[nxt[d]]
      BY <3>1
    <3>3. g[d] = IF d \in Stop THEN base[d] ELSE step[<<d, h[nxt[d]]>>]
      BY <2>1 DEF Solves
    <3> QED
      BY <3>2, <3>3
  <2> HIDE DEF g
  <2> QED BY <2>2, <2>3
<1>3. \A n \in Nat : n \in Good
  <2> HIDE DEF Good
  <2> QED BY <1>1, <1>2, Induction
<1> DEFINE Agree == {n \in Nat : \A g, h \in [D -> V] : Upto(g, n) /\ Upto(h, n) =>
                        \A d \in D : mu[d] < n => g[d] = h[d]}
<1>4. 0 \in Agree
  OBVIOUS
<1>5. ASSUME NEW n \in Nat, n \in Agree PROVE n + 1 \in Agree
  <2> SUFFICES ASSUME NEW g \in [D -> V], NEW h \in [D -> V], Upto(g, n + 1), Upto(h, n + 1),
                      NEW d \in D, mu[d] < n + 1
               PROVE  g[d] = h[d]
    OBVIOUS
  <2>1. Upto(g, n) /\ Upto(h, n)
    BY DEF Solves
  <2>2. \A e \in D : mu[e] < n => g[e] = h[e]
    BY <1>5, <2>1
  <2>3. d \notin Stop => g[nxt[d]] = h[nxt[d]]
    BY <2>2
  <2> QED
    BY <2>3 DEF Solves
<1>6. \A n \in Nat : n \in Agree
  <2> HIDE DEF Agree
  <2> QED BY <1>4, <1>5, Induction
<1> DEFINE H(n) == CHOOSE h \in [D -> V] : Upto(h, n)
<1>7. \A n \in Nat : H(n) \in [D -> V] /\ Upto(H(n), n)
  BY <1>3
<1> DEFINE f == [d \in D |-> H(mu[d] + 1)[d]]
<1>8. f \in [D -> V]
  <2> HIDE DEF H
  <2> QED BY <1>7
<1>9. ASSUME NEW d \in D
      PROVE  f[d] = IF d \in Stop THEN base[d] ELSE step[<<d, f[nxt[d]]>>]
  <2> DEFINE n == mu[d] + 1   h == H(n)
  <2>1. n \in Nat /\ h \in [D -> V] /\ Upto(h, n)
    BY <1>7
  <2>2. h[d] = IF d \in Stop THEN base[d] ELSE step[<<d, h[nxt[d]]>>]
    <3> HIDE DEF H
    <3> QED BY <2>1 DEF Solves
  <2>3. d \notin Stop => h[nxt[d]] = f[nxt[d]]
    <3> SUFFICES ASSUME d \notin Stop PROVE h[nxt[d]] = f[nxt[d]]
      OBVIOUS
    <3> DEFINE e == nxt[d]  m == mu[e] + 1
    <3>1. e \in D /\ m \in Nat /\ m <= n /\ mu[e] < m
      OBVIOUS
    <3>2. H(m) \in [D -> V] /\ Upto(H(m), m)
      BY <1>7, <3>1
    <3>3. Upto(h, m)
      <4> HIDE DEF H, h, m
      <4> QED BY <2>1, <3>1 DEF Solves
    <3>4. m \in Agree
      BY <1>6, <3>1
    <3>5. f[e] = H(m)[e]
      BY <3>1
    <3>6. h[e] = f[e]
      <4> HIDE DEF H, f, e, m, n, h
      <4> QED BY <2>1, <3>1, <3>2, <3>3, <3>4, <3>5
    <3> QED
      BY <3>6
  <2> HIDE DEF H
  <2> QED
    BY <2>2, <2>3
<1> HIDE DEF f
<1> QED
  BY <1>8, <1>9 DEF Solution

\* Induction on a measure.
LEMMA MeasureInduction ==
  ASSUME NEW D, NEW mu \in [D -> Nat], NEW T,
         \A d \in D : (\A e \in D : mu[e] < mu[d] => e \in T) => d \in T
  PROVE  \A d \in D : d \in T
<1> SUFFICES ASSUME NEW m \in D, m \notin T PROVE FALSE
  OBVIOUS
<1> DEFINE U == {mu[d] : d \in {e \in D : e \notin T}}
<1>1. U \in SUBSET Nat /\ U # {}
  OBVIOUS
<1>2. PICK x \in U : \A y \in U : x <= y
  BY <1>1, Least
<1>3. PICK d \in D : d \notin T /\ x = mu[d]
  OBVIOUS
<1>4. \A e \in D : mu[e] < mu[d] => e \in T
  <2> SUFFICES ASSUME NEW e \in D, mu[e] < mu[d], e \notin T PROVE FALSE
    OBVIOUS
  <2>1. mu[e] \in U /\ mu[e] \in Nat /\ mu[d] \in Nat
    OBVIOUS
  <2> HIDE DEF U
  <2> QED
    BY <1>2, <1>3, <2>1
<1> QED
  BY <1>3, <1>4

-----------------------------------------------------------------------------
\* Pow2 satisfies its equation, and its values are positive.
LEMMA Pow2Facts ==
  /\ Pow2[0] = 1
  /\ \A n \in Nat : Pow2[n] \in Nat /\ Pow2[n] > 0 /\ Pow2[n + 1] = 2 * Pow2[n]
<1> DEFINE nxt == [n \in Nat |-> IF n = 0 THEN 0 ELSE n - 1]
           step == [p \in Nat \X Nat |-> 2 * p[2]]
           base == [n \in Nat |-> 1]
           mu == [n \in Nat |-> n]
<1>1. nxt \in [Nat -> Nat] /\ step \in [Nat \X Nat -> Nat] /\ base \in [Nat -> Nat] /\ mu \in [Nat -> Nat]
  OBVIOUS
<1>2. \A n \in Nat : n \notin {0} => mu[nxt[n]] < mu[n]
  OBVIOUS
<1>h. PICK h \in [Nat -> Nat] : Solution(h, Nat, {0}, nxt, base, step)
  <2> HIDE DEF nxt, step, base, mu
  <2> QED
    BY <1>1, <1>2, Recursion
<1>3. \A n \in Nat : h[n] = IF n = 0 THEN 1 ELSE 2 * h[n - 1]
  <2> SUFFICES ASSUME NEW n \in Nat PROVE h[n] = IF n = 0 THEN 1 ELSE 2 * h[n - 1]
    OBVIOUS
  <2>1. h[n] = IF n \in {0} THEN base[n] ELSE step[<<n, h[nxt[n]]>>]
    BY <1>h DEF Solution
  <2>2. n # 0 => nxt[n] = n - 1 /\ n - 1 \in Nat /\ h[n - 1] \in Nat /\ <<n, h[n - 1]>> \in Nat \X Nat
    OBVIOUS
  <2> QED
    BY <2>1, <2>2
<1>4. h = [n \in Nat |-> IF n = 0 THEN 1 ELSE 2 * h[n - 1]]
  BY <1>3
<1>5. Pow2 = [n \in Nat |-> IF n = 0 THEN 1 ELSE 2 * Pow2[n - 1]]
  BY <1>4 DEF Pow2
<1>6. \A n \in Nat : Pow2[n] = IF n = 0 THEN 1 ELSE 2 * Pow2[n - 1]
  BY <1>5
<1>7. \A n \in Nat : Pow2[n + 1] = 2 * Pow2[n]
  <2> SUFFICES ASSUME NEW n \in Nat PROVE Pow2[n + 1] = 2 * Pow2[n]
    OBVIOUS
  <2>1. n + 1 \in Nat /\ n + 1 # 0 /\ (n + 1) - 1 = n
    OBVIOUS
  <2> QED
    BY <1>6, <2>1
<1> DEFINE T == {n \in Nat : Pow2[n] \in Nat /\ Pow2[n] > 0}
<1>8. 0 \in T /\ Pow2[0] = 1
  BY <1>6
<1>9. \A n \in Nat : n \in T => n + 1 \in T
  BY <1>7
<1>10. \A n \in Nat : n \in T
  <2> HIDE DEF T
  <2> QED BY <1>8, <1>9, Induction
<1> QED
  BY <1>7, <1>8, <1>10

\* The law of exponents.
LEMMA Pow2Sum ==
  ASSUME NEW a \in Nat, NEW b \in Nat
  PROVE  Pow2[a + b] = Pow2[a] * Pow2[b]
<1> DEFINE T == {n \in Nat : Pow2[a + n] = Pow2[a] * Pow2[n]}
<1>1. 0 \in T
  BY Pow2Facts
<1>2. ASSUME NEW n \in Nat, n \in T PROVE n + 1 \in T
  <2>1. a + (n + 1) = (a + n) + 1 /\ a + n \in Nat
    OBVIOUS
  <2>2. Pow2[a + (n + 1)] = 2 * (Pow2[a] * Pow2[n]) /\ Pow2[n + 1] = 2 * Pow2[n]
    BY <1>2, <2>1, Pow2Facts
  <2>3. Pow2[a] \in Nat /\ Pow2[n] \in Nat
    BY Pow2Facts
  <2>4. 2 * (Pow2[a] * Pow2[n]) = Pow2[a] * (2 * Pow2[n])
    BY <2>3
  <2> QED
    BY <2>2, <2>4
<1>3. \A n \in Nat : n \in T
  <2> HIDE DEF T
  <2> QED BY <1>1, <1>2, Induction
<1> QED
  BY <1>3

\* Powers grow.
LEMMA Pow2Mono ==
  ASSUME NEW a \in Nat, NEW b \in Nat, a <= b
  PROVE  Pow2[a] <= Pow2[b]
<1>1. b - a \in Nat /\ b = a + (b - a)
  OBVIOUS
<1>2. Pow2[b] = Pow2[a] * Pow2[b - a]
  BY <1>1, Pow2Sum
<1>3. Pow2[a] \in Nat /\ Pow2[b - a] \in Nat /\ Pow2[b - a] > 0
  BY <1>1, Pow2Facts
<1>4. \A x, y \in Nat : y > 0 => x <= x * y
  OBVIOUS
<1> QED
  BY <1>2, <1>3, <1>4

\* Group is a number above 1.
LEMMA GroupFacts == Group \in Nat /\ Group >= 2 /\ Pow2[Width] \in Nat /\ Pow2[Width] >= 2
<1>1. \A n \in Nat \ {0} : Pow2[n] \in Nat /\ Pow2[n] >= 2
  <2> SUFFICES ASSUME NEW n \in Nat \ {0} PROVE Pow2[n] \in Nat /\ Pow2[n] >= 2
    OBVIOUS
  <2>1. 1 <= n /\ Pow2[1] = 2
    <3>1. Pow2[0 + 1] = 2 * Pow2[0]
      BY Pow2Facts
    <3> QED BY <3>1, Pow2Facts
  <2> QED
    BY <2>1, Pow2Mono, Pow2Facts
<1> QED
  BY <1>1, WireConstantsOK DEF Group

-----------------------------------------------------------------------------
\* What FlattenSeq computes on the way: the concatenation of the first i.
Joins(g, ss) == \A i \in 1 .. Len(ss) : g[i] = IF i = 1 THEN ss[i] ELSE g[i - 1] \o ss[i]

\* FlattenSeq is the last of them.
LEMMA FlatPrefix ==
  ASSUME NEW X, NEW ss \in Seq(Seq(X)), Len(ss) # 0
  PROVE  \E g \in [1 .. Len(ss) -> Seq(X)] : Joins(g, ss) /\ FlattenSeq(ss) = g[Len(ss)]
<1> DEFINE n == Len(ss)
           D == 1 .. n
           V == Seq(X)
           nxt == [i \in D |-> IF i = 1 THEN 1 ELSE i - 1]
           step == [p \in D \X V |-> p[2] \o ss[p[1]]]
           base == [i \in D |-> ss[i]]
           mu == [i \in D |-> i]
<1>0. n \in Nat /\ n # 0 /\ \A i \in D : ss[i] \in V
  OBVIOUS
<1>1. nxt \in [D -> D] /\ base \in [D -> V] /\ mu \in [D -> Nat] /\ step \in [D \X V -> V]
  <2>1. step \in [D \X V -> V]
    <3> SUFFICES ASSUME NEW i \in D, NEW t \in V PROVE t \o ss[i] \in V
      OBVIOUS
    <3> QED BY <1>0, ConcatProperties
  <2> QED BY <1>0, <2>1
<1>2. \A i \in D : i \notin {1} => mu[nxt[i]] < mu[i]
  BY <1>0
<1>3. PICK h \in [D -> V] : Solution(h, D, {1}, nxt, base, step)
  <2> HIDE DEF D, V, nxt, step, base, mu
  <2> QED BY <1>1, <1>2, Recursion
<1>4. \A i \in D : h[i] = IF i = 1 THEN ss[i] ELSE h[i - 1] \o ss[i]
  <2> SUFFICES ASSUME NEW i \in D PROVE h[i] = IF i = 1 THEN ss[i] ELSE h[i - 1] \o ss[i]
    OBVIOUS
  <2>1. h[i] = IF i \in {1} THEN base[i] ELSE step[<<i, h[nxt[i]]>>]
    BY <1>3 DEF Solution
  <2>a. i # 1 => nxt[i] = i - 1 /\ i - 1 \in D
    BY <1>0
  <2>2. i # 1 => nxt[i] = i - 1 /\ i - 1 \in D /\ h[i - 1] \in V /\ <<i, h[i - 1]>> \in D \X V
    <3> HIDE DEF D, V, nxt
    <3> QED BY <2>a
  <2>3. i # 1 => step[<<i, h[i - 1]>>] = h[i - 1] \o ss[i]
    BY <2>2
  <2> HIDE DEF D, V, nxt, step
  <2> QED
    BY <2>1, <2>2, <2>3
<1> DEFINE f == CHOOSE f : f = [i \in 1 .. Len(ss) |-> IF i = 1 THEN ss[i] ELSE f[i - 1] \o ss[i]]
<1>5. h = [i \in 1 .. Len(ss) |-> IF i = 1 THEN ss[i] ELSE h[i - 1] \o ss[i]]
  BY <1>4
<1>6. f = [i \in 1 .. Len(ss) |-> IF i = 1 THEN ss[i] ELSE f[i - 1] \o ss[i]]
  BY <1>5
<1>7. FlattenSeq(ss) = f[Len(ss)]
  BY DEF FlattenSeq
<1> HIDE DEF f
<1>8. \A i \in D : f[i] = IF i = 1 THEN ss[i] ELSE f[i - 1] \o ss[i]
  BY <1>6
<1> DEFINE T == {i \in D : f[i] \in V}
<1>9. \A i \in D : i \in T
  <2>1. ASSUME NEW i \in D, \A j \in D : mu[j] < mu[i] => j \in T PROVE i \in T
    <3>1. i # 1 => i - 1 \in D /\ mu[i - 1] < mu[i]
      BY <1>0
    <3>2. i # 1 => f[i - 1] \in V
      BY <2>1, <3>1
    <3>3. f[i] \in V
      <4>1. CASE i = 1
        BY <1>0, <1>8, <4>1
      <4>2. CASE i # 1
        <5>1. f[i] = f[i - 1] \o ss[i] /\ ss[i] \in V
          BY <1>0, <1>8, <4>2
        <5> QED BY <3>2, <4>2, <5>1, ConcatProperties
      <4> QED BY <4>1, <4>2
    <3> QED BY <3>3
  <2> HIDE DEF T, D, mu
  <2> QED BY <1>1, <2>1, MeasureInduction
<1>10. f \in [D -> V] /\ Joins(f, ss)
  BY <1>6, <1>8, <1>9 DEF Joins
<1> QED
  BY <1>7, <1>10

\* The concatenation of one more sequence.
LEMMA FlatSnoc ==
  ASSUME NEW X, NEW ss \in Seq(Seq(X)), NEW x \in Seq(X)
  PROVE  FlattenSeq(ss) \in Seq(X) /\ FlattenSeq(Append(ss, x)) = FlattenSeq(ss) \o x
<1> DEFINE tt == Append(ss, x)   n == Len(ss)
<1>1. /\ tt \in Seq(Seq(X)) /\ Len(tt) = n + 1 /\ n \in Nat
      /\ (\A i \in 1 .. n : tt[i] = ss[i]) /\ tt[n + 1] = x
  BY AppendProperties, LenProperties
<1>2. PICK k \in [1 .. n + 1 -> Seq(X)] : Joins(k, tt) /\ FlattenSeq(tt) = k[n + 1]
  <2> HIDE DEF tt
  <2>1. Len(tt) # 0
    BY <1>1
  <2> QED
    BY <1>1, <2>1, FlatPrefix
<1>3. \A i \in 1 .. n + 1 : k[i] = IF i = 1 THEN tt[i] ELSE k[i - 1] \o tt[i]
  BY <1>1, <1>2 DEF Joins
<1>4. CASE n = 0
  <2>1. FlattenSeq(ss) = ss /\ ss = << >>
    BY <1>4, EmptySeq DEF FlattenSeq
  <2>2. k[1] = x
    BY <1>1, <1>3, <1>4
  <2>3. << >> \o x = x
    BY ConcatEmptySeq
  <2> QED
    BY <1>2, <1>4, <2>1, <2>2, <2>3, EmptySeq
<1>5. CASE n # 0
  <2>1. PICK g \in [1 .. n -> Seq(X)] : Joins(g, ss) /\ FlattenSeq(ss) = g[n]
    BY <1>5, FlatPrefix
  <2>2. \A i \in 1 .. n : g[i] = IF i = 1 THEN ss[i] ELSE g[i - 1] \o ss[i]
    BY <2>1 DEF Joins
  <2> DEFINE D == 1 .. n   mu == [i \in D |-> i]   T == {i \in D : g[i] = k[i]}
  <2>3. \A i \in D : i \in T
    <3>0. mu \in [D -> Nat]
      BY <1>1
    <3>1. ASSUME NEW i \in D, \A j \in D : mu[j] < mu[i] => j \in T PROVE i \in T
      <4>1. i # 1 => i - 1 \in D /\ mu[i - 1] < mu[i]
        BY <1>1
      <4>2. i # 1 => g[i - 1] = k[i - 1]
        BY <3>1, <4>1
      <4>3. i \in 1 .. n + 1 /\ tt[i] = ss[i]
        BY <1>1
      <4>4. g[i] = k[i]
        <5>1. g[i] = IF i = 1 THEN ss[i] ELSE g[i - 1] \o ss[i]
          BY <2>2
        <5>2. k[i] = IF i = 1 THEN tt[i] ELSE k[i - 1] \o tt[i]
          BY <1>3, <4>3
        <5> HIDE DEF tt, n, D, T, mu
        <5>3. CASE i = 1
          BY <4>3, <5>1, <5>2, <5>3
        <5>4. CASE i # 1
          BY <4>2, <4>3, <5>1, <5>2, <5>4
        <5> QED BY <5>3, <5>4
      <4> QED BY <4>4
    <3> HIDE DEF T, D, mu
    <3> QED BY <3>0, <3>1, MeasureInduction
  <2>4. g[n] = k[n] /\ n + 1 \in 1 .. n + 1 /\ n + 1 # 1 /\ (n + 1) - 1 = n
    BY <1>1, <1>5, <2>3
  <2>5. k[n + 1] = k[n] \o x
    <3> HIDE DEF tt
    <3> QED BY <1>1, <1>3, <2>4
  <2>6. g[n] \in Seq(X)
    <3>1. n \in 1 .. n
      BY <1>1, <1>5
    <3> HIDE DEF n
    <3> QED BY <3>1
  <2> QED
    BY <1>2, <2>1, <2>4, <2>5, <2>6
<1> QED
  BY <1>1, <1>4, <1>5

\* Induction on sequences, from the left.
LEMMA SnocInduction ==
  ASSUME NEW S, NEW T, << >> \in T, \A s \in Seq(S), e \in S : s \in T => Append(s, e) \in T
  PROVE  \A s \in Seq(S) : s \in T
<1> DEFINE U == {n \in Nat : \A s \in Seq(S) : Len(s) = n => s \in T}
<1>1. 0 \in U
  BY EmptySeq
<1>2. ASSUME NEW n \in Nat, n \in U PROVE n + 1 \in U
  <2> SUFFICES ASSUME NEW s \in Seq(S), Len(s) = n + 1 PROVE s \in T
    OBVIOUS
  <2>1. s # << >>
    BY EmptySeq
  <2>2. PICK t \in Seq(S), e \in S : s = Append(t, e)
    BY <2>1, SequenceEmptyOrAppend
  <2>3. Len(t) = n
    BY <2>2, AppendProperties, LenProperties
  <2>4. t \in T
    BY <1>2, <2>3
  <2> QED
    BY <2>2, <2>4
<1>3. \A n \in Nat : n \in U
  <2> HIDE DEF U
  <2> QED BY <1>1, <1>2, Induction
<1> QED
  BY <1>3, LenProperties

\* Nothing to concatenate.
LEMMA FlatEmpty == FlattenSeq(<< >>) = << >>
  BY DEF FlattenSeq

\* The concatenation of two parts.
LEMMA FlatConcat ==
  ASSUME NEW X, NEW ss \in Seq(Seq(X)), NEW tt \in Seq(Seq(X))
  PROVE  FlattenSeq(ss \o tt) = FlattenSeq(ss) \o FlattenSeq(tt)
<1> DEFINE S == Seq(X)
           T == {t \in Seq(S) : FlattenSeq(ss \o t) = FlattenSeq(ss) \o FlattenSeq(t)}
<1>1. << >> \in T
  BY FlatEmpty, FlatSnoc, ConcatEmptySeq, EmptySeq
<1>2. ASSUME NEW t \in Seq(S), NEW e \in S, t \in T PROVE Append(t, e) \in T
  <2>1. ss \o Append(t, e) = Append(ss \o t, e)
    <3>1. Append(t, e) = t \o <<e>> /\ <<e>> \in Seq(S) /\ ss \o t \in Seq(S)
      BY AppendIsConcat, ConcatProperties
    <3>2. Append(ss \o t, e) = (ss \o t) \o <<e>>
      BY <3>1, AppendIsConcat
    <3> HIDE DEF S
    <3> QED BY <3>1, <3>2, ConcatAssociative
  <2>2. FlattenSeq(Append(ss \o t, e)) = FlattenSeq(ss \o t) \o e
    BY FlatSnoc, ConcatProperties
  <2>3. FlattenSeq(Append(t, e)) = FlattenSeq(t) \o e /\ FlattenSeq(t) \in Seq(X) /\ FlattenSeq(ss) \in Seq(X)
    BY FlatSnoc
  <2>4. (FlattenSeq(ss) \o FlattenSeq(t)) \o e = FlattenSeq(ss) \o (FlattenSeq(t) \o e)
    <3> DEFINE a == FlattenSeq(ss)   b == FlattenSeq(t)
    <3>1. a \in Seq(X) /\ b \in Seq(X) /\ e \in Seq(X)
      BY <2>3
    <3> HIDE DEF a, b, S, T
    <3>2. (a \o b) \o e = a \o (b \o e)
      BY <3>1, ConcatAssociative, SMTT(30)
    <3> QED BY <3>2 DEF a, b
  <2>5. Append(t, e) \in Seq(S)
    BY AppendProperties
  <2> QED
    BY <1>2, <2>1, <2>2, <2>3, <2>4, <2>5
<1>3. \A t \in Seq(S) : t \in T
  <2> HIDE DEF T, S
  <2> QED BY <1>1, <1>2, SnocInduction
<1> QED
  BY <1>3

\* The concatenation of a single sequence.
LEMMA FlatOne ==
  ASSUME NEW X, NEW x \in Seq(X)
  PROVE  FlattenSeq(<<x>>) = x
<1> DEFINE S == Seq(X)
<1>1. Append(<< >>, x) = <<x>> /\ << >> \in Seq(S)
  OBVIOUS
<1>2. FlattenSeq(Append(<< >>, x)) = FlattenSeq(<< >>) \o x
  BY <1>1, FlatSnoc
<1>3. << >> \o x = x
  BY ConcatEmptySeq
<1> QED
  BY <1>1, <1>2, <1>3, FlatEmpty

\* The concatenation of sequences of one element each.
LEMMA FlatSingles ==
  ASSUME NEW X, NEW e \in Seq(X)
  PROVE  FlattenSeq([i \in 1 .. Len(e) |-> <<e[i]>>]) = e
<1> DEFINE M(s) == [i \in 1 .. Len(s) |-> <<s[i]>>]
           T == {s \in Seq(X) : FlattenSeq(M(s)) = s}
<1>1. << >> \in T
  <2>1. M(<< >>) = << >>
    OBVIOUS
  <2> QED
    BY <2>1, FlatEmpty
<1>2. ASSUME NEW s \in Seq(X), NEW x \in X, s \in T PROVE Append(s, x) \in T
  <2>1. M(s) \in Seq(Seq(X)) /\ <<x>> \in Seq(X) /\ Len(M(s)) = Len(s) /\ Len(s) \in Nat
    OBVIOUS
  <2>2. M(Append(s, x)) = Append(M(s), <<x>>)
    <3>1. Append(M(s), <<x>>) \in Seq(Seq(X)) /\ M(Append(s, x)) \in Seq(Seq(X))
      BY <2>1, AppendProperties
    <3>2. Len(M(Append(s, x))) = Len(s) + 1 /\ Len(Append(M(s), <<x>>)) = Len(s) + 1
      BY <2>1, AppendProperties
    <3>3. \A i \in 1 .. Len(s) + 1 : M(Append(s, x))[i] = Append(M(s), <<x>>)[i]
      <4> SUFFICES ASSUME NEW i \in 1 .. Len(s) + 1 PROVE M(Append(s, x))[i] = Append(M(s), <<x>>)[i]
        OBVIOUS
      <4>1. M(Append(s, x))[i] = <<Append(s, x)[i]>>
        BY <3>2
      <4>2. CASE i = Len(s) + 1
        BY <2>1, <4>1, <4>2, AppendProperties
      <4>3. CASE i \in 1 .. Len(s)
        BY <2>1, <4>1, <4>3, AppendProperties
      <4> QED BY <2>1, <4>2, <4>3
    <3> HIDE DEF M
    <3> QED BY <3>1, <3>2, <3>3, SeqEqual
  <2>3. FlattenSeq(Append(M(s), <<x>>)) = FlattenSeq(M(s)) \o <<x>>
    <3> HIDE DEF M
    <3> QED BY <2>1, FlatSnoc
  <2>4. s \o <<x>> = Append(s, x) /\ Append(s, x) \in Seq(X)
    BY AppendIsConcat, AppendProperties
  <2> HIDE DEF M
  <2> QED
    BY <1>2, <2>2, <2>3, <2>4
<1>3. \A s \in Seq(X) : s \in T
  <2> HIDE DEF T
  <2> QED BY <1>1, <1>2, SnocInduction
<1> QED
  BY <1>3

\* The concatenation of empty sequences.
LEMMA FlatNone ==
  ASSUME NEW n \in Nat
  PROVE  FlattenSeq([i \in 1 .. n |-> << >>]) = << >>
<1> DEFINE M(k) == [i \in 1 .. k |-> << >>]
           T == {k \in Nat : FlattenSeq(M(k)) = << >>}
<1>1. 0 \in T
  <2>1. M(0) = << >>
    OBVIOUS
  <2> QED BY <2>1, FlatEmpty
<1>2. ASSUME NEW k \in Nat, k \in T PROVE k + 1 \in T
  <2>1. M(k) \in Seq(Seq({})) /\ Len(M(k)) = k /\ << >> \in Seq({})
    OBVIOUS
  <2>2. M(k + 1) = Append(M(k), << >>)
    OBVIOUS
  <2>3. FlattenSeq(Append(M(k), << >>)) = FlattenSeq(M(k)) \o << >>
    <3> HIDE DEF M
    <3> QED BY <2>1, FlatSnoc
  <2>4. << >> \o << >> = << >>
    OBVIOUS
  <2>5. FlattenSeq(M(k)) = << >>
    BY <1>2
  <2>6. FlattenSeq(M(k + 1)) = << >>
    <3> HIDE DEF M
    <3> QED BY <2>2, <2>3, <2>4, <2>5
  <2> QED
    BY <2>6
<1>3. \A k \in Nat : k \in T
  <2> HIDE DEF T
  <2> QED BY <1>1, <1>2, Induction
<1> QED
  BY <1>3

-----------------------------------------------------------------------------
\* LowFirst satisfies its equation.
LEMMA LowFirstDef ==
  /\ LowFirst[<< >>] = 0
  /\ \A s \in Seq(Byte) : LowFirst[s] \in Nat
  /\ \A s \in Seq(Byte) : s # << >> => LowFirst[s] = (Head(s) % Group) + Group * LowFirst[Tail(s)]
<1> DEFINE D == Seq(Byte)
           nxt == [s \in D |-> IF s = << >> THEN s ELSE Tail(s)]
           step == [p \in D \X Nat |-> IF p[1] = << >> THEN 0 ELSE (Head(p[1]) % Group) + Group * p[2]]
           base == [s \in D |-> 0]
           mu == [s \in D |-> Len(s)]
<1>0. \A s \in D : Len(s) \in Nat /\ (s # << >> => Tail(s) \in D /\ Len(Tail(s)) < Len(s) /\ Head(s) \in Byte)
  BY HeadTailProperties, LenProperties
<1>a. \A b \in Byte : b % Group \in Nat
  BY GroupFacts DEF Byte
<1>b. \A m \in Nat : Group * m \in Nat
  BY GroupFacts
<1>1. nxt \in [D -> D] /\ base \in [D -> Nat] /\ mu \in [D -> Nat]
  BY <1>0
<1>2. step \in [D \X Nat -> Nat]
  <2>1. ASSUME NEW s \in D, NEW m \in Nat
        PROVE  (IF s = << >> THEN 0 ELSE (Head(s) % Group) + Group * m) \in Nat
    <3>1. s # << >> => Head(s) % Group \in Nat /\ Group * m \in Nat
      BY <1>0, <1>a, <1>b
    <3> QED BY <3>1
  <2> HIDE DEF D
  <2> QED BY <2>1
<1>3. \A s \in D : s \notin {<< >>} => mu[nxt[s]] < mu[s]
  BY <1>0
<1>4. PICK h \in [D -> Nat] : Solution(h, D, {<< >>}, nxt, base, step)
  <2> HIDE DEF D, nxt, step, base, mu
  <2> QED BY <1>1, <1>2, <1>3, Recursion
<1>5. \A s \in D : h[s] = IF s = << >> THEN 0 ELSE (Head(s) % Group) + Group * h[Tail(s)]
  <2> SUFFICES ASSUME NEW s \in D
               PROVE  h[s] = IF s = << >> THEN 0 ELSE (Head(s) % Group) + Group * h[Tail(s)]
    OBVIOUS
  <2>1. h[s] = IF s \in {<< >>} THEN base[s] ELSE step[<<s, h[nxt[s]]>>]
    BY <1>4 DEF Solution
  <2>2. s # << >> => nxt[s] = Tail(s) /\ Tail(s) \in D
    BY <1>0
  <2>3. s # << >> => h[Tail(s)] \in Nat
    <3> HIDE DEF D
    <3> QED BY <2>2
  <2>4. s # << >> => step[<<s, h[Tail(s)]>>] = (Head(s) % Group) + Group * h[Tail(s)]
    <3> HIDE DEF D
    <3> QED BY <2>3
  <2> HIDE DEF D, nxt, step
  <2> QED
    BY <2>1, <2>2, <2>4
<1>6. h = [s \in Seq(Byte) |-> IF s = << >> THEN 0 ELSE (Head(s) % Group) + Group * h[Tail(s)]]
  BY <1>5
<1>7. LowFirst = [s \in Seq(Byte) |-> IF s = << >> THEN 0 ELSE (Head(s) % Group) + Group * LowFirst[Tail(s)]]
  BY <1>6 DEF LowFirst
<1>8. \A s \in D : LowFirst[s] = IF s = << >> THEN 0 ELSE (Head(s) % Group) + Group * LowFirst[Tail(s)]
  BY <1>7
<1> DEFINE T == {s \in D : LowFirst[s] \in Nat}
<1>9. \A s \in D : s \in T
  <2>1. ASSUME NEW s \in D, \A t \in D : mu[t] < mu[s] => t \in T PROVE s \in T
    <3>1. s # << >> => Tail(s) \in D /\ mu[Tail(s)] < mu[s]
      BY <1>0
    <3>2. s # << >> => LowFirst[Tail(s)] \in Nat /\ Head(s) % Group \in Nat
      BY <1>0, <1>a, <2>1, <3>1
    <3>3. s # << >> => Group * LowFirst[Tail(s)] \in Nat
      BY <1>b, <3>2
    <3>4. LowFirst[s] \in Nat
      <4> HIDE DEF D
      <4> QED BY <1>8, <3>2, <3>3
    <3> QED BY <3>4
  <2> HIDE DEF T, D, mu
  <2> QED BY <1>1, <2>1, MeasureInduction
<1>10. << >> \in D
  BY EmptySeq
<1> QED
  BY <1>8, <1>9, <1>10

-----------------------------------------------------------------------------
\* Division by the size of a group.
LEMMA GroupDiv ==
  ASSUME NEW v \in Nat
  PROVE  /\ v \div Group \in Nat /\ v % Group \in 0 .. Group - 1
         /\ v = Group * (v \div Group) + (v % Group)
         /\ v >= Group => v \div Group < v
         /\ v \div Group <= v
<1>1. \A g \in Nat : g >= 2 =>
        /\ v \div g \in Nat /\ v % g \in 0 .. g - 1
        /\ v = g * (v \div g) + (v % g)
        /\ v >= g => v \div g < v
        /\ v \div g <= v
  OBVIOUS
<1> QED
  BY <1>1, GroupFacts

\* Buf.varint satisfies its equation, and what it appends is bytes.
LEMMA PutVarintDef ==
  \A v \in UInt :
    /\ PutVarint[v] \in Seq(Byte)
    /\ PutVarint[v] = IF v >= Group THEN <<Group + (v % Group)>> \o PutVarint[v \div Group] ELSE <<v>>
<1> DEFINE D == UInt
           V == Seq(Byte)
           Stop == {v \in D : v < Group}
           nxt == [v \in D |-> v \div Group]
           step == [p \in D \X V |-> <<Group + (p[1] % Group)>> \o p[2]]
           base == [v \in D |-> IF v < Group THEN <<v>> ELSE << >>]
           mu == [v \in D |-> v]
<1>0. \A v \in D : v \in Nat /\ v \div Group \in D /\ (v >= Group => v \div Group < v)
  BY GroupDiv, GroupFacts DEF UInt
<1>a. \A v \in D : Group + (v % Group) \in Byte /\ (v < Group => v \in Byte)
  <2> SUFFICES ASSUME NEW v \in D PROVE Group + (v % Group) \in Byte /\ (v < Group => v \in Byte)
    OBVIOUS
  <2>1. v \in Nat /\ Group \in Nat
    BY <1>0, GroupFacts
  <2> DEFINE w == v % Group
  <2>2. w \in 0 .. Group - 1
    BY <2>1, GroupDiv
  <2> HIDE DEF w
  <2>3. Group + w \in Byte
    BY <2>1, <2>2 DEF Byte
  <2>4. v < Group => v \in Byte
    BY <2>1 DEF Byte
  <2> QED BY <2>3, <2>4 DEF w
<1>1. nxt \in [D -> D] /\ mu \in [D -> Nat]
  BY <1>0
<1>2. base \in [D -> V]
  <2>1. \A v \in D : (IF v < Group THEN <<v>> ELSE << >>) \in V
    BY <1>a
  <2> HIDE DEF D, V
  <2> QED BY <2>1
<1>b. \A v \in D, s \in V : <<Group + (v % Group)>> \o s \in V
  <2> SUFFICES ASSUME NEW v \in D, NEW s \in V PROVE <<Group + (v % Group)>> \o s \in V
    OBVIOUS
  <2>1. <<Group + (v % Group)>> \in Seq(Byte)
    BY <1>a
  <2> QED BY <2>1, ConcatProperties
<1>3. step \in [D \X V -> V]
  <2> HIDE DEF D, V
  <2> QED BY <1>b
<1>4. \A v \in D : v \notin Stop => mu[nxt[v]] < mu[v]
  BY <1>0, GroupFacts
<1>5. PICK h \in [D -> V] : Solution(h, D, Stop, nxt, base, step)
  <2> HIDE DEF D, V, Stop, nxt, step, base, mu
  <2> QED BY <1>1, <1>2, <1>3, <1>4, Recursion
<1>6. \A v \in D : h[v] = IF v >= Group THEN <<Group + (v % Group)>> \o h[v \div Group] ELSE <<v>>
  <2> SUFFICES ASSUME NEW v \in D
               PROVE  h[v] = IF v >= Group THEN <<Group + (v % Group)>> \o h[v \div Group] ELSE <<v>>
    OBVIOUS
  <2>1. h[v] = IF v \in Stop THEN base[v] ELSE step[<<v, h[nxt[v]]>>]
    BY <1>5 DEF Solution
  <2>2. v \in Stop <=> ~(v >= Group)
    BY <1>0, GroupFacts
  <2>3. v < Group <=> ~(v >= Group)
    BY <1>0, GroupFacts
  <2>4. nxt[v] = v \div Group /\ v \div Group \in D
    BY <1>0
  <2>5. h[v \div Group] \in V
    <3> HIDE DEF D, V
    <3> QED BY <2>4
  <2>6. step[<<v, h[v \div Group]>>] = <<Group + (v % Group)>> \o h[v \div Group]
    <3> HIDE DEF D, V
    <3> QED BY <2>5
  <2>7. ~(v >= Group) => base[v] = <<v>>
    BY <2>3
  <2> HIDE DEF D, V, nxt, step, base, Stop
  <2> QED
    BY <2>1, <2>2, <2>4, <2>6, <2>7
<1>7. h = [v \in UInt |-> IF v >= Group THEN <<Group + (v % Group)>> \o h[v \div Group] ELSE <<v>>]
  BY <1>6
<1>8. PutVarint = [v \in UInt |-> IF v >= Group THEN <<Group + (v % Group)>> \o PutVarint[v \div Group] ELSE <<v>>]
  BY <1>7 DEF PutVarint
<1>9. \A v \in D : PutVarint[v] = IF v >= Group THEN <<Group + (v % Group)>> \o PutVarint[v \div Group] ELSE <<v>>
  BY <1>8
<1> DEFINE T == {v \in D : PutVarint[v] \in V}
<1>10. \A v \in D : v \in T
  <2>1. ASSUME NEW v \in D, \A t \in D : mu[t] < mu[v] => t \in T PROVE v \in T
    <3>1. v >= Group => v \div Group \in D /\ mu[v \div Group] < mu[v]
      BY <1>0
    <3>2. v >= Group => PutVarint[v \div Group] \in V
      <4> HIDE DEF D, V, mu
      <4> QED BY <2>1, <3>1
    <3>3. ~(v >= Group) => <<v>> \in V
      BY <1>0, <1>a, GroupFacts
    <3>4. PutVarint[v] \in V
      <4> HIDE DEF D, V
      <4> QED BY <1>9, <1>b, <3>2, <3>3
    <3> QED BY <3>4
  <2> HIDE DEF T, D, mu
  <2> QED BY <1>1, <2>1, MeasureInduction
<1> QED
  BY <1>9, <1>10

\* The groups of a varint suffice for an integer of Width bits.
LEMMA MaxGroupsFacts ==
  MaxGroups \in Nat /\ MaxGroups > 0 /\ Pow2[Width] <= Pow2[GroupBits * MaxGroups]
<1>1. \A w, b \in Nat : w > 0 /\ b > 0 =>
        LET q == (w + b - 1) \div b IN q \in Nat /\ q > 0 /\ b * q \in Nat /\ w <= b * q
  <2> SUFFICES ASSUME NEW w \in Nat, NEW b \in Nat, w > 0, b > 0
               PROVE  LET q == (w + b - 1) \div b IN q \in Nat /\ q > 0 /\ b * q \in Nat /\ w <= b * q
    OBVIOUS
  <2> DEFINE a == w + b - 1   q == a \div b   r == a % b
  <2>1. a \in Nat /\ a >= b
    OBVIOUS
  <2>2. q \in Nat /\ r \in 0 .. b - 1 /\ a = b * q + r /\ b * q \in Nat
    <3> HIDE DEF a
    <3> QED BY <2>1
  <2>3. w <= b * q
    <3> DEFINE c == b * q
    <3>1. c \in Nat /\ w + b - 1 = c + r /\ r <= b - 1 /\ r \in Int
      BY <2>2
    <3> HIDE DEF c, q, r
    <3>2. w <= c
      BY <3>1
    <3> QED BY <3>2 DEF c
  <2>4. q # 0
    <3>1. b * 0 = 0
      OBVIOUS
    <3> HIDE DEF q
    <3> QED BY <2>3, <3>1
  <2> QED
    BY <2>2, <2>3, <2>4
<1>2. MaxGroups \in Nat /\ MaxGroups > 0 /\ GroupBits * MaxGroups \in Nat /\ Width <= GroupBits * MaxGroups
  BY <1>1, WireConstantsOK DEF MaxGroups
<1> QED
  BY <1>2, Pow2Mono, WireConstantsOK

\* What Buf.varint appends: bytes with the continuation bit up to the last, no more
\* of them than m groups for an integer of m groups, with the integer's groups.
VarintOf(p, v) ==
    /\ Len(p) >= 1
    /\ p[Len(p)] < Group
    /\ \A j \in 1 .. Len(p) - 1 : p[j] >= Group
    /\ LowFirst[p] = v
    /\ \A m \in Nat : m > 0 /\ v < Pow2[GroupBits * m] => Len(p) <= m

\* What Buf.varint writes is the varint of its value.
LEMMA PutVarintShape == \A v \in UInt : VarintOf(PutVarint[v], v)
<1> DEFINE mu == [v \in UInt |-> v]
           T == {v \in UInt : VarintOf(PutVarint[v], v)}
<1>0. mu \in [UInt -> Nat]
  BY GroupFacts DEF UInt
<1>1. ASSUME NEW v \in UInt, \A t \in UInt : mu[t] < mu[v] => t \in T PROVE v \in T
  <2>0. v \in Nat
    BY GroupFacts DEF UInt
  <2> DEFINE p == PutVarint[v]
  <2>1. CASE ~(v >= Group)
    <3>1. p = <<v>> /\ Len(p) = 1 /\ p[1] = v /\ p \in Seq(Byte) /\ p # << >>
      <4>1. p = <<v>> /\ p \in Seq(Byte)
        BY <2>1, PutVarintDef
      <4> QED BY <4>1
    <3>2. LowFirst[p] = v
      <4>1. Head(p) = v /\ Tail(p) = << >>
        BY <3>1
      <4>2. LowFirst[p] = (v % Group) + Group * 0
        BY <3>1, <4>1, LowFirstDef
      <4>3. \A g \in Nat : g >= 2 /\ v < g => (v % g) + g * 0 = v
        BY <2>0
      <4> QED
        BY <2>0, <2>1, <4>2, <4>3, GroupFacts
    <3>3. VarintOf(p, v)
      <4> HIDE DEF p
      <4> QED BY <2>0, <2>1, <3>1, <3>2, GroupFacts DEF VarintOf
    <3> QED BY <3>3
  <2>2. CASE v >= Group
    <3> DEFINE w == v \div Group   q == PutVarint[w]   b == Group + (v % Group)
    <3>1. w \in UInt /\ mu[w] < mu[v] /\ w \in Nat /\ v = Group * w + (v % Group)
            /\ v % Group \in 0 .. Group - 1
      <4>1. w \in Nat /\ w < v /\ v = Group * w + (v % Group) /\ v % Group \in 0 .. Group - 1
        BY <2>0, <2>2, GroupDiv
      <4>2. w \in UInt
        <5> HIDE DEF w
        <5> QED BY <2>0, <4>1, GroupFacts DEF UInt
      <4> QED BY <4>1, <4>2
    <3>2. VarintOf(q, w) /\ q \in Seq(Byte) /\ Len(q) \in Nat
      <4>1. w \in T
        BY <1>1, <3>1
      <4>2. q \in Seq(Byte)
        <5> HIDE DEF w
        <5> QED BY <3>1, PutVarintDef
      <4> HIDE DEF w
      <4> QED BY <4>1, <4>2, LenProperties
    <3>3. b \in Nat /\ b \in Byte /\ b >= Group
      BY <3>1, GroupFacts DEF Byte
    <3>b. b % Group = v % Group
      <4>1. \A g \in Nat, r \in Nat : r < g => (g + r) % g = r
        OBVIOUS
      <4> QED BY <3>1, <4>1, GroupFacts
    <3>4. p = <<b>> \o q /\ p \in Seq(Byte)
      BY <2>2, PutVarintDef
    <3> HIDE DEF p, q, w, b
    <3>5. /\ Len(p) = Len(q) + 1 /\ p # << >> /\ Head(p) = b /\ Tail(p) = q
          /\ p[1] = b /\ \A j \in 1 .. Len(q) : p[j + 1] = q[j]
      BY <3>2, <3>3, <3>4
    <3>6. LowFirst[p] = v
      <4>1. LowFirst[p] = (b % Group) + Group * LowFirst[q]
        BY <3>4, <3>5, LowFirstDef
      <4>2. LowFirst[q] = w
        BY <3>2 DEF VarintOf
      <4>3. Group * w \in Nat /\ v % Group \in Nat
        BY <3>1, GroupFacts
      <4> QED
        BY <3>1, <3>b, <4>1, <4>2, <4>3
    <3>7. ASSUME NEW m \in Nat, m > 0, v < Pow2[GroupBits * m] PROVE Len(p) <= m
      <4>1. GroupBits * m = GroupBits + GroupBits * (m - 1) /\ GroupBits * (m - 1) \in Nat /\ GroupBits \in Nat
        BY <3>7, WireConstantsOK
      <4>2. Pow2[GroupBits * m] = Group * Pow2[GroupBits * (m - 1)]
        BY <4>1, Pow2Sum DEF Group
      <4>3. Pow2[GroupBits * (m - 1)] \in Nat
        BY <4>1, Pow2Facts
      <4>4. \A g, x, r, n \in Nat : g >= 2 /\ g * x + r < g * n => x < n
        OBVIOUS
      <4>5. w < Pow2[GroupBits * (m - 1)]
        BY <3>1, <3>7, <4>2, <4>3, <4>4, GroupFacts
      <4>6. m # 1
        <5> SUFFICES ASSUME m = 1 PROVE FALSE
          OBVIOUS
        <5>1. GroupBits * (m - 1) = 0
          BY WireConstantsOK
        <5>2. Pow2[GroupBits * (m - 1)] = 1
          BY <5>1, Pow2Facts
        <5>3. v < Group
          BY <3>7, <4>2, <5>2, GroupFacts
        <5> QED
          BY <2>0, <2>2, <5>3, GroupFacts
      <4>7. Len(q) <= m - 1
        <5>1. m - 1 \in Nat /\ m - 1 > 0
          BY <3>7, <4>6
        <5> QED
          BY <3>2, <4>5, <5>1 DEF VarintOf
      <4> QED
        BY <3>2, <3>5, <4>7
    <3>8. p[Len(p)] < Group
      <4>1. Len(q) \in 1 .. Len(q) /\ q[Len(q)] < Group
        BY <3>2 DEF VarintOf
      <4> QED
        BY <3>5, <4>1
    <3>9. \A j \in 1 .. Len(p) - 1 : p[j] >= Group
      <4> SUFFICES ASSUME NEW j \in 1 .. Len(p) - 1 PROVE p[j] >= Group
        OBVIOUS
      <4>1. CASE j = 1
        BY <3>3, <3>5, <4>1
      <4>2. CASE j # 1
        <5>1. j - 1 \in 1 .. Len(q) - 1 /\ j - 1 \in 1 .. Len(q) /\ (j - 1) + 1 = j
          BY <3>2, <3>5, <4>2
        <5>2. q[j - 1] >= Group
          BY <3>2, <5>1 DEF VarintOf
        <5>3. p[(j - 1) + 1] = q[j - 1]
          BY <3>5, <5>1
        <5> QED
          BY <5>1, <5>2, <5>3
      <4> QED BY <4>1, <4>2
    <3>10. VarintOf(p, v)
      BY <3>2, <3>5, <3>6, <3>7, <3>8, <3>9 DEF VarintOf
    <3> QED BY <3>10 DEF p
  <2> QED BY <2>1, <2>2
<1>2. \A v \in UInt : v \in T
  <2> HIDE DEF T, mu
  <2> QED BY <1>0, <1>1, MeasureInduction
<1> QED
  BY <1>2

\* What is left of a message after n bytes.
LEMMA DropFacts ==
  ASSUME NEW s \in Seq(Byte), NEW n \in 0 .. Len(s)
  PROVE  Drop(s, n) \in Seq(Byte) /\ Len(Drop(s, n)) = Len(s) - n
<1>1. n + 1 \in Int /\ Len(s) \in Int /\ \A i \in n + 1 .. Len(s) : s[i] \in Byte
  OBVIOUS
<1> QED
  BY <1>1, SubSeqProperties DEF Drop

\* A prefix and what is left of it.
LEMMA DropConcat ==
  ASSUME NEW s \in Seq(Byte), NEW t \in Seq(Byte)
  PROVE  /\ SubSeq(s \o t, 1, Len(s)) = s
         /\ Drop(s \o t, Len(s)) = t
<1> DEFINE u == s \o t   n == Len(s)   m == Len(t)
<1>1. /\ u \in Seq(Byte) /\ Len(u) = n + m /\ n \in Nat /\ m \in Nat
      /\ \A i \in 1 .. n + m : u[i] = IF i <= n THEN s[i] ELSE t[i - n]
  BY ConcatProperties, LenProperties
<1> HIDE DEF u
<1>2. SubSeq(u, 1, n) = s
  <2>1. n \in Int /\ \A i \in 1 .. n : u[i] \in Byte
    BY <1>1
  <2>2. /\ SubSeq(u, 1, n) \in Seq(Byte)
        /\ Len(SubSeq(u, 1, n)) = IF 1 <= n THEN n - 1 + 1 ELSE 0
        /\ \A i \in 1 .. n - 1 + 1 : SubSeq(u, 1, n)[i] = u[1 + i - 1]
    BY <2>1, SubSeqProperties
  <2>3. Len(SubSeq(u, 1, n)) = n
    BY <1>1, <2>2
  <2>4. \A i \in 1 .. n : SubSeq(u, 1, n)[i] = s[i]
    BY <1>1, <2>2
  <2> QED
    BY <2>2, <2>3, <2>4, SeqEqual
<1>3. SubSeq(u, n + 1, Len(u)) = t
  <2>1. n + 1 \in Int /\ n + m \in Int /\ \A i \in n + 1 .. n + m : u[i] \in Byte
    BY <1>1
  <2>2. /\ SubSeq(u, n + 1, n + m) \in Seq(Byte)
        /\ Len(SubSeq(u, n + 1, n + m)) = IF n + 1 <= n + m THEN (n + m) - (n + 1) + 1 ELSE 0
        /\ \A i \in 1 .. (n + m) - (n + 1) + 1 : SubSeq(u, n + 1, n + m)[i] = u[(n + 1) + i - 1]
    BY <2>1, SubSeqProperties
  <2>3. Len(SubSeq(u, n + 1, n + m)) = m
    BY <1>1, <2>2
  <2>4. \A i \in 1 .. m : SubSeq(u, n + 1, n + m)[i] = t[i]
    <3> SUFFICES ASSUME NEW i \in 1 .. m PROVE SubSeq(u, n + 1, n + m)[i] = t[i]
      OBVIOUS
    <3>1. /\ i \in 1 .. (n + m) - (n + 1) + 1 /\ (n + 1) + i - 1 = n + i /\ n + i \in 1 .. n + m
          /\ ~(n + i <= n) /\ (n + i) - n = i
      BY <1>1
    <3> HIDE DEF n, m
    <3> QED BY <1>1, <2>2, <3>1
  <2> QED
    BY <1>1, <2>2, <2>3, <2>4, SeqEqual
<1> QED
  BY <1>2, <1>3 DEF u, Drop

\* Reader.varint leaves a shorter message.
LEMMA ReadVarintType ==
  ASSUME NEW s \in Seq(Byte)
  PROVE  /\ ReadVarint(s).ok \in BOOLEAN
         /\ ReadVarint(s).ok => /\ ReadVarint(s).val \in UInt
                                /\ ReadVarint(s).rest \in Seq(Byte)
                                /\ Len(ReadVarint(s).rest) < Len(s)
<1>1. CASE VarintEnds(s) = {}
  BY <1>1 DEF ReadVarint, ErrTruncated
<1>2. CASE VarintEnds(s) # {}
  <2> DEFINE k == CHOOSE k \in VarintEnds(s) : TRUE
             x == LowFirst[SubSeq(s, 1, k)]
  <2>1. k \in 1 .. Len(s) /\ Len(s) \in Nat
    BY <1>2 DEF VarintEnds
  <2>2. ReadVarint(s) = [ok |-> TRUE, val |-> x % Pow2[Width], rest |-> Drop(s, k)]
    BY <1>2 DEF ReadVarint
  <2> HIDE DEF k
  <2>3. SubSeq(s, 1, k) \in Seq(Byte)
    <3>1. k \in Int /\ \A i \in 1 .. k : s[i] \in Byte
      BY <2>1
    <3> QED BY <3>1, SubSeqProperties
  <2>4. x \in Nat
    BY <2>3, LowFirstDef
  <2> HIDE DEF x
  <2>5. x % Pow2[Width] \in UInt
    BY <2>4, GroupFacts DEF UInt
  <2>6. Drop(s, k) \in Seq(Byte) /\ Len(Drop(s, k)) < Len(s)
    BY <2>1, DropFacts
  <2> QED
    BY <2>2, <2>5, <2>6
<1> QED BY <1>1, <1>2

\* Reader.varint reads back what Buf.varint appended.
LEMMA ReadVarintPut ==
  ASSUME NEW v \in UInt, NEW t \in Seq(Byte)
  PROVE  ReadVarint(PutVarint[v] \o t) = [ok |-> TRUE, val |-> v, rest |-> t]
<1> DEFINE p == PutVarint[v]   s == p \o t   n == Len(p)
<1>1. p \in Seq(Byte) /\ VarintOf(p, v) /\ n \in Nat
  BY PutVarintDef, PutVarintShape, LenProperties
<1>2. v \in Nat /\ v < Pow2[Width]
  BY GroupFacts DEF UInt
<1> HIDE DEF p
<1>3. n >= 1 /\ n <= MaxGroups
  <2>1. Pow2[GroupBits * MaxGroups] \in Nat
    <3>1. GroupBits * MaxGroups \in Nat
      BY MaxGroupsFacts, WireConstantsOK
    <3> QED BY <3>1, Pow2Facts
  <2>2. v < Pow2[GroupBits * MaxGroups]
    BY <1>2, <2>1, MaxGroupsFacts, GroupFacts
  <2> QED
    BY <1>1, <2>2, MaxGroupsFacts DEF VarintOf
<1>4. Len(s) = n + Len(t) /\ Len(t) \in Nat /\ \A i \in 1 .. n : s[i] = p[i]
  BY <1>1, ConcatProperties, LenProperties
<1> HIDE DEF s
<1>a. \A j \in 1 .. n : p[j] \in Nat
  BY <1>1, GroupFacts DEF Byte
<1>5. \A j \in 1 .. n - 1 : s[j] \in Nat /\ s[j] >= Group
  <2> SUFFICES ASSUME NEW j \in 1 .. n - 1 PROVE s[j] \in Nat /\ s[j] >= Group
    OBVIOUS
  <2>1. j \in 1 .. n /\ p[j] >= Group
    BY <1>1 DEF VarintOf
  <2> QED BY <1>4, <1>a, <2>1
<1>6. s[n] \in Nat /\ s[n] < Group
  <2>1. p[n] < Group
    BY <1>1 DEF VarintOf
  <2>2. n \in 1 .. n
    BY <1>1, <1>3
  <2> QED BY <1>4, <1>a, <2>1, <2>2
<1>7. VarintEnds(s) = {n}
  <2>1. n \in VarintEnds(s)
    BY <1>1, <1>3, <1>4, <1>5, <1>6 DEF VarintEnds
  <2>2. ASSUME NEW k \in VarintEnds(s) PROVE k = n
    <3>1. k \in 1 .. Len(s) /\ s[k] < Group /\ \A j \in 1 .. k - 1 : s[j] >= Group
      BY DEF VarintEnds
    <3>2. CASE k < n
      <4>1. k \in 1 .. n - 1
        BY <1>1, <3>1, <3>2
      <4> QED BY <1>5, <3>1, <4>1, GroupFacts
    <3>3. CASE k > n
      <4>1. n \in 1 .. k - 1
        BY <1>1, <1>3, <3>1, <3>3
      <4> QED BY <1>6, <3>1, <4>1, GroupFacts
    <3> QED
      BY <1>1, <1>4, <3>1, <3>2, <3>3
  <2> QED BY <2>1, <2>2
<1>8. (CHOOSE k \in VarintEnds(s) : TRUE) = n
  BY <1>7
<1>9. SubSeq(s, 1, n) = p /\ Drop(s, n) = t
  BY <1>1, DropConcat DEF s
<1>10. LowFirst[p] % Pow2[Width] = v
  <2>1. LowFirst[p] = v
    BY <1>1 DEF VarintOf
  <2>2. \A w \in Nat : v < w => v % w = v
    BY <1>2
  <2> QED BY <1>2, <2>1, <2>2, GroupFacts
<1>11. ReadVarint(s) = [ok |-> TRUE, val |-> v, rest |-> t]
  BY <1>7, <1>8, <1>9, <1>10 DEF ReadVarint
<1> QED
  BY <1>11 DEF s, p

-----------------------------------------------------------------------------
\* A field as Reader.Next gives it, and a field that Buf can write and a Reader take.
AnyField == [num : Nat, wire : Nat, val : UInt \union Seq(Byte)]
OutField ==
    {f \in AnyField :
        /\ 8 * f.num + f.wire \in UInt
        /\ \/ f.wire = Varint /\ f.val \in UInt
           \/ f.wire = Bytes /\ f.val \in Text}

\* Bytes are appended in any grouping.
LEMMA BytesAssoc == \A a, b, c \in Seq(Byte) : (a \o b) \o c = a \o (b \o c)
  BY ConcatAssociative, SMTT(30)

\* A tag holds a number and a wire type.
LEMMA TagFacts ==
  ASSUME NEW x \in UInt
  PROVE  x \div 8 \in Nat /\ x % 8 \in Nat
  BY GroupFacts DEF UInt

\* Reader.Next leaves a shorter message.
LEMMA ReadFieldType ==
  ASSUME NEW s \in Seq(Byte)
  PROVE  /\ ReadField(s).ok \in BOOLEAN
         /\ ReadField(s).ok => /\ ReadField(s).field \in Seq(AnyField)
                               /\ ReadField(s).rest \in Seq(Byte)
                               /\ Len(ReadField(s).rest) < Len(s)
<1> DEFINE tag == ReadVarint(s)
           num == tag.val \div 8
           wire == tag.val % 8
           arg == ReadVarint(tag.rest)
           skip == IF wire = Fixed64 THEN Fixed64Len ELSE Fixed32Len
<1>0. Len(s) \in Nat /\ skip \in Nat
  BY WireConstantsOK, LenProperties
<1>1. CASE ~tag.ok
  BY <1>1 DEF ReadField, ErrTruncated
<1>2. CASE tag.ok
  <2>1. tag.val \in UInt /\ tag.rest \in Seq(Byte) /\ Len(tag.rest) < Len(s) /\ Len(tag.rest) \in Nat
    BY <1>2, ReadVarintType, LenProperties
  <2>2. num \in Nat /\ wire \in Nat
    BY <2>1, TagFacts
  <2>3. CASE wire \in {Fixed64, Fixed32}
    <3>1. CASE Len(tag.rest) < skip
      <4>1. ReadField(s) = ErrTruncated
        BY <1>2, <2>3, <3>1 DEF ReadField
      <4> QED BY <4>1 DEF ErrTruncated
    <3>2. CASE ~(Len(tag.rest) < skip)
      <4>1. ReadField(s) = [ok |-> TRUE, field |-> << >>, rest |-> Drop(tag.rest, skip)]
        BY <1>2, <2>3, <3>2 DEF ReadField
      <4>2. skip \in 0 .. Len(tag.rest)
        BY <1>0, <2>1, <3>2
      <4> HIDE DEF tag, skip
      <4>3. Drop(tag.rest, skip) \in Seq(Byte) /\ Len(Drop(tag.rest, skip)) < Len(s)
        BY <1>0, <2>1, <4>2, DropFacts
      <4> QED BY <4>1, <4>3, EmptySeq
    <3> QED BY <3>1, <3>2
  <2>4. CASE wire \notin {Fixed64, Fixed32} /\ (wire \notin {Varint, Bytes} \/ ~arg.ok)
    <3>1. ReadField(s) = ErrTruncated
      BY <1>2, <2>4 DEF ReadField
    <3> QED BY <3>1 DEF ErrTruncated
  <2>5. CASE wire \notin {Fixed64, Fixed32} /\ wire \in {Varint, Bytes} /\ arg.ok
    <3>1. arg.val \in UInt /\ arg.rest \in Seq(Byte) /\ Len(arg.rest) < Len(tag.rest) /\ Len(arg.rest) \in Nat
      BY <2>1, <2>5, ReadVarintType, LenProperties
    <3>v. arg.val \in Nat
      BY <3>1, GroupFacts DEF UInt
    <3>2. CASE wire = Varint
      <4>1. ReadField(s) = [ok |-> TRUE, field |-> <<Field(num, wire, arg.val)>>, rest |-> arg.rest]
        BY <1>2, <2>5, <3>2 DEF ReadField
      <4>2. Field(num, wire, arg.val) \in AnyField
        <5> HIDE DEF num, wire, arg
        <5> QED BY <2>2, <3>1 DEF Field, AnyField
      <4> HIDE DEF num, wire, arg, tag
      <4> QED BY <1>0, <2>1, <3>1, <4>1, <4>2
    <3>3. CASE wire # Varint /\ (arg.val > Len(arg.rest) \/ arg.val > MaxRaw)
      <4>1. ReadField(s) = ErrTruncated
        BY <1>2, <2>5, <3>3 DEF ReadField
      <4> QED BY <4>1 DEF ErrTruncated
    <3>4. CASE wire # Varint /\ ~(arg.val > Len(arg.rest) \/ arg.val > MaxRaw)
      <4> DEFINE x == SubSeq(arg.rest, 1, arg.val)   f == Field(num, wire, x)
      <4>1. ReadField(s) = [ok |-> TRUE, field |-> <<f>>, rest |-> Drop(arg.rest, arg.val)]
        BY <1>2, <2>5, <3>4 DEF ReadField
      <4> HIDE DEF num, wire, arg, tag
      <4>2. arg.val \in 0 .. Len(arg.rest)
        BY <3>1, <3>4, <3>v
      <4>3. x \in Seq(Byte)
        <5>1. arg.val \in Int /\ \A i \in 1 .. arg.val : arg.rest[i] \in Byte
          BY <3>1, <4>2
        <5> QED BY <5>1, SubSeqProperties
      <4>4. f \in AnyField
        <5> HIDE DEF x
        <5> QED BY <2>2, <4>3 DEF Field, AnyField
      <4>5. Drop(arg.rest, arg.val) \in Seq(Byte) /\ Len(Drop(arg.rest, arg.val)) <= Len(arg.rest)
        BY <3>1, <4>2, DropFacts
      <4>6. Len(Drop(arg.rest, arg.val)) < Len(s) /\ <<f>> \in Seq(AnyField)
        <5> HIDE DEF f
        <5> QED BY <1>0, <2>1, <3>1, <4>4, <4>5, LenProperties
      <4> HIDE DEF f
      <4> QED BY <4>1, <4>5, <4>6
    <3> QED BY <3>2, <3>3, <3>4
  <2> QED BY <2>3, <2>4, <2>5
<1> QED BY <1>1, <1>2, ReadVarintType

\* A field is written as bytes.
LEMMA PutFieldType ==
  ASSUME NEW f \in OutField
  PROVE  PutField(f) \in Seq(Byte)
<1>1. PutVarint[8 * f.num + f.wire] \in Seq(Byte)
  BY PutVarintDef DEF OutField
<1>2. CASE f.wire = Varint
  <2>1. PutVarint[f.val] \in Seq(Byte)
    <3>1. f.val \in UInt
      BY <1>2 DEF OutField, Varint, Bytes
    <3> QED BY <3>1, PutVarintDef
  <2> QED BY <1>1, <1>2, <2>1, ConcatProperties DEF PutField
<1>3. CASE f.wire # Varint
  <2>1. f.val \in Seq(Byte) /\ Len(f.val) \in UInt
    <3>1. f.val \in Text
      BY <1>3 DEF OutField
    <3>2. f.val \in Seq(Byte) /\ Len(f.val) <= MaxRaw /\ Len(f.val) \in Nat
      BY <3>1, LenProperties DEF Text, Short
    <3> QED BY <3>2, WireConstantsOK, GroupFacts DEF UInt
  <2>2. PutVarint[Len(f.val)] \o f.val \in Seq(Byte)
    BY <2>1, PutVarintDef, ConcatProperties
  <2> QED BY <1>1, <1>3, <2>2, ConcatProperties DEF PutField
<1> QED BY <1>2, <1>3

\* Reader.Next reads back the field that Buf wrote.
LEMMA ReadFieldPut ==
  ASSUME NEW f \in OutField, NEW t \in Seq(Byte)
  PROVE  ReadField(PutField(f) \o t) = [ok |-> TRUE, field |-> <<f>>, rest |-> t]
<1> DEFINE x == 8 * f.num + f.wire
           s == PutField(f) \o t
           tag == ReadVarint(s)
           num == tag.val \div 8
           wire == tag.val % 8
           arg == ReadVarint(tag.rest)
<1>1. x \in UInt /\ f.num \in Nat /\ f.wire \in {Varint, Bytes} /\ f \in AnyField
  BY DEF OutField, AnyField
<1>2. x \div 8 = f.num /\ x % 8 = f.wire
  BY <1>1 DEF Varint, Bytes
<1>3. f = Field(f.num, f.wire, f.val)
  BY <1>1 DEF AnyField, Field
<1>p. PutVarint[x] \in Seq(Byte)
  BY <1>1, PutVarintDef
<1>4. CASE f.wire = Varint
  <2>1. f.val \in UInt
    BY <1>4 DEF OutField, Varint, Bytes
  <2> DEFINE q == PutVarint[f.val]
  <2>2. q \in Seq(Byte) /\ q \o t \in Seq(Byte)
    BY <2>1, PutVarintDef, ConcatProperties
  <2>3. s = PutVarint[x] \o (q \o t)
    <3>1. PutField(f) = PutVarint[x] \o q
      BY <1>4 DEF PutField
    <3> HIDE DEF q, x
    <3>2. (PutVarint[x] \o q) \o t = PutVarint[x] \o (q \o t)
      <4> DEFINE a == PutVarint[x]
      <4> HIDE DEF a
      <4> QED BY <1>p, <2>2, BytesAssoc DEF a
    <3> QED BY <3>1, <3>2
  <2>4. tag = [ok |-> TRUE, val |-> x, rest |-> q \o t]
    <3> HIDE DEF s, q, x
    <3> QED BY <1>1, <2>2, <2>3, ReadVarintPut
  <2>5. arg = [ok |-> TRUE, val |-> f.val, rest |-> t]
    <3> HIDE DEF tag
    <3>1. tag.rest = q \o t
      BY <2>4
    <3> QED BY <2>1, <3>1, ReadVarintPut
  <2>6. tag.ok /\ num = f.num /\ wire = f.wire /\ arg.ok /\ arg.val = f.val /\ arg.rest = t
    <3>1. tag.ok /\ tag.val = x /\ arg.ok /\ arg.val = f.val /\ arg.rest = t
      BY <2>4, <2>5
    <3> HIDE DEF tag, arg, x
    <3> QED BY <1>2, <3>1
  <2>7. ReadField(s) = [ok |-> TRUE, field |-> <<Field(num, wire, arg.val)>>, rest |-> arg.rest]
    <3>1. wire \notin {Fixed64, Fixed32} /\ wire \in {Varint, Bytes} /\ wire = Varint
      BY <1>4, <2>6 DEF Varint, Bytes, Fixed64, Fixed32
    <3> HIDE DEF s
    <3> QED BY <2>6, <3>1 DEF ReadField
  <2> HIDE DEF num, wire, arg, s
  <2>8. ReadField(s) = [ok |-> TRUE, field |-> <<f>>, rest |-> t]
    BY <1>3, <2>6, <2>7
  <2> QED BY <2>8 DEF s
<1>5. CASE f.wire = Bytes
  <2> DEFINE y == f.val   n == Len(y)   q == PutVarint[n]
  <2>1. y \in Seq(Byte) /\ n \in Nat /\ n <= MaxRaw
    <3>1. y \in Text
      BY <1>5 DEF OutField, Varint, Bytes
    <3> QED BY <3>1, LenProperties DEF Text, Short
  <2>n. n \in UInt
    BY <2>1, WireConstantsOK, GroupFacts DEF UInt
  <2> HIDE DEF y, n
  <2>2. q \in Seq(Byte) /\ y \o t \in Seq(Byte) /\ q \o (y \o t) \in Seq(Byte) /\ q \o y \in Seq(Byte)
    BY <2>1, <2>n, PutVarintDef, ConcatProperties
  <2>3. s = PutVarint[x] \o (q \o (y \o t))
    <3>1. PutField(f) = PutVarint[x] \o (q \o y)
      BY <1>5 DEF PutField, Varint, Bytes, y, n
    <3>2. (q \o y) \o t = q \o (y \o t)
      <4> HIDE DEF q
      <4> QED BY <2>1, <2>2, BytesAssoc
    <3> HIDE DEF q, x
    <3>3. (PutVarint[x] \o (q \o y)) \o t = PutVarint[x] \o ((q \o y) \o t)
      BY <1>p, <2>2, BytesAssoc
    <3> QED BY <3>1, <3>2, <3>3
  <2>4. tag = [ok |-> TRUE, val |-> x, rest |-> q \o (y \o t)]
    <3> HIDE DEF s, q, x
    <3> QED BY <1>1, <2>2, <2>3, ReadVarintPut
  <2>5. arg = [ok |-> TRUE, val |-> n, rest |-> y \o t]
    <3> HIDE DEF tag
    <3>1. tag.rest = q \o (y \o t)
      BY <2>4
    <3> QED BY <2>2, <2>n, <3>1, ReadVarintPut
  <2>6. tag.ok /\ num = f.num /\ wire = f.wire /\ arg.ok /\ arg.val = n /\ arg.rest = y \o t
    <3>1. tag.ok /\ tag.val = x /\ arg.ok /\ arg.val = n /\ arg.rest = y \o t
      BY <2>4, <2>5
    <3> HIDE DEF tag, arg, x
    <3> QED BY <1>2, <3>1
  <2>7. ~(arg.val > Len(arg.rest) \/ arg.val > MaxRaw)
    <3>1. Len(y \o t) = n + Len(t) /\ Len(t) \in Nat
      BY <2>1, ConcatProperties, LenProperties DEF n
    <3>2. MaxRaw \in Nat
      BY WireConstantsOK, GroupFacts DEF UInt
    <3> HIDE DEF arg
    <3> QED BY <2>1, <2>6, <3>1, <3>2
  <2>8. SubSeq(arg.rest, 1, arg.val) = y /\ Drop(arg.rest, arg.val) = t
    <3> HIDE DEF arg
    <3> QED BY <2>1, <2>6, DropConcat DEF n
  <2>9. ReadField(s) = [ok |-> TRUE, field |-> <<Field(num, wire, SubSeq(arg.rest, 1, arg.val))>>,
                        rest |-> Drop(arg.rest, arg.val)]
    <3>1. wire \notin {Fixed64, Fixed32} /\ wire \in {Varint, Bytes} /\ wire # Varint
      BY <1>5, <2>6 DEF Varint, Bytes, Fixed64, Fixed32
    <3> HIDE DEF s
    <3> QED BY <2>6, <2>7, <3>1 DEF ReadField
  <2> HIDE DEF num, wire, arg, s
  <2>10. ReadField(s) = [ok |-> TRUE, field |-> <<f>>, rest |-> t]
    BY <1>3, <2>6, <2>8, <2>9 DEF y
  <2> QED BY <2>10 DEF s
<1> QED BY <1>1, <1>4, <1>5

-----------------------------------------------------------------------------
\* What reading a message gives.
Parsed == [ok : BOOLEAN, fields : Seq(AnyField)]

\* Reading all fields satisfies its equation.
LEMMA FieldsDef ==
  \A s \in Seq(Byte) :
    /\ Fields[s] \in Parsed
    /\ s = << >> => Fields[s] = [ok |-> TRUE, fields |-> << >>]
    /\ s # << >> /\ ReadField(s).ok =>
        Fields[s] = [ok |-> Fields[ReadField(s).rest].ok,
                     fields |-> ReadField(s).field \o Fields[ReadField(s).rest].fields]
<1> DEFINE D == Seq(Byte)
           V == Parsed
           Body(s, more) == [ok |-> more.ok, fields |-> ReadField(s).field \o more.fields]
           End == [ok |-> TRUE, fields |-> << >>]
           Err == [ok |-> FALSE, fields |-> << >>]
           Stop == {s \in D : s = << >> \/ ~ReadField(s).ok}
           nxt == [s \in D |-> IF s \in Stop THEN s ELSE ReadField(s).rest]
           step == [p \in D \X V |-> IF p[1] \in Stop THEN Err ELSE Body(p[1], p[2])]
           base == [s \in D |-> IF s = << >> THEN End ELSE Err]
           mu == [s \in D |-> Len(s)]
<1>0. \A s \in D : s \notin Stop => /\ ReadField(s).ok /\ s # << >>
                                    /\ ReadField(s).field \in Seq(AnyField)
                                    /\ ReadField(s).rest \in D
                                    /\ Len(ReadField(s).rest) < Len(s)
  BY ReadFieldType
<1>a. End \in V /\ Err \in V
  BY EmptySeq DEF Parsed
<1>b. \A s \in D, m \in V : s \notin Stop => Body(s, m) \in V
  <2> SUFFICES ASSUME NEW s \in D, NEW m \in V, s \notin Stop PROVE Body(s, m) \in V
    OBVIOUS
  <2>1. ReadField(s).field \in Seq(AnyField) /\ m.fields \in Seq(AnyField) /\ m.ok \in BOOLEAN
    BY <1>0 DEF Parsed
  <2>2. ReadField(s).field \o m.fields \in Seq(AnyField)
    BY <2>1, ConcatProperties
  <2> QED BY <2>1, <2>2 DEF Parsed
<1>1. nxt \in [D -> D] /\ base \in [D -> V] /\ step \in [D \X V -> V]
  <2> HIDE DEF D, V, Stop, Body, End, Err
  <2>1. \A s \in D : (IF s \in Stop THEN s ELSE ReadField(s).rest) \in D
    BY <1>0
  <2>2. \A s \in D : (IF s = << >> THEN End ELSE Err) \in V
    BY <1>a
  <2>3. \A s \in D, m \in V : (IF s \in Stop THEN Err ELSE Body(s, m)) \in V
    BY <1>a, <1>b
  <2>4. step \in [D \X V -> V]
    BY <2>3
  <2> QED BY <2>1, <2>2, <2>4
<1>m. mu \in [D -> Nat]
  BY LenProperties
<1>2. \A s \in D : s \notin Stop => mu[nxt[s]] < mu[s]
  <2> HIDE DEF Stop
  <2> QED BY <1>0
<1>3. PICK h \in [D -> V] : Solution(h, D, Stop, nxt, base, step)
  <2> HIDE DEF D, V, Stop, nxt, step, base, mu
  <2> QED BY <1>1, <1>2, <1>m, Recursion
<1> DEFINE Eq(f, s) == IF s = << >> THEN End
                       ELSE IF ~ReadField(s).ok THEN Err ELSE Body(s, f[ReadField(s).rest])
<1>4. \A s \in D : h[s] = Eq(h, s)
  <2> SUFFICES ASSUME NEW s \in D PROVE h[s] = Eq(h, s)
    OBVIOUS
  <2>1. h[s] = IF s \in Stop THEN base[s] ELSE step[<<s, h[nxt[s]]>>]
    BY <1>3 DEF Solution
  <2>2. CASE s \in Stop
    <3>1. base[s] = IF s = << >> THEN End ELSE Err
      OBVIOUS
    <3>2. s = << >> \/ ~ReadField(s).ok
      BY <2>2
    <3> HIDE DEF base, Stop, End, Err, D
    <3> QED BY <2>1, <2>2, <3>1, <3>2
  <2>3. CASE s \notin Stop
    <3>1. nxt[s] = ReadField(s).rest /\ ReadField(s).rest \in D /\ ReadField(s).ok /\ s # << >>
      <4> HIDE DEF Stop, D
      <4> QED BY <1>0, <2>3
    <3> DEFINE m == h[ReadField(s).rest]
    <3>2. m \in V
      <4> HIDE DEF D, V
      <4> QED BY <3>1
    <3>3. step[<<s, m>>] = Body(s, m)
      <4> HIDE DEF Stop, D, V, Body, m, Err
      <4> QED BY <2>3, <3>2
    <3> HIDE DEF step, nxt, Stop, End, Err, D, Body
    <3> QED BY <2>1, <2>3, <3>1, <3>3
  <2> QED BY <2>2, <2>3
<1> DEFINE Def(f) == [s \in Seq(Byte) |->
             IF s = << >> THEN [ok |-> TRUE, fields |-> << >>]
             ELSE LET one == ReadField(s) IN
                  IF ~one.ok THEN [ok |-> FALSE, fields |-> << >>]
                  ELSE LET more == f[one.rest]
                       IN  [ok |-> more.ok, fields |-> one.field \o more.fields]]
<1>5. h = Def(h)
  BY <1>4
<1>6. Fields = Def(Fields)
  BY <1>5 DEF Fields
<1>7. \A s \in D : Fields[s] = Eq(Fields, s)
  BY <1>6
<1> HIDE DEF Def
<1> DEFINE T == {s \in D : Fields[s] \in V}
<1>8. \A s \in D : s \in T
  <2>1. ASSUME NEW s \in D, \A t \in D : mu[t] < mu[s] => t \in T PROVE s \in T
    <3>1. CASE s \in Stop
      <4>1. s = << >> \/ ~ReadField(s).ok
        BY <3>1
      <4>2. Fields[s] \in V
        <5> HIDE DEF D, V, End, Err, Body, Stop
        <5> QED BY <1>7, <1>a, <4>1
      <4> QED BY <4>2
    <3>2. CASE s \notin Stop
      <4>1. ReadField(s).rest \in D /\ ReadField(s).ok /\ s # << >> /\ mu[ReadField(s).rest] < mu[s]
        <5> HIDE DEF Stop
        <5> QED BY <1>0, <3>2
      <4>2. Fields[ReadField(s).rest] \in V
        <5> HIDE DEF mu, D, V
        <5> QED BY <2>1, <4>1
      <4>3. Fields[s] \in V
        <5> HIDE DEF D, V, End, Err, Body, Stop
        <5> QED BY <1>7, <1>b, <3>2, <4>1, <4>2
      <4> QED BY <4>3
    <3> QED BY <3>1, <3>2
  <2> HIDE DEF T, D, mu
  <2> QED BY <1>m, <2>1, MeasureInduction
<1> QED
  BY <1>7, <1>8

\* The bytes of a message are those of its fields, one after the other.
LEMMA PutFacts ==
  /\ Put(<< >>) = << >>
  /\ \A fs \in Seq(OutField) : Put(fs) \in Seq(Byte)
  /\ \A fs \in Seq(OutField), f \in OutField : Put(Append(fs, f)) = Put(fs) \o PutField(f)
<1> DEFINE M(fs) == [i \in 1 .. Len(fs) |-> PutField(fs[i])]
<1>1. M(<< >>) = << >>
  OBVIOUS
<1>2. Put(<< >>) = << >>
  <2>1. Put(<< >>) = FlattenSeq(M(<< >>))
    BY DEF Put
  <2> QED BY <1>1, <2>1, FlatEmpty
<1>3. \A fs \in Seq(OutField) : M(fs) \in Seq(Seq(Byte)) /\ Len(M(fs)) = Len(fs)
  <2> SUFFICES ASSUME NEW fs \in Seq(OutField) PROVE M(fs) \in Seq(Seq(Byte)) /\ Len(M(fs)) = Len(fs)
    OBVIOUS
  <2>1. Len(fs) \in Nat /\ \A i \in 1 .. Len(fs) : PutField(fs[i]) \in Seq(Byte)
    BY PutFieldType, ElementOfSeq, LenProperties
  <2> DEFINE S == Seq(Byte)
  <2> HIDE DEF S
  <2>2. \A i \in 1 .. Len(fs) : PutField(fs[i]) \in S
    BY <2>1 DEF S
  <2>3. M(fs) \in Seq(S) /\ Len(M(fs)) = Len(fs)
    BY <2>1, <2>2
  <2> QED BY <2>3 DEF S
<1>4. \A fs \in Seq(OutField), f \in OutField : M(Append(fs, f)) = Append(M(fs), PutField(f))
  <2> SUFFICES ASSUME NEW fs \in Seq(OutField), NEW f \in OutField
               PROVE  M(Append(fs, f)) = Append(M(fs), PutField(f))
    OBVIOUS
  <2> DEFINE S == Seq(Byte)
  <2>1. /\ Append(fs, f) \in Seq(OutField) /\ Len(Append(fs, f)) = Len(fs) + 1 /\ Len(fs) \in Nat
        /\ (\A i \in 1 .. Len(fs) : Append(fs, f)[i] = fs[i]) /\ Append(fs, f)[Len(fs) + 1] = f
    BY AppendProperties, LenProperties
  <2>2. PutField(f) \in S /\ M(fs) \in Seq(S) /\ Len(M(fs)) = Len(fs)
    BY <1>3, PutFieldType
  <2>3. M(Append(fs, f)) \in Seq(S) /\ Len(M(Append(fs, f))) = Len(fs) + 1
    <3> HIDE DEF M
    <3> QED BY <1>3, <2>1
  <2>4. /\ Append(M(fs), PutField(f)) \in Seq(S)
        /\ Len(Append(M(fs), PutField(f))) = Len(fs) + 1
        /\ \A i \in 1 .. Len(fs) : Append(M(fs), PutField(f))[i] = M(fs)[i]
        /\ Append(M(fs), PutField(f))[Len(fs) + 1] = PutField(f)
    <3> HIDE DEF M, S
    <3> QED BY <2>2, AppendProperties
  <2>5. \A i \in 1 .. Len(fs) + 1 : M(Append(fs, f))[i] = Append(M(fs), PutField(f))[i]
    <3> SUFFICES ASSUME NEW i \in 1 .. Len(fs) + 1
                 PROVE  M(Append(fs, f))[i] = Append(M(fs), PutField(f))[i]
      OBVIOUS
    <3>1. M(Append(fs, f))[i] = PutField(Append(fs, f)[i])
      BY <2>1
    <3>2. CASE i = Len(fs) + 1
      BY <2>1, <2>4, <3>1, <3>2
    <3>3. CASE i \in 1 .. Len(fs)
      <4>1. M(fs)[i] = PutField(fs[i])
        BY <3>3
      <4> HIDE DEF M
      <4> QED BY <2>1, <2>4, <3>1, <3>3, <4>1
    <3> QED BY <2>1, <3>2, <3>3
  <2> HIDE DEF M, S
  <2> QED BY <2>3, <2>4, <2>5, SeqEqual
<1>p. \A fs \in Seq(OutField) : Put(fs) = FlattenSeq(M(fs))
  BY DEF Put
<1> HIDE DEF M
<1>5. \A fs \in Seq(OutField) : Put(fs) \in Seq(Byte)
  <2> SUFFICES ASSUME NEW fs \in Seq(OutField) PROVE Put(fs) \in Seq(Byte)
    OBVIOUS
  <2>1. << >> \in Seq(Byte) /\ M(fs) \in Seq(Seq(Byte))
    BY <1>3, EmptySeq
  <2>2. FlattenSeq(M(fs)) \in Seq(Byte)
    BY <2>1, FlatSnoc
  <2> QED BY <1>p, <2>2
<1>6. \A fs \in Seq(OutField), f \in OutField : Put(Append(fs, f)) = Put(fs) \o PutField(f)
  <2> SUFFICES ASSUME NEW fs \in Seq(OutField), NEW f \in OutField
               PROVE  Put(Append(fs, f)) = Put(fs) \o PutField(f)
    OBVIOUS
  <2>1. PutField(f) \in Seq(Byte) /\ M(fs) \in Seq(Seq(Byte)) /\ Append(fs, f) \in Seq(OutField)
    BY <1>3, PutFieldType, AppendProperties
  <2>2. FlattenSeq(Append(M(fs), PutField(f))) = FlattenSeq(M(fs)) \o PutField(f)
    BY <2>1, FlatSnoc
  <2> QED BY <1>4, <1>p, <2>1, <2>2
<1> QED BY <1>2, <1>5, <1>6

\* The fields that a Reader finds in a message are those that were written, then
\* those of whatever follows.
LEMMA FieldsPut ==
  ASSUME NEW fs \in Seq(OutField), NEW t \in Seq(Byte), Fields[t].ok
  PROVE  Fields[Put(fs) \o t] = [ok |-> TRUE, fields |-> fs \o Fields[t].fields]
<1> DEFINE Rest == {u \in Seq(Byte) : Fields[u].ok}
           T == {gs \in Seq(OutField) : \A u \in Rest :
                    Fields[Put(gs) \o u] = [ok |-> TRUE, fields |-> gs \o Fields[u].fields]}
<1>0. \A u \in Seq(Byte) : Fields[u] \in [ok : BOOLEAN, fields : Seq(AnyField)]
  BY FieldsDef DEF Parsed
<1>s. \A gs \in Seq(OutField) : gs \in Seq(AnyField)
  BY SeqMonotonic DEF OutField
<1>1. << >> \in T
  <2> SUFFICES ASSUME NEW u \in Rest
               PROVE  Fields[Put(<< >>) \o u] = [ok |-> TRUE, fields |-> << >> \o Fields[u].fields]
    BY EmptySeq
  <2>1. Put(<< >>) \o u = u
    BY PutFacts, ConcatEmptySeq
  <2>2. Fields[u] \in [ok : BOOLEAN, fields : Seq(AnyField)] /\ Fields[u].ok
    BY <1>0
  <2>3. << >> \o Fields[u].fields = Fields[u].fields
    BY <2>2, ConcatEmptySeq
  <2>4. Fields[u] = [ok |-> TRUE, fields |-> Fields[u].fields]
    BY <2>2
  <2> QED BY <2>1, <2>3, <2>4
<1>2. ASSUME NEW gs \in Seq(OutField), NEW f \in OutField, gs \in T PROVE Append(gs, f) \in T
  <2> SUFFICES ASSUME NEW u \in Rest
               PROVE  Fields[Put(Append(gs, f)) \o u]
                        = [ok |-> TRUE, fields |-> Append(gs, f) \o Fields[u].fields]
    BY AppendProperties
  <2> DEFINE w == PutField(f) \o u
  <2>1. PutField(f) \in Seq(Byte) /\ w \in Seq(Byte) /\ Put(gs) \in Seq(Byte)
    BY PutFieldType, PutFacts, ConcatProperties
  <2>2. ReadField(w) = [ok |-> TRUE, field |-> <<f>>, rest |-> u]
    BY ReadFieldPut
  <2>3. w # << >>
    <3>1. Len(PutField(f)) # 0
      <4>1. ReadField(PutField(f) \o << >>) = [ok |-> TRUE, field |-> <<f>>, rest |-> << >>]
        BY ReadFieldPut, EmptySeq
      <4>2. PutField(f) \o << >> = PutField(f)
        BY <2>1, ConcatEmptySeq
      <4>3. Len(ReadField(PutField(f)).rest) < Len(PutField(f))
        BY <2>1, <4>1, <4>2, ReadFieldType
      <4>4. ReadField(PutField(f)).rest = << >>
        BY <4>1, <4>2
      <4> QED BY <4>3, <4>4
    <3>2. Len(w) = Len(PutField(f)) + Len(u) /\ Len(u) \in Nat /\ Len(PutField(f)) \in Nat
      BY <2>1, ConcatProperties, LenProperties
    <3> QED BY <3>1, <3>2
  <2> HIDE DEF w
  <2>4. Fields[u] \in [ok : BOOLEAN, fields : Seq(AnyField)] /\ Fields[u].ok
    BY <1>0
  <2>r. ReadField(w).ok /\ ReadField(w).rest = u /\ ReadField(w).field = <<f>>
    BY <2>2
  <2>5. Fields[w] = [ok |-> Fields[u].ok, fields |-> <<f>> \o Fields[u].fields]
    BY <2>1, <2>3, <2>r, FieldsDef
  <2>6. Fields[w].ok /\ Fields[w].fields = <<f>> \o Fields[u].fields
    BY <2>4, <2>5
  <2>7. Fields[Put(gs) \o w] = [ok |-> TRUE, fields |-> gs \o Fields[w].fields]
    BY <1>2, <2>1, <2>6
  <2>8. Put(Append(gs, f)) \o u = Put(gs) \o w
    <3>1. Put(Append(gs, f)) = Put(gs) \o PutField(f)
      BY PutFacts
    <3> DEFINE a == Put(gs)   b == PutField(f)
    <3>2. a \in Seq(Byte) /\ b \in Seq(Byte) /\ u \in Seq(Byte)
      BY <2>1
    <3>3. Put(Append(gs, f)) = a \o b /\ w = b \o u
      BY <3>1 DEF w
    <3> HIDE DEF a, b
    <3>4. (a \o b) \o u = a \o (b \o u)
      BY <3>2, BytesAssoc
    <3>5. Put(Append(gs, f)) \o u = a \o w
      BY <3>3, <3>4
    <3> QED BY <3>5 DEF a
  <2>9. gs \o (<<f>> \o Fields[u].fields) = Append(gs, f) \o Fields[u].fields
    <3>1. gs \in Seq(AnyField) /\ f \in AnyField /\ <<f>> \in Seq(AnyField) /\ Fields[u].fields \in Seq(AnyField)
      BY <1>s, <2>4 DEF OutField
    <3>2. Append(gs, f) = gs \o <<f>>
      BY <3>1, AppendIsConcat
    <3> DEFINE one == <<f>>   xs == Fields[u].fields
    <3>a. one \in Seq(AnyField) /\ xs \in Seq(AnyField)
      BY <3>1
    <3> HIDE DEF one, xs
    <3>3. (gs \o one) \o xs = gs \o (one \o xs)
      <4>1. \A a, b, c \in Seq(AnyField) : (a \o b) \o c = a \o (b \o c)
        BY ConcatAssociative, SMTT(30)
      <4> QED BY <3>1, <3>a, <4>1
    <3> QED BY <3>2, <3>3 DEF one, xs
  <2> QED BY <2>6, <2>7, <2>8, <2>9
<1>3. \A gs \in Seq(OutField) : gs \in T
  <2> HIDE DEF T
  <2> QED BY <1>1, <1>2, SnocInduction
<1> QED BY <1>3

-----------------------------------------------------------------------------
\* The values of fields.
Vals == UInt \union Seq(Byte)

\* The values of the fields of one kind in two parts of a message.
LEMMA AllConcat ==
  ASSUME NEW num, NEW wire, NEW fs \in Seq(AnyField), NEW gs \in Seq(AnyField)
  PROVE  /\ All(fs, num, wire) \in Seq(Vals) /\ All(gs, num, wire) \in Seq(Vals)
         /\ All(fs \o gs, num, wire) = All(fs, num, wire) \o All(gs, num, wire)
<1> DEFINE One(f) == IF f.num = num /\ f.wire = wire THEN <<f.val>> ELSE << >>
           M(hs) == [i \in 1 .. Len(hs) |-> One(hs[i])]
           S == Seq(Vals)
<1>1. \A f \in AnyField : One(f) \in S
  <2> SUFFICES ASSUME NEW f \in AnyField PROVE One(f) \in S
    OBVIOUS
  <2>1. f.val \in Vals
    BY DEF AnyField, Vals
  <2> QED BY <2>1
<1>2. \A hs : All(hs, num, wire) = FlattenSeq(M(hs))
  BY DEF All
<1>3. \A hs \in Seq(AnyField) : M(hs) \in Seq(S) /\ Len(M(hs)) = Len(hs)
  <2> HIDE DEF One, S
  <2> QED BY <1>1
<1>4. M(fs \o gs) = M(fs) \o M(gs)
  <2> DEFINE n == Len(fs)   m == Len(gs)
  <2> HIDE DEF One, S
  <2>1. /\ fs \o gs \in Seq(AnyField) /\ Len(fs \o gs) = n + m /\ n \in Nat /\ m \in Nat
        /\ \A i \in 1 .. n + m : (fs \o gs)[i] = IF i <= n THEN fs[i] ELSE gs[i - n]
    BY ConcatProperties, LenProperties
  <2>2. /\ M(fs) \in Seq(S) /\ M(gs) \in Seq(S) /\ Len(M(fs)) = n /\ Len(M(gs)) = m
        /\ M(fs \o gs) \in Seq(S) /\ Len(M(fs \o gs)) = n + m
    <3> HIDE DEF M
    <3> QED BY <1>3, <2>1
  <2>3. /\ M(fs) \o M(gs) \in Seq(S) /\ Len(M(fs) \o M(gs)) = n + m
        /\ \A i \in 1 .. n + m : (M(fs) \o M(gs))[i] = IF i <= n THEN M(fs)[i] ELSE M(gs)[i - n]
    <3> HIDE DEF M, n, m
    <3> QED BY <2>2, ConcatProperties
  <2>4. \A i \in 1 .. n + m : M(fs \o gs)[i] = (M(fs) \o M(gs))[i]
    <3> SUFFICES ASSUME NEW i \in 1 .. n + m PROVE M(fs \o gs)[i] = (M(fs) \o M(gs))[i]
      OBVIOUS
    <3>1. M(fs \o gs)[i] = One((fs \o gs)[i])
      BY <2>1
    <3>2. CASE i <= n
      <4>1. M(fs)[i] = One(fs[i])
        BY <2>1, <3>2
      <4> HIDE DEF M
      <4> QED BY <2>1, <2>3, <3>1, <3>2, <4>1
    <3>3. CASE ~(i <= n)
      <4>1. M(gs)[i - n] = One(gs[i - n])
        BY <2>1, <3>3
      <4> HIDE DEF M
      <4> QED BY <2>1, <2>3, <3>1, <3>3, <4>1
    <3> QED BY <3>2, <3>3
  <2> DEFINE a == M(fs \o gs)   b == M(fs) \o M(gs)
  <2>5. /\ a \in Seq(S) /\ b \in Seq(S) /\ Len(a) = Len(b)
        /\ \A i \in 1 .. Len(a) : a[i] = b[i]
    <3> HIDE DEF M, n, m
    <3> QED BY <2>2, <2>3, <2>4
  <2> HIDE DEF a, b
  <2>6. a = b
    BY <2>5, SeqEqual
  <2> QED BY <2>6 DEF a, b
<1> HIDE DEF M
<1>5. \A hs \in Seq(AnyField) : All(hs, num, wire) \in Seq(Vals)
  <2> SUFFICES ASSUME NEW hs \in Seq(AnyField) PROVE All(hs, num, wire) \in Seq(Vals)
    OBVIOUS
  <2>1. M(hs) \in Seq(Seq(Vals)) /\ << >> \in Seq(Vals)
    BY <1>3, EmptySeq
  <2>2. FlattenSeq(M(hs)) \in Seq(Vals)
    BY <2>1, FlatSnoc
  <2> QED BY <1>2, <2>2
<1>6. All(fs \o gs, num, wire) = All(fs, num, wire) \o All(gs, num, wire)
  <2>1. M(fs) \in Seq(Seq(Vals)) /\ M(gs) \in Seq(Seq(Vals))
    BY <1>3
  <2>2. FlattenSeq(M(fs) \o M(gs)) = FlattenSeq(M(fs)) \o FlattenSeq(M(gs))
    BY <2>1, FlatConcat
  <2>3. All(fs \o gs, num, wire) = FlattenSeq(M(fs) \o M(gs))
    BY <1>2, <1>4
  <2>4. All(fs, num, wire) = FlattenSeq(M(fs)) /\ All(gs, num, wire) = FlattenSeq(M(gs))
    BY <1>2
  <2> QED BY <2>2, <2>3, <2>4
<1> QED BY <1>5, <1>6

\* The values of a kind in no field and in one.
LEMMA AllOne ==
  ASSUME NEW num, NEW wire, NEW f \in AnyField
  PROVE  /\ All(<< >>, num, wire) = << >>
         /\ All(<<f>>, num, wire) = IF f.num = num /\ f.wire = wire THEN <<f.val>> ELSE << >>
<1> DEFINE One(g) == IF g.num = num /\ g.wire = wire THEN <<g.val>> ELSE << >>
           M(hs) == [i \in 1 .. Len(hs) |-> One(hs[i])]
           S == Seq(Vals)
<1>1. \A g \in AnyField : One(g) \in S
  <2> SUFFICES ASSUME NEW g \in AnyField PROVE One(g) \in S
    OBVIOUS
  <2>1. g.val \in Vals
    BY DEF AnyField, Vals
  <2> QED BY <2>1
<1>2. \A hs : All(hs, num, wire) = FlattenSeq(M(hs))
  BY DEF All
<1>3. M(<< >>) = << >>
  OBVIOUS
<1>4. M(<<f>>) = <<One(f)>>
  OBVIOUS
<1> HIDE DEF M
<1>5. All(<< >>, num, wire) = << >>
  BY <1>2, <1>3, FlatEmpty
<1>6. All(<<f>>, num, wire) = One(f)
  <2> HIDE DEF One
  <2>1. FlattenSeq(<<One(f)>>) = One(f)
    BY <1>1, FlatOne
  <2> QED BY <1>2, <1>4, <2>1
<1> QED BY <1>5, <1>6

\* All fields are of the kind.
LEMMA AllOfKind ==
  ASSUME NEW num, NEW wire, NEW fs \in Seq(AnyField),
         \A i \in 1 .. Len(fs) : fs[i].num = num /\ fs[i].wire = wire
  PROVE  All(fs, num, wire) = [i \in 1 .. Len(fs) |-> fs[i].val]
<1> DEFINE e == [i \in 1 .. Len(fs) |-> fs[i].val]
<1>1. Len(fs) \in Nat /\ \A i \in 1 .. Len(fs) : fs[i].val \in Vals
  <2>1. \A f \in AnyField : f.val \in Vals
    BY DEF AnyField, Vals
  <2> QED BY <2>1, ElementOfSeq, LenProperties
<1>2. e \in Seq(Vals) /\ Len(e) = Len(fs) /\ \A i \in 1 .. Len(fs) : e[i] = fs[i].val
  BY <1>1
<1>3. [i \in 1 .. Len(fs) |-> IF fs[i].num = num /\ fs[i].wire = wire THEN <<fs[i].val>> ELSE << >>]
        = [i \in 1 .. Len(e) |-> <<e[i]>>]
  <2> HIDE DEF e
  <2> QED BY <1>2
<1>4. FlattenSeq([i \in 1 .. Len(e) |-> <<e[i]>>]) = e
  <2> HIDE DEF e
  <2> QED BY <1>2, FlatSingles
<1> HIDE DEF e
<1>5. All(fs, num, wire) = e
  BY <1>3, <1>4 DEF All
<1> QED BY <1>5 DEF e

\* No field is of the kind.
LEMMA AllOfNone ==
  ASSUME NEW num, NEW wire, NEW fs \in Seq(AnyField),
         \A i \in 1 .. Len(fs) : fs[i].num # num \/ fs[i].wire # wire
  PROVE  All(fs, num, wire) = << >>
<1>1. Len(fs) \in Nat
  BY LenProperties
<1>2. [i \in 1 .. Len(fs) |-> IF fs[i].num = num /\ fs[i].wire = wire THEN <<fs[i].val>> ELSE << >>]
        = [i \in 1 .. Len(fs) |-> << >>]
  OBVIOUS
<1>3. FlattenSeq([i \in 1 .. Len(fs) |-> << >>]) = << >>
  BY <1>1, FlatNone
<1> QED BY <1>2, <1>3 DEF All

-----------------------------------------------------------------------------
\* A part of a message with the fields of one number k and wire type w, whose values
\* are xs; and a message with the values xs[k] of the wire type ws[k] for each k up to
\* n, and nothing else.
Segment(s, k, w, xs) ==
    /\ s \in Seq(OutField)
    /\ \A num, wire : All(s, num, wire) = IF num = k /\ wire = w THEN xs ELSE << >>
Contents(s, n, ws, xs) ==
    /\ s \in Seq(OutField)
    /\ \A num, wire : All(s, num, wire) = IF num \in 1 .. n /\ wire = ws[num] THEN xs[num] ELSE << >>


\* A message of one segment.
LEMMA ContentsFirst ==
  ASSUME NEW ws, NEW xs, NEW s, Segment(s, 1, ws[1], xs[1])
  PROVE  Contents(s, 1, ws, xs)
<1>1. \A num : num \in 1 .. 1 <=> num = 1
  OBVIOUS
<1> QED BY <1>1 DEF Contents, Segment

\* One segment more.
LEMMA ContentsStep ==
  ASSUME NEW n \in Nat, NEW k, k = n + 1, NEW ws, NEW xs, NEW s, NEW t,
         Contents(s, n, ws, xs), Segment(t, k, ws[k], xs[k])
  PROVE  Contents(s \o t, k, ws, xs)
<1>1. s \in Seq(OutField) /\ t \in Seq(OutField)
  BY DEF Contents, Segment
<1>2. s \in Seq(AnyField) /\ t \in Seq(AnyField)
  BY <1>1, SeqMonotonic DEF OutField
<1>3. s \o t \in Seq(OutField)
  BY <1>1, ConcatProperties
<1>4. ASSUME NEW num, NEW wire
      PROVE  All(s \o t, num, wire) = IF num \in 1 .. n + 1 /\ wire = ws[num] THEN xs[num] ELSE << >>
  <2> DEFINE a == All(s, num, wire)   b == All(t, num, wire)
  <2>1. a \in Seq(Vals) /\ b \in Seq(Vals) /\ All(s \o t, num, wire) = a \o b
    BY <1>2, AllConcat
  <2>2. a = IF num \in 1 .. n /\ wire = ws[num] THEN xs[num] ELSE << >>
    BY DEF Contents
  <2>3. b = IF num = n + 1 /\ wire = ws[n + 1] THEN xs[n + 1] ELSE << >>
    BY DEF Segment
  <2> HIDE DEF a, b
  <2>4. a \o << >> = a /\ << >> \o b = b
    BY <2>1, ConcatEmptySeq
  <2>5. CASE num = n + 1
    <3>1. num \notin 1 .. n /\ num \in 1 .. n + 1
      BY <2>5
    <3>2. a = << >>
      BY <2>2, <3>1
    <3> QED BY <2>1, <2>3, <2>4, <2>5, <3>1, <3>2
  <2>6. CASE num # n + 1
    <3>1. num \in 1 .. n + 1 <=> num \in 1 .. n
      BY <2>6
    <3>2. b = << >>
      BY <2>3, <2>6
    <3> QED BY <2>1, <2>2, <2>4, <3>1, <3>2
  <2> QED BY <2>5, <2>6
<1> QED BY <1>3, <1>4 DEF Contents

\* The tags of the contract's fields are integers.
LEMMA TagFits ==
  ASSUME NEW k \in 1 .. 10
  PROVE  k \in Nat /\ 8 * k + Varint \in UInt /\ 8 * k + Bytes \in UInt
<1>1. \A w \in Nat : w >= 2 /\ 82 \in 0 .. w - 1
         => k \in Nat /\ 8 * k + 0 \in 0 .. w - 1 /\ 8 * k + 2 \in 0 .. w - 1
  OBVIOUS
<1>2. 82 \in 0 .. Pow2[Width] - 1
  BY MessagesOK DEF UInt, Bytes
<1> QED
  BY <1>1, <1>2, GroupFacts DEF UInt, Varint, Bytes

\* The values that Uint and Raw write: none for the one that stands for none.
One(v, zero) == IF v = zero THEN << >> ELSE <<v>>

\* What Uint writes.
LEMMA UintSegment ==
  ASSUME NEW k \in 1 .. 10, NEW v \in UInt
  PROVE  Segment(Uint(k, v), k, Varint, One(v, 0))
<1> DEFINE f == Field(k, Varint, v)
<1>1. f \in OutField /\ f \in AnyField /\ f.num = k /\ f.wire = Varint /\ f.val = v
  <2>1. f \in AnyField /\ f.num = k /\ f.wire = Varint /\ f.val = v
    BY TagFits DEF Field, AnyField, Varint
  <2> HIDE DEF f
  <2> QED BY <2>1, TagFits DEF OutField
<1> HIDE DEF f
<1>2. <<f>> \in Seq(OutField) /\ << >> \in Seq(OutField)
  BY <1>1
<1>3. Uint(k, v) = IF v = 0 THEN << >> ELSE <<f>>
  BY DEF Uint, f
<1>4. \A num, wire : All(Uint(k, v), num, wire) = IF num = k /\ wire = Varint THEN One(v, 0) ELSE << >>
  <2>1. \A num, wire : /\ All(<< >>, num, wire) = << >>
                       /\ All(<<f>>, num, wire) = IF k = num /\ Varint = wire THEN <<v>> ELSE << >>
    BY <1>1, AllOne
  <2> QED BY <1>3, <2>1 DEF One
<1> QED BY <1>2, <1>3, <1>4 DEF Segment

\* A field of bytes.
LEMMA RawFieldFacts ==
  ASSUME NEW k \in 1 .. 10, NEW s \in Text
  PROVE  /\ Field(k, Bytes, s) \in OutField /\ Field(k, Bytes, s) \in AnyField
         /\ Field(k, Bytes, s).num = k /\ Field(k, Bytes, s).wire = Bytes /\ Field(k, Bytes, s).val = s
<1> DEFINE f == Field(k, Bytes, s)
<1>1. f \in AnyField /\ f.num = k /\ f.wire = Bytes /\ f.val = s
  <2>1. s \in Seq(Byte)
    BY DEF Text
  <2> QED BY <2>1, TagFits DEF Field, AnyField, Bytes
<1>2. f \in OutField
  <2> HIDE DEF f
  <2> QED BY <1>1, TagFits DEF OutField
<1> QED BY <1>1, <1>2

\* What Raw writes.
LEMMA RawSegment ==
  ASSUME NEW k \in 1 .. 10, NEW s \in Text
  PROVE  Segment(Raw(k, s), k, Bytes, One(s, << >>))
<1> DEFINE f == Field(k, Bytes, s)
<1>1. f \in OutField /\ f \in AnyField /\ f.num = k /\ f.wire = Bytes /\ f.val = s
  BY RawFieldFacts
<1> HIDE DEF f
<1>2. <<f>> \in Seq(OutField) /\ << >> \in Seq(OutField)
  BY <1>1
<1>3. Raw(k, s) = IF s = << >> THEN << >> ELSE <<f>>
  BY DEF Raw, RawAlways, f
<1>4. \A num, wire : All(Raw(k, s), num, wire) = IF num = k /\ wire = Bytes THEN One(s, << >>) ELSE << >>
  <2>1. \A num, wire : /\ All(<< >>, num, wire) = << >>
                       /\ All(<<f>>, num, wire) = IF k = num /\ Bytes = wire THEN <<s>> ELSE << >>
    BY <1>1, AllOne
  <2> QED BY <1>3, <2>1 DEF One
<1> QED BY <1>2, <1>3, <1>4 DEF Segment

\* What a repeated field is written as.
LEMMA EachSegment ==
  ASSUME NEW k \in 1 .. 10, NEW xs \in Seq(Text)
  PROVE  Segment(FlattenSeq([i \in 1 .. Len(xs) |-> RawAlways(k, xs[i])]), k, Bytes, xs)
<1> DEFINE e == [i \in 1 .. Len(xs) |-> Field(k, Bytes, xs[i])]
<1>0. Len(xs) \in Nat /\ \A i \in 1 .. Len(xs) : xs[i] \in Text
  BY ElementOfSeq, LenProperties
<1>1. \A i \in 1 .. Len(xs) : /\ Field(k, Bytes, xs[i]) \in OutField
                              /\ Field(k, Bytes, xs[i]).num = k /\ Field(k, Bytes, xs[i]).wire = Bytes
                              /\ Field(k, Bytes, xs[i]).val = xs[i]
  BY <1>0, RawFieldFacts
<1>2. e \in Seq(OutField) /\ Len(e) = Len(xs)
  BY <1>0, <1>1
<1>3. \A i \in 1 .. Len(e) : e[i] = Field(k, Bytes, xs[i]) /\ e[i].num = k /\ e[i].wire = Bytes /\ e[i].val = xs[i]
  BY <1>1, <1>2
<1>4. [i \in 1 .. Len(xs) |-> RawAlways(k, xs[i])] = [i \in 1 .. Len(e) |-> <<e[i]>>]
  <2> HIDE DEF e
  <2> QED BY <1>2, <1>3 DEF RawAlways
<1> HIDE DEF e
<1>5. FlattenSeq([i \in 1 .. Len(xs) |-> RawAlways(k, xs[i])]) = e
  BY <1>2, <1>4, FlatSingles
<1>6. e \in Seq(AnyField)
  BY <1>2, SeqMonotonic DEF OutField
<1>7. [i \in 1 .. Len(e) |-> e[i].val] = xs
  <2>1. xs = [i \in 1 .. Len(xs) |-> xs[i]]
    BY LenProperties
  <2> QED BY <1>2, <1>3, <2>1
<1>8. All(e, k, Bytes) = xs
  BY <1>3, <1>6, <1>7, AllOfKind
<1>9. \A num, wire : num # k \/ wire # Bytes => All(e, num, wire) = << >>
  <2> SUFFICES ASSUME NEW num, NEW wire, num # k \/ wire # Bytes PROVE All(e, num, wire) = << >>
    OBVIOUS
  <2>1. \A i \in 1 .. Len(e) : e[i].num # num \/ e[i].wire # wire
    BY <1>3
  <2> QED BY <1>6, <2>1, AllOfNone
<1> QED BY <1>2, <1>5, <1>8, <1>9 DEF Segment

\* The last of one value.
LEMMA LastOrSingle ==
  \A v, default : LastOr(<<v>>, default) = v
  BY DEF LastOr, Last

\* A decoder finds the value that was written, or the one that stands for none.
LEMMA LastOrOne ==
  ASSUME NEW v, NEW zero
  PROVE  LastOr(One(v, zero), zero) = v
<1>1. CASE v = zero
  BY <1>1 DEF LastOr, One
<1>2. CASE v # zero
  BY <1>2, LastOrSingle DEF One
<1> QED BY <1>1, <1>2

-----------------------------------------------------------------------------
\* BigEndian satisfies its equation.
LEMMA BigEndianDef ==
  /\ BigEndian[<< >>] = 0
  /\ \A s \in Seq(Byte) : BigEndian[s] \in Nat
  /\ \A s \in Seq(Byte), c \in Byte : BigEndian[Append(s, c)] = 2 * Group * BigEndian[s] + c
<1> DEFINE D == Seq(Byte)
           Body(s, m) == 2 * Group * m + Last(s)
           nxt == [s \in D |-> IF s = << >> THEN s ELSE Front(s)]
           step == [p \in D \X Nat |-> IF p[1] = << >> THEN 0 ELSE Body(p[1], p[2])]
           base == [s \in D |-> 0]
           mu == [s \in D |-> Len(s)]
<1>0. \A s \in D : Len(s) \in Nat /\ (s # << >> => Front(s) \in D /\ Len(Front(s)) < Len(s) /\ Last(s) \in Nat)
  <2> SUFFICES ASSUME NEW s \in D, s # << >>
               PROVE  Front(s) \in D /\ Len(Front(s)) < Len(s) /\ Last(s) \in Nat
    BY LenProperties
  <2>1. Len(s) \in Nat /\ Len(s) > 0
    BY EmptySeq
  <2>2. Last(s) \in Byte
    BY <2>1 DEF Last
  <2>3. Len(s) - 1 \in Int /\ \A i \in 1 .. Len(s) - 1 : s[i] \in Byte
    BY <2>1
  <2>4. Front(s) \in D /\ Len(Front(s)) = Len(s) - 1
    <3>1. /\ SubSeq(s, 1, Len(s) - 1) \in Seq(Byte)
          /\ Len(SubSeq(s, 1, Len(s) - 1)) = IF 1 <= Len(s) - 1 THEN (Len(s) - 1) - 1 + 1 ELSE 0
      BY <2>3, SubSeqProperties
    <3> DEFINE f == SubSeq(s, 1, Len(s) - 1)
               n == Len(s)
    <3>2. f \in Seq(Byte) /\ Len(f) = IF 1 <= n - 1 THEN (n - 1) - 1 + 1 ELSE 0
      BY <3>1
    <3> HIDE DEF f
    <3>3. n \in Nat /\ n > 0
      BY <2>1
    <3> HIDE DEF n
    <3>4. (IF 1 <= n - 1 THEN (n - 1) - 1 + 1 ELSE 0) = n - 1
      BY <3>3
    <3> QED BY <3>2, <3>4 DEF Front, f, n
  <2> QED BY <2>1, <2>2, <2>4, GroupFacts DEF Byte
<1>a. \A m \in Nat, n \in Nat : 2 * Group * m + n \in Nat
  BY GroupFacts
<1>b. \A s \in D, m \in Nat : s # << >> => Body(s, m) \in Nat
  <2> HIDE DEF D
  <2> QED BY <1>0, <1>a
<1>1. nxt \in [D -> D] /\ base \in [D -> Nat] /\ mu \in [D -> Nat] /\ step \in [D \X Nat -> Nat]
  <2> HIDE DEF D, Body
  <2>1. \A s \in D, m \in Nat : (IF s = << >> THEN 0 ELSE Body(s, m)) \in Nat
    BY <1>b
  <2>2. step \in [D \X Nat -> Nat]
    BY <2>1
  <2> QED BY <1>0, <2>2
<1>2. \A s \in D : s \notin {<< >>} => mu[nxt[s]] < mu[s]
  BY <1>0
<1>3. PICK h \in [D -> Nat] : Solution(h, D, {<< >>}, nxt, base, step)
  <2> HIDE DEF D, nxt, step, base, mu
  <2> QED BY <1>1, <1>2, Recursion
<1>4. \A s \in D : h[s] = IF s = << >> THEN 0 ELSE Body(s, h[Front(s)])
  <2> SUFFICES ASSUME NEW s \in D PROVE h[s] = IF s = << >> THEN 0 ELSE Body(s, h[Front(s)])
    OBVIOUS
  <2>1. h[s] = IF s \in {<< >>} THEN base[s] ELSE step[<<s, h[nxt[s]]>>]
    BY <1>3 DEF Solution
  <2>2. s # << >> => nxt[s] = Front(s) /\ Front(s) \in D
    BY <1>0
  <2>3. s # << >> => h[Front(s)] \in Nat
    <3> HIDE DEF D
    <3> QED BY <2>2
  <2>4. s # << >> => step[<<s, h[Front(s)]>>] = Body(s, h[Front(s)])
    <3> HIDE DEF D, Body
    <3> QED BY <2>3
  <2> HIDE DEF D, nxt, step, Body
  <2> QED
    BY <2>1, <2>2, <2>4
<1>5. h = [s \in Seq(Byte) |-> IF s = << >> THEN 0 ELSE 2 * Group * h[Front(s)] + Last(s)]
  BY <1>4
<1>6. BigEndian = [s \in Seq(Byte) |-> IF s = << >> THEN 0 ELSE 2 * Group * BigEndian[Front(s)] + Last(s)]
  BY <1>5 DEF BigEndian
<1>7. \A s \in D : BigEndian[s] = IF s = << >> THEN 0 ELSE Body(s, BigEndian[Front(s)])
  BY <1>6
<1> DEFINE T == {s \in D : BigEndian[s] \in Nat}
<1>8. \A s \in D : s \in T
  <2>1. ASSUME NEW s \in D, \A t \in D : mu[t] < mu[s] => t \in T PROVE s \in T
    <3>1. s # << >> => Front(s) \in D /\ mu[Front(s)] < mu[s]
      BY <1>0
    <3>2. s # << >> => BigEndian[Front(s)] \in Nat
      <4> HIDE DEF D, mu
      <4> QED BY <2>1, <3>1
    <3>3. BigEndian[s] \in Nat
      <4> HIDE DEF D, Body
      <4> QED BY <1>7, <1>b, <3>2
    <3> QED BY <3>3
  <2> HIDE DEF T, D, mu
  <2> QED BY <1>1, <2>1, MeasureInduction
<1>9. << >> \in D
  BY EmptySeq
<1>10. ASSUME NEW s \in D, NEW c \in Byte PROVE BigEndian[Append(s, c)] = 2 * Group * BigEndian[s] + c
  <2> DEFINE t == Append(s, c)
  <2>1. /\ t \in D /\ t # << >> /\ Len(t) = Len(s) + 1 /\ Len(s) \in Nat
        /\ (\A i \in 1 .. Len(s) : t[i] = s[i]) /\ t[Len(s) + 1] = c
    BY AppendProperties, LenProperties
  <2> HIDE DEF t
  <2>2. Last(t) = c
    BY <2>1 DEF Last
  <2>3. Front(t) = s
    <3>1. Len(s) \in Int /\ (\A i \in 1 .. Len(s) : t[i] \in Byte) /\ Len(t) - 1 = Len(s)
      BY <2>1
    <3>2. /\ Front(t) \in Seq(Byte) /\ Len(Front(t)) = Len(s)
          /\ \A i \in 1 .. Len(s) : Front(t)[i] = t[i]
      BY <2>1, <3>1, SubSeqProperties DEF Front
    <3> QED BY <2>1, <3>2, SeqEqual
  <2>4. BigEndian[t] = Body(t, BigEndian[Front(t)])
    <3> HIDE DEF D, Body
    <3> QED BY <1>7, <2>1
  <2> QED BY <2>2, <2>3, <2>4 DEF t
<1> QED
  BY <1>7, <1>8, <1>9, <1>10

\* The places of a big-endian integer.
LEMMA PlaceFacts ==
  /\ Values(0) = 1
  /\ \A i \in Nat : Values(i) \in Nat /\ Values(i) > 0 /\ Values(i + 1) = Values(i) * (2 * Group)
<1> DEFINE g == GroupBits + 1
<1>1. g \in Nat /\ Pow2[g] = 2 * Group
  BY WireConstantsOK, Pow2Facts DEF Group
<1>v. \A i : Values(i) = Pow2[g * i]
  BY DEF Values
<1> HIDE DEF g
<1>2. Values(0) = 1
  <2>1. g * 0 = 0
    BY <1>1
  <2> QED BY <1>v, <2>1, Pow2Facts
<1>3. ASSUME NEW i \in Nat
      PROVE  Values(i) \in Nat /\ Values(i) > 0 /\ Values(i + 1) = Values(i) * (2 * Group)
  <2>1. g * i \in Nat /\ g * (i + 1) = g * i + g
    BY <1>1
  <2>2. Pow2[g * i] \in Nat /\ Pow2[g * i] > 0
    BY <2>1, Pow2Facts
  <2>3. Pow2[g * i + g] = Pow2[g * i] * Pow2[g]
    BY <1>1, <2>1, Pow2Sum
  <2> QED BY <1>1, <1>v, <2>1, <2>2, <2>3
<1> QED BY <1>2, <1>3

\* One digit more.
LEMMA DigitStep ==
  ASSUME NEW v \in Nat, NEW i \in Nat
  PROVE  /\ Digit(v, i) \in Byte
         /\ v \div Values(i) = 2 * Group * (v \div Values(i + 1)) + Digit(v, i)
<1> DEFINE p == Values(i)   b == 2 * Group   q == v \div p
<1>1. p \in Nat /\ p > 0 /\ b \in Nat /\ b > 0
  BY PlaceFacts, GroupFacts
<1>2. Values(i + 1) = p * b
  BY PlaceFacts
<1>d. Digit(v, i) = q % b
  BY DEF Digit
<1> HIDE DEF p, b, q
<1>3. q \in Nat
  <2>1. \A m \in Nat : m > 0 => v \div m \in Nat
    OBVIOUS
  <2> QED BY <1>1, <2>1 DEF q
<1>4. \A m \in Nat, x \in Nat : m > 0 => x = m * (x \div m) + (x % m) /\ x % m \in 0 .. m - 1
  OBVIOUS
<1>5. q = b * (q \div b) + (q % b) /\ q % b \in 0 .. b - 1
  BY <1>1, <1>3, <1>4
<1>6. \A x, y \in Nat : x > 0 /\ y > 0 => (v \div x) \div y = v \div (x * y)
  OBVIOUS
<1>7. q \div b = v \div (p * b)
  BY <1>1, <1>6 DEF q
<1>8. Digit(v, i) \in 0 .. b - 1
  BY <1>5, <1>d
<1> QED BY <1>2, <1>5, <1>7, <1>8, <1>d DEF Byte, b, p, q

\* What fits in n bytes is read back from them.
LEMMA BytesBack ==
  ASSUME NEW v \in Nat, NEW n \in Nat
  PROVE  /\ FillBytes(v, n) \in Seq(Byte) /\ Len(FillBytes(v, n)) = n
         /\ v < Values(n) => BigEndian[FillBytes(v, n)] = v
<1> DEFINE d == FillBytes(v, n)
           T == {k \in Nat : k <= n => BigEndian[SubSeq(d, 1, k)] = v \div Values(n - k)}
<1>2. \A i \in 1 .. n : Digit(v, n - i) \in Byte
  <2>1. \A i \in 1 .. n : n - i \in Nat
    OBVIOUS
  <2> QED BY <2>1, DigitStep
<1>3. d \in Seq(Byte) /\ Len(d) = n /\ \A i \in 1 .. n : d[i] = Digit(v, n - i)
  BY <1>2 DEF FillBytes
<1> SUFFICES ASSUME v < Values(n) PROVE BigEndian[d] = v
  BY <1>3
<1> HIDE DEF d
<1>4. 0 \in T
  <2>1. SubSeq(d, 1, 0) = << >>
    BY SubSeqEmpty
  <2>2. v \div Values(n) = 0
    <3>1. Values(n) \in Nat
      BY PlaceFacts
    <3>2. \A m \in Nat : v < m => v \div m = 0
      OBVIOUS
    <3> QED BY <3>1, <3>2
  <2>3. n - 0 = n
    OBVIOUS
  <2> QED BY <2>1, <2>2, <2>3, BigEndianDef
<1>5. ASSUME NEW k \in Nat, k \in T PROVE k + 1 \in T
  <2> SUFFICES ASSUME k + 1 <= n
               PROVE  BigEndian[SubSeq(d, 1, k + 1)] = v \div Values(n - (k + 1))
    OBVIOUS
  <2> DEFINE i == n - (k + 1)   s == SubSeq(d, 1, k)
  <2>1. i \in Nat /\ n - k = i + 1 /\ k + 1 \in 1 .. n /\ k \in 0 .. n
    OBVIOUS
  <2>2. s \in Seq(Byte)
    <3>1. k \in Int /\ \A j \in 1 .. k : d[j] \in Byte
      BY <1>2, <1>3, <2>1
    <3> QED BY <3>1, SubSeqProperties
  <2>3. SubSeq(d, 1, k + 1) = Append(s, d[k + 1])
    <3>1. SubSeq(d, 1, k + 1) = SubSeq(d, 1, (k + 1) - 1) \o <<d[k + 1]>>
      <4>1. 1 \in 1 .. Len(d) /\ k + 1 \in 1 .. Len(d)
        BY <1>3, <2>1
      <4> QED BY <1>3, <4>1, SubSeqRecursiveSecond
    <3>2. (k + 1) - 1 = k
      OBVIOUS
    <3> HIDE DEF s
    <3>3. d[k + 1] \in Byte
      BY <1>2, <1>3, <2>1
    <3>4. s \o <<d[k + 1]>> = Append(s, d[k + 1])
      BY <2>2, <3>3
    <3> QED BY <3>1, <3>2, <3>4 DEF s
  <2>4. d[k + 1] = Digit(v, i) /\ Digit(v, i) \in Byte
    BY <1>3, <2>1, DigitStep
  <2>5. BigEndian[s] = v \div Values(i + 1)
    BY <1>5, <2>1
  <2> HIDE DEF s, i
  <2>6. BigEndian[Append(s, Digit(v, i))] = 2 * Group * BigEndian[s] + Digit(v, i)
    BY <2>2, <2>4, BigEndianDef
  <2>7. v \div Values(i) = 2 * Group * (v \div Values(i + 1)) + Digit(v, i)
    BY <2>1, DigitStep
  <2>8. BigEndian[SubSeq(d, 1, k + 1)] = v \div Values(i)
    BY <2>3, <2>4, <2>5, <2>6, <2>7
  <2> QED BY <2>8 DEF i
<1>6. n \in T
  <2> HIDE DEF T
  <2> QED BY <1>4, <1>5, Induction
<1>7. SubSeq(d, 1, n) = d
  BY <1>3, SubSeqFull
<1>8. BigEndian[SubSeq(d, 1, n)] = v \div Values(n - n)
  BY <1>6
<1>9. Values(n - n) = 1
  <2>1. n - n = 0
    OBVIOUS
  <2> QED BY <2>1, PlaceFacts
<1>10. BigEndian[d] = v \div 1
  BY <1>7, <1>8, <1>9
<1> QED BY <1>10 DEF d

\* A word that fits is read back, from its shortest form and from all of its bytes.
LEMMA WordBack ==
  ASSUME NEW v \in Nat, Fits(v)
  PROVE  /\ Word(v) \in Text /\ BigEndian[Word(v)] = v
         /\ FillBytes(v, WordLen) \in Text /\ BigEndian[FillBytes(v, WordLen)] = v
<1>1. WordLen \in Nat /\ WordLen <= MaxRaw /\ MaxRaw \in Nat
  BY CallConstantsOK, WireConstantsOK, GroupFacts DEF UInt
<1>2. ASSUME NEW n \in 0 .. WordLen, v < Values(n)
      PROVE  FillBytes(v, n) \in Text /\ BigEndian[FillBytes(v, n)] = v
  <2>1. n \in Nat /\ n <= MaxRaw
    BY <1>1
  <2> QED BY <1>2, <2>1, BytesBack DEF Text, Short
<1>3. v < Values(WordLen)
  BY DEF Fits
<1> DEFINE U == {n \in Nat : v < Values(n)}
           P(n) == v < Values(n) /\ \A k \in 0 .. n - 1 : v >= Values(k)
<1>4. PICK n \in U : \A k \in U : n <= k
  <2>1. WordLen \in U
    BY <1>1, <1>3
  <2> HIDE DEF U
  <2>2. U \in SUBSET Nat
    BY DEF U
  <2> QED BY <2>1, <2>2, Least
<1>5. n \in 0 .. WordLen /\ P(n)
  <2>1. n \in Nat /\ n <= WordLen
    BY <1>1, <1>3, <1>4
  <2>2. ASSUME NEW k \in 0 .. n - 1 PROVE v >= Values(k)
    <3>1. k \in Nat /\ ~(n <= k) /\ Values(k) \in Nat
      BY <2>1, PlaceFacts
    <3> QED BY <1>4, <3>1
  <2> QED BY <1>4, <2>1, <2>2
<1> DEFINE m == CHOOSE x \in 0 .. WordLen : P(x)
<1>6. m \in 0 .. WordLen /\ P(m)
  <2> HIDE DEF P
  <2> QED BY <1>5
<1>7. Word(v) = FillBytes(v, m)
  BY DEF Word
<1>8. m \in 0 .. WordLen /\ v < Values(m)
  BY <1>6
<1> HIDE DEF m
<1>9. Word(v) \in Text /\ BigEndian[Word(v)] = v
  BY <1>2, <1>7, <1>8
<1> QED BY <1>1, <1>2, <1>3, <1>9

-----------------------------------------------------------------------------
\* What a Reader finds in a message of its own.
LEMMA FieldsOfPut ==
  ASSUME NEW fs \in Seq(OutField)
  PROVE  Fields[Put(fs)] = [ok |-> TRUE, fields |-> fs] /\ Put(fs) \in Seq(Byte)
<1>1. << >> \in Seq(Byte) /\ Fields[<< >>] = [ok |-> TRUE, fields |-> << >>]
  BY FieldsDef, EmptySeq
<1>2. Fields[<< >>].ok /\ Fields[<< >>].fields = << >>
  BY <1>1
<1>3. Fields[Put(fs) \o << >>] = [ok |-> TRUE, fields |-> fs \o << >>]
  BY <1>1, <1>2, FieldsPut
<1>4. Put(fs) \in Seq(Byte) /\ Put(fs) \o << >> = Put(fs)
  BY PutFacts, ConcatEmptySeq
<1>5. fs \o << >> = fs
  BY ConcatEmptySeq
<1> QED BY <1>3, <1>4, <1>5

\* The engine reads a slot of storage as the gateway wrote it, a zero value included.
LEMMA SlotBack ==
  ASSUME NEW s \in Slot, Fits(s.value)
  PROVE  slotBytes(s) \in Text /\ SlotOf(slotBytes(s)) = s
<1> DEFINE a1 == Raw(1, s.key)   a2 == Raw(2, Word(s.value))
           fs == a1 \o a2
           ws == <<Bytes, Bytes>>
           xs == <<One(s.key, << >>), One(Word(s.value), << >>)>>
<1>1. s \in [key : Text, value : Nat] /\ Short(slotBytes(s))
  BY DEF Slot
<1>2. s.key \in Text /\ s.value \in Nat
  BY <1>1
<1>3. Word(s.value) \in Text /\ BigEndian[Word(s.value)] = s.value
  BY <1>2, WordBack
<1>4. Segment(a1, 1, ws[1], xs[1]) /\ Segment(a2, 2, ws[2], xs[2])
  BY <1>2, <1>3, RawSegment
<1>5. Contents(fs, 2, ws, xs)
  <2> HIDE DEF a1, a2, ws, xs
  <2>1. Contents(a1, 1, ws, xs)
    BY <1>4, ContentsFirst
  <2> QED BY <1>4, <2>1, ContentsStep
<1>6. RawOf(fs, 1) = s.key /\ RawOf(fs, 2) = Word(s.value)
  <2>1. All(fs, 1, Bytes) = One(s.key, << >>) /\ All(fs, 2, Bytes) = One(Word(s.value), << >>)
    <3> HIDE DEF fs
    <3> QED BY <1>5 DEF Contents
  <2> QED BY <2>1, LastOrOne DEF RawOf
<1>7. fs \in Seq(OutField)
  BY <1>5 DEF Contents
<1>8. slotBytes(s) = Put(fs)
  BY DEF slotBytes
<1> HIDE DEF fs
<1>f. Fields[slotBytes(s)] = [ok |-> TRUE, fields |-> fs] /\ slotBytes(s) \in Seq(Byte)
  BY <1>7, <1>8, FieldsOfPut
<1>9. slotBytes(s) \in Text /\ Fields[slotBytes(s)].fields = fs
  BY <1>1, <1>f DEF Text
<1>10. SlotOf(slotBytes(s)) = [key |-> s.key, value |-> s.value]
  BY <1>3, <1>6, <1>9 DEF SlotOf
<1> QED BY <1>1, <1>9, <1>10

\* The engine reads an account as the gateway wrote it.
LEMMA AccountBack ==
  ASSUME NEW a \in Account, AccountFits(a)
  PROVE  encodeAccount(a) \in Text /\ AccountOf(encodeAccount(a)) = a
<1> DEFINE w == Word(a.balance)
           st == a.storage
           sl == [i \in 1 .. Len(st) |-> slotBytes(st[i])]
           a1 == Raw(1, a.address)   a2 == Raw(2, w)   a3 == Uint(3, a.nonce)
           a4 == Raw(4, a.code)      a5 == Each(EncodeSlot, st)
           fs == a1 \o a2 \o a3 \o a4 \o a5
           ws == <<Bytes, Bytes, Varint, Bytes, Bytes>>
           xs == <<One(a.address, << >>), One(w, << >>), One(a.nonce, 0), One(a.code, << >>), sl>>
<1>1. /\ a \in [address : Text, balance : Nat, nonce : UInt, code : Text, storage : Seq(Slot)]
      /\ Short(encodeAccount(a))
  BY DEF Account
<1>2. a.address \in Text /\ a.balance \in Nat /\ a.nonce \in UInt /\ a.code \in Text /\ st \in Seq(Slot)
  BY <1>1
<1>3. w \in Text /\ BigEndian[w] = a.balance
  BY <1>2, WordBack DEF AccountFits
<1>4. Len(st) \in Nat /\ \A i \in 1 .. Len(st) : slotBytes(st[i]) \in Text /\ SlotOf(slotBytes(st[i])) = st[i]
  <2>1. Len(st) \in Nat /\ \A i \in 1 .. Len(st) : st[i] \in Slot /\ Fits(st[i].value)
    BY <1>2, ElementOfSeq, LenProperties DEF AccountFits
  <2> HIDE DEF st
  <2> QED BY <2>1, SlotBack
<1>5. sl \in Seq(Text) /\ Len(sl) = Len(st) /\ \A i \in 1 .. Len(st) : sl[i] = slotBytes(st[i])
  <2> HIDE DEF st
  <2> QED BY <1>4
<1>6. Segment(a5, 5, Bytes, sl)
  <2>1. [i \in 1 .. Len(st) |-> EncodeSlot(st[i])] = [i \in 1 .. Len(sl) |-> RawAlways(5, sl[i])]
    <3> HIDE DEF st, sl
    <3> QED BY <1>5 DEF EncodeSlot
  <2>2. a5 = FlattenSeq([i \in 1 .. Len(sl) |-> RawAlways(5, sl[i])])
    BY <2>1 DEF Each
  <2> HIDE DEF a5, sl
  <2> QED BY <1>5, <2>2, EachSegment
<1>7. /\ Segment(a1, 1, ws[1], xs[1]) /\ Segment(a2, 2, ws[2], xs[2]) /\ Segment(a3, 3, ws[3], xs[3])
      /\ Segment(a4, 4, ws[4], xs[4]) /\ Segment(a5, 5, ws[5], xs[5])
  <2>1. Segment(a1, 1, Bytes, One(a.address, << >>))
    BY <1>2, RawSegment
  <2>2. Segment(a2, 2, Bytes, One(w, << >>))
    <3> HIDE DEF w
    <3> QED BY <1>3, RawSegment
  <2>3. Segment(a3, 3, Varint, One(a.nonce, 0))
    BY <1>2, UintSegment
  <2>4. Segment(a4, 4, Bytes, One(a.code, << >>))
    BY <1>2, RawSegment
  <2> HIDE DEF a1, a2, a3, a4, a5, w, sl
  <2> QED BY <1>6, <2>1, <2>2, <2>3, <2>4
<1>8. Contents(fs, 5, ws, xs)
  <2> HIDE DEF a1, a2, a3, a4, a5, ws, xs
  <2>1. Contents(a1, 1, ws, xs)
    BY <1>7, ContentsFirst
  <2>2. Contents(a1 \o a2, 2, ws, xs)
    BY <1>7, <2>1, ContentsStep
  <2>3. Contents(a1 \o a2 \o a3, 3, ws, xs)
    BY <1>7, <2>2, ContentsStep
  <2>4. Contents(a1 \o a2 \o a3 \o a4, 4, ws, xs)
    BY <1>7, <2>3, ContentsStep
  <2> QED BY <1>7, <2>4, ContentsStep
<1>9. fs \in Seq(OutField) /\ encodeAccount(a) = Put(fs)
  BY <1>8 DEF Contents, encodeAccount
<1> HIDE DEF fs
<1>10. /\ All(fs, 1, Bytes) = One(a.address, << >>) /\ All(fs, 2, Bytes) = One(w, << >>)
       /\ All(fs, 3, Varint) = One(a.nonce, 0) /\ All(fs, 4, Bytes) = One(a.code, << >>)
       /\ All(fs, 5, Bytes) = sl
  <2> HIDE DEF sl, w
  <2> QED BY <1>8 DEF Contents
<1>11. /\ RawOf(fs, 1) = a.address /\ RawOf(fs, 2) = w /\ UintOf(fs, 3) = a.nonce /\ RawOf(fs, 4) = a.code
  <2> HIDE DEF w
  <2> QED BY <1>10, LastOrOne DEF RawOf, UintOf
<1>f. Fields[encodeAccount(a)] = [ok |-> TRUE, fields |-> fs] /\ encodeAccount(a) \in Seq(Byte)
  BY <1>9, FieldsOfPut
<1>12. encodeAccount(a) \in Text /\ Fields[encodeAccount(a)].fields = fs
  BY <1>1, <1>f DEF Text
<1>13. [i \in 1 .. Len(sl) |-> SlotOf(sl[i])] = st
  <2>1. st = [i \in 1 .. Len(st) |-> st[i]]
    BY <1>2, LenProperties
  <2>2. \A i \in 1 .. Len(st) : SlotOf(sl[i]) = st[i]
    BY <1>4, <1>5
  <2> HIDE DEF st, sl
  <2> QED BY <1>5, <2>1, <2>2
<1>14. AccountOf(encodeAccount(a)) =
         [address |-> a.address, balance |-> a.balance, nonce |-> a.nonce, code |-> a.code, storage |-> a.storage]
  <2> DEFINE b == encodeAccount(a)
  <2> HIDE DEF b
  <2>1. Fields[b].fields = fs
    BY <1>12 DEF b
  <2>2. AccountOf(b) = [address |-> RawOf(fs, 1), balance |-> BigEndian[RawOf(fs, 2)], nonce |-> UintOf(fs, 3),
                        code |-> RawOf(fs, 4), storage |-> [i \in 1 .. Len(sl) |-> SlotOf(sl[i])]]
    <3> HIDE DEF sl
    <3> QED BY <1>10, <2>1 DEF AccountOf
  <2> HIDE DEF sl, w
  <2> QED BY <1>3, <1>11, <1>13, <2>2 DEF b
<1> QED BY <1>1, <1>12, <1>14

\* The engine reads a request as the gateway meant it.
LEMMA RequestBack ==
  ASSUME NEW r \in Request, RequestFits(r)
  PROVE  Encode(r) \in Seq(Byte) /\ RequestOf(Encode(r)) = r
<1> DEFINE w4 == Word(r.value)   w7 == Word(r.gasPrice)
           st == r.state
           sl == [i \in 1 .. Len(st) |-> encodeAccount(st[i])]
           a1 == Uint(1, r.chainId)  a2 == Raw(2, r.from)       a3 == Raw(3, r.to)
           a4 == Raw(4, w4)          a5 == Raw(5, r.data)       a6 == Uint(6, r.gasLimit)
           a7 == Raw(7, w7)          a8 == Each(EncodeState, st)
           a9 == Uint(9, r.block)    a10 == Uint(10, r.timestamp)
           fs == a1 \o a2 \o a3 \o a4 \o a5 \o a6 \o a7 \o a8 \o a9 \o a10
           ws == <<Varint, Bytes, Bytes, Bytes, Bytes, Varint, Bytes, Bytes, Varint, Varint>>
           xs == <<One(r.chainId, 0), One(r.from, << >>), One(r.to, << >>), One(w4, << >>),
                   One(r.data, << >>), One(r.gasLimit, 0), One(w7, << >>), sl, One(r.block, 0),
                   One(r.timestamp, 0)>>
<1>1. r \in [chainId : UInt, from : Text, to : Text, value : Nat, data : Text, gasLimit : UInt,
             gasPrice : Nat, state : Seq(Account), block : UInt, timestamp : UInt]
  BY DEF Request
<1>2. /\ r.chainId \in UInt /\ r.from \in Text /\ r.to \in Text /\ r.value \in Nat /\ r.data \in Text
      /\ r.gasLimit \in UInt /\ r.gasPrice \in Nat /\ st \in Seq(Account) /\ r.block \in UInt
      /\ r.timestamp \in UInt
  BY <1>1
<1>3. w4 \in Text /\ BigEndian[w4] = r.value /\ w7 \in Text /\ BigEndian[w7] = r.gasPrice
  BY <1>2, WordBack DEF RequestFits
<1>4. /\ Len(st) \in Nat
      /\ \A i \in 1 .. Len(st) : encodeAccount(st[i]) \in Text /\ AccountOf(encodeAccount(st[i])) = st[i]
  <2>1. Len(st) \in Nat /\ \A i \in 1 .. Len(st) : st[i] \in Account /\ AccountFits(st[i])
    BY <1>2, ElementOfSeq, LenProperties DEF RequestFits
  <2> HIDE DEF st
  <2> QED BY <2>1, AccountBack
<1>5. sl \in Seq(Text) /\ Len(sl) = Len(st) /\ \A i \in 1 .. Len(st) : sl[i] = encodeAccount(st[i])
  <2> HIDE DEF st
  <2> QED BY <1>4
<1>6. Segment(a8, 8, Bytes, sl)
  <2>1. [i \in 1 .. Len(st) |-> EncodeState(st[i])] = [i \in 1 .. Len(sl) |-> RawAlways(8, sl[i])]
    <3> HIDE DEF st, sl
    <3> QED BY <1>5 DEF EncodeState
  <2>2. a8 = FlattenSeq([i \in 1 .. Len(sl) |-> RawAlways(8, sl[i])])
    BY <2>1 DEF Each
  <2> HIDE DEF a8, sl
  <2> QED BY <1>5, <2>2, EachSegment
<1>7. /\ Segment(a1, 1, Varint, One(r.chainId, 0))
      /\ Segment(a2, 2, Bytes, One(r.from, << >>))
      /\ Segment(a3, 3, Bytes, One(r.to, << >>))
      /\ Segment(a4, 4, Bytes, One(w4, << >>))
      /\ Segment(a5, 5, Bytes, One(r.data, << >>))
      /\ Segment(a6, 6, Varint, One(r.gasLimit, 0))
      /\ Segment(a7, 7, Bytes, One(w7, << >>))
      /\ Segment(a9, 9, Varint, One(r.block, 0))
      /\ Segment(a10, 10, Varint, One(r.timestamp, 0))
  <2> HIDE DEF w4, w7
  <2> QED BY <1>2, <1>3, RawSegment, UintSegment
<1>8. /\ Segment(a1, 1, ws[1], xs[1]) /\ Segment(a2, 2, ws[2], xs[2]) /\ Segment(a3, 3, ws[3], xs[3])
      /\ Segment(a4, 4, ws[4], xs[4]) /\ Segment(a5, 5, ws[5], xs[5]) /\ Segment(a6, 6, ws[6], xs[6])
      /\ Segment(a7, 7, ws[7], xs[7]) /\ Segment(a8, 8, ws[8], xs[8]) /\ Segment(a9, 9, ws[9], xs[9])
      /\ Segment(a10, 10, ws[10], xs[10])
  <2> HIDE DEF a1, a2, a3, a4, a5, a6, a7, a8, a9, a10, w4, w7, sl
  <2> QED BY <1>6, <1>7
<1>9. Contents(fs, 10, ws, xs)
  <2> HIDE DEF a1, a2, a3, a4, a5, a6, a7, a8, a9, a10, ws, xs
  <2>1. Contents(a1, 1, ws, xs)
    BY <1>8, ContentsFirst
  <2>2. Contents(a1 \o a2, 2, ws, xs)
    BY <1>8, <2>1, ContentsStep
  <2>3. Contents(a1 \o a2 \o a3, 3, ws, xs)
    BY <1>8, <2>2, ContentsStep
  <2>4. Contents(a1 \o a2 \o a3 \o a4, 4, ws, xs)
    BY <1>8, <2>3, ContentsStep
  <2>5. Contents(a1 \o a2 \o a3 \o a4 \o a5, 5, ws, xs)
    BY <1>8, <2>4, ContentsStep
  <2>6. Contents(a1 \o a2 \o a3 \o a4 \o a5 \o a6, 6, ws, xs)
    BY <1>8, <2>5, ContentsStep
  <2>7. Contents(a1 \o a2 \o a3 \o a4 \o a5 \o a6 \o a7, 7, ws, xs)
    BY <1>8, <2>6, ContentsStep
  <2>8. Contents(a1 \o a2 \o a3 \o a4 \o a5 \o a6 \o a7 \o a8, 8, ws, xs)
    BY <1>8, <2>7, ContentsStep
  <2>9. Contents(a1 \o a2 \o a3 \o a4 \o a5 \o a6 \o a7 \o a8 \o a9, 9, ws, xs)
    BY <1>8, <2>8, ContentsStep
  <2> QED BY <1>8, <2>9, ContentsStep
<1>10. fs \in Seq(OutField) /\ Encode(r) = Put(fs)
  BY <1>9 DEF Contents, Encode
<1> HIDE DEF fs
<1>11. /\ All(fs, 1, Varint) = One(r.chainId, 0) /\ All(fs, 2, Bytes) = One(r.from, << >>)
       /\ All(fs, 3, Bytes) = One(r.to, << >>) /\ All(fs, 4, Bytes) = One(w4, << >>)
       /\ All(fs, 5, Bytes) = One(r.data, << >>) /\ All(fs, 6, Varint) = One(r.gasLimit, 0)
       /\ All(fs, 7, Bytes) = One(w7, << >>) /\ All(fs, 8, Bytes) = sl
       /\ All(fs, 9, Varint) = One(r.block, 0) /\ All(fs, 10, Varint) = One(r.timestamp, 0)
  <2>1. /\ All(fs, 1, ws[1]) = xs[1] /\ All(fs, 2, ws[2]) = xs[2] /\ All(fs, 3, ws[3]) = xs[3]
        /\ All(fs, 4, ws[4]) = xs[4] /\ All(fs, 5, ws[5]) = xs[5] /\ All(fs, 6, ws[6]) = xs[6]
        /\ All(fs, 7, ws[7]) = xs[7] /\ All(fs, 8, ws[8]) = xs[8] /\ All(fs, 9, ws[9]) = xs[9]
        /\ All(fs, 10, ws[10]) = xs[10]
    <3> HIDE DEF ws, xs
    <3> QED BY <1>9 DEF Contents
  <2> HIDE DEF sl, w4, w7
  <2> QED BY <2>1
<1>12. /\ UintOf(fs, 1) = r.chainId /\ RawOf(fs, 2) = r.from /\ RawOf(fs, 3) = r.to /\ RawOf(fs, 4) = w4
       /\ RawOf(fs, 5) = r.data /\ UintOf(fs, 6) = r.gasLimit /\ RawOf(fs, 7) = w7
       /\ UintOf(fs, 9) = r.block /\ UintOf(fs, 10) = r.timestamp
  <2> HIDE DEF w4, w7
  <2> QED BY <1>11, LastOrOne DEF RawOf, UintOf
<1>f. Fields[Encode(r)] = [ok |-> TRUE, fields |-> fs] /\ Encode(r) \in Seq(Byte)
  BY <1>10, FieldsOfPut
<1>13. [i \in 1 .. Len(sl) |-> AccountOf(sl[i])] = st
  <2>1. st = [i \in 1 .. Len(st) |-> st[i]]
    BY <1>2, LenProperties
  <2>2. \A i \in 1 .. Len(st) : AccountOf(sl[i]) = st[i]
    BY <1>4, <1>5
  <2> HIDE DEF st, sl
  <2> QED BY <1>5, <2>1, <2>2
<1>14. RequestOf(Encode(r)) =
         [chainId |-> r.chainId, from |-> r.from, to |-> r.to, value |-> r.value, data |-> r.data,
          gasLimit |-> r.gasLimit, gasPrice |-> r.gasPrice, block |-> r.block,
          timestamp |-> r.timestamp, state |-> r.state]
  <2> DEFINE b == Encode(r)
  <2> HIDE DEF b
  <2>1. Fields[b].fields = fs
    BY <1>f DEF b
  <2>2. RequestOf(b) =
          [chainId |-> UintOf(fs, 1), from |-> RawOf(fs, 2), to |-> RawOf(fs, 3),
           value |-> BigEndian[RawOf(fs, 4)], data |-> RawOf(fs, 5), gasLimit |-> UintOf(fs, 6),
           gasPrice |-> BigEndian[RawOf(fs, 7)], block |-> UintOf(fs, 9), timestamp |-> UintOf(fs, 10),
           state |-> [i \in 1 .. Len(sl) |-> AccountOf(sl[i])]]
    <3> HIDE DEF sl
    <3> QED BY <1>11, <2>1 DEF RequestOf
  <2> HIDE DEF sl, w4, w7
  <2> QED BY <1>3, <1>12, <1>13, <2>2 DEF b
<1> QED BY <1>1, <1>f, <1>14

\* A log is read back by decodeLog, without error.
LEMMA LogBack ==
  ASSUME NEW l \in Log
  PROVE  logBytes(l) \in Text /\ PartOK(logBytes(l)) /\ decodeLog(logBytes(l)) = l
<1> DEFINE tp == l.topics
           a1 == Raw(1, l.address)   a2 == Each(PutTopic, tp)   a3 == Raw(3, l.data)
           fs == a1 \o a2 \o a3
           ws == <<Bytes, Bytes, Bytes>>
           xs == <<One(l.address, << >>), tp, One(l.data, << >>)>>
<1>1. l \in [address : Addr, topics : Seq(Text), data : Text] /\ Short(logBytes(l))
  BY DEF Log
<1>2. l.address \in Addr /\ tp \in Seq(Text) /\ l.data \in Text
  BY <1>1
<1>3. l.address \in Text /\ Len(l.address) = AddrLen /\ l.address # << >>
  BY <1>2, CallConstantsOK DEF Addr
<1>4. Segment(a2, 2, Bytes, tp)
  <2>1. a2 = FlattenSeq([i \in 1 .. Len(tp) |-> RawAlways(2, tp[i])])
    BY DEF Each, PutTopic
  <2> HIDE DEF a2, tp
  <2> QED BY <1>2, <2>1, EachSegment
<1>5. Segment(a1, 1, Bytes, One(l.address, << >>)) /\ Segment(a3, 3, Bytes, One(l.data, << >>))
  BY <1>2, <1>3, RawSegment
<1>6. Segment(a1, 1, ws[1], xs[1]) /\ Segment(a2, 2, ws[2], xs[2]) /\ Segment(a3, 3, ws[3], xs[3])
  <2> HIDE DEF a1, a2, a3, tp
  <2> QED BY <1>4, <1>5
<1>7. Contents(fs, 3, ws, xs)
  <2> HIDE DEF a1, a2, a3, ws, xs
  <2>1. Contents(a1, 1, ws, xs)
    BY <1>6, ContentsFirst
  <2>2. Contents(a1 \o a2, 2, ws, xs)
    BY <1>6, <2>1, ContentsStep
  <2> QED BY <1>6, <2>2, ContentsStep
<1>8. fs \in Seq(OutField) /\ logBytes(l) = Put(fs)
  BY <1>7 DEF Contents, logBytes
<1> HIDE DEF fs
<1>9. All(fs, 1, Bytes) = <<l.address>> /\ All(fs, 2, Bytes) = tp /\ All(fs, 3, Bytes) = One(l.data, << >>)
  <2>1. /\ All(fs, 1, Bytes) = One(l.address, << >>) /\ All(fs, 2, Bytes) = tp
        /\ All(fs, 3, Bytes) = One(l.data, << >>)
    <3> HIDE DEF tp
    <3> QED BY <1>7 DEF Contents
  <2> QED BY <1>3, <2>1 DEF One
<1>f. Fields[logBytes(l)] = [ok |-> TRUE, fields |-> fs] /\ logBytes(l) \in Seq(Byte)
  BY <1>8, FieldsOfPut
<1>10. logBytes(l) \in Text /\ Fields[logBytes(l)].fields = fs /\ Fields[logBytes(l)].ok
  BY <1>1, <1>f DEF Text
<1>11. PartOK(logBytes(l))
  <2>1. AllAddr(fs, 1)
    BY <1>3, <1>9 DEF AllAddr, IsAddr
  <2> QED BY <1>10, <2>1 DEF PartOK
<1>12. AddrOf(fs) = l.address /\ RawOf(fs, 3) = l.data
  <2>1. AddrOf(fs) = l.address
    BY <1>9, LastOrSingle DEF AddrOf
  <2>2. RawOf(fs, 3) = l.data
    BY <1>9, LastOrOne DEF RawOf
  <2> QED BY <2>1, <2>2
<1>13. decodeLog(logBytes(l)) = [address |-> l.address, topics |-> l.topics, data |-> l.data]
  BY <1>9, <1>10, <1>12 DEF decodeLog
<1> QED BY <1>1, <1>10, <1>11, <1>13

\* A balance change is read back by decodeChange, without error.
LEMMA ChangeBack ==
  ASSUME NEW c \in Change
  PROVE  changeBytes(c) \in Text /\ PartOK(changeBytes(c)) /\ decodeChange(changeBytes(c)) = c
<1> DEFINE b == FillBytes(c.before, WordLen)   d == FillBytes(c.after, WordLen)
           a1 == Raw(1, c.address)   a2 == Raw(2, b)   a3 == Raw(3, d)
           fs == a1 \o a2 \o a3
           ws == <<Bytes, Bytes, Bytes>>
           xs == <<One(c.address, << >>), One(b, << >>), One(d, << >>)>>
<1>1. /\ c \in [address : Addr, before : Nat, after : Nat] /\ Short(changeBytes(c))
      /\ Fits(c.before) /\ Fits(c.after)
  BY DEF Change
<1>2. c.address \in Addr /\ c.before \in Nat /\ c.after \in Nat
  BY <1>1
<1>3. c.address \in Text /\ Len(c.address) = AddrLen /\ c.address # << >>
  BY <1>2, CallConstantsOK DEF Addr
<1>4. b \in Text /\ BigEndian[b] = c.before /\ d \in Text /\ BigEndian[d] = c.after
  BY <1>1, <1>2, WordBack
<1>5. Segment(a1, 1, ws[1], xs[1]) /\ Segment(a2, 2, ws[2], xs[2]) /\ Segment(a3, 3, ws[3], xs[3])
  <2>1. Segment(a1, 1, Bytes, One(c.address, << >>))
    BY <1>3, RawSegment
  <2>2. Segment(a2, 2, Bytes, One(b, << >>)) /\ Segment(a3, 3, Bytes, One(d, << >>))
    <3> HIDE DEF b, d
    <3> QED BY <1>4, RawSegment
  <2> HIDE DEF a1, a2, a3, b, d
  <2> QED BY <2>1, <2>2
<1>7. Contents(fs, 3, ws, xs)
  <2> HIDE DEF a1, a2, a3, ws, xs
  <2>1. Contents(a1, 1, ws, xs)
    BY <1>5, ContentsFirst
  <2>2. Contents(a1 \o a2, 2, ws, xs)
    BY <1>5, <2>1, ContentsStep
  <2> QED BY <1>5, <2>2, ContentsStep
<1>8. fs \in Seq(OutField) /\ changeBytes(c) = Put(fs)
  BY <1>7 DEF Contents, changeBytes
<1> HIDE DEF fs
<1>9. /\ All(fs, 1, Bytes) = <<c.address>> /\ All(fs, 2, Bytes) = One(b, << >>)
      /\ All(fs, 3, Bytes) = One(d, << >>)
  <2>1. /\ All(fs, 1, Bytes) = One(c.address, << >>) /\ All(fs, 2, Bytes) = One(b, << >>)
        /\ All(fs, 3, Bytes) = One(d, << >>)
    <3> HIDE DEF b, d
    <3> QED BY <1>7 DEF Contents
  <2> HIDE DEF b, d
  <2> QED BY <1>3, <2>1 DEF One
<1>f. Fields[changeBytes(c)] = [ok |-> TRUE, fields |-> fs] /\ changeBytes(c) \in Seq(Byte)
  BY <1>8, FieldsOfPut
<1>10. changeBytes(c) \in Text /\ Fields[changeBytes(c)].fields = fs /\ Fields[changeBytes(c)].ok
  BY <1>1, <1>f DEF Text
<1>11. PartOK(changeBytes(c))
  <2>1. AllAddr(fs, 1)
    BY <1>3, <1>9 DEF AllAddr, IsAddr
  <2> QED BY <1>10, <2>1 DEF PartOK
<1>12. AddrOf(fs) = c.address /\ RawOf(fs, 2) = b /\ RawOf(fs, 3) = d
  <2>1. AddrOf(fs) = c.address
    BY <1>9, LastOrSingle DEF AddrOf
  <2> HIDE DEF b, d
  <2>2. RawOf(fs, 2) = b /\ RawOf(fs, 3) = d
    BY <1>9, LastOrOne DEF RawOf
  <2> QED BY <2>1, <2>2
<1>13. decodeChange(changeBytes(c)) = [address |-> c.address, before |-> c.before, after |-> c.after]
  <2> HIDE DEF b, d
  <2> QED BY <1>4, <1>10, <1>12 DEF decodeChange
<1> QED BY <1>1, <1>10, <1>11, <1>13

\* A response is read back by Decode, whatever fields of other numbers follow.
LEMMA ResponseBack ==
  ASSUME NEW v \in Response, NEW more \in Seq(Byte), Fields[more].ok,
         \A i \in 1 .. Len(Fields[more].fields) : Fields[more].fields[i].num \notin 1 .. 8
  PROVE  PutResponse(v) \o more \in Seq(Byte) /\ Decode(PutResponse(v) \o more) = Is(v)
<1> DEFINE lo == v.logs   ch == v.changes
           ll == [i \in 1 .. Len(lo) |-> logBytes(lo[i])]
           cl == [i \in 1 .. Len(ch) |-> changeBytes(ch[i])]
           a1 == Uint(1, v.outcome)   a2 == Uint(2, v.gasUsed)   a3 == Raw(3, v.output)
           a4 == Raw(4, v.reason)     a5 == Each(PutLog, lo)     a6 == Each(PutChange, ch)
           a7 == Uint(7, v.elapsed)   a8 == Raw(8, v.created)
           fs == a1 \o a2 \o a3 \o a4 \o a5 \o a6 \o a7 \o a8
           ws == <<Varint, Varint, Bytes, Bytes, Bytes, Bytes, Varint, Bytes>>
           xs == <<One(v.outcome, 0), One(v.gasUsed, 0), One(v.output, << >>), One(v.reason, << >>),
                   ll, cl, One(v.elapsed, 0), One(v.created, << >>)>>
           new == Fields[more].fields
           gs == fs \o new
           m == PutResponse(v) \o more
<1>1. v \in [outcome : 1 .. 3, gasUsed : UInt, output : Text, reason : Text, logs : Seq(Log),
             changes : Seq(Change), elapsed : UInt, created : Addr \union {<< >>}]
  BY DEF Response
<1>2. /\ v.outcome \in 1 .. 3 /\ v.gasUsed \in UInt /\ v.output \in Text /\ v.reason \in Text
      /\ lo \in Seq(Log) /\ ch \in Seq(Change) /\ v.elapsed \in UInt /\ v.created \in Addr \union {<< >>}
  BY <1>1
<1>3. /\ v.outcome \in UInt
      /\ v.created \in Text /\ (v.created # << >> => Len(v.created) = AddrLen)
  <2>1. v.outcome \in UInt
    BY <1>2, MessagesOK, GroupFacts DEF UInt, Bytes
  <2>2. << >> \in Text
    BY WireConstantsOK, GroupFacts, EmptySeq DEF Text, Short, UInt
  <2> QED BY <1>2, <2>1, <2>2 DEF Addr
<1>4. /\ Len(lo) \in Nat
      /\ \A i \in 1 .. Len(lo) : logBytes(lo[i]) \in Text /\ PartOK(logBytes(lo[i])) /\ decodeLog(logBytes(lo[i])) = lo[i]
  <2>1. Len(lo) \in Nat /\ \A i \in 1 .. Len(lo) : lo[i] \in Log
    BY <1>2, ElementOfSeq, LenProperties
  <2> HIDE DEF lo
  <2> QED BY <2>1, LogBack
<1>5. /\ Len(ch) \in Nat
      /\ \A i \in 1 .. Len(ch) : /\ changeBytes(ch[i]) \in Text /\ PartOK(changeBytes(ch[i]))
                                 /\ decodeChange(changeBytes(ch[i])) = ch[i]
  <2>1. Len(ch) \in Nat /\ \A i \in 1 .. Len(ch) : ch[i] \in Change
    BY <1>2, ElementOfSeq, LenProperties
  <2> HIDE DEF ch
  <2> QED BY <2>1, ChangeBack
<1>6. ll \in Seq(Text) /\ Len(ll) = Len(lo) /\ \A i \in 1 .. Len(lo) : ll[i] = logBytes(lo[i])
  <2> HIDE DEF lo
  <2> QED BY <1>4
<1>7. cl \in Seq(Text) /\ Len(cl) = Len(ch) /\ \A i \in 1 .. Len(ch) : cl[i] = changeBytes(ch[i])
  <2> HIDE DEF ch
  <2> QED BY <1>5
<1>8. Segment(a5, 5, Bytes, ll)
  <2>1. [i \in 1 .. Len(lo) |-> PutLog(lo[i])] = [i \in 1 .. Len(ll) |-> RawAlways(5, ll[i])]
    <3> HIDE DEF lo, ll
    <3> QED BY <1>6 DEF PutLog
  <2>2. a5 = FlattenSeq([i \in 1 .. Len(ll) |-> RawAlways(5, ll[i])])
    BY <2>1 DEF Each
  <2> HIDE DEF a5, ll
  <2> QED BY <1>6, <2>2, EachSegment
<1>9. Segment(a6, 6, Bytes, cl)
  <2>1. [i \in 1 .. Len(ch) |-> PutChange(ch[i])] = [i \in 1 .. Len(cl) |-> RawAlways(6, cl[i])]
    <3> HIDE DEF ch, cl
    <3> QED BY <1>7 DEF PutChange
  <2>2. a6 = FlattenSeq([i \in 1 .. Len(cl) |-> RawAlways(6, cl[i])])
    BY <2>1 DEF Each
  <2> HIDE DEF a6, cl
  <2> QED BY <1>7, <2>2, EachSegment
<1>10. /\ Segment(a1, 1, Varint, One(v.outcome, 0)) /\ Segment(a2, 2, Varint, One(v.gasUsed, 0))
       /\ Segment(a3, 3, Bytes, One(v.output, << >>)) /\ Segment(a4, 4, Bytes, One(v.reason, << >>))
       /\ Segment(a7, 7, Varint, One(v.elapsed, 0)) /\ Segment(a8, 8, Bytes, One(v.created, << >>))
  BY <1>2, <1>3, RawSegment, UintSegment
<1>11. /\ Segment(a1, 1, ws[1], xs[1]) /\ Segment(a2, 2, ws[2], xs[2]) /\ Segment(a3, 3, ws[3], xs[3])
       /\ Segment(a4, 4, ws[4], xs[4]) /\ Segment(a5, 5, ws[5], xs[5]) /\ Segment(a6, 6, ws[6], xs[6])
       /\ Segment(a7, 7, ws[7], xs[7]) /\ Segment(a8, 8, ws[8], xs[8])
  <2> HIDE DEF a1, a2, a3, a4, a5, a6, a7, a8, ll, cl
  <2> QED BY <1>8, <1>9, <1>10
<1>12. Contents(fs, 8, ws, xs)
  <2> HIDE DEF a1, a2, a3, a4, a5, a6, a7, a8, ws, xs
  <2>1. Contents(a1, 1, ws, xs)
    BY <1>11, ContentsFirst
  <2>2. Contents(a1 \o a2, 2, ws, xs)
    BY <1>11, <2>1, ContentsStep
  <2>3. Contents(a1 \o a2 \o a3, 3, ws, xs)
    BY <1>11, <2>2, ContentsStep
  <2>4. Contents(a1 \o a2 \o a3 \o a4, 4, ws, xs)
    BY <1>11, <2>3, ContentsStep
  <2>5. Contents(a1 \o a2 \o a3 \o a4 \o a5, 5, ws, xs)
    BY <1>11, <2>4, ContentsStep
  <2>6. Contents(a1 \o a2 \o a3 \o a4 \o a5 \o a6, 6, ws, xs)
    BY <1>11, <2>5, ContentsStep
  <2>7. Contents(a1 \o a2 \o a3 \o a4 \o a5 \o a6 \o a7, 7, ws, xs)
    BY <1>11, <2>6, ContentsStep
  <2> QED BY <1>11, <2>7, ContentsStep
<1>13. fs \in Seq(OutField) /\ PutResponse(v) = Put(fs)
  BY <1>12 DEF Contents, PutResponse
<1> HIDE DEF fs
<1>14. fs \in Seq(AnyField) /\ new \in Seq(AnyField) /\ gs \in Seq(AnyField)
  <2>1. fs \in Seq(AnyField)
    BY <1>13, SeqMonotonic DEF OutField
  <2>2. new \in Seq(AnyField)
    BY FieldsDef DEF Parsed
  <2> QED BY <2>1, <2>2, ConcatProperties
<1>15. m \in Seq(Byte) /\ Fields[m] = [ok |-> TRUE, fields |-> gs]
  <2> DEFINE a == Put(fs)
  <2>1. a \in Seq(Byte) /\ m = a \o more
    BY <1>13, PutFacts
  <2>2. Fields[a \o more] = [ok |-> TRUE, fields |-> gs]
    BY <1>13, FieldsPut
  <2> HIDE DEF a, m, gs
  <2>3. a \o more \in Seq(Byte)
    BY <2>1, ConcatProperties
  <2> QED BY <2>1, <2>2, <2>3
<1>16. \A k \in 1 .. 8 : All(gs, k, ws[k]) = xs[k]
  <2> SUFFICES ASSUME NEW k \in 1 .. 8 PROVE All(gs, k, ws[k]) = xs[k]
    OBVIOUS
  <2> DEFINE wire == ws[k]
             a == All(fs, k, wire)
  <2> HIDE DEF ws, xs, new, wire
  <2>1. a \in Seq(Vals) /\ All(gs, k, wire) = a \o All(new, k, wire)
    BY <1>14, AllConcat
  <2>2. All(new, k, wire) = << >>
    <3>1. \A i \in 1 .. Len(new) : new[i].num # k
      BY DEF new
    <3> QED BY <1>14, <3>1, AllOfNone
  <2>3. a = xs[k]
    BY <1>12 DEF Contents, wire
  <2> HIDE DEF a
  <2>4. a \o << >> = a
    BY <2>1, ConcatEmptySeq
  <2> QED BY <2>1, <2>2, <2>3, <2>4 DEF wire
<1> HIDE DEF gs
<1>17. /\ All(gs, 1, Varint) = One(v.outcome, 0) /\ All(gs, 2, Varint) = One(v.gasUsed, 0)
       /\ All(gs, 3, Bytes) = One(v.output, << >>) /\ All(gs, 4, Bytes) = One(v.reason, << >>)
       /\ All(gs, 5, Bytes) = ll /\ All(gs, 6, Bytes) = cl /\ All(gs, 7, Varint) = One(v.elapsed, 0)
       /\ All(gs, 8, Bytes) = One(v.created, << >>)
  <2>1. /\ All(gs, 1, ws[1]) = xs[1] /\ All(gs, 2, ws[2]) = xs[2] /\ All(gs, 3, ws[3]) = xs[3]
        /\ All(gs, 4, ws[4]) = xs[4] /\ All(gs, 5, ws[5]) = xs[5] /\ All(gs, 6, ws[6]) = xs[6]
        /\ All(gs, 7, ws[7]) = xs[7] /\ All(gs, 8, ws[8]) = xs[8]
    <3> HIDE DEF ws, xs
    <3> QED BY <1>16
  <2> HIDE DEF ll, cl
  <2> QED BY <2>1
<1>18. /\ UintOf(gs, 2) = v.gasUsed /\ RawOf(gs, 3) = v.output /\ RawOf(gs, 4) = v.reason
       /\ UintOf(gs, 7) = v.elapsed /\ RawOf(gs, 8) = v.created
  BY <1>17, LastOrOne DEF UintOf, RawOf
<1>19. All(gs, 1, Varint) = <<v.outcome>>
  <2>1. v.outcome # 0
    BY <1>2
  <2> QED BY <1>17, <2>1 DEF One
<1>20. AllParts(gs, 5) /\ AllParts(gs, 6)
  <2>1. \A i \in 1 .. Len(ll) : PartOK(ll[i])
    <3> HIDE DEF ll
    <3> QED BY <1>4, <1>6
  <2>2. \A i \in 1 .. Len(cl) : PartOK(cl[i])
    <3> HIDE DEF cl
    <3> QED BY <1>5, <1>7
  <2> HIDE DEF ll, cl
  <2> QED BY <1>17, <2>1, <2>2 DEF AllParts
<1>21. AllAddr(gs, 8)
  <2>1. All(gs, 8, Bytes) = One(v.created, << >>)
    BY <1>17
  <2>2. CASE v.created = << >>
    BY <2>1, <2>2 DEF AllAddr, One
  <2>3. CASE v.created # << >>
    BY <1>3, <2>1, <2>3 DEF AllAddr, One, IsAddr
  <2> QED BY <2>2, <2>3
<1>22. [i \in 1 .. Len(ll) |-> decodeLog(ll[i])] = lo
  <2>1. lo = [i \in 1 .. Len(lo) |-> lo[i]]
    BY <1>2, LenProperties
  <2>2. \A i \in 1 .. Len(lo) : decodeLog(ll[i]) = lo[i]
    BY <1>4, <1>6
  <2> HIDE DEF lo, ll
  <2> QED BY <1>6, <2>1, <2>2
<1>23. [i \in 1 .. Len(cl) |-> decodeChange(cl[i])] = ch
  <2>1. ch = [i \in 1 .. Len(ch) |-> ch[i]]
    BY <1>2, LenProperties
  <2>2. \A i \in 1 .. Len(ch) : decodeChange(cl[i]) = ch[i]
    BY <1>5, <1>7
  <2> HIDE DEF ch, cl
  <2> QED BY <1>7, <2>1, <2>2
<1> DEFINE o == <<v.outcome>>
           R == [outcome |-> Last(o), gasUsed |-> UintOf(gs, 2), output |-> RawOf(gs, 3),
                 reason |-> RawOf(gs, 4), elapsed |-> UintOf(gs, 7), created |-> RawOf(gs, 8),
                 logs |-> [i \in 1 .. Len(ll) |-> decodeLog(ll[i])],
                 changes |-> [i \in 1 .. Len(cl) |-> decodeChange(cl[i])]]
<1>24. Last(o) = v.outcome /\ o # << >> /\ \A i \in 1 .. Len(o) : o[i] \in 1 .. 3
  BY <1>2 DEF Last
<1>25. R = v
  <2> HIDE DEF ll, cl, o
  <2>1. R = [outcome |-> v.outcome, gasUsed |-> v.gasUsed, output |-> v.output, reason |-> v.reason,
             elapsed |-> v.elapsed, created |-> v.created, logs |-> v.logs, changes |-> v.changes]
    BY <1>18, <1>22, <1>23, <1>24
  <2> HIDE DEF R
  <2> QED BY <1>1, <2>1
<1>26. Decode(m) = Is(R)
  <2>1. Fields[m].ok /\ Fields[m].fields = gs
    BY <1>15
  <2> HIDE DEF m, ll, cl, o
  <2>2. All(gs, 1, Varint) = o /\ All(gs, 5, Bytes) = ll /\ All(gs, 6, Bytes) = cl
    BY <1>17, <1>19 DEF o
  <2> QED BY <1>20, <1>21, <1>24, <2>1, <2>2 DEF Decode
<1> HIDE DEF R, m
<1>27. m \in Seq(Byte) /\ Decode(m) = Is(v)
  BY <1>15, <1>25, <1>26
<1> QED BY <1>27 DEF m

-----------------------------------------------------------------------------
\* The parts of a frame.
LEMMA FrameFacts ==
  ASSUME NEW s \in Seq(Byte)
  PROVE  /\ Frame(s) \in Seq(Byte) /\ Len(Frame(s)) = Header + Len(s)
         /\ Header \in Nat /\ Header > 1
         /\ Frame(s)[1] = 0
         /\ \A i \in 2 .. Header : Frame(s)[i] = FillBytes(Len(s), LenBytes)[i - 1]
         /\ Drop(Frame(s), Header) = s
<1> DEFINE n == Len(s)   L == LenBytes   d == FillBytes(n, L)   z == <<0>>   h == z \o d
<1>1. n \in Nat /\ L \in Nat \ {0}
  BY CallConstantsOK, LenProperties
<1>2. d \in Seq(Byte) /\ Len(d) = L
  BY <1>1, BytesBack
<1>3. z \in Seq(Byte) /\ Len(z) = 1 /\ z[1] = 0
  BY GroupFacts DEF Byte
<1>4. Header = 1 + L /\ Header \in Nat /\ Header > 1
  BY <1>1 DEF Header
<1>5. Frame(s) = h \o s
  BY DEF Frame
<1> HIDE DEF d, z, n, L
<1>6. /\ h \in Seq(Byte) /\ Len(h) = Header
      /\ \A i \in 1 .. Header : h[i] = IF i <= 1 THEN z[i] ELSE d[i - 1]
  <2>1. /\ h \in Seq(Byte) /\ Len(h) = Len(z) + Len(d)
        /\ \A i \in 1 .. Len(z) + Len(d) : h[i] = IF i <= Len(z) THEN z[i] ELSE d[i - Len(z)]
    BY <1>2, <1>3, ConcatProperties
  <2> HIDE DEF h
  <2>2. Len(z) + Len(d) = Header
    BY <1>2, <1>3, <1>4
  <2> QED BY <1>3, <2>1, <2>2
<1> HIDE DEF h
<1>7. /\ h \o s \in Seq(Byte) /\ Len(h \o s) = Header + Len(s)
      /\ \A i \in 1 .. Header + Len(s) : (h \o s)[i] = IF i <= Header THEN h[i] ELSE s[i - Header]
  BY <1>6, ConcatProperties
<1>8. Drop(h \o s, Len(h)) = s
  BY <1>6, DropConcat
<1>9. \A i \in 1 .. Header : (h \o s)[i] = h[i]
  BY <1>1, <1>4, <1>7 DEF n
<1>10. (h \o s)[1] = 0
  BY <1>3, <1>4, <1>6, <1>9
<1>11. \A i \in 2 .. Header : (h \o s)[i] = d[i - 1]
  BY <1>4, <1>6, <1>9
<1> QED BY <1>4, <1>5, <1>6, <1>7, <1>8, <1>10, <1>11 DEF d, n, L

\* Part of a frame is no frame; a frame gives its message unless it is too large.
LEMMA UnframeCut ==
  ASSUME NEW s \in Seq(Byte), Len(s) < Values(LenBytes), NEW k \in 0 .. Len(Frame(s))
  PROVE  LET u == Unframe(SubSeq(Frame(s), 1, k))
         IN  /\ u = Failed \/ (k = Len(Frame(s)) /\ u = Is(s))
             /\ k = Len(Frame(s)) /\ Len(s) <= MaxMessage => u = Is(s)
<1> DEFINE F == Frame(s)   b == SubSeq(F, 1, k)   n == BigEndian[SubSeq(b, 2, Header)]
<1>1. /\ F \in Seq(Byte) /\ Len(F) = Header + Len(s) /\ Header \in Nat /\ Header > 1 /\ Len(s) \in Nat
      /\ F[1] = 0 /\ (\A i \in 2 .. Header : F[i] = FillBytes(Len(s), LenBytes)[i - 1]) /\ Drop(F, Header) = s
  BY FrameFacts, LenProperties
<1> HIDE DEF F
<1>k. k \in Nat /\ k <= Len(F)
  BY <1>1 DEF F
<1>2. b \in Seq(Byte) /\ Len(b) = k /\ \A i \in 1 .. k : b[i] = F[i]
  <2>1. k \in Int /\ \A i \in 1 .. k : F[i] \in Byte
    BY <1>1, <1>k
  <2>2. /\ b \in Seq(Byte) /\ Len(b) = IF 1 <= k THEN k - 1 + 1 ELSE 0
        /\ \A i \in 1 .. k - 1 + 1 : b[i] = F[1 + i - 1]
    BY <2>1, SubSeqProperties
  <2> HIDE DEF b
  <2> QED BY <1>k, <2>2
<1>3. CASE k < Header
  <2> HIDE DEF b
  <2>1. Unframe(b) = Failed
    BY <1>2, <1>3 DEF Unframe
  <2>2. k # Len(F)
    BY <1>1, <1>3, <1>k
  <2> QED BY <2>1, <2>2 DEF b, F
<1>4. CASE k >= Header
  <2> HIDE DEF b
  <2>1. Len(b) >= Header /\ b[1] = 0
    BY <1>1, <1>2, <1>4, <1>k
  <2>2. SubSeq(b, 2, Header) = FillBytes(Len(s), LenBytes)
    <3> DEFINE e == SubSeq(b, 2, Header)   d == FillBytes(Len(s), LenBytes)
    <3>1. Header = 1 + LenBytes /\ LenBytes \in Nat \ {0}
      BY CallConstantsOK DEF Header
    <3>2. Header \in Int /\ \A i \in 2 .. Header : b[i] \in Byte
      BY <1>1, <1>2, <1>4, <1>k
    <3>3. /\ e \in Seq(Byte) /\ Len(e) = IF 2 <= Header THEN Header - 2 + 1 ELSE 0
          /\ \A i \in 1 .. Header - 2 + 1 : e[i] = b[2 + i - 1]
      BY <3>2, SubSeqProperties
    <3>4. d \in Seq(Byte) /\ Len(d) = LenBytes
      BY <1>1, <3>1, BytesBack
    <3> HIDE DEF e, d
    <3>5. Len(e) = LenBytes
      BY <3>1, <3>3
    <3>6. ASSUME NEW i \in 1 .. LenBytes PROVE e[i] = d[i]
      <4>1. e[i] = b[i + 1]
        BY <3>1, <3>3
      <4>2. i + 1 \in 2 .. Header /\ i + 1 \in 1 .. k /\ (i + 1) - 1 = i
        BY <1>4, <1>k, <3>1
      <4>3. b[i + 1] = F[i + 1] /\ F[i + 1] = d[i]
        BY <1>1, <1>2, <4>2 DEF d
      <4> QED BY <4>1, <4>3
    <3> QED BY <3>3, <3>4, <3>5, <3>6, SeqEqual DEF e, d
  <2>3. n = Len(s)
    BY <1>1, <2>2, BytesBack, CallConstantsOK
  <2>4. Unframe(b) = IF n > MaxMessage \/ n # Len(b) - Header THEN Failed ELSE Is(Drop(b, Header))
    BY <2>1, <1>1, <1>2, <1>k DEF Unframe
  <2> HIDE DEF n
  <2>5. CASE k = Len(F)
    <3>1. b = F
      BY <1>1, <2>5, SubSeqFull DEF b
    <3>2. Len(b) - Header = Len(s)
      BY <1>1, <3>1
    <3>3. Unframe(b) = IF Len(s) > MaxMessage THEN Failed ELSE Is(s)
      BY <1>1, <2>3, <2>4, <3>1, <3>2
    <3>4. MaxMessage \in Int
      BY CallConstantsOK, PlaceFacts
    <3>5. Len(s) <= MaxMessage => ~(Len(s) > MaxMessage)
      BY <1>1, <3>4
    <3> QED BY <2>5, <3>3, <3>5 DEF b, F
  <2>6. CASE k # Len(F)
    <3>1. n # Len(b) - Header
      BY <1>1, <1>2, <1>k, <2>3, <2>6
    <3>2. Unframe(b) = Failed
      BY <2>4, <3>1
    <3> QED BY <2>6, <3>2 DEF b, F
  <2> QED BY <2>5, <2>6
<1> QED BY <1>1, <1>3, <1>4, <1>k

\* What Simulate makes of an answer, cut off wherever: the response of the engine or
\* an error, and the response if all of it is there.
LEMMA SimulateCut ==
  ASSUME NEW v \in Responses, NEW more \in Newer, NEW status, NEW ok \in BOOLEAN,
         NEW n \in 0 .. Len(Frame(PutResponse(v) \o more))
  PROVE  LET F == Frame(PutResponse(v) \o more)
             r == Simulate(SubSeq(F, 1, n), status, ok)
         IN  /\ r = Failed \/ r = Is(v)
             /\ ok /\ status = 0 /\ n = Len(F) /\ Len(F) <= MaxMessage + Header => r = Is(v)
<1> DEFINE s == PutResponse(v) \o more   F == Frame(s)   b == SubSeq(F, 1, n)
           c == MaxMessage + Header + 1
           k == IF n > c THEN c ELSE n
           u == Unframe(SubSeq(F, 1, k))
<1>1. s \in Seq(Byte) /\ Decode(s) = Is(v) /\ Len(s) < Values(LenBytes)
  <2>1. /\ v \in Response /\ more \in Seq(Byte) /\ Fields[more].ok
        /\ \A i \in 1 .. Len(Fields[more].fields) : Fields[more].fields[i].num \notin 1 .. 8
        /\ Len(s) < Values(LenBytes)
    BY MessagesOK
  <2> QED BY <2>1, ResponseBack
<1> HIDE DEF s
<1>2. /\ F \in Seq(Byte) /\ Len(F) = Header + Len(s) /\ Header \in Nat /\ Len(s) \in Nat /\ MaxMessage \in Nat
  BY <1>1, FrameFacts, LenProperties, CallConstantsOK, PlaceFacts
<1>n. n \in Nat /\ n <= Len(F)
  BY <1>2 DEF s
<1>3. c \in Nat /\ k \in 0 .. Len(F) /\ k <= n
  BY <1>2, <1>n
<1>4. /\ u = Failed \/ (k = Len(F) /\ u = Is(s))
      /\ k = Len(F) /\ Len(s) <= MaxMessage => u = Is(s)
  <2> HIDE DEF k
  <2> QED BY <1>1, <1>3, UnframeCut
<1> HIDE DEF F
<1>5. Limited(b) = SubSeq(F, 1, k)
  <2>1. n \in Int /\ (\A i \in 1 .. n : F[i] \in Byte) /\ c \in Int
    BY <1>2, <1>n
  <2>2. /\ b \in Seq(Byte) /\ Len(b) = n /\ \A i \in 1 .. n : b[i] = F[i]
    <3>1. /\ b \in Seq(Byte) /\ Len(b) = IF 1 <= n THEN n - 1 + 1 ELSE 0
          /\ \A i \in 1 .. n - 1 + 1 : b[i] = F[1 + i - 1]
      BY <2>1, SubSeqProperties
    <3> HIDE DEF b
    <3> QED BY <1>n, <3>1
  <2>3. CASE ~(n > c)
    BY <2>2, <2>3 DEF Limited
  <2>4. CASE n > c
    <3>1. Limited(b) = SubSeq(b, 1, c) /\ k = c
      BY <2>2, <2>4 DEF Limited
    <3>2. SubSeq(b, 1, c) = SubSeq(F, 1, c)
      <4> HIDE DEF b, c
      <4>1. \A i \in 1 .. c : b[i] \in Byte /\ F[i] \in Byte /\ b[i] = F[i]
        BY <1>3, <1>n, <2>1, <2>2, <2>4
      <4>2. /\ SubSeq(b, 1, c) \in Seq(Byte) /\ Len(SubSeq(b, 1, c)) = IF 1 <= c THEN c - 1 + 1 ELSE 0
            /\ \A i \in 1 .. c - 1 + 1 : SubSeq(b, 1, c)[i] = b[1 + i - 1]
        BY <2>1, <4>1, SubSeqProperties
      <4>3. /\ SubSeq(F, 1, c) \in Seq(Byte) /\ Len(SubSeq(F, 1, c)) = IF 1 <= c THEN c - 1 + 1 ELSE 0
            /\ \A i \in 1 .. c - 1 + 1 : SubSeq(F, 1, c)[i] = F[1 + i - 1]
        BY <2>1, <4>1, SubSeqProperties
      <4> DEFINE x == SubSeq(b, 1, c)   y == SubSeq(F, 1, c)
      <4> HIDE DEF x, y
      <4>4. Len(x) = Len(y) /\ Len(x) = c /\ \A i \in 1 .. c : x[i] = y[i]
        BY <1>3, <4>1, <4>2, <4>3 DEF x, y
      <4> QED BY <4>2, <4>3, <4>4, SeqEqual DEF x, y
    <3> QED BY <3>1, <3>2
  <2> QED BY <2>3, <2>4
<1> DEFINE r == Simulate(b, status, ok)
<1>6. r = IF ~ok \/ status # 0 THEN Failed ELSE IF u = Failed THEN Failed ELSE Decode(u.val)
  <2> HIDE DEF b, u, k
  <2>1. Unframe(Limited(b)) = u
    BY <1>5 DEF u
  <2> QED BY <2>1 DEF Simulate
<1>7. Is(s) # Failed /\ Is(s).val = s
  BY DEF Is, Failed
<1> HIDE DEF u, r
<1>8. r = Failed \/ r = Is(v)
  BY <1>1, <1>4, <1>6, <1>7
<1>9. ASSUME ok, status = 0, n = Len(F), Len(F) <= MaxMessage + Header PROVE r = Is(v)
  <2>1. k = Len(F) /\ Len(s) <= MaxMessage
    BY <1>2, <1>n, <1>9
  <2>2. u = Is(s)
    BY <1>4, <2>1
  <2> QED BY <1>1, <1>6, <1>7, <1>9, <2>2
<1> QED BY <1>8, <1>9 DEF r, F, s

-----------------------------------------------------------------------------
\* The inductive invariant: what is on the wire in each state of the call.  While the
\* frame of the request is under way it is that of request; the answer is that of
\* reply, then a prefix of it, all of it if nothing happened.
Asked == \E r \in Requests : RequestFits(r) /\ request = Is(r) /\ frame = Frame(Encode(r))
OnTheWay ==
    \/ \E v \in Responses, more \in Newer :
        reply = Is(v) /\ frame = Frame(PutResponse(v) \o more) /\ trailer = 0
    \/ reply = Failed /\ trailer # 0
Cut(F) ==
    \E n \in 0 .. Len(F) :
        /\ frame = SubSeq(F, 1, n)
        /\ whole => n = Len(F) /\ trailer = 0 /\ httpOK
Arrived ==
    \/ \E v \in Responses, more \in Newer : reply = Is(v) /\ Cut(Frame(PutResponse(v) \o more))
    \/ reply = Failed /\ trailer # 0
CallInv ==
    /\ pc \in {"idle", "sent", "answered", "arrived", "returned"}
    /\ httpOK \in BOOLEAN
    /\ seen = Nothing \/ seen = request
    /\ pc = "idle" => seen = Nothing
    /\ pc \in {"idle", "sent"} => reply = Nothing
    /\ pc # "returned" => result = Nothing
    /\ pc = "sent" => Asked
    /\ pc = "answered" => OnTheWay
    /\ pc = "arrived" => Arrived
    /\ pc = "returned" => (result = Failed \/ result = reply) /\ WholeResultReturned

\* The values of the call are told apart by their kind.
LEMMA Kinds ==
  /\ Nothing.kind = "nothing" /\ Failed.kind = "error"
  /\ \A v : Is(v).kind = "value" /\ Is(v) # Nothing /\ Is(v) # Failed
  /\ Nothing # Failed
<1>1. Nothing.kind = "nothing" /\ Failed.kind = "error"
  BY DEF Nothing, Failed
<1>2. \A v : Is(v).kind = "value"
  BY DEF Is
<1> QED BY <1>1, <1>2

\* A call that has not begun satisfies the invariant.
LEMMA CallInvInit == Init => CallInv
  BY DEF Init, CallInv

\* Each step preserves the invariant.
LEMMA CallInvNext == CallInv /\ [Next]_vars => CallInv'
<1> SUFFICES ASSUME CallInv, [Next]_vars PROVE CallInv'
  OBVIOUS
<1>1. ASSUME NEW r \in Requests, EncodeFails(r) PROVE CallInv'
  <2>1. reply' = Nothing /\ seen' = Nothing /\ pc' = "returned" /\ result' = Failed /\ httpOK' \in BOOLEAN
    BY <1>1 DEF EncodeFails, CallInv
  <2>2. WholeResultReturned'
    BY <2>1, Kinds DEF WholeResultReturned
  <2> QED BY <2>1, <2>2 DEF CallInv
<1>2. ASSUME NEW r \in Requests, Call(r) PROVE CallInv'
  <2>1. /\ reply' = Nothing /\ seen' = Nothing /\ pc' = "sent" /\ result' = Nothing /\ httpOK' \in BOOLEAN
        /\ request' = Is(r) /\ frame' = Frame(Encode(r)) /\ RequestFits(r)
    BY <1>2 DEF Call, CallInv
  <2>2. Asked'
    BY <2>1 DEF Asked
  <2> QED BY <2>1, <2>2 DEF CallInv
<1>3. ASSUME Answer PROVE CallInv'
  <2>1. pc = "sent" /\ pc' = "answered" /\ httpOK' \in BOOLEAN /\ result' = Nothing /\ request' = request
    BY <1>3 DEF Answer, CallInv
  <2>2. PICK r \in Requests : RequestFits(r) /\ request = Is(r) /\ frame = Frame(Encode(r))
    BY <2>1 DEF CallInv, Asked
  <2>3. seen' = request'
    <3>1. r \in Request
      BY MessagesOK
    <3>2. Encode(r) \in Seq(Byte) /\ RequestOf(Encode(r)) = r
      BY <2>2, <3>1, RequestBack
    <3>3. Drop(Frame(Encode(r)), Header) = Encode(r)
      BY <3>2, FrameFacts
    <3>4. seen' = Is(RequestOf(Drop(frame, Header)))
      BY <1>3 DEF Answer
    <3> QED BY <2>1, <2>2, <3>2, <3>3, <3>4
  <2>4. OnTheWay'
    <3>1. CASE \E v \in Responses, more \in Newer :
                 reply' = Is(v) /\ frame' = Frame(PutResponse(v) \o more) /\ trailer' = 0
      BY <3>1 DEF OnTheWay
    <3>2. CASE \E s \in Statuses : reply' = Failed /\ frame' = << >> /\ trailer' = s
      BY <3>2, CallConstantsOK DEF OnTheWay
    <3> QED BY <1>3, <3>1, <3>2 DEF Answer
  <2> QED BY <2>1, <2>3, <2>4 DEF CallInv
<1>4. ASSUME Arrive PROVE CallInv'
  <2>1. /\ pc = "answered" /\ pc' = "arrived" /\ result' = Nothing /\ request' = request /\ seen' = seen
        /\ reply' = reply
    BY <1>4 DEF Arrive, CallInv
  <2>2. PICK n \in 0 .. Len(frame), t \in {trailer, NoTrailer}, ok \in BOOLEAN :
          /\ frame' = SubSeq(frame, 1, n) /\ trailer' = t /\ httpOK' = ok
          /\ whole' = (n = Len(frame) /\ t = trailer /\ ok)
    BY <1>4 DEF Arrive
  <2>3. Arrived'
    <3>1. CASE \E v \in Responses, more \in Newer :
                 reply = Is(v) /\ frame = Frame(PutResponse(v) \o more) /\ trailer = 0
      <4>1. PICK v \in Responses, more \in Newer :
              reply = Is(v) /\ frame = Frame(PutResponse(v) \o more) /\ trailer = 0
        BY <3>1
      <4>2. whole' => n = Len(frame) /\ trailer' = 0 /\ httpOK'
        BY <2>2, <4>1
      <4>3. Cut(Frame(PutResponse(v) \o more))'
        BY <2>2, <4>1, <4>2 DEF Cut
      <4> QED BY <2>1, <4>1, <4>3 DEF Arrived
    <3>2. CASE reply = Failed /\ trailer # 0
      BY <2>1, <2>2, <3>2 DEF Arrived, NoTrailer
    <3> QED BY <2>1, <3>1, <3>2 DEF CallInv, OnTheWay
  <2> QED BY <2>1, <2>2, <2>3 DEF CallInv
<1>5. ASSUME Return PROVE CallInv'
  <2>1. /\ pc = "arrived" /\ pc' = "returned" /\ result' = Simulate(frame, trailer, httpOK)
        /\ request' = request /\ seen' = seen /\ reply' = reply /\ frame' = frame /\ httpOK' = httpOK
        /\ whole' = whole /\ httpOK \in BOOLEAN
    BY <1>5 DEF Return, CallInv
  <2>2. (result' = Failed \/ result' = reply') /\ WholeResultReturned'
    <3>1. CASE \E v \in Responses, more \in Newer : reply = Is(v) /\ Cut(Frame(PutResponse(v) \o more))
      <4>1. PICK v \in Responses, more \in Newer : reply = Is(v) /\ Cut(Frame(PutResponse(v) \o more))
        BY <3>1
      <4> DEFINE F == Frame(PutResponse(v) \o more)
      <4>2. PICK n \in 0 .. Len(F) :
              frame = SubSeq(F, 1, n) /\ (whole => n = Len(F) /\ trailer = 0 /\ httpOK)
        BY <4>1 DEF Cut
      <4>3. LET r == Simulate(SubSeq(F, 1, n), trailer, httpOK)
            IN  /\ r = Failed \/ r = Is(v)
                /\ httpOK /\ trailer = 0 /\ n = Len(F) /\ Len(F) <= MaxMessage + Header => r = Is(v)
        BY <2>1, SimulateCut
      <4>4. F \in Seq(Byte)
        <5>1. PutResponse(v) \o more \in Seq(Byte)
          BY MessagesOK, ResponseBack
        <5> QED BY <5>1, FrameFacts
      <4> HIDE DEF F
      <4>5. n = Len(F) => frame = F
        BY <4>2, <4>4, SubSeqFull
      <4>6. result' = Failed \/ result' = reply'
        BY <2>1, <4>1, <4>2, <4>3
      <4>7. ASSUME whole, Len(frame) <= MaxMessage + Header PROVE result' = reply'
        BY <2>1, <4>1, <4>2, <4>3, <4>5, <4>7
      <4>8. WholeResultReturned'
        BY <2>1, <4>7 DEF WholeResultReturned
      <4> QED BY <4>6, <4>8
    <3>2. CASE reply = Failed /\ trailer # 0
      <4>1. result' = Failed
        BY <2>1, <3>2 DEF Simulate
      <4>2. reply'.kind # "value"
        BY <2>1, <3>2, Kinds
      <4> QED BY <4>1, <4>2 DEF WholeResultReturned
    <3> QED BY <2>1, <3>1, <3>2 DEF CallInv, Arrived
  <2> QED BY <2>1, <2>2 DEF CallInv
<1>6. ASSUME GiveUp PROVE CallInv'
  <2>1. /\ pc \in {"sent", "answered"} /\ pc' = "returned" /\ result' = Failed /\ whole' = FALSE
        /\ request' = request /\ seen' = seen /\ httpOK' \in BOOLEAN
    BY <1>6 DEF GiveUp, CallInv
  <2>2. WholeResultReturned'
    BY <2>1 DEF WholeResultReturned
  <2>3. seen' = Nothing \/ seen' = request'
    BY <2>1 DEF CallInv
  <2> QED BY <2>1, <2>2, <2>3 DEF CallInv
<1>7. ASSUME UNCHANGED vars PROVE CallInv'
  BY <1>7 DEF vars, CallInv, Asked, OnTheWay, Arrived, Cut, WholeResultReturned
<1> QED BY <1>1, <1>2, <1>3, <1>4, <1>5, <1>6, <1>7 DEF Next

\* The invariant holds throughout.
LEMMA CallCorrect == Spec => []CallInv
  BY CallInvInit, CallInvNext, PTL DEF Spec

\* The invariant gives the properties.
LEMMA CallInvImplies == CallInv => RequestArrives /\ NoWrongResult /\ WholeResultReturned
<1> SUFFICES ASSUME CallInv PROVE RequestArrives /\ NoWrongResult /\ WholeResultReturned
  OBVIOUS
<1>1. RequestArrives
  BY DEF CallInv, RequestArrives
<1>2. NoWrongResult
  <2>1. result.kind = "value" => result # Failed /\ result # Nothing
    BY Kinds
  <2> QED BY <2>1 DEF CallInv, NoWrongResult
<1>3. WholeResultReturned
  <2>1. CASE pc = "returned"
    BY <2>1 DEF CallInv
  <2>2. CASE pc # "returned"
    BY <2>2 DEF WholeResultReturned
  <2> QED BY <2>1, <2>2
<1> QED BY <1>1, <1>2, <1>3

-----------------------------------------------------------------------------
\* The codec is faithful, for every width of the integers and every message of the
\* contract: what Encode writes of a request that word accepts, the contract's reader
\* takes for that request; what the engine writes of a response, with whatever fields
\* of a newer contract behind it, Decode takes for that response.
THEOREM CodecRoundTrip ==
  /\ \A r \in Request : RequestFits(r) => RequestOf(Encode(r)) = r
  /\ \A v \in Response, more \in Newer : Decode(PutResponse(v) \o more) = Is(v)
<1>1. \A r \in Request : RequestFits(r) => RequestOf(Encode(r)) = r
  BY RequestBack
<1>2. ASSUME NEW v \in Response, NEW more \in Newer PROVE Decode(PutResponse(v) \o more) = Is(v)
  <2>1. /\ more \in Seq(Byte) /\ Fields[more].ok
        /\ \A i \in 1 .. Len(Fields[more].fields) : Fields[more].fields[i].num \notin 1 .. 8
    BY MessagesOK
  <2> QED BY <2>1, ResponseBack
<1> QED BY <1>1, <1>2

\* The engine simulates the transaction and the state that the gateway meant
\* (engineclient.Encode over pbwire), zero values, empty bytes and integers of the
\* full width included.
THEOREM RequestMeansTheSame == Spec => []RequestArrives
  BY CallCorrect, CallInvImplies, PTL

\* Wherever the answer is cut, whatever trailer or HTTP status is lost, grpcx.Invoke and
\* Decode return the engine's response or an error.
THEOREM NoPartAnswer == Spec => []NoWrongResult
  BY CallCorrect, CallInvImplies, PTL

\* And a whole answer, up to the largest frame, is returned.
THEOREM WholeAnswerReturned == Spec => []WholeResultReturned
  BY CallCorrect, CallInvImplies, PTL

=============================================================================
