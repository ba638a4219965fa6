---------------------------- MODULE CacheProofs -----------------------------
(***************************************************************************)
(* Proofs about the cache, for every capacity, time to live and set of     *)
(* keys.  The heart of the invariant is that the list is sorted by last    *)
(* use (Sorted): hence keys are distinct and the back is the entry to go.  *)
(***************************************************************************)
EXTENDS CacheUse, SequenceTheorems, FiniteSetTheorems, TLAPS

Element == [key : Entry, val : Val, expires : Nat]

\* A function on 1 .. n is a sequence of length n.
LEMMA FunctionIsSeq ==
  ASSUME NEW S, NEW n \in Nat, NEW f \in [1 .. n -> S]
  PROVE  f \in Seq(S) /\ Len(f) = n
<1>1. f \in Seq(S)
  BY SeqDef
<1>2. Len(f) \in Nat /\ DOMAIN f = 1 .. Len(f)
  BY <1>1, LenProperties
<1>3. 1 .. n = 1 .. Len(f)
  BY <1>2
<1> QED
  BY <1>1, <1>2, <1>3

\* The three list operations, element by element.
LEMMA PushFacts ==
  ASSUME NEW S, NEW s \in Seq(S), NEW e \in S
  PROVE  /\ PushFront(s, e) \in Seq(S)
         /\ Len(s) \in Nat /\ Len(PushFront(s, e)) = Len(s) + 1
         /\ PushFront(s, e)[1] = e
         /\ \A j \in 2 .. Len(s) + 1 : PushFront(s, e)[j] = s[j - 1] /\ j - 1 \in 1 .. Len(s)
<1>1. Len(s) \in Nat /\ \A j \in 1 .. Len(s) : s[j] \in S
  BY LenProperties, ElementOfSeq
<1>2. PushFront(s, e) \in [1 .. Len(s) + 1 -> S]
  BY <1>1 DEF PushFront
<1>3. Len(s) + 1 \in Nat
  BY <1>1
<1>4. PushFront(s, e) \in Seq(S) /\ Len(PushFront(s, e)) = Len(s) + 1
  BY <1>2, <1>3, FunctionIsSeq
<1> QED
  BY <1>1, <1>4 DEF PushFront

\* Removing drops one entry and keeps the order of the others.
LEMMA RemoveFacts ==
  ASSUME NEW S, NEW s \in Seq(S), NEW i \in 1 .. Len(s)
  PROVE  /\ RemoveAt(s, i) \in Seq(S)
         /\ Len(s) \in Nat \ {0} /\ Len(RemoveAt(s, i)) = Len(s) - 1
         /\ \A j \in 1 .. Len(s) - 1 : RemoveAt(s, i)[j] = IF j < i THEN s[j] ELSE s[j + 1]
<1>1. Len(s) \in Nat /\ \A j \in 1 .. Len(s) : s[j] \in S
  BY LenProperties, ElementOfSeq
<1>2. Len(s) - 1 \in Nat
  BY <1>1
<1>3. RemoveAt(s, i) \in [1 .. Len(s) - 1 -> S]
  BY <1>1 DEF RemoveAt
<1>4. RemoveAt(s, i) \in Seq(S) /\ Len(RemoveAt(s, i)) = Len(s) - 1
  BY <1>2, <1>3, FunctionIsSeq
<1> QED
  BY <1>1, <1>2, <1>4 DEF RemoveAt

\* Moving to the front keeps all entries and the order of the others.
LEMMA MoveFacts ==
  ASSUME NEW S, NEW s \in Seq(S), NEW i \in 1 .. Len(s)
  PROVE  /\ MoveToFront(s, i) \in Seq(S)
         /\ Len(s) \in Nat \ {0} /\ Len(MoveToFront(s, i)) = Len(s)
         /\ MoveToFront(s, i)[1] = s[i]
         /\ \A j \in 2 .. Len(s) : MoveToFront(s, i)[j] = IF j <= i THEN s[j - 1] ELSE s[j]
<1>1. Len(s) \in Nat /\ \A j \in 1 .. Len(s) : s[j] \in S
  BY LenProperties, ElementOfSeq
<1>2. MoveToFront(s, i) \in [1 .. Len(s) -> S]
  BY <1>1 DEF MoveToFront
<1>3. MoveToFront(s, i) \in Seq(S) /\ Len(MoveToFront(s, i)) = Len(s)
  BY <1>1, <1>2, FunctionIsSeq
<1> QED
  BY <1>1, <1>3 DEF MoveToFront

-----------------------------------------------------------------------------
\* The list is sorted by last use, most recent first, and has the keys K.
Sorted(s, u) == \A i, j \in 1 .. Len(s) : i < j => u[s[i].key] > u[s[j].key]
Indexed(s, K) ==
  /\ \A i \in 1 .. Len(s) : s[i].key \in K
  /\ \A k \in K : \E i \in 1 .. Len(s) : s[i].key = k

\* The elements of s are among those of t.
Within(s, t) == \A i \in 1 .. Len(s) : \E j \in 1 .. Len(t) : s[i] = t[j]

\* Removing an element keeps the order and takes its key, and no other, away.
LEMMA RemoveKeeps ==
  ASSUME NEW s \in Seq(Element), NEW i \in 1 .. Len(s), NEW u \in [Entry -> Nat], NEW K,
         Sorted(s, u), Indexed(s, K)
  PROVE  /\ Sorted(RemoveAt(s, i), u)
         /\ Indexed(RemoveAt(s, i), K \ {s[i].key})
         /\ Within(RemoveAt(s, i), s)
<1> DEFINE r == RemoveAt(s, i)
<1> DEFINE old(j) == IF j < i THEN j ELSE j + 1
<1>1. /\ r \in Seq(Element) /\ Len(s) \in Nat \ {0} /\ Len(r) = Len(s) - 1
      /\ \A j \in 1 .. Len(s) - 1 : r[j] = IF j < i THEN s[j] ELSE s[j + 1]
  BY RemoveFacts
<1>2. \A j \in 1 .. Len(r) : old(j) \in 1 .. Len(s) /\ old(j) # i /\ r[j] = s[old(j)]
  BY <1>1
<1>3. \A j, l \in 1 .. Len(r) : j < l => old(j) < old(l)
  BY <1>1
<1>4. \A j \in 1 .. Len(s) : u[s[j].key] \in Nat
  <2>1. \A j \in 1 .. Len(s) : s[j] \in Element
    BY ElementOfSeq
  <2> QED  BY <2>1 DEF Element
<1>5. \A j \in 1 .. Len(s) : s[j].key = s[i].key => j = i
  BY <1>1, <1>4 DEF Sorted
<1>6. \A j \in 1 .. Len(s) : j # i => \E l \in 1 .. Len(r) : old(l) = j
  <2> SUFFICES ASSUME NEW j \in 1 .. Len(s), j # i PROVE \E l \in 1 .. Len(r) : old(l) = j
    OBVIOUS
  <2>1. CASE j < i
    <3>1. j \in 1 .. Len(r) /\ old(j) = j
      BY <1>1, <2>1
    <3> QED  BY <3>1
  <2>2. CASE j > i
    <3>1. j - 1 \in 1 .. Len(r) /\ old(j - 1) = j
      BY <1>1, <2>2
    <3> QED  BY <3>1
  <2> QED  BY <1>1, <2>1, <2>2
<1> HIDE DEF r, old
<1>7. Sorted(r, u)
  BY <1>2, <1>3 DEF Sorted
<1>8. \A j \in 1 .. Len(r) : r[j].key \in K \ {s[i].key}
  BY <1>2, <1>5 DEF Indexed
<1>9. ASSUME NEW k \in K \ {s[i].key} PROVE \E j \in 1 .. Len(r) : r[j].key = k
  <2>1. PICK j \in 1 .. Len(s) : s[j].key = k
    BY DEF Indexed
  <2>2. PICK l \in 1 .. Len(r) : old(l) = j
    BY <1>6, <2>1
  <2> QED  BY <1>2, <2>1, <2>2
<1>10. Within(r, s)
  BY <1>2 DEF Within
<1> QED
  BY <1>7, <1>8, <1>9, <1>10 DEF Indexed, r

\* Using an element, and moving it to the front, keeps the order of last use.
LEMMA MoveKeeps ==
  ASSUME NEW s \in Seq(Element), NEW i \in 1 .. Len(s), NEW u \in [Entry -> Nat], NEW K,
         Sorted(s, u), Indexed(s, K),
         NEW c \in Nat, \A k \in Entry : u[k] < c
  PROVE  /\ Sorted(MoveToFront(s, i), [u EXCEPT ![s[i].key] = c])
         /\ Indexed(MoveToFront(s, i), K)
         /\ Within(MoveToFront(s, i), s)
         /\ \A j \in 2 .. Len(s) : MoveToFront(s, i)[j].key # s[i].key
<1> DEFINE r == MoveToFront(s, i)
<1> DEFINE v == [u EXCEPT ![s[i].key] = c]
<1> DEFINE old(j) == IF j = 1 THEN i ELSE IF j <= i THEN j - 1 ELSE j
<1>1. /\ r \in Seq(Element) /\ Len(s) \in Nat \ {0} /\ Len(r) = Len(s)
      /\ r[1] = s[i]
      /\ \A j \in 2 .. Len(s) : r[j] = IF j <= i THEN s[j - 1] ELSE s[j]
  BY MoveFacts
<1>2. \A j \in 1 .. Len(r) : old(j) \in 1 .. Len(s) /\ (j # 1 => old(j) # i)
  BY <1>1
<1>3. \A j \in 1 .. Len(r) : r[j] = s[old(j)]
  BY <1>1
<1>4. \A j, l \in 2 .. Len(r) : j < l => old(j) < old(l)
  BY <1>1
<1>5. \A j \in 1 .. Len(s) : s[j].key \in Entry /\ u[s[j].key] \in Nat /\ u[s[j].key] < c
  <2>1. \A j \in 1 .. Len(s) : s[j] \in Element
    BY ElementOfSeq
  <2> QED  BY <2>1 DEF Element
<1>6. \A j \in 1 .. Len(s) : s[j].key = s[i].key => j = i
  BY <1>1, <1>5 DEF Sorted
<1>7. \A j \in 1 .. Len(s) : \E l \in 1 .. Len(r) : old(l) = j
  <2> SUFFICES ASSUME NEW j \in 1 .. Len(s) PROVE \E l \in 1 .. Len(r) : old(l) = j
    OBVIOUS
  <2>1. CASE j < i
    <3>1. j + 1 \in 1 .. Len(r) /\ old(j + 1) = j
      BY <1>1, <2>1
    <3> QED  BY <3>1
  <2>2. CASE j > i
    <3>1. j \in 1 .. Len(r) /\ old(j) = j
      BY <1>1, <2>2
    <3> QED  BY <3>1
  <2>3. CASE j = i
    <3>1. 1 \in 1 .. Len(r) /\ old(1) = i
      BY <1>1
    <3> QED  BY <2>3, <3>1
  <2> QED  BY <1>1, <2>1, <2>2, <2>3
<1> HIDE DEF r, old
<1>8. \A j \in 2 .. Len(s) : r[j].key # s[i].key
  <2> SUFFICES ASSUME NEW j \in 2 .. Len(s) PROVE r[j].key # s[i].key
    OBVIOUS
  <2>1. j \in 1 .. Len(r) /\ j # 1
    BY <1>1
  <2> QED  BY <1>2, <1>3, <1>6, <2>1
<1>9. /\ v[r[1].key] = c
      /\ \A j \in 2 .. Len(s) : v[r[j].key] = u[s[old(j)].key] /\ u[s[old(j)].key] < c
  <2>1. v[r[1].key] = c
    BY <1>1, <1>5
  <2>2. ASSUME NEW j \in 2 .. Len(s)
        PROVE  v[r[j].key] = u[s[old(j)].key] /\ u[s[old(j)].key] < c
    <3>1. j \in 1 .. Len(r)
      BY <1>1
    <3> QED  BY <1>2, <1>3, <1>5, <1>8, <3>1
  <2> QED  BY <2>1, <2>2
<1>10. Sorted(r, v)
  <2> SUFFICES ASSUME NEW a \in 1 .. Len(r), NEW b \in 1 .. Len(r), a < b
               PROVE  v[r[a].key] > v[r[b].key]
    BY DEF Sorted
  <2>1. b \in 2 .. Len(s)
    BY <1>1
  <2>2. old(b) \in 1 .. Len(s) /\ u[s[old(b)].key] \in Nat
    BY <1>2, <1>5
  <2> HIDE DEF v
  <2>3. CASE a = 1
    BY <1>9, <2>1, <2>2, <2>3
  <2>4. CASE a # 1
    <3>1. a \in 2 .. Len(s) /\ a \in 2 .. Len(r) /\ b \in 2 .. Len(r)
      BY <1>1, <2>1, <2>4
    <3>2. old(a) < old(b) /\ old(a) \in 1 .. Len(s)
      BY <1>2, <1>4, <3>1
    <3>3. u[s[old(a)].key] > u[s[old(b)].key]
      BY <2>2, <3>2 DEF Sorted
    <3> QED  BY <1>9, <2>1, <3>1, <3>3
  <2> QED  BY <2>3, <2>4
<1>11. Indexed(r, K)
  <2>1. \A j \in 1 .. Len(r) : r[j].key \in K
    BY <1>2, <1>3 DEF Indexed
  <2>2. ASSUME NEW k \in K PROVE \E j \in 1 .. Len(r) : r[j].key = k
    <3>1. PICK j \in 1 .. Len(s) : s[j].key = k
      BY DEF Indexed
    <3>2. PICK l \in 1 .. Len(r) : old(l) = j
      BY <1>7
    <3> QED  BY <1>3, <3>1, <3>2
  <2> QED  BY <2>1, <2>2 DEF Indexed
<1>12. Within(r, s)
  BY <1>2, <1>3 DEF Within
<1> QED
  BY <1>8, <1>10, <1>11, <1>12 DEF r

\* A new element at the front keeps the order of last use and adds its key.
LEMMA PushKeeps ==
  ASSUME NEW s \in Seq(Element), NEW e \in Element, NEW u \in [Entry -> Nat], NEW K,
         Sorted(s, u), Indexed(s, K), e.key \notin K,
         NEW c \in Nat, \A k \in Entry : u[k] < c
  PROVE  /\ Sorted(PushFront(s, e), [u EXCEPT ![e.key] = c])
         /\ Indexed(PushFront(s, e), K \cup {e.key})
<1> DEFINE r == PushFront(s, e)
<1> DEFINE v == [u EXCEPT ![e.key] = c]
<1>1. /\ r \in Seq(Element) /\ Len(s) \in Nat /\ Len(r) = Len(s) + 1
      /\ r[1] = e
      /\ \A j \in 2 .. Len(s) + 1 : r[j] = s[j - 1] /\ j - 1 \in 1 .. Len(s)
  BY PushFacts
<1>2. \A j \in 1 .. Len(s) : s[j].key \in Entry /\ u[s[j].key] \in Nat /\ u[s[j].key] < c
  <2>1. \A j \in 1 .. Len(s) : s[j] \in Element
    BY ElementOfSeq
  <2> QED  BY <2>1 DEF Element
<1>3. /\ v[r[1].key] = c
      /\ \A j \in 2 .. Len(r) : v[r[j].key] = u[s[j - 1].key]
  <2>1. \A j \in 1 .. Len(s) : s[j].key # e.key
    BY DEF Indexed
  <2>2. e.key \in Entry
    BY DEF Element
  <2> QED  BY <1>1, <1>2, <2>1, <2>2
<1> HIDE DEF r, v
<1>4. Sorted(r, v)
  <2> SUFFICES ASSUME NEW a \in 1 .. Len(r), NEW b \in 1 .. Len(r), a < b
               PROVE  v[r[a].key] > v[r[b].key]
    BY DEF Sorted
  <2>1. b \in 2 .. Len(r) /\ b - 1 \in 1 .. Len(s)
    BY <1>1
  <2>2. CASE a = 1
    BY <1>2, <1>3, <2>1, <2>2
  <2>3. CASE a # 1
    <3>1. a \in 2 .. Len(r) /\ a - 1 \in 1 .. Len(s) /\ a - 1 < b - 1
      BY <1>1, <2>3
    <3>2. u[s[a - 1].key] > u[s[b - 1].key]
      BY <2>1, <3>1 DEF Sorted
    <3> QED  BY <1>3, <2>1, <3>1, <3>2
  <2> QED  BY <2>2, <2>3
<1>5. Indexed(r, K \cup {e.key})
  <2>1. ASSUME NEW j \in 1 .. Len(r) PROVE r[j].key \in K \cup {e.key}
    <3>1. j = 1 \/ j \in 2 .. Len(s) + 1
      BY <1>1
    <3> QED  BY <1>1, <3>1 DEF Indexed
  <2>2. ASSUME NEW k \in K PROVE \E j \in 1 .. Len(r) : r[j].key = k
    <3>1. PICK j \in 1 .. Len(s) : s[j].key = k
      BY DEF Indexed
    <3>2. j + 1 \in 2 .. Len(s) + 1 /\ j + 1 \in 1 .. Len(r) /\ (j + 1) - 1 = j
      BY <1>1
    <3>3. r[j + 1] = s[j]
      BY <1>1, <3>2
    <3> QED  BY <3>1, <3>2, <3>3
  <2>3. 1 \in 1 .. Len(r)
    BY <1>1
  <2> QED  BY <1>1, <2>1, <2>2, <2>3 DEF Indexed
<1> QED
  BY <1>4, <1>5 DEF r, v

-----------------------------------------------------------------------------
Types ==
  /\ now \in Nat
  /\ ll \in Seq(Element)
  /\ m \subseteq Entry
  /\ count \in Nat
  /\ used \in [Entry -> Nat] /\ \A k \in Entry : used[k] <= count
  /\ stored \in [Entry -> Nat]
  /\ content \in [Entry -> Val]

\* An element holds what was stored last for its key.
Sound(x) ==
  /\ used[x.key] > 0
  /\ x.val = content[x.key]
  /\ x.expires = stored[x.key] + TTL

AllSound == \A i \in 1 .. Len(ll) : Sound(ll[i])

Inv ==
  /\ Types
  /\ Sorted(ll, used)
  /\ Indexed(ll, m)
  /\ Len(ll) <= Cap
  /\ AllSound
  /\ EvictsLeastRecent
  /\ HitIsLastStore

\* Facts about the elements of the list that every step uses.
LEMMA ElementFacts ==
  ASSUME Inv
  PROVE  /\ Len(ll) \in Nat
         /\ \A i \in 1 .. Len(ll) : ll[i] \in Element /\ ll[i].key \in Entry /\ ll[i].key \in m
<1>1. ll \in Seq(Element) /\ Indexed(ll, m)
  BY DEF Inv, Types
<1>2. Len(ll) \in Nat /\ \A i \in 1 .. Len(ll) : ll[i] \in Element
  BY <1>1, ElementOfSeq, LenProperties
<1> QED
  BY <1>1, <1>2 DEF Indexed, Element

\* The first use numbered count + 1 is later than all others.
LEMMA UseFacts ==
  ASSUME Inv, NEW k \in Entry, Use(k)
  PROVE  /\ count + 1 \in Nat /\ \A j \in Entry : used[j] < count + 1
         /\ used' = [used EXCEPT ![k] = count + 1]
         /\ used' \in [Entry -> Nat] /\ count' \in Nat
         /\ \A j \in Entry : used'[j] <= count'
<1>1. /\ count \in Nat /\ used \in [Entry -> Nat] /\ \A j \in Entry : used[j] <= count
      /\ count' = count + 1 /\ used' = [used EXCEPT ![k] = count + 1]
  BY DEF Inv, Types, Use
<1>2. \A j \in Entry : used'[j] = IF j = k THEN count + 1 ELSE used[j]
  BY <1>1
<1>3. \A j \in Entry : used[j] < count + 1
  BY <1>1
<1>4. \A j \in Entry : used'[j] <= count'
  BY <1>1, <1>2
<1>5. used' \in [Entry -> Nat]
  BY <1>1
<1> QED
  BY <1>1, <1>3, <1>4, <1>5

\* A Get that finds nothing alive.
LEMMA GetMissKeeps ==
  ASSUME Inv, NEW k \in Entry, GetMiss(k)
  PROVE  Inv'
<1>1. UNCHANGED <<now, count, used, stored, content>> /\ got' = << >>
  BY DEF GetMiss
<1>2. HitIsLastStore'
  BY <1>1 DEF HitIsLastStore
<1>3. CASE Miss(k)
  <2>1. UNCHANGED <<ll, m>>
    BY <1>3 DEF Miss
  <2> QED  BY <1>1, <1>2, <2>1 DEF Inv, Types, Sorted, Indexed, AllSound, Sound, EvictsLeastRecent, Live
<1>4. CASE Expired(k)
  <2>1. PICK i \in 1 .. Len(ll) : ll[i].key = k /\ ~(now < ll[i].expires) /\ ll' = RemoveAt(ll, i)
    BY <1>4 DEF Expired, Fresh, At
  <2>2. m' = m \ {k}
    BY <1>4 DEF Expired, Unindex
  <2>3. ll \in Seq(Element) /\ used \in [Entry -> Nat] /\ Sorted(ll, used) /\ Indexed(ll, m)
    BY DEF Inv, Types
  <2>4. ll' \in Seq(Element) /\ Len(ll) \in Nat \ {0} /\ Len(ll') = Len(ll) - 1
    BY <2>1, <2>3, RemoveFacts
  <2>5. Sorted(ll', used) /\ Indexed(ll', m \ {k}) /\ Within(ll', ll)
    BY <2>1, <2>3, RemoveKeeps
  <2>6. Types'
    BY <1>1, <2>2, <2>4 DEF Inv, Types
  <2>7. Len(ll') <= Cap
    BY <2>4, CacheConstantsOK DEF Inv
  <2>8. AllSound'
    BY <1>1, <2>5 DEF Inv, AllSound, Sound, Within
  <2>9. EvictsLeastRecent'
    <3>1. ~Live(k)
      <4>1. ll[i].expires = stored[k] + TTL
        BY <2>1 DEF Inv, AllSound, Sound
      <4>2. stored[k] \in Nat /\ now \in Nat /\ TTL \in Nat
        BY CacheConstantsOK DEF Inv, Types
      <4> QED  BY <2>1, <4>1, <4>2 DEF Live
    <3> QED  BY <1>1, <2>2, <3>1 DEF Inv, EvictsLeastRecent, Live
  <2> QED  BY <1>1, <1>2, <2>2, <2>5, <2>6, <2>7, <2>8, <2>9 DEF Inv
<1> QED
  BY <1>3, <1>4 DEF GetMiss

\* A hit: the element moves to the front, and the value is the last stored.
LEMMA GetHitKeeps ==
  ASSUME Inv, NEW k \in Entry, GetHit(k)
  PROVE  Inv'
<1>1. PICK i \in 1 .. Len(ll) : Hit(k, i) /\ got' = <<k, ll[i].val>>
  BY DEF GetHit
<1>2. /\ ll[i].key = k /\ now < ll[i].expires
      /\ ll' = MoveToFront(ll, i) /\ m' = m
  BY <1>1 DEF Hit, Fresh, At
<1>3. UNCHANGED <<now, stored, content>> /\ Use(k)
  BY DEF GetHit
<1>4. /\ count + 1 \in Nat /\ \A j \in Entry : used[j] < count + 1
      /\ used' = [used EXCEPT ![k] = count + 1]
      /\ used' \in [Entry -> Nat] /\ count' \in Nat
      /\ \A j \in Entry : used'[j] <= count'
  BY <1>3, UseFacts
<1>5. ll \in Seq(Element) /\ used \in [Entry -> Nat] /\ Sorted(ll, used) /\ Indexed(ll, m)
  BY DEF Inv, Types
<1>6. ll' \in Seq(Element) /\ Len(ll) \in Nat /\ Len(ll') = Len(ll)
  BY <1>2, <1>5, MoveFacts
<1>7. Sorted(ll', used') /\ Indexed(ll', m) /\ Within(ll', ll)
  BY <1>2, <1>4, <1>5, MoveKeeps
<1>8. Types'
  BY <1>2, <1>3, <1>4, <1>6 DEF Inv, Types
<1>9. \A j \in Entry : used'[j] = (IF j = k THEN count + 1 ELSE used[j]) /\ used'[j] >= used[j]
  BY <1>4, <1>5
<1>10. AllSound'
  <2> SUFFICES ASSUME NEW j \in 1 .. Len(ll') PROVE Sound(ll[j])'
    BY DEF AllSound
  <2>1. PICK p \in 1 .. Len(ll) : ll'[j] = ll[p]
    BY <1>7 DEF Within
  <2>2. Sound(ll[p]) /\ ll[p].key \in Entry
    BY ElementFacts DEF Inv, AllSound
  <2>3. used'[ll[p].key] > 0
    BY <1>4, <1>5, <1>9, <2>2 DEF Sound
  <2> QED  BY <1>3, <2>1, <2>2, <2>3 DEF Sound
<1>11. EvictsLeastRecent'
  <2> SUFFICES ASSUME NEW g \in Entry, Live(g)', g \notin m, NEW j \in m PROVE used'[j] > used'[g]
    BY <1>2 DEF EvictsLeastRecent
  <2>1. k \in m /\ j \in Entry
    BY <1>2, ElementFacts DEF Inv, Types
  <2>2. used'[g] = used[g]
    BY <1>9, <2>1
  <2>3. used[j] > used[g]
    BY <1>3, <2>2 DEF Inv, EvictsLeastRecent, Live
  <2>4. used[j] \in Nat /\ used[g] \in Nat /\ used'[j] \in Nat
    BY <1>4, <1>5, <2>1
  <2> QED  BY <1>9, <2>1, <2>2, <2>3, <2>4
<1>12. HitIsLastStore'
  <2>1. Sound(ll[i])
    BY DEF Inv, AllSound
  <2>2. got'[1] = k /\ got'[2] = ll[i].val
    BY <1>1
  <2>3. used'[k] > 0
    BY <1>4, <1>5, <1>9, <1>2, <2>1 DEF Sound
  <2> QED  BY <1>2, <1>3, <2>1, <2>2, <2>3 DEF Sound, HitIsLastStore
<1>13. Len(ll') <= Cap
  BY <1>6 DEF Inv
<1> QED
  BY <1>2, <1>7, <1>8, <1>10, <1>11, <1>12, <1>13 DEF Inv

\* What a store changes besides the list: the key's history.  The new element is
\* sound, and so is every old one with another key.
LEMMA StoreFacts ==
  ASSUME Inv, NEW k \in Entry, NEW v \in Val, Store(k, v)
  PROVE  /\ [key |-> k, val |-> v, expires |-> now + TTL] \in Element
         /\ \A x \in Element :
              x = [key |-> k, val |-> v, expires |-> now + TTL] \/ (Sound(x) /\ x.key # k)
                => /\ used'[x.key] > 0 /\ x.val = content'[x.key]
                   /\ x.expires = stored'[x.key] + TTL
         /\ stored' \in [Entry -> Nat] /\ content' \in [Entry -> Val] /\ now' = now
         /\ got' = << >>
         /\ \A j \in Entry : j # k => stored'[j] = stored[j] /\ used'[j] = used[j]
         /\ used'[k] = count + 1
<1>1. /\ now \in Nat /\ TTL \in Nat /\ stored \in [Entry -> Nat] /\ content \in [Entry -> Val]
      /\ used \in [Entry -> Nat] /\ count \in Nat
  BY CacheConstantsOK DEF Inv, Types
<1>2. /\ used' = [used EXCEPT ![k] = count + 1]
      /\ stored' = [stored EXCEPT ![k] = now] /\ content' = [content EXCEPT ![k] = v]
      /\ now' = now /\ got' = << >>
  BY DEF Store, Use
<1>3. \A j \in Entry : /\ used'[j] = IF j = k THEN count + 1 ELSE used[j]
                       /\ stored'[j] = IF j = k THEN now ELSE stored[j]
                       /\ content'[j] = IF j = k THEN v ELSE content[j]
  BY <1>1, <1>2
<1>4. [key |-> k, val |-> v, expires |-> now + TTL] \in Element
  BY <1>1 DEF Element
<1>5. ASSUME NEW x \in Element, Sound(x), x.key # k
      PROVE  used'[x.key] > 0 /\ x.val = content'[x.key] /\ x.expires = stored'[x.key] + TTL
  <2>1. x.key \in Entry
    BY DEF Element
  <2> QED  BY <1>3, <1>5, <2>1 DEF Sound
<1>6. stored' \in [Entry -> Nat] /\ content' \in [Entry -> Val]
  BY <1>1, <1>2
<1> QED
  BY <1>1, <1>2, <1>3, <1>4, <1>5, <1>6

\* Storing a key that is there.
LEMMA OverwriteKeeps ==
  ASSUME Inv, NEW k \in Entry, NEW v \in Val, Store(k, v),
         Overwrite([key |-> k, val |-> v, expires |-> now + TTL])
  PROVE  Inv'
<1> DEFINE e == [key |-> k, val |-> v, expires |-> now + TTL]
<1>1. PICK i \in 1 .. Len(ll) : ll[i].key = k /\ ll' = MoveToFront([ll EXCEPT ![i] = e], i)
  BY DEF Overwrite, At
<1>2. k \in m /\ m' = m
  BY DEF Overwrite
<1>3. ll \in Seq(Element) /\ used \in [Entry -> Nat] /\ Sorted(ll, used) /\ Indexed(ll, m)
  BY DEF Inv, Types
<1>4. Use(k)
  BY DEF Store
<1>5. /\ count + 1 \in Nat /\ \A j \in Entry : used[j] < count + 1
      /\ used' = [used EXCEPT ![k] = count + 1]
      /\ used' \in [Entry -> Nat] /\ count' \in Nat
      /\ \A j \in Entry : used'[j] <= count'
  BY <1>4, UseFacts
<1>6. e \in Element /\ e.key = k
  BY StoreFacts
<1> HIDE DEF e
<1> DEFINE t == [ll EXCEPT ![i] = e]
<1>7. /\ t \in Seq(Element) /\ Len(t) = Len(ll) /\ t[i] = e
      /\ \A j \in 1 .. Len(ll) : j # i => t[j] = ll[j]
  BY <1>3, <1>6, ExceptSeq
<1>8. \A j \in 1 .. Len(ll) : t[j].key = ll[j].key
  BY <1>1, <1>6, <1>7
<1>9. ll' = MoveToFront(t, i)
  BY <1>1
<1> HIDE DEF t
<1>10. Sorted(t, used) /\ Indexed(t, m)
  BY <1>3, <1>7, <1>8 DEF Sorted, Indexed
<1>11. /\ ll' \in Seq(Element) /\ Len(ll') = Len(ll) /\ Len(ll) \in Nat
       /\ ll'[1] = e
  BY <1>7, <1>9, MoveFacts
<1>12. /\ Sorted(ll', used') /\ Indexed(ll', m) /\ Within(ll', t)
       /\ \A j \in 2 .. Len(ll) : ll'[j].key # k
  <2>1. t[i].key = k
    BY <1>6, <1>7
  <2> QED  BY <1>3, <1>5, <1>7, <1>9, <1>10, <2>1, MoveKeeps
<1>13. Types'
  BY <1>2, <1>5, <1>11, StoreFacts DEF Inv, Types
<1>14. AllSound'
  <2> SUFFICES ASSUME NEW j \in 1 .. Len(ll') PROVE Sound(ll[j])'
    BY DEF AllSound
  <2>1. ll'[j] \in Element
    BY <1>11, ElementOfSeq
  <2>2. CASE j = 1
    BY <1>11, <2>1, <2>2, StoreFacts DEF Sound, e
  <2>3. CASE j # 1
    <3>1. j \in 2 .. Len(ll)
      BY <1>11, <2>3
    <3>2. PICK p \in 1 .. Len(ll) : ll'[j] = t[p]
      BY <1>7, <1>12 DEF Within
    <3>3. ll'[j] = ll[p] /\ ll'[j].key # k
      BY <1>6, <1>7, <1>12, <3>1, <3>2
    <3>4. Sound(ll[p])
      BY DEF Inv, AllSound
    <3> QED  BY <2>1, <3>3, <3>4, StoreFacts DEF Sound
  <2> QED  BY <2>2, <2>3
<1>15. EvictsLeastRecent'
  <2> SUFFICES ASSUME NEW g \in Entry, Live(g)', g \notin m, NEW j \in m PROVE used'[j] > used'[g]
    BY <1>2 DEF EvictsLeastRecent
  <2>1. g # k /\ j \in Entry
    BY <1>2 DEF Inv, Types
  <2>2. used'[g] = used[g] /\ stored'[g] = stored[g] /\ now' = now
    BY <2>1, StoreFacts
  <2>3. used[j] > used[g]
    BY <2>2 DEF Inv, EvictsLeastRecent, Live
  <2>4. used[j] \in Nat /\ used[g] \in Nat /\ used[g] < count + 1
    BY <1>3, <1>5, <2>1
  <2>5. used'[j] = used[j] \/ used'[j] = count + 1
    BY <2>1, StoreFacts
  <2> QED  BY <2>2, <2>3, <2>4, <2>5
<1>16. Len(ll') <= Cap
  BY <1>11 DEF Inv
<1>17. HitIsLastStore'
  BY StoreFacts DEF HitIsLastStore
<1> QED
  BY <1>2, <1>12, <1>13, <1>14, <1>15, <1>16, <1>17 DEF Inv

\* Storing a new key: the last element, used before all others, makes room.
LEMMA InsertKeeps ==
  ASSUME Inv, NEW k \in Entry, NEW v \in Val, Store(k, v),
         Insert([key |-> k, val |-> v, expires |-> now + TTL])
  PROVE  Inv'
<1> DEFINE e == [key |-> k, val |-> v, expires |-> now + TTL]
<1>1. e \in Element /\ e.key = k
  BY StoreFacts
<1> DEFINE s == PushFront(ll, e)
<1> DEFINE n == Len(s)
<1>2. /\ k \notin m
      /\ n > Cap => ll' = RemoveAt(s, n) /\ m' = (m \cup {k}) \ {s[n].key}
      /\ ~(n > Cap) => ll' = s /\ m' = m \cup {k}
  BY DEF Insert, Over
<1>3. ll \in Seq(Element) /\ used \in [Entry -> Nat] /\ Sorted(ll, used) /\ Indexed(ll, m)
  BY DEF Inv, Types
<1>4. Use(k)
  BY DEF Store
<1>5. /\ count + 1 \in Nat /\ \A j \in Entry : used[j] < count + 1
      /\ used' = [used EXCEPT ![k] = count + 1]
      /\ used' \in [Entry -> Nat] /\ count' \in Nat
      /\ \A j \in Entry : used'[j] <= count'
  BY <1>4, UseFacts
<1> HIDE DEF e
<1>6. /\ s \in Seq(Element) /\ Len(ll) \in Nat /\ n = Len(ll) + 1
      /\ s[1] = e /\ \A j \in 2 .. n : s[j] = ll[j - 1] /\ j - 1 \in 1 .. Len(ll)
  <2>1. ll \in Seq(Element) /\ e \in Element
    BY <1>1, <1>3
  <2>2. /\ s \in Seq(Element) /\ Len(ll) \in Nat /\ Len(s) = Len(ll) + 1 /\ s[1] = e
        /\ \A j \in 2 .. Len(ll) + 1 : s[j] = ll[j - 1] /\ j - 1 \in 1 .. Len(ll)
    BY <2>1, PushFacts
  <2> QED  BY <2>2
<1>7. Sorted(s, used') /\ Indexed(s, m \cup {k})
  BY <1>1, <1>2, <1>3, <1>5, PushKeeps
<1> HIDE DEF s
<1>8. /\ ll' \in Seq(Element) /\ Len(ll') \in Nat /\ Len(ll') <= Cap
      /\ Sorted(ll', used') /\ Indexed(ll', m')
      /\ Within(ll', s)
      /\ m' \subseteq m \cup {k}
  <2>1. CASE n > Cap
    <3>1. n \in 1 .. Len(s)
      BY <1>6
    <3>2. ll' \in Seq(Element) /\ Len(ll') = n - 1
      BY <1>2, <1>6, <2>1, <3>1, RemoveFacts
    <3>3. Sorted(ll', used') /\ Indexed(ll', m') /\ Within(ll', s)
      <4>1. /\ Sorted(RemoveAt(s, n), used') /\ Within(RemoveAt(s, n), s)
            /\ Indexed(RemoveAt(s, n), (m \cup {k}) \ {s[n].key})
        BY <1>5, <1>6, <1>7, <3>1, RemoveKeeps
      <4> QED  BY <1>2, <2>1, <4>1
    <3>4. Len(ll') \in Nat /\ Len(ll') <= Cap
      BY <1>6, <3>2, CacheConstantsOK DEF Inv
    <3> QED  BY <1>2, <2>1, <3>2, <3>3, <3>4
  <2>2. CASE ~(n > Cap)
    <3>1. Within(s, s)
      BY DEF Within
    <3>2. Len(s) \in Nat /\ Len(s) <= Cap
      BY <1>6, <2>2, CacheConstantsOK
    <3> QED  BY <1>2, <1>6, <1>7, <2>2, <3>1, <3>2
  <2> QED  BY <2>1, <2>2
<1>9. Types'
  BY <1>5, <1>8, StoreFacts DEF Inv, Types
<1>10. AllSound'
  <2> SUFFICES ASSUME NEW j \in 1 .. Len(ll') PROVE Sound(ll[j])'
    BY DEF AllSound
  <2>1. ll'[j] \in Element
    BY <1>8, ElementOfSeq
  <2>2. PICK p \in 1 .. n : ll'[j] = s[p]
    BY <1>8 DEF Within
  <2>3. CASE p = 1
    BY <1>6, <2>1, <2>2, <2>3, StoreFacts DEF Sound, e
  <2>4. CASE p # 1
    <3>1. s[p] = ll[p - 1] /\ p - 1 \in 1 .. Len(ll)
      BY <1>6, <2>4
    <3>2. Sound(ll[p - 1]) /\ ll[p - 1].key # k
      BY <1>2, <3>1, ElementFacts DEF Inv, AllSound
    <3>3. Sound(ll[p - 1]) /\ ll'[j] = ll[p - 1] /\ ll'[j].key # k
      BY <2>2, <3>1, <3>2
    <3>4. /\ used'[ll'[j].key] > 0 /\ ll'[j].val = content'[ll'[j].key]
          /\ ll'[j].expires = stored'[ll'[j].key] + TTL
      <4>1. Sound(ll'[j])
        BY <3>3
      <4> QED  BY <2>1, <3>3, <4>1, StoreFacts
    <3> QED  BY <3>4 DEF Sound
  <2> QED  BY <2>3, <2>4
<1>11. EvictsLeastRecent'
  <2> SUFFICES ASSUME NEW g \in Entry, Live(g)', g \notin m', NEW j \in m'
               PROVE  used'[j] > used'[g]
    BY DEF EvictsLeastRecent
  <2>1. CASE g \in m \cup {k}
    <3>1. n > Cap /\ g = s[n].key /\ n \in 1 .. Len(s)
      BY <1>2, <1>6, <2>1
    <3>2. PICK p \in 1 .. Len(ll') : ll'[p].key = j
      BY <1>8 DEF Indexed
    <3>3. /\ Len(ll') = n - 1
          /\ \A q \in 1 .. n - 1 : ll'[q] = IF q < n THEN s[q] ELSE s[q + 1]
      <4>1. /\ Len(RemoveAt(s, n)) = n - 1
            /\ \A q \in 1 .. n - 1 : RemoveAt(s, n)[q] = IF q < n THEN s[q] ELSE s[q + 1]
        BY <1>6, <3>1, RemoveFacts
      <4> QED  BY <1>2, <3>1, <4>1
    <3>4. p \in 1 .. Len(s) /\ p < n /\ ll'[p] = s[p]
      BY <1>6, <3>2, <3>3
    <3> QED  BY <1>7, <3>1, <3>2, <3>4 DEF Sorted
  <2>2. CASE g \notin m \cup {k}
    <3>1. used'[g] = used[g] /\ stored'[g] = stored[g] /\ now' = now
      BY <2>2, StoreFacts
    <3>2. Live(g) /\ g \notin m
      BY <2>2, <3>1 DEF Live
    <3>3. used[g] \in Nat /\ used[g] < count + 1
      BY <1>3, <1>5
    <3>4. CASE j = k
      BY <3>1, <3>3, <3>4, StoreFacts
    <3>5. CASE j # k
      <4>1. j \in m /\ j \in Entry
        BY <1>8, <3>5 DEF Inv, Types
      <4>2. used'[j] = used[j]
        BY <3>5, <4>1, StoreFacts
      <4> QED  BY <3>1, <3>2, <4>1, <4>2 DEF Inv, EvictsLeastRecent
    <3> QED  BY <3>4, <3>5
  <2> QED  BY <2>1, <2>2
<1>12. HitIsLastStore'
  BY StoreFacts DEF HitIsLastStore
<1> QED
  BY <1>8, <1>9, <1>10, <1>11, <1>12 DEF Inv

\* The invariant of the cache holds in every reachable state.
LEMMA Invariance == Spec => []Inv
<1>1. UseInit => Inv
  <2> SUFFICES ASSUME UseInit PROVE Inv
    OBVIOUS
  <2>1. ll = << >> /\ m = {} /\ Len(ll) = 0 /\ got = << >>
    BY DEF UseInit, Init
  <2>2. Types
    BY <2>1 DEF UseInit, Types
  <2>3. \A i \in 1 .. Len(ll) : FALSE
    BY <2>1
  <2> QED
    BY <2>1, <2>2, <2>3, CacheConstantsOK
    DEF Inv, Sorted, Indexed, AllSound, EvictsLeastRecent, HitIsLastStore
<1>2. Inv /\ [Next]_vars => Inv'
  <2> SUFFICES ASSUME Inv, [Next]_vars PROVE Inv'
    OBVIOUS
  <2>1. CASE Tick
    <3>1. /\ now' = now + 1 /\ now' \in Nat /\ got' = << >>
          /\ UNCHANGED <<ll, m, count, used, stored, content>>
      BY <2>1 DEF Tick, Inv, Types
    <3>2. Types'
      BY <3>1 DEF Inv, Types
    <3>3. (Sorted(ll, used) /\ Indexed(ll, m) /\ Len(ll) <= Cap /\ AllSound)'
      BY <3>1 DEF Inv, Sorted, Indexed, AllSound, Sound
    <3>4. \A g \in Entry : Live(g)' => Live(g)
      <4>1. now \in Nat /\ TTL \in Nat /\ stored \in [Entry -> Nat]
        BY CacheConstantsOK DEF Inv, Types
      <4> QED  BY <3>1, <4>1 DEF Live
    <3>5. EvictsLeastRecent'
      BY <3>1, <3>4 DEF Inv, EvictsLeastRecent
    <3>6. HitIsLastStore'
      BY <3>1 DEF HitIsLastStore
    <3> QED  BY <3>2, <3>3, <3>5, <3>6 DEF Inv
  <2>2. ASSUME NEW k \in Entry, GetMiss(k) PROVE Inv'
    BY <2>2, GetMissKeeps
  <2>3. ASSUME NEW k \in Entry, GetHit(k) PROVE Inv'
    BY <2>3, GetHitKeeps
  <2>4. ASSUME NEW k \in Entry, NEW v \in Val, Store(k, v) PROVE Inv'
    <3>1. \/ Overwrite([key |-> k, val |-> v, expires |-> now + TTL])
          \/ Insert([key |-> k, val |-> v, expires |-> now + TTL])
      BY <2>4 DEF Store, Set
    <3> QED  BY <2>4, <3>1, OverwriteKeeps, InsertKeeps
  <2>5. CASE UNCHANGED vars
    <3>1. UNCHANGED <<now, ll, m, count, used, stored, content, got>>
      BY <2>5 DEF vars
    <3> QED
      BY <3>1 DEF Inv, Types, Sorted, Indexed, AllSound, Sound, EvictsLeastRecent, Live, HitIsLastStore
  <2> QED
    BY <2>1, <2>2, <2>3, <2>4, <2>5 DEF Next
<1> QED
  BY <1>1, <1>2, PTL DEF Spec

\* The list and the index of the cache agree after every operation, no key has
\* two entries, and there are never more entries than the capacity.
THEOREM StaysCoherent == Spec => []Coherent
<1>1. Inv => Coherent
  <2> SUFFICES ASSUME Inv PROVE Coherent
    OBVIOUS
  <2>1. {ll[i].key : i \in 1 .. Len(ll)} = m
    BY DEF Inv, Indexed
  <2>2. ASSUME NEW i \in 1 .. Len(ll), NEW j \in 1 .. Len(ll), ll[i].key = ll[j].key PROVE i = j
    <3>1. used[ll[i].key] \in Nat /\ Len(ll) \in Nat
      BY ElementFacts DEF Inv, Types
    <3> QED  BY <2>2, <3>1 DEF Inv, Sorted
  <2> QED  BY <2>1, <2>2 DEF Inv, Coherent
<1> QED
  BY <1>1, Invariance, PTL

\* A hit returns what was stored last for the key, less than TTL ago, and what is
\* evicted alive was used before everything that stays.
THEOREM KeepsTheRecent == Spec => [](HitIsLastStore /\ EvictsLeastRecent)
<1>1. Inv => HitIsLastStore /\ EvictsLeastRecent
  BY DEF Inv
<1> QED
  BY <1>1, Invariance, PTL

\* A hit returns what was stored last for the key, less than TTL ago.
THEOREM HitIsCurrent == Spec => []HitIsLastStore
  BY KeepsTheRecent, PTL

-----------------------------------------------------------------------------
(***************************************************************************)
(* How many keys make room.  The keys used after an evicted one are at     *)
(* least those of the full list it was evicted from, and their number      *)
(* never shrinks, although they may expire and leave in turn.  Keys are    *)
(* not assumed to be finitely many: those ever used are.                   *)
(***************************************************************************)
EverUsed == {j \in Entry : used[j] > 0}
UsedAfter(k) == {j \in Entry : used[j] > used[k]}

Room == IsFiniteSet(EverUsed) /\ MissesOnlyWhenFull

\* The index has as many keys as the list has elements.
LEMMA IndexSize ==
  ASSUME NEW s \in Seq(Element), NEW u \in [Entry -> Nat], NEW K, Sorted(s, u), Indexed(s, K)
  PROVE  IsFiniteSet(K) /\ Cardinality(K) = Len(s)
<1> DEFINE n == Len(s)
<1> DEFINE f == [i \in 1 .. n |-> s[i].key]
<1>1. n \in Nat /\ \A i \in 1 .. n : s[i].key \in K /\ u[s[i].key] \in Nat
  <2>1. n \in Nat /\ \A i \in 1 .. n : s[i] \in Element
    BY LenProperties, ElementOfSeq
  <2> QED  BY <2>1 DEF Indexed, Element
<1>2. IsFiniteSet(1 .. n) /\ Cardinality(1 .. n) = n
  BY <1>1, FS_Interval
<1>3. f \in [1 .. n -> K] /\ \A k \in K : \E i \in 1 .. n : f[i] = k
  BY <1>1 DEF Indexed
<1>4. \A i, j \in 1 .. n : f[i] = f[j] => i = j
  <2> SUFFICES ASSUME NEW i \in 1 .. n, NEW j \in 1 .. n, s[i].key = s[j].key PROVE i = j
    OBVIOUS
  <2>1. ~(i < j) /\ ~(j < i)
    BY <1>1 DEF Sorted
  <2> QED  BY <1>1, <2>1
<1> HIDE DEF f, n
<1>5. f \in Surjection(1 .. n, K) /\ f \in Injection(1 .. n, K)
  BY <1>3, <1>4 DEF Surjection, Injection, IsInjective
<1>6. IsFiniteSet(K) /\ Cardinality(K) = Cardinality(1 .. n)
  BY <1>2, <1>5, FS_Surjection
<1> QED
  BY <1>2, <1>6 DEF n

\* A set of keys that all were used, and a larger one.
LEMMA MoreKeys ==
  ASSUME NEW S, NEW T, S \subseteq T, IsFiniteSet(T), NEW n \in Nat, Cardinality(S) >= n
  PROVE  Cardinality(T) >= n
<1>1. IsFiniteSet(S) /\ Cardinality(S) <= Cardinality(T)
  BY FS_Subset
<1>2. Cardinality(S) \in Nat /\ Cardinality(T) \in Nat
  BY <1>1, FS_CardinalityType
<1> QED
  BY <1>1, <1>2

\* Every step uses at most one key more.
LEMMA UsedStaysFinite ==
  ASSUME Inv, IsFiniteSet(EverUsed), [Next]_vars
  PROVE  IsFiniteSet(EverUsed')
<1>1. ASSUME UNCHANGED used PROVE IsFiniteSet(EverUsed')
  BY <1>1 DEF EverUsed
<1>2. ASSUME NEW k \in Entry, Use(k) PROVE IsFiniteSet(EverUsed')
  <2>1. EverUsed' \subseteq EverUsed \cup {k}
    BY <1>2, UseFacts DEF EverUsed, Inv, Types
  <2>2. IsFiniteSet(EverUsed \cup {k})
    BY FS_AddElement
  <2> QED  BY <2>1, <2>2, FS_Subset
<1> QED
  BY <1>1, <1>2 DEF Next, Tick, GetMiss, GetHit, Store, vars

\* A step in which no live key leaves.
LEMMA NoneLeaves ==
  ASSUME Inv, Room, IsFiniteSet(EverUsed'), used' \in [Entry -> Nat],
         \A k \in Entry : Live(k)' /\ k \notin m' =>
            /\ Live(k) /\ k \notin m
            /\ \A j \in Entry : used[j] > used[k] => used'[j] > used'[k]
  PROVE  MissesOnlyWhenFull'
<1> SUFFICES ASSUME NEW k \in Entry, Live(k)', k \notin m'
             PROVE  Cardinality({j \in Entry : used'[j] > used'[k]}) >= Cap
  BY DEF MissesOnlyWhenFull
<1> DEFINE T == {j \in Entry : used'[j] > used'[k]}
<1>1. UsedAfter(k) \subseteq T
  BY DEF UsedAfter
<1>2. T \subseteq EverUsed'
  BY DEF EverUsed
<1>3. IsFiniteSet(T)
  BY <1>2, FS_Subset
<1>4. Cardinality(UsedAfter(k)) >= Cap
  BY DEF Room, MissesOnlyWhenFull, UsedAfter
<1> HIDE DEF T
<1>5. Cardinality(T) >= Cap
  BY <1>1, <1>3, <1>4, MoreKeys, CacheConstantsOK
<1> QED
  BY <1>5 DEF T

\* A step that evicts leaves a full list, all of it used after what is gone.
LEMMA FullAfterwards ==
  ASSUME Inv', IsFiniteSet(EverUsed'), Len(ll') = Cap
  PROVE  MissesOnlyWhenFull'
<1> SUFFICES ASSUME NEW k \in Entry, Live(k)', k \notin m'
             PROVE  Cardinality({j \in Entry : used'[j] > used'[k]}) >= Cap
  BY DEF MissesOnlyWhenFull
<1> DEFINE T == {j \in Entry : used'[j] > used'[k]}
<1>1. /\ ll' \in Seq(Element) /\ used' \in [Entry -> Nat] /\ m' \subseteq Entry
      /\ Sorted(ll', used') /\ Indexed(ll', m')
  BY DEF Inv, Types, Sorted, Indexed
<1>2. IsFiniteSet(m') /\ Cardinality(m') = Cap
  BY <1>1, IndexSize
<1>3. m' \subseteq T
  BY <1>1 DEF Inv, EvictsLeastRecent
<1>4. T \subseteq EverUsed'
  BY <1>1 DEF EverUsed
<1>5. IsFiniteSet(T)
  BY <1>4, FS_Subset
<1> HIDE DEF T
<1>6. Cap \in Nat /\ Cardinality(m') >= Cap
  BY <1>2, CacheConstantsOK
<1>7. Cardinality(T) >= Cap
  BY <1>3, <1>5, <1>6, MoreKeys
<1> QED
  BY <1>7 DEF T

\* The keys used after a live key that is gone fill the cache at every step.
LEMMA RoomKeeps ==
  ASSUME Inv, Inv', Room, [Next]_vars
  PROVE  Room'
<1>1. IsFiniteSet(EverUsed')
  BY UsedStaysFinite DEF Room
<1>2. used' \in [Entry -> Nat] /\ used \in [Entry -> Nat]
  BY DEF Inv, Types
<1>3. ASSUME UNCHANGED <<used, stored, m>>, now' = now \/ now' = now + 1
      PROVE  MissesOnlyWhenFull'
  <2>1. \A k \in Entry : Live(k)' => Live(k)
    <3> SUFFICES ASSUME NEW k \in Entry, Live(k)' PROVE Live(k)
      OBVIOUS
    <3>1. now \in Nat /\ stored[k] + TTL \in Nat
      BY CacheConstantsOK DEF Inv, Types
    <3> QED  BY <1>3, <3>1 DEF Live
  <2> QED  BY <1>1, <1>2, <1>3, <2>1, NoneLeaves
<1>4. ASSUME NEW k \in Entry, Expired(k), UNCHANGED <<now, used, stored>>
      PROVE  MissesOnlyWhenFull'
  <2>1. m' = m \ {k} /\ \E i \in 1 .. Len(ll) : ll[i].key = k /\ ~(now < ll[i].expires)
    BY <1>4 DEF Expired, Unindex, At, Fresh
  <2>2. ~Live(k)
    BY <2>1 DEF Inv, AllSound, Sound, Live
  <2>3. \A j \in Entry : Live(j)' => Live(j)
    BY <1>4 DEF Live
  <2> QED  BY <1>1, <1>2, <1>4, <2>1, <2>2, <2>3, NoneLeaves
<1>5. ASSUME NEW k \in Entry, Use(k), k \in m', m \subseteq m', now' = now,
             \A j \in Entry : j # k => stored'[j] = stored[j]
      PROVE  MissesOnlyWhenFull'
  <2>1. /\ \A j \in Entry : used[j] < count + 1
        /\ used' = [used EXCEPT ![k] = count + 1] /\ count + 1 \in Nat
    BY <1>5, UseFacts
  <2>2. ASSUME NEW j \in Entry, Live(j)', j \notin m'
        PROVE  /\ Live(j) /\ j \notin m
               /\ \A l \in Entry : used[l] > used[j] => used'[l] > used'[j]
    <3>1. j # k /\ used'[j] = used[j] /\ stored'[j] = stored[j]
      BY <1>2, <1>5, <2>1, <2>2
    <3>2. \A l \in Entry : used'[l] = used[l] \/ used'[l] > used[j]
      BY <1>2, <2>1
    <3> QED  BY <1>5, <2>2, <3>1, <3>2 DEF Live
  <2> QED  BY <1>1, <1>2, <2>2, NoneLeaves
<1>6. Tick => MissesOnlyWhenFull'
  BY <1>3 DEF Tick
<1>7. UNCHANGED vars => MissesOnlyWhenFull'
  BY <1>3 DEF vars
<1>8. ASSUME NEW k \in Entry, GetMiss(k) PROVE MissesOnlyWhenFull'
  <2>1. UNCHANGED <<now, used, stored>> /\ (Miss(k) \/ Expired(k))
    BY <1>8 DEF GetMiss
  <2>2. CASE Miss(k)
    BY <1>3, <2>1, <2>2 DEF Miss
  <2>3. CASE Expired(k)
    BY <1>4, <2>1, <2>3
  <2> QED  BY <2>1, <2>2, <2>3
<1>9. ASSUME NEW k \in Entry, GetHit(k) PROVE MissesOnlyWhenFull'
  <2>1. Use(k) /\ UNCHANGED <<now, stored, m>> /\ k \in m
    BY <1>9 DEF GetHit, Hit
  <2> QED  BY <1>5, <2>1
<1>10. ASSUME NEW k \in Entry, NEW v \in Val, Store(k, v) PROVE MissesOnlyWhenFull'
  <2> DEFINE e == [key |-> k, val |-> v, expires |-> now + TTL]
  <2>1. /\ Use(k) /\ now' = now /\ e \in Element /\ e.key = k
        /\ \A j \in Entry : j # k => stored'[j] = stored[j]
    BY <1>10, StoreFacts DEF Store, Inv, Types
  <2>2. Overwrite(e) \/ Insert(e)
    BY <1>10 DEF Store, Set
  <2> DEFINE s == PushFront(ll, e)
  <2>3. Insert(e) => /\ Len(s) > Cap => ll' = RemoveAt(s, Len(s))
                     /\ ~(Len(s) > Cap) => m' = m \cup {e.key}
    BY DEF Insert, Over
  <2> HIDE DEF e
  <2>4. ll \in Seq(Element) /\ Len(ll) <= Cap /\ Cap \in Nat
    BY CacheConstantsOK DEF Inv, Types
  <2>5. s \in Seq(Element) /\ Len(s) = Len(ll) + 1 /\ Len(ll) \in Nat
    BY <2>1, <2>4, PushFacts
  <2>6. CASE Overwrite(e)
    BY <1>5, <2>1, <2>6 DEF Overwrite
  <2>7. CASE Insert(e) /\ Len(s) > Cap
    <3>1. Len(s) \in 1 .. Len(s) /\ Len(s) = Cap + 1
      BY <2>4, <2>5, <2>7
    <3>2. Len(ll') = Cap
      <4>1. Len(RemoveAt(s, Len(s))) = Len(s) - 1
        BY <2>5, <3>1, RemoveFacts
      <4> QED  BY <2>3, <2>4, <2>7, <3>1, <4>1
    <3> QED  BY <1>1, <3>2, FullAfterwards
  <2>8. CASE Insert(e) /\ ~(Len(s) > Cap)
    <3>1. k \in m' /\ m \subseteq m'
      BY <2>1, <2>3, <2>8
    <3> QED  BY <1>5, <2>1, <3>1
  <2> QED  BY <2>2, <2>6, <2>7, <2>8
<1> QED
  BY <1>1, <1>6, <1>7, <1>8, <1>9, <1>10 DEF Room, Next

\* A live entry is missed only when as many other keys as the cache holds were
\* used after it, for every capacity and however entries expire in between.
THEOREM EvictsOnlyWhenFull == Spec => []MissesOnlyWhenFull
<1>1. UseInit => Room
  <2> SUFFICES ASSUME UseInit PROVE Room
    OBVIOUS
  <2>1. EverUsed = {}
    BY DEF UseInit, EverUsed
  <2>2. \A k \in Entry : ~Live(k)
    <3>1. \A k \in Entry : used[k] = 0
      BY DEF UseInit
    <3>2. \A k \in Entry : ~(used[k] > 0)
      <4>1. ~(0 > 0)
        OBVIOUS
      <4> QED  BY <3>1, <4>1, Zenon
    <3> QED  BY <3>2, Zenon DEF Live
  <2> QED  BY <2>1, <2>2, FS_EmptySet DEF Room, MissesOnlyWhenFull
<1>2. Inv /\ Inv' /\ Room /\ [Next]_vars => Room'
  BY RoomKeeps
<1>3. Room => MissesOnlyWhenFull
  BY DEF Room
<1> QED
  BY <1>1, <1>2, <1>3, Invariance, PTL DEF Spec

=============================================================================
