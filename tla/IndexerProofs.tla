--------------------------- MODULE IndexerProofs ----------------------------
(***************************************************************************)
(* Proofs about Indexer, for every set of nodes, window and reorg depth.   *)
(*                                                                         *)
(* OneBranch is inductive by itself.  TrackedIsLive and ReplayIsBranch     *)
(* need that block numbers rise by one along the tracked chain (Numbered): *)
(* the block an unwind retracts is then no other block of the chain.       *)
(***************************************************************************)
EXTENDS Indexer, SequenceTheorems, TLAPS

Numbered(c) == \A i \in 1 .. Len(c) : Number(c[i]) = Number(c[1]) + i - 1

FeedInv ==
    /\ TypeOK /\ OneBranch
    /\ Numbered(chain) /\ Numbered(work)
    /\ TrackedIsLive /\ ReplayIsBranch

-----------------------------------------------------------------------------
\* s[:n]: the first n elements, in place.
LEMMA PrefixFacts ==
  ASSUME NEW S, NEW s \in Seq(S), NEW n \in 0 .. Len(s)
  PROVE  /\ SubSeq(s, 1, n) \in Seq(S)
         /\ Len(SubSeq(s, 1, n)) = n
         /\ \A i \in 1 .. n : SubSeq(s, 1, n)[i] = s[i]
<1>1. \A i \in 1 .. n : s[i] \in S
  OBVIOUS
<1>2. n \in Int /\ 1 \in Int /\ n >= 0
  OBVIOUS
<1>3. /\ SubSeq(s, 1, n) \in Seq(S)
      /\ Len(SubSeq(s, 1, n)) = IF 1 <= n THEN n - 1 + 1 ELSE 0
      /\ \A i \in 1 .. n - 1 + 1 : SubSeq(s, 1, n)[i] = s[1 + i - 1]
  BY <1>1, <1>2, SubSeqProperties
<1>4. Len(SubSeq(s, 1, n)) = n
  BY <1>2, <1>3
<1>5. ASSUME NEW i \in 1 .. n PROVE SubSeq(s, 1, n)[i] = s[i]
  <2>1. i \in 1 .. n - 1 + 1 /\ 1 + i - 1 = i
    BY <1>2
  <2> QED  BY <1>3, <2>1
<1> QED
  BY <1>3, <1>4, <1>5

\* A block's number is one more than its parent's.
LEMMA NumberFacts ==
  ASSUME NEW b \in Block
  PROVE  /\ Number(b) \in Nat
         /\ Number(Parent(b)) = Number(b) - 1
<1>1. b \in Seq(Nat) /\ Len(b) \in Nat \ {0} /\ Len(b) - 1 \in 0 .. Len(b)
  BY DEF Block
<1>2. Len(Parent(b)) = Len(b) - 1
  BY <1>1, PrefixFacts DEF Parent
<1> QED
  BY <1>1, <1>2 DEF Number

\* The block a node returns for a number it has carries that number.
LEMMA AnswerFacts ==
  ASSUME TypeOK, NEW v \in Node, NEW n \in Nat, Has(v, n)
  PROVE  At(v, n) \in Block /\ Number(At(v, n)) = n
<1>1. tip[v] \in Seq(Nat) /\ Len(tip[v]) \in Nat /\ n + 1 \in 0 .. Len(tip[v])
  BY DEF TypeOK, Block, Has
<1>2. At(v, n) \in Seq(Nat) /\ Len(At(v, n)) = n + 1
  BY <1>1, PrefixFacts DEF At
<1>3. At(v, n) # <<>>
  BY <1>2
<1> QED
  BY <1>2, <1>3 DEF Block, Number

\* Appending a child of the last block keeps a chain linked and numbered.
LEMMA PushFacts ==
  ASSUME NEW c \in Seq(Block), NEW b \in Block, Linked(c), Numbered(c),
         c # <<>> => Parent(b) = Last(c)
  PROVE  /\ Append(c, b) \in Seq(Block)
         /\ Len(Append(c, b)) = Len(c) + 1 /\ Len(c) \in Nat
         /\ Linked(Append(c, b)) /\ Numbered(Append(c, b))
         /\ Blocks(Append(c, b)) = Blocks(c) \cup {b}
<1> DEFINE d == Append(c, b)
<1>1. /\ d \in Seq(Block) /\ Len(c) \in Nat /\ Len(d) = Len(c) + 1
      /\ \A i \in 1 .. Len(c) : d[i] = c[i]
      /\ d[Len(c) + 1] = b
      /\ DOMAIN d = 1 .. Len(c) + 1 /\ DOMAIN c = 1 .. Len(c)
  BY AppendProperties, LenProperties
<1> HIDE DEF d
<1>a. Len(c) \in Nat
  BY <1>1
<1>2. Linked(d)
  <2> SUFFICES ASSUME NEW i \in 1 .. Len(d) - 1 PROVE Parent(d[i + 1]) = d[i]
    BY DEF Linked
  <2>0. i \in 1 .. Len(c)
    <3>1. Len(d) - 1 = Len(c)
      BY <1>1
    <3> QED  BY <3>1
  <2>1. CASE i = Len(c)
    <3>1. c # <<>> /\ Last(c) = c[i] /\ d[i + 1] = b /\ d[i] = c[i]
      BY <1>1, <2>1 DEF Last
    <3> QED  BY <3>1
  <2>2. CASE i # Len(c)
    <3>1. i \in 1 .. Len(c) - 1 /\ i + 1 \in 1 .. Len(c) /\ i \in 1 .. Len(c)
      <4>1. Len(c) \in Nat /\ i \in Nat /\ 1 <= i /\ i < Len(c)
        BY <1>a, <2>0, <2>2
      <4> QED  BY <4>1
    <3>2. Parent(c[i + 1]) = c[i]
      BY <3>1 DEF Linked
    <3> QED  BY <1>1, <3>1, <3>2
  <2> QED  BY <2>1, <2>2
<1>3. Numbered(d)
  <2> SUFFICES ASSUME NEW i \in 1 .. Len(d) PROVE Number(d[i]) = Number(d[1]) + i - 1
    BY DEF Numbered
  <2>1. CASE c = <<>>
    <3>1. i = 1 /\ d[1] = b
      BY <1>1, <2>1
    <3>2. Number(b) \in Nat
      BY NumberFacts
    <3> QED  BY <3>1, <3>2
  <2>2. CASE c # <<>> /\ i \in 1 .. Len(c)
    <3>1. 1 \in 1 .. Len(c)
      BY <1>1, <2>2
    <3>2. Number(c[i]) = Number(c[1]) + i - 1
      BY <2>2 DEF Numbered
    <3> QED  BY <1>1, <2>2, <3>1, <3>2
  <2>3. CASE c # <<>> /\ i = Len(c) + 1
    <3>1. Len(c) \in 1 .. Len(c) /\ 1 \in 1 .. Len(c)
      BY <1>1, <2>3
    <3>2. Number(c[Len(c)]) = Number(c[1]) + Len(c) - 1
      BY <3>1 DEF Numbered
    <3>3. Number(c[Len(c)]) = Number(b) - 1 /\ Number(b) \in Nat
      BY <2>3, NumberFacts DEF Last
    <3>4. c[1] \in Block
      BY <3>1
    <3>5. Number(c[1]) \in Nat
      BY <3>4, NumberFacts
    <3>6. d[i] = b /\ d[1] = c[1]
      BY <1>1, <2>3, <3>1
    <3> QED  BY <1>1, <2>3, <3>2, <3>3, <3>5, <3>6
  <2> QED  BY <1>1, <2>1, <2>2, <2>3
<1>4. Blocks(d) = Blocks(c) \cup {b}
  <2>1. \A i \in DOMAIN d : d[i] \in Blocks(c) \cup {b}
    BY <1>1 DEF Blocks
  <2>2. \A i \in DOMAIN c : i \in DOMAIN d /\ d[i] = c[i]
    BY <1>1
  <2>3. Len(c) + 1 \in DOMAIN d
    BY <1>1
  <2> QED  BY <1>1, <2>1, <2>2, <2>3 DEF Blocks
<1> QED
  BY <1>1, <1>2, <1>3, <1>4 DEF d

\* Dropping the oldest block keeps a chain linked and numbered.
LEMMA ShiftFacts ==
  ASSUME NEW c \in Seq(Block), c # <<>>, Linked(c), Numbered(c)
  PROVE  /\ Tail(c) \in Seq(Block)
         /\ Len(Tail(c)) = Len(c) - 1 /\ Len(c) \in Nat \ {0}
         /\ Linked(Tail(c)) /\ Numbered(Tail(c))
         /\ Blocks(c) = Blocks(Tail(c)) \cup {c[1]}
         /\ Len(c) > 1 => Number(Tail(c)[1]) = Number(c[1]) + 1
<1> DEFINE d == Tail(c)
<1>1. /\ d \in Seq(Block) /\ Len(c) \in Nat \ {0} /\ Len(d) = Len(c) - 1
      /\ \A i \in 1 .. Len(c) - 1 : d[i] = c[i + 1]
      /\ DOMAIN d = 1 .. Len(c) - 1 /\ DOMAIN c = 1 .. Len(c)
  BY HeadTailProperties, LenProperties
<1> HIDE DEF d
<1>2. Linked(d)
  <2> SUFFICES ASSUME NEW i \in 1 .. Len(d) - 1 PROVE Parent(d[i + 1]) = d[i]
    BY DEF Linked
  <2>1. i \in 1 .. Len(c) - 1 /\ i + 1 \in 1 .. Len(c) - 1
    BY <1>1
  <2>2. Parent(c[(i + 1) + 1]) = c[i + 1]
    BY <2>1 DEF Linked
  <2> QED  BY <1>1, <2>1, <2>2
<1>3. ASSUME Len(c) > 1 PROVE Number(d[1]) = Number(c[1]) + 1
  <2>1. 2 \in 1 .. Len(c) /\ 1 \in 1 .. Len(c) - 1 /\ 1 \in 1 .. Len(c)
    BY <1>1, <1>3
  <2>2. Number(c[2]) = Number(c[1]) + 2 - 1
    BY <2>1 DEF Numbered
  <2>3. d[1] = c[2]
    BY <1>1, <2>1
  <2>4. c[1] \in Block
    BY <2>1
  <2>5. Number(c[1]) \in Nat
    BY <2>4, NumberFacts
  <2> QED  BY <2>2, <2>3, <2>5
<1>4. Numbered(d)
  <2> SUFFICES ASSUME NEW i \in 1 .. Len(d) PROVE Number(d[i]) = Number(d[1]) + i - 1
    BY DEF Numbered
  <2>1. i \in 1 .. Len(c) - 1 /\ i + 1 \in 1 .. Len(c) /\ Len(c) > 1 /\ 1 \in 1 .. Len(c)
    BY <1>1
  <2>2. Number(c[i + 1]) = Number(c[1]) + (i + 1) - 1
    BY <2>1 DEF Numbered
  <2>3. c[1] \in Block
    BY <2>1
  <2>4. Number(c[1]) \in Nat
    BY <2>3, NumberFacts
  <2>5. d[i] = c[i + 1]
    BY <1>1, <2>1
  <2> QED  BY <1>3, <2>1, <2>2, <2>4, <2>5
<1>5. Blocks(c) = Blocks(d) \cup {c[1]}
  <2>1. \A i \in DOMAIN d : d[i] = c[i + 1] /\ i + 1 \in DOMAIN c
    BY <1>1
  <2>2. 1 \in DOMAIN c
    BY <1>1
  <2>3. ASSUME NEW i \in DOMAIN c PROVE c[i] \in Blocks(d) \cup {c[1]}
    <3>1. CASE i = 1
      BY <3>1
    <3>2. CASE i # 1
      <4>1. i - 1 \in DOMAIN d /\ (i - 1) + 1 = i
        BY <1>1, <3>2
      <4>2. d[i - 1] = c[i]
        BY <2>1, <4>1
      <4> QED  BY <4>1, <4>2 DEF Blocks
    <3> QED  BY <3>1, <3>2
  <2> QED  BY <2>1, <2>2, <2>3 DEF Blocks
<1> QED
  BY <1>1, <1>2, <1>3, <1>4, <1>5 DEF d

\* Dropping the newest block keeps a chain linked and numbered, and the block
\* that leaves is higher than all that stay.
LEMMA PopFacts ==
  ASSUME NEW c \in Seq(Block), c # <<>>, Linked(c), Numbered(c)
  PROVE  /\ Front(c) \in Seq(Block)
         /\ Len(Front(c)) = Len(c) - 1 /\ Len(c) \in Nat \ {0}
         /\ Linked(Front(c)) /\ Numbered(Front(c))
         /\ Blocks(c) = Blocks(Front(c)) \cup {Last(c)}
         /\ Last(c) \in Block /\ c[1] \in Block
         /\ \A b \in Blocks(Front(c)) : Number(b) < Number(Last(c))
         /\ Number(c[1]) <= Number(Last(c))
         /\ Len(c) > 1 => Front(c)[1] = c[1]
<1> DEFINE d == Front(c)
<1>1. Len(c) \in Nat \ {0} /\ Len(c) - 1 \in 0 .. Len(c)
  OBVIOUS
<1>2. /\ d \in Seq(Block) /\ Len(d) = Len(c) - 1
      /\ \A i \in 1 .. Len(c) - 1 : d[i] = c[i]
      /\ DOMAIN d = 1 .. Len(c) - 1 /\ DOMAIN c = 1 .. Len(c)
  <2>1. /\ d \in Seq(Block) /\ Len(d) = Len(c) - 1
        /\ \A i \in 1 .. Len(c) - 1 : d[i] = c[i]
    BY <1>1, PrefixFacts DEF Front
  <2>2. \A s \in Seq(Block) : DOMAIN s = 1 .. Len(s)
    OBVIOUS
  <2> QED  BY <2>1, <2>2
<1>3. \A i \in 1 .. Len(c) : c[i] \in Block
  OBVIOUS
<1> HIDE DEF d
<1>4. /\ 1 \in 1 .. Len(c) /\ Len(c) \in 1 .. Len(c)
      /\ Last(c) \in Block /\ c[1] \in Block
  BY <1>1, <1>3 DEF Last
<1>5. Number(c[1]) \in Nat /\ Number(Last(c)) = Number(c[1]) + Len(c) - 1
  BY <1>4, NumberFacts DEF Numbered, Last
<1>6. Linked(d)
  <2> SUFFICES ASSUME NEW i \in 1 .. Len(d) - 1 PROVE Parent(d[i + 1]) = d[i]
    BY DEF Linked
  <2>1. i \in 1 .. Len(c) - 1 /\ i + 1 \in 1 .. Len(c) - 1
    BY <1>1, <1>2
  <2>2. Parent(c[i + 1]) = c[i]
    BY <2>1 DEF Linked
  <2> QED  BY <1>2, <2>1, <2>2
<1>7. ASSUME NEW i \in 1 .. Len(c) - 1
      PROVE  /\ 1 \in 1 .. Len(c) - 1
             /\ Number(d[i]) = Number(d[1]) + i - 1
             /\ Number(d[i]) < Number(Last(c))
  <2>1. i \in 1 .. Len(c) /\ 1 \in 1 .. Len(c) - 1
    BY <1>1
  <2>2. Number(c[i]) = Number(c[1]) + i - 1
    BY <2>1 DEF Numbered
  <2>3. d[i] = c[i] /\ d[1] = c[1]
    BY <1>2, <2>1
  <2> QED  BY <1>1, <1>5, <2>1, <2>2, <2>3
<1>8. Numbered(d)
  BY <1>2, <1>7 DEF Numbered
<1>9. \A b \in Blocks(d) : Number(b) < Number(Last(c))
  BY <1>2, <1>7 DEF Blocks
<1>10. Blocks(c) = Blocks(d) \cup {Last(c)}
  <2>1. \A i \in DOMAIN d : d[i] = c[i] /\ i \in DOMAIN c
    BY <1>1, <1>2
  <2>2. Len(c) \in DOMAIN c /\ c[Len(c)] = Last(c)
    BY <1>2, <1>4 DEF Last
  <2>3. ASSUME NEW i \in DOMAIN c PROVE c[i] \in Blocks(d) \cup {Last(c)}
    <3>1. CASE i = Len(c)
      BY <2>2, <3>1
    <3>2. CASE i # Len(c)
      <4>1. i \in DOMAIN d
        BY <1>1, <1>2, <3>2
      <4> QED  BY <2>1, <4>1 DEF Blocks
    <3> QED  BY <3>1, <3>2
  <2> QED  BY <2>1, <2>2, <2>3 DEF Blocks
<1>11. Len(c) > 1 => d[1] = c[1]
  BY <1>1, <1>2
<1>12. Number(c[1]) <= Number(Last(c))
  BY <1>1, <1>5
<1> QED
  BY <1>1, <1>2, <1>4, <1>6, <1>8, <1>9, <1>10, <1>11, <1>12 DEF d

-----------------------------------------------------------------------------
\* A simulated node's chain is never empty: neither Mine nor Reorg, whatever
\* its depth, loses the genesis block.
LEMMA NodeStep ==
  ASSUME TypeOK, NEW v \in Node, Mine(v) \/ \E d \in Depths : Reorg(v, d)
  PROVE  tip' \in [Node -> Block] /\ salt' \in [Node -> Nat]
<1>1. tip[v] \in Seq(Nat) /\ Len(tip[v]) \in Nat \ {0} /\ salt[v] \in Nat
  BY DEF TypeOK, Block
<1>2. CASE Mine(v)
  <2>1. Append(tip[v], salt[v]) \in Seq(Nat) /\ Len(Append(tip[v], salt[v])) = Len(tip[v]) + 1
    BY <1>1, AppendProperties, LenProperties
  <2>2. Append(tip[v], salt[v]) \in Block
    <3>1. Len(Append(tip[v], salt[v])) # 0
      BY <1>1, <2>1
    <3> QED  BY <2>1, <3>1 DEF Block
  <2> QED
    BY <1>2, <2>2 DEF Mine, TypeOK
<1>3. ASSUME NEW depth \in Depths, Reorg(v, depth)
      PROVE  tip' \in [Node -> Block] /\ salt' \in [Node -> Nat]
  <2> DEFINE n == Len(tip[v])
  <2> DEFINE d == IF depth >= n THEN n - 1 ELSE depth
  <2> DEFINE kept == SubSeq(tip[v], 1, n - d)
  <2> DEFINE mined == [i \in 1 .. d + 1 |-> salt[v] + 1]
  <2>1. depth \in Nat /\ n \in Nat \ {0}
    BY <1>1, IndexerConstantsOK
  <2> HIDE DEF n
  <2>2. d \in Nat /\ n - d \in 0 .. n
    <3>1. CASE depth >= n
      BY <2>1, <3>1
    <3>2. CASE ~(depth >= n)
      BY <2>1, <3>2
    <3> QED  BY <3>1, <3>2
  <2>3. tip' = [tip EXCEPT ![v] = kept \o mined] /\ salt' = [salt EXCEPT ![v] = salt[v] + 1]
    BY <1>3 DEF Reorg, n
  <2>4. kept \in Seq(Nat) /\ Len(kept) = n - d
    <3>1. tip[v] \in Seq(Nat) /\ n - d \in 0 .. Len(tip[v])
      BY <1>1, <2>2 DEF n
    <3> QED  BY <3>1, PrefixFacts
  <2> HIDE DEF d, kept
  <2>5. mined \in Seq(Nat) /\ Len(mined) = d + 1
    BY <1>1, <2>2
  <2> HIDE DEF mined
  <2>6. kept \o mined \in Seq(Nat) /\ Len(kept \o mined) = Len(kept) + Len(mined)
    BY <2>4, <2>5, ConcatProperties
  <2>7. Len(kept \o mined) # 0
    BY <2>1, <2>2, <2>4, <2>5, <2>6
  <2>8. kept \o mined \in Block
    BY <2>6, <2>7 DEF Block
  <2> QED
    BY <1>1, <2>3, <2>8 DEF TypeOK
<1> QED
  BY <1>2, <1>3

\* The number Sync starts fetching from never underflows.
LEMMA FirstNumberType == \A h \in Nat : FirstNumber(h) \in Nat
  BY IndexerConstantsOK DEF FirstNumber

\* The program starts well-typed.
LEMMA InitType == Init => TypeOK
<1>1. <<0>> \in Block
  BY DEF Block
<1> SUFFICES ASSUME Init PROVE TypeOK
  OBVIOUS
<1>2. tip \in [Node -> Block] /\ salt \in [Node -> Nat]
  BY <1>1 DEF Init
<1>3. chain \in Seq(Block) /\ work \in Seq(Block)
  BY DEF Init
<1>4. live \subseteq Block /\ lost \in BOOLEAN
  BY DEF Init
<1> QED
  BY <1>2, <1>3, <1>4 DEF Init, TypeOK

\* Every step of nodes and indexer keeps the state well-typed.
LEMMA StepType == TypeOK /\ [Next]_vars => TypeOK'
<1> SUFFICES ASSUME TypeOK, [Next]_vars PROVE TypeOK'
  OBVIOUS
<1>1. ASSUME NEW v \in Node, Mine(v) \/ \E d \in Depths : Reorg(v, d)
      PROVE  TypeOK'
  <2>1. UNCHANGED <<chain, syncVars, feedVars>>
    BY <1>1 DEF Mine, Reorg
  <2> QED
    BY <1>1, <2>1, NodeStep DEF TypeOK, syncVars, feedVars
<1>2. ASSUME NEW v \in Node, SyncStart(v)
      PROVE  TypeOK'
  <2>1. Len(tip[v]) - 1 \in Nat
    BY DEF TypeOK, Block
  <2>2. FirstNumber(Len(tip[v]) - 1) \in Nat
    BY <2>1, FirstNumberType
  <2> QED
    BY <1>2, <2>1, <2>2 DEF SyncStart, TypeOK, nodeVars, feedVars
<1>3. ASSUME NEW v \in Node, UnwindMatch(v)
      PROVE  TypeOK'
  <2>1. Last(work) \in Block
    BY <1>3 DEF UnwindMatch, TypeOK, Last
  <2>2. Number(Last(work)) + 1 \in Nat
    BY <2>1, NumberFacts
  <2> QED
    BY <1>3, <2>2 DEF UnwindMatch, TypeOK, nodeVars, feedVars
<1>4. ASSUME NEW v \in Node, UnwindPop(v)
      PROVE  TypeOK'
  <2>1. work \in Seq(Block) /\ work # <<>> /\ Len(work) \in Nat \ {0}
    BY <1>4 DEF UnwindPop, TypeOK
  <2>2. Len(work) - 1 \in 0 .. Len(work)
    BY <2>1
  <2>3. Front(work) \in Seq(Block) /\ Len(Front(work)) = Len(work) - 1
    BY <2>1, <2>2, PrefixFacts DEF Front
  <2>4. Len(work) # 1 => Front(work) # <<>>
    BY <2>1, <2>3
  <2>5. FirstNumber(head) \in Nat
    BY FirstNumberType DEF TypeOK
  <2>6. /\ work' \in Seq(Block) /\ live' \subseteq Block
        /\ pc' \in {"unwind", "fetch"} /\ next' \in Nat
        /\ pc' = "unwind" => work' # <<>>
    BY <1>4, <2>3, <2>4, <2>5 DEF UnwindPop, EmitReorged, TypeOK
  <2>7. lost' \in BOOLEAN
    BY <1>4 DEF UnwindPop, TypeOK
  <2> QED
    BY <1>4, <2>6, <2>7 DEF UnwindPop, TypeOK, nodeVars
<1>5. ASSUME NEW v \in Node, FetchNew(v)
      PROVE  TypeOK'
  <2> DEFINE b == At(v, next)
  <2>1. Has(v, next) /\ next \in Nat
    BY <1>5 DEF FetchNew, Continues, TypeOK
  <2>2. b \in Block
    BY <2>1, AnswerFacts
  <2> HIDE DEF b
  <2>3. Append(work, b) \in Seq(Block) /\ Append(work, b) # <<>>
    BY <2>2, AppendProperties, LenProperties DEF TypeOK
  <2>4. Tail(Append(work, b)) \in Seq(Block)
    BY <2>3, HeadTailProperties, LenProperties
  <2>5. work' \in Seq(Block) /\ live' \subseteq Block /\ next' \in Nat
    BY <1>5, <2>1, <2>2, <2>3, <2>4 DEF FetchNew, Trim, EmitNew, TypeOK, b
  <2>6. high' \in Nat
    BY <1>5, <2>2, NumberFacts DEF FetchNew, EmitNew, TypeOK, b
  <2> QED
    BY <1>5, <2>5, <2>6 DEF FetchNew, TypeOK, nodeVars
<1>6. ASSUME NEW v \in Node, FetchMismatch(v)
      PROVE  TypeOK'
  BY <1>6 DEF FetchMismatch, TypeOK, nodeVars, feedVars
<1>7. CASE SyncError
  BY <1>7 DEF SyncError, TypeOK, nodeVars, feedVars
<1>8. CASE Store
  BY <1>8 DEF Store, TypeOK, nodeVars, feedVars
<1>9. CASE UNCHANGED vars
  BY <1>9 DEF TypeOK, vars
<1> QED
  BY <1>1, <1>2, <1>3, <1>4, <1>5, <1>6, <1>7, <1>8, <1>9 DEF Next

\* The state is always well-typed; in particular the numbers Sync computes
\* never underflow, and Sync never unwinds an empty chain.
THEOREM TypeCorrect == Spec => []TypeOK
  BY InitType, StepType, PTL DEF Spec

-----------------------------------------------------------------------------
\* What a replay of the log has to be for the tracked chain c (ReplayIsBranch).
Branch(L, c) ==
    /\ \A x, y \in L : Number(x) = Number(y) => x = y
    /\ \A x \in L : \/ Parent(x) \in L
                    \/ \A y \in L : Number(x) <= Number(y)
    /\ \A x \in L \ Blocks(c) : c # <<>> /\ Number(x) < Number(c[1])

\* No live block is above the tip.
LEMMA TipIsHighest ==
  ASSUME NEW c \in Seq(Block), c # <<>>, Linked(c), Numbered(c),
         NEW L \in SUBSET Block, Branch(L, c)
  PROVE  \A x \in L : Number(x) \in Nat /\ Number(x) <= Number(Last(c))
<1> TAKE x \in L
<1>1. /\ Blocks(c) = Blocks(Front(c)) \cup {Last(c)}
      /\ \A b \in Blocks(Front(c)) : Number(b) < Number(Last(c))
      /\ Number(c[1]) <= Number(Last(c))
      /\ Last(c) \in Block /\ c[1] \in Block
  BY PopFacts
<1>2. Number(x) \in Nat /\ Number(Last(c)) \in Nat /\ Number(c[1]) \in Nat
  BY <1>1, NumberFacts
<1>3. CASE x \in Blocks(c)
  BY <1>1, <1>2, <1>3
<1>4. CASE x \notin Blocks(c)
  <2>1. Number(x) < Number(c[1])
    BY <1>4 DEF Branch
  <2> QED  BY <1>1, <1>2, <2>1
<1> QED
  BY <1>3, <1>4

\* Retracting the tip keeps the replay a branch, as long as a block is left.
LEMMA PopBranch ==
  ASSUME NEW c \in Seq(Block), Len(c) > 1, Linked(c), Numbered(c),
         NEW L \in SUBSET Block, Branch(L, c)
  PROVE  Branch(L \ {Last(c)}, Front(c))
<1> DEFINE t == Last(c)
<1> DEFINE M == L \ {t}
<1>1. c # <<>> /\ Len(c) \in Nat
  OBVIOUS
<1>2. /\ Blocks(c) = Blocks(Front(c)) \cup {t}
      /\ Front(c)[1] = c[1] /\ Front(c) # <<>>
      /\ t \in Block
  <2>1. Len(Front(c)) # 0 /\ Front(c) \in Seq(Block)
    BY <1>1, PopFacts
  <2> QED  BY <1>1, <2>1, PopFacts
<1>3. \A x \in L : Number(x) \in Nat /\ Number(x) <= Number(t)
  BY <1>1, TipIsHighest
<1>4. \A x, y \in M : Number(x) = Number(y) => x = y
  BY DEF Branch
<1>5. ASSUME NEW x \in M
      PROVE  Parent(x) \in M \/ \A y \in M : Number(x) <= Number(y)
  <2>1. x \in Block /\ Number(x) <= Number(t) /\ Number(t) \in Nat /\ Number(x) \in Nat
    BY <1>2, <1>3, NumberFacts
  <2>2. Number(Parent(x)) = Number(x) - 1
    BY <2>1, NumberFacts
  <2>3. Parent(x) # t
    BY <2>1, <2>2
  <2> QED  BY <2>3 DEF Branch
<1>6. ASSUME NEW x \in M \ Blocks(Front(c))
      PROVE  Front(c) # <<>> /\ Number(x) < Number(Front(c)[1])
  BY <1>2 DEF Branch
<1> QED
  BY <1>4, <1>5, <1>6 DEF Branch

\* Announcing a child of the tip, or the first block, keeps the replay a branch.
LEMMA PushBranch ==
  ASSUME NEW c \in Seq(Block), Linked(c), Numbered(c), NEW b \in Block,
         c # <<>> => Parent(b) = Last(c),
         NEW L \in SUBSET Block, Branch(L, c), Blocks(c) \subseteq L
  PROVE  Branch(L \cup {b}, Append(c, b))
<1> DEFINE d == Append(c, b)
<1> DEFINE M == L \cup {b}
<1>1. Blocks(d) = Blocks(c) \cup {b} /\ d \in Seq(Block) /\ Len(d) = Len(c) + 1 /\ Len(c) \in Nat
  BY PushFacts
<1>2. d # <<>> /\ (c = <<>> => d[1] = b) /\ (c # <<>> => d[1] = c[1])
  OBVIOUS
<1> HIDE DEF d
<1>3. CASE c = <<>>
  <2>1. L = {}
    <3>1. \A x \in L : x \in Blocks(c)
      BY <1>3 DEF Branch
    <3>2. Blocks(c) = {}
      BY <1>3 DEF Blocks
    <3> QED  BY <3>1, <3>2
  <2>2. Number(b) \in Nat /\ M = {b}
    BY <2>1, NumberFacts
  <2> QED  BY <1>1, <2>2 DEF Branch, d
<1>4. CASE c # <<>>
  <2> DEFINE t == Last(c)
  <2>1. \A x \in L : Number(x) \in Nat /\ Number(x) <= Number(t)
    BY <1>4, TipIsHighest
  <2>2. t \in L /\ t \in Block
    BY <1>4, PopFacts
  <2>3. Number(b) \in Nat /\ Number(t) = Number(b) - 1 /\ Parent(b) = t
    BY <1>4, NumberFacts
  <2> HIDE DEF t
  <2>4. \A x \in L : Number(x) < Number(b)
    BY <2>1, <2>2, <2>3
  <2>5. \A x, y \in M : Number(x) = Number(y) => x = y
    <3> SUFFICES ASSUME NEW x \in M, NEW y \in M, Number(x) = Number(y) PROVE x = y
      OBVIOUS
    <3>1. CASE x \in L /\ y \in L
      BY <3>1 DEF Branch
    <3>2. CASE x = b /\ y \in L
      BY <2>1, <2>3, <2>4, <3>2
    <3>3. CASE x \in L /\ y = b
      BY <2>1, <2>3, <2>4, <3>3
    <3> QED  BY <3>1, <3>2, <3>3
  <2>6. ASSUME NEW x \in M
        PROVE  Parent(x) \in M \/ \A y \in M : Number(x) <= Number(y)
    <3>1. CASE x = b
      BY <2>2, <2>3, <3>1
    <3>2. CASE x \in L /\ Parent(x) \in L
      BY <3>2
    <3>3. CASE x \in L /\ \A y \in L : Number(x) <= Number(y)
      <4>1. Number(x) <= Number(b)
        BY <2>1, <2>3, <2>4, <3>3
      <4> QED  BY <3>3, <4>1
    <3> QED  BY <3>1, <3>2, <3>3 DEF Branch
  <2>7. ASSUME NEW x \in M \ Blocks(d)
        PROVE  d # <<>> /\ Number(x) < Number(d[1])
    <3>1. x \in L \ Blocks(c)
      BY <1>1
    <3> QED  BY <1>2, <1>4, <3>1 DEF Branch
  <2> QED  BY <2>5, <2>6, <2>7 DEF Branch, d
<1> QED
  BY <1>3, <1>4

\* Forgetting the oldest block of the window keeps the replay a branch.
LEMMA ShiftBranch ==
  ASSUME NEW c \in Seq(Block), Len(c) > 1, Linked(c), Numbered(c),
         NEW L \in SUBSET Block, Branch(L, c)
  PROVE  Branch(L, Tail(c))
<1>1. c # <<>> /\ Len(c) \in Nat
  OBVIOUS
<1>2. /\ Blocks(c) = Blocks(Tail(c)) \cup {c[1]}
      /\ Number(Tail(c)[1]) = Number(c[1]) + 1
      /\ Tail(c) # <<>> /\ c[1] \in Block
  <2>1. Len(Tail(c)) # 0 /\ Tail(c) \in Seq(Block)
    BY <1>1, ShiftFacts
  <2>2. c[1] \in Block
    BY <1>1, PopFacts
  <2> QED  BY <1>1, <2>1, <2>2, ShiftFacts
<1>3. Number(c[1]) \in Nat
  BY <1>2, NumberFacts
<1>4. ASSUME NEW x \in L \ Blocks(Tail(c))
      PROVE  Tail(c) # <<>> /\ Number(x) < Number(Tail(c)[1])
  <2>1. CASE x = c[1]
    BY <1>2, <1>3, <2>1
  <2>2. CASE x # c[1]
    <3>1. Number(x) < Number(c[1]) /\ Number(x) \in Nat
      BY <1>2, <2>2, NumberFacts DEF Branch
    <3> QED  BY <1>2, <1>3, <3>1
  <2> QED  BY <2>1, <2>2
<1> QED
  BY <1>4 DEF Branch

-----------------------------------------------------------------------------
\* The chain of a Sync pass after a block that continues it has been fetched.
LEMMA FetchFacts ==
  ASSUME NEW c \in Seq(Block), Linked(c), Numbered(c), Len(c) <= Window,
         NEW b \in Block, c # <<>> => Parent(b) = Last(c),
         NEW L \in SUBSET Block, Blocks(c) \subseteq L
  PROVE  LET d == Trim(Append(c, b)) IN
         /\ Linked(d) /\ Numbered(d) /\ Len(d) <= Window
         /\ Blocks(d) \subseteq L \cup {b}
         /\ Branch(L, c) => Branch(L \cup {b}, d)
<1> DEFINE a == Append(c, b)
<1>1. /\ a \in Seq(Block) /\ Len(a) = Len(c) + 1 /\ Len(c) \in Nat
      /\ Linked(a) /\ Numbered(a) /\ Blocks(a) = Blocks(c) \cup {b}
  BY PushFacts
<1>2. Branch(L, c) => Branch(L \cup {b}, a)
  BY PushBranch
<1> HIDE DEF a
<1>3. Window \in Nat \ {0} /\ Len(a) \in Nat
  BY <1>1, IndexerConstantsOK
<1>4. CASE Len(a) > Window
  <2>1. a # <<>> /\ Len(a) > 1
    BY <1>1, <1>3, <1>4
  <2>2. /\ Linked(Tail(a)) /\ Numbered(Tail(a)) /\ Len(Tail(a)) = Len(a) - 1
        /\ Blocks(a) = Blocks(Tail(a)) \cup {a[1]}
    BY <1>1, <2>1, ShiftFacts
  <2>3. Branch(L \cup {b}, a) => Branch(L \cup {b}, Tail(a))
    BY <1>1, <2>1, ShiftBranch
  <2>4. Trim(a) = Tail(a)
    BY <1>4 DEF Trim
  <2>5. Len(Tail(a)) <= Window
    BY <1>1, <1>3, <2>2
  <2> QED  BY <1>1, <1>2, <2>2, <2>3, <2>4, <2>5 DEF a
<1>5. CASE ~(Len(a) > Window)
  <2>1. Trim(a) = a /\ Len(a) <= Window
    BY <1>3, <1>5 DEF Trim
  <2> QED  BY <1>1, <1>2, <2>1 DEF a
<1> QED
  BY <1>4, <1>5

\* FeedInv is inductive.
LEMMA FeedInvariant == Spec => []FeedInv
<1>1. Init => FeedInv
  <2> SUFFICES ASSUME Init PROVE FeedInv
    OBVIOUS
  <2>1. chain = <<>> /\ work = <<>> /\ live = {}
    BY DEF Init
  <2>2. Blocks(<<>>) = {}
    BY DEF Blocks
  <2>3. Linked(<<>>) /\ Numbered(<<>>)
    BY DEF Linked, Numbered
  <2>4. OneBranch
    BY <2>1, <2>3, IndexerConstantsOK DEF OneBranch
  <2>5. TrackedIsLive /\ ReplayIsBranch
    BY <2>1, <2>2 DEF TrackedIsLive, ReplayIsBranch, Tracked
  <2>6. TypeOK
    BY InitType
  <2> QED
    BY <2>1, <2>3, <2>4, <2>5, <2>6 DEF FeedInv
<1>2. FeedInv /\ [Next]_vars => FeedInv'
  <2> SUFFICES ASSUME FeedInv, [Next]_vars PROVE FeedInv'
    OBVIOUS
  <2>1. TypeOK /\ TypeOK'
    BY StepType DEF FeedInv
  <2>2. /\ Linked(chain) /\ Numbered(chain) /\ Len(chain) <= Window
        /\ Linked(work) /\ Numbered(work) /\ Len(work) <= Window
    BY DEF FeedInv, OneBranch
  <2>3. Blocks(Tracked) \subseteq live /\ (~lost => Branch(live, Tracked))
    BY DEF FeedInv, TrackedIsLive, ReplayIsBranch, Branch
  <2>4. ASSUME /\ Linked(chain') /\ Numbered(chain') /\ Len(chain') <= Window
               /\ Linked(work') /\ Numbered(work') /\ Len(work') <= Window,
               Blocks(Tracked') \subseteq live',
               ~lost' => Branch(live', Tracked')
        PROVE  FeedInv'
    <3>1. OneBranch'
      BY <2>4 DEF OneBranch, Linked
    <3>2. Numbered(chain)' /\ Numbered(work)'
      BY <2>4 DEF Numbered
    <3>3. TrackedIsLive'
      BY <2>4 DEF TrackedIsLive, Blocks
    <3>4. ReplayIsBranch'
      BY <2>4 DEF ReplayIsBranch, Branch, Blocks
    <3> QED  BY <2>1, <3>1, <3>2, <3>3, <3>4 DEF FeedInv
  <2>5. ASSUME UNCHANGED <<chain, work, feedVars>>, Tracked' = Tracked
        PROVE  FeedInv'
    BY <2>2, <2>3, <2>4, <2>5 DEF feedVars
  <2>6. ASSUME NEW v \in Node, Mine(v) \/ \E d \in Depths : Reorg(v, d)
        PROVE  FeedInv'
    <3>1. UNCHANGED <<chain, pc, work, feedVars>>
      BY <2>6 DEF Mine, Reorg, syncVars
    <3> QED  BY <2>5, <3>1 DEF Tracked
  <2>7. ASSUME NEW v \in Node, SyncStart(v)
        PROVE  FeedInv'
    <3>1. chain' = chain /\ work' = chain /\ UNCHANGED feedVars
      BY <2>7 DEF SyncStart
    <3>2. Tracked = chain /\ Tracked' = chain
      BY <2>7 DEF SyncStart, Tracked
    <3> QED  BY <2>2, <2>3, <2>4, <3>1, <3>2 DEF feedVars
  <2>8. ASSUME NEW v \in Node, UnwindMatch(v) \/ FetchMismatch(v)
        PROVE  FeedInv'
    <3>1. UNCHANGED <<chain, work, feedVars>> /\ pc # "idle" /\ pc' # "idle"
      BY <2>8 DEF UnwindMatch, FetchMismatch
    <3> QED  BY <2>5, <3>1 DEF Tracked
  <2>9. ASSUME NEW v \in Node, UnwindPop(v)
        PROVE  FeedInv'
    <3>1. /\ work \in Seq(Block) /\ work # <<>> /\ live \in SUBSET Block
          /\ Tracked = work
      BY <2>1, <2>9 DEF TypeOK, UnwindPop, Tracked
    <3>2. /\ work' = Front(work) /\ live' = live \ {Last(work)} /\ chain' = chain
          /\ pc' # "idle"
      BY <2>9 DEF UnwindPop, EmitReorged
    <3>3. Tracked' = Front(work)
      BY <3>2 DEF Tracked
    <3>4. /\ Linked(Front(work)) /\ Numbered(Front(work))
          /\ Len(Front(work)) = Len(work) - 1 /\ Len(work) \in Nat \ {0}
          /\ Blocks(work) = Blocks(Front(work)) \cup {Last(work)}
          /\ \A x \in Blocks(Front(work)) : Number(x) < Number(Last(work))
          /\ Last(work) \in Block
      BY <2>2, <3>1, PopFacts
    <3>5. Len(Front(work)) <= Window
      BY <2>2, <3>4, IndexerConstantsOK
    <3>6. Number(Last(work)) \in Nat
      BY <3>4, NumberFacts
    <3>7. Blocks(Front(work)) \subseteq live'
      <4>1. Last(work) \notin Blocks(Front(work))
        BY <3>4, <3>6
      <4> QED  BY <2>3, <3>1, <3>2, <3>4, <4>1
    <3>8. ~lost' => Branch(live', Front(work))
      <4>1. CASE Len(work) = 1
        <5>1. ~lost' => live' = {}
          BY <2>9, <4>1 DEF UnwindPop
        <5> QED  BY <5>1 DEF Branch
      <4>2. CASE Len(work) # 1
        <5>1. Len(work) > 1
          BY <3>4, <4>2
        <5>2. lost' = lost
          BY <2>9, <4>2 DEF UnwindPop
        <5> QED  BY <2>2, <2>3, <3>1, <3>2, <5>1, <5>2, PopBranch
      <4> QED  BY <4>1, <4>2
    <3> QED
      BY <2>2, <2>4, <3>2, <3>3, <3>4, <3>5, <3>7, <3>8
  <2>10. ASSUME NEW v \in Node, FetchNew(v)
         PROVE  FeedInv'
    <3> DEFINE b == At(v, next)
    <3>1. /\ work \in Seq(Block) /\ live \in SUBSET Block
          /\ Tracked = work /\ next \in Nat
      BY <2>1, <2>10 DEF TypeOK, FetchNew, Tracked
    <3>2. b \in Block
      BY <2>1, <2>10, <3>1, AnswerFacts DEF FetchNew, Continues
    <3>3. work # <<>> => Parent(b) = Last(work)
      BY <2>10 DEF FetchNew, Continues
    <3>4. /\ work' = Trim(Append(work, b)) /\ live' = live \cup {b}
          /\ chain' = chain /\ lost' = lost /\ pc' # "idle"
      BY <2>10 DEF FetchNew, EmitNew
    <3> HIDE DEF b
    <3>5. /\ Linked(work') /\ Numbered(work') /\ Len(work') <= Window
          /\ Blocks(work') \subseteq live'
          /\ Branch(live, work) => Branch(live', work')
      BY <2>2, <2>3, <3>1, <3>2, <3>3, <3>4, FetchFacts
    <3>6. Tracked' = work'
      BY <3>4 DEF Tracked
    <3> QED
      BY <2>2, <2>3, <2>4, <3>1, <3>4, <3>5, <3>6
  <2>11. CASE Store
    <3>1. chain' = work /\ work' = <<>> /\ UNCHANGED feedVars
      BY <2>11 DEF Store
    <3>2. Tracked = work /\ Tracked' = work
      BY <2>11 DEF Store, Tracked
    <3>3. Linked(<<>>) /\ Numbered(<<>>) /\ Len(<<>>) <= Window
      BY IndexerConstantsOK DEF Linked, Numbered
    <3> QED  BY <2>2, <2>3, <2>4, <3>1, <3>2, <3>3 DEF feedVars
  <2>12. CASE UNCHANGED vars
    BY <2>5, <2>12 DEF vars, feedVars, Tracked
  <2>13. SyncError => FeedInv'
    <3> SUFFICES ASSUME SyncError PROVE FeedInv'
      OBVIOUS
    <3>1. UNCHANGED <<chain, work, feedVars>> /\ pc # "idle" /\ pc' # "idle"
      BY DEF SyncError
    <3> QED  BY <2>5, <3>1 DEF Tracked
  <2> QED
    BY <2>6, <2>7, <2>8, <2>9, <2>10, <2>11, <2>12, <2>13 DEF Next
<1> QED
  BY <1>1, <1>2, PTL DEF Spec

\* What readers see and what a Sync pass builds is one branch of at most Window
\* blocks, all of them announced; and a consumer that replays block.new and
\* block.reorged gets one branch ending in the indexer's tip, unless an unwind
\* ran out of the window.
THEOREM FeedCorrect == Spec => [](OneBranch /\ TrackedIsLive /\ ReplayIsBranch)
<1>1. FeedInv => OneBranch /\ TrackedIsLive /\ ReplayIsBranch
  BY DEF FeedInv
<1> QED
  BY <1>1, FeedInvariant, PTL

\* Readers of the stored chain always see one branch that fits the window.
THEOREM ReadersSeeOneBranch == Spec => []OneBranch
  BY FeedCorrect, PTL

-----------------------------------------------------------------------------
\* A live block has left the window only if the stream has been a whole window
\* above the tracked chain's oldest block.
HighInv ==
    ~lost =>
        /\ \A b \in live : Number(b) <= high
        /\ \A b \in live \ Blocks(Tracked) :
              Tracked # <<>> /\ Number(Tracked[1]) + Window <= high + 1

\* The facts about a retraction that HighInv and the refinement need.
LEMMA PopStep ==
  ASSUME FeedInv, HighInv, ~lost, NEW v \in Node, UnwindPop(v)
  PROVE  LET t == Last(work) IN
         /\ t \in live /\ \A c \in live : Number(c) <= Number(t)
         /\ live' = live \ {t} /\ high' = high
         /\ lost' => live' # {} /\ Number(t) + Window <= high + 1
         /\ ~lost' => HighInv'
<1> DEFINE t == Last(work)
<1>1. /\ work \in Seq(Block) /\ work # <<>> /\ live \in SUBSET Block /\ Tracked = work
      /\ Linked(work) /\ Numbered(work) /\ Blocks(work) \subseteq live /\ Branch(live, work)
  BY DEF FeedInv, TypeOK, OneBranch, TrackedIsLive, ReplayIsBranch, Branch, UnwindPop, Tracked
<1>2. /\ Blocks(work) = Blocks(Front(work)) \cup {t}
      /\ Len(work) \in Nat \ {0} /\ Len(Front(work)) = Len(work) - 1
      /\ Len(work) > 1 => Front(work)[1] = work[1]
  BY <1>1, PopFacts
<1>3. \A c \in live : Number(c) <= Number(t)
  BY <1>1, TipIsHighest
<1>4. /\ live' = live \ {t} /\ high' = high /\ work' = Front(work)
      /\ Tracked' = Front(work)
  BY DEF UnwindPop, EmitReorged, Tracked
<1>5. ASSUME Len(work) = 1
      PROVE  /\ lost' => live' # {} /\ Number(t) + Window <= high + 1
             /\ ~lost' => live' = {}
  <2>1. t = work[1] /\ Blocks(work) = {t}
    <3>1. DOMAIN work = {1}
      BY <1>1, <1>5
    <3> QED  BY <1>5, <3>1 DEF Last, Blocks
  <2>2. lost' <=> live' # {}
    BY <1>5 DEF UnwindPop
  <2>3. \A c \in live \ {t} : Number(work[1]) + Window <= high + 1
    BY <1>1, <2>1 DEF HighInv
  <2> QED  BY <1>4, <2>1, <2>2, <2>3
<1>6. ASSUME Len(work) # 1
      PROVE  lost' = lost /\ HighInv'
  <2>1. lost' = lost
    BY <1>6 DEF UnwindPop
  <2>2. Len(work) > 1 /\ Front(work) # <<>>
    BY <1>2, <1>6
  <2>3. \A c \in live' : Number(c) <= high'
    BY <1>4 DEF HighInv
  <2>4. \A c \in live' \ Blocks(Front(work)) :
            Number(Front(work)[1]) + Window <= high' + 1
    BY <1>1, <1>2, <1>4, <2>2 DEF HighInv
  <2>5. Blocks(Tracked)' = Blocks(Front(work))
    BY <1>4 DEF Blocks
  <2> QED  BY <1>4, <2>1, <2>2, <2>3, <2>4, <2>5 DEF HighInv
<1>7. live' = {} => HighInv'
  BY DEF HighInv
<1> QED
  BY <1>1, <1>2, <1>3, <1>4, <1>5, <1>6, <1>7

\* And those about an announcement.
LEMMA PushStep ==
  ASSUME FeedInv, HighInv, ~lost, NEW v \in Node, FetchNew(v)
  PROVE  LET b == At(v, next) IN
         /\ live = {} \/ (Parent(b) \in live /\ \A c \in live : Number(c) <= Number(Parent(b)))
         /\ b \notin live
         /\ live' = live \cup {b} /\ lost' = lost
         /\ high' = IF live = {} \/ Number(b) > high THEN Number(b) ELSE high
         /\ HighInv'
<1> DEFINE b == At(v, next)
<1> DEFINE a == Append(work, b)
<1>1. /\ work \in Seq(Block) /\ live \in SUBSET Block /\ Tracked = work /\ next \in Nat
      /\ Linked(work) /\ Numbered(work) /\ Len(work) <= Window /\ high \in Nat
      /\ Blocks(work) \subseteq live /\ Branch(live, work)
  BY DEF FeedInv, TypeOK, OneBranch, TrackedIsLive, ReplayIsBranch, Branch, FetchNew, Tracked
<1>2. b \in Block /\ (work # <<>> => Parent(b) = Last(work))
  BY <1>1, AnswerFacts DEF FeedInv, FetchNew, Continues
<1>3. /\ live' = live \cup {b} /\ lost' = lost
      /\ high' = IF live = {} \/ Number(b) > high THEN Number(b) ELSE high
      /\ work' = Trim(a) /\ Tracked' = Trim(a)
  BY DEF FetchNew, EmitNew, Tracked
<1>4. /\ a \in Seq(Block) /\ Len(a) = Len(work) + 1 /\ Len(work) \in Nat
      /\ Linked(a) /\ Numbered(a) /\ Blocks(a) = Blocks(work) \cup {b}
  BY <1>1, <1>2, PushFacts
<1>5. Number(b) \in Nat /\ Number(Parent(b)) = Number(b) - 1 /\ Window \in Nat \ {0}
  BY <1>2, NumberFacts, IndexerConstantsOK
<1>6. /\ a[Len(a)] = b
      /\ work # <<>> => a[1] = work[1]
  BY <1>1, <1>2, <1>4, AppendProperties, LenProperties
<1> HIDE DEF a, b
<1>7. work = <<>> => live = {}
  BY <1>1 DEF Branch, Blocks
<1>8. ASSUME work # <<>>
      PROVE  /\ Parent(b) \in live /\ \A c \in live : Number(c) <= Number(Parent(b))
             /\ \A c \in live : Number(c) \in Nat /\ Number(c) < Number(b)
  <2>1. Last(work) \in live
    BY <1>1, <1>8, PopFacts
  <2>2. \A c \in live : Number(c) \in Nat /\ Number(c) <= Number(Last(work))
    BY <1>1, <1>8, TipIsHighest
  <2> QED  BY <1>2, <1>5, <1>8, <2>1, <2>2
<1>9. b \notin live
  BY <1>5, <1>7, <1>8
<1>10. \A c \in live' : Number(c) <= high'
  <2>1. \A c \in live : Number(c) <= high /\ Number(c) \in Nat
    BY <1>7, <1>8 DEF HighInv
  <2> QED  BY <1>1, <1>3, <1>5, <2>1
<1>11. high' \in Nat /\ Number(b) <= high' /\ (live # {} => high <= high')
  BY <1>1, <1>3, <1>5
<1>12. a # <<>> /\ Len(a) \in Nat \ {0}
  BY <1>4
<1>13. Trim(a) # <<>> /\ \A c \in live' \ Blocks(Trim(a)) : Number(Trim(a)[1]) + Window <= high' + 1
  <2>1. CASE Len(a) > Window
    <3>1. Len(a) = Window + 1 /\ Trim(a) = Tail(a) /\ Len(a) > 1
      BY <1>1, <1>4, <1>5, <2>1 DEF Trim
    <3>2. /\ Tail(a) \in Seq(Block) /\ Len(Tail(a)) = Len(a) - 1
          /\ Number(Tail(a)[1]) = Number(a[1]) + 1
      BY <1>4, <1>12, <3>1, ShiftFacts
    <3>3. Number(a[Len(a)]) = Number(a[1]) + Len(a) - 1
      BY <1>4, <1>12 DEF Numbered
    <3>4. a[1] \in Block
      BY <1>4, <1>12
    <3>5. Number(a[1]) \in Nat
      BY <3>4, NumberFacts
    <3>6. Number(Tail(a)[1]) + Window = Number(b) + 1
      BY <1>5, <1>6, <3>1, <3>2, <3>3, <3>5
    <3>7. Tail(a) # <<>>
      <4>1. Len(Tail(a)) # 0
        BY <1>5, <3>1, <3>2
      <4>2. \A d \in Seq(Block) : Len(d) # 0 => d # <<>>
        OBVIOUS
      <4> QED  BY <3>2, <4>1, <4>2
    <3> QED  BY <1>5, <1>11, <3>1, <3>6, <3>7
  <2>2. CASE ~(Len(a) > Window)
    <3>1. Trim(a) = a
      BY <2>2 DEF Trim
    <3>2. ASSUME NEW c \in live' \ Blocks(a) PROVE Number(a[1]) + Window <= high' + 1
      <4>1. c \in live \ Blocks(work) /\ live # {} /\ work # <<>>
        BY <1>3, <1>4, <1>7, <3>2
      <4>2. Number(work[1]) + Window <= high + 1
        BY <1>1, <4>1 DEF HighInv
      <4>3. work[1] \in Block
        BY <1>1, <4>1
      <4>4. Number(work[1]) \in Nat
        BY <4>3, NumberFacts
      <4> QED  BY <1>1, <1>5, <1>6, <1>11, <4>1, <4>2, <4>4
    <3> QED  BY <1>12, <3>1, <3>2
  <2> QED  BY <2>1, <2>2
<1>14. HighInv'
  <2>1. Blocks(Tracked)' = Blocks(Trim(a))
    BY <1>3 DEF Blocks
  <2> QED  BY <1>3, <1>10, <1>13, <2>1 DEF HighInv
<1> QED
  BY <1>3, <1>7, <1>8, <1>9, <1>14 DEF b

\* The steps that neither announce nor retract.
Quiet ==
    \/ \E v \in Node : Mine(v) \/ \E d \in Depths : Reorg(v, d)
    \/ \E v \in Node : SyncStart(v) \/ UnwindMatch(v) \/ FetchMismatch(v)
    \/ SyncError \/ Store \/ UNCHANGED vars

\* Such a step changes neither the feed nor the tracked chain.
LEMMA QuietStep ==
  ASSUME Quiet
  PROVE  UNCHANGED feedVars /\ Tracked' = Tracked
<1>1. CASE \E v \in Node : Mine(v) \/ \E d \in Depths : Reorg(v, d)
  BY <1>1 DEF Mine, Reorg, syncVars, feedVars, Tracked
<1>2. CASE \E v \in Node : SyncStart(v) \/ UnwindMatch(v) \/ FetchMismatch(v)
  BY <1>2 DEF SyncStart, UnwindMatch, FetchMismatch, Tracked, feedVars
<1>3. CASE SyncError \/ Store \/ UNCHANGED vars
  BY <1>3 DEF SyncError, Store, vars, Tracked, feedVars
<1> QED
  BY <1>1, <1>2, <1>3 DEF Quiet

\* The indexer implements the feed: every step of nodes and indexer is, to a
\* consumer, an announcement on top of the branch it holds, a retraction of its
\* tip, or nothing; and the branch is lost only to a reorganisation at least as
\* deep as the window.
THEOREM Refinement == Spec => ImplementsFeed
<1>1. Init => HighInv /\ F!Init
  BY DEF Init, HighInv, F!Init
<1>2. ASSUME FeedInv, HighInv, [Next]_vars
      PROVE  HighInv' /\ [F!Next]_F!feedVars
  <2>1. ASSUME Quiet PROVE HighInv' /\ [F!Next]_F!feedVars
    <3>1. UNCHANGED feedVars /\ Tracked' = Tracked
      BY <2>1, QuietStep
    <3>2. Blocks(Tracked)' = Blocks(Tracked)
      BY <3>1 DEF Blocks
    <3> QED  BY <1>2, <3>1, <3>2 DEF HighInv, feedVars, F!feedVars
  <2>2. ASSUME lost, NEW v \in Node, UnwindPop(v) \/ FetchNew(v)
        PROVE  HighInv' /\ [F!Next]_F!feedVars
    <3>1. lost'
      BY <2>2 DEF UnwindPop, FetchNew
    <3> QED  BY <2>2, <3>1 DEF HighInv, F!Next
  <2>3. ASSUME ~lost, NEW v \in Node, UnwindPop(v)
        PROVE  HighInv' /\ [F!Next]_F!feedVars
    <3> DEFINE t == Last(work)
    <3>1. /\ t \in live /\ \A c \in live : Number(c) <= Number(t)
          /\ live' = live \ {t} /\ high' = high
          /\ lost' => live' # {} /\ Number(t) + Window <= high + 1
          /\ ~lost' => HighInv'
      BY <1>2, <2>3, PopStep
    <3> HIDE DEF t
    <3>2. F!Retract(t) /\ t \in live \ live'
      BY <3>1 DEF F!Retract, F!IsTip, F!Number, Number
    <3> QED  BY <2>3, <3>1, <3>2 DEF HighInv, F!Next
  <2>4. ASSUME ~lost, NEW v \in Node, FetchNew(v)
        PROVE  HighInv' /\ [F!Next]_F!feedVars
    <3> DEFINE b == At(v, next)
    <3>1. /\ live = {} \/ (Parent(b) \in live /\ \A c \in live : Number(c) <= Number(Parent(b)))
          /\ b \notin live
          /\ live' = live \cup {b} /\ lost' = lost
          /\ high' = IF live = {} \/ Number(b) > high THEN Number(b) ELSE high
          /\ HighInv'
      BY <1>2, <2>4, PushStep
    <3> HIDE DEF b
    <3>2. F!Announce(b) /\ b \in live' \ live
      BY <3>1 DEF F!Announce, F!IsTip, F!Number, F!Parent, Number, Parent
    <3> QED  BY <2>4, <3>1, <3>2 DEF F!Next
  <2>5. Quiet \/ \E v \in Node : UnwindPop(v) \/ FetchNew(v)
    BY <1>2 DEF Next, Quiet
  <2> QED
    BY <2>1, <2>2, <2>3, <2>4, <2>5
<1> QED
  BY <1>1, <1>2, FeedInvariant, PTL DEF Spec, ImplementsFeed, F!Spec

=============================================================================
