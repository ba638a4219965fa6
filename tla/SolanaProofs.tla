---------------------------- MODULE SolanaProofs ----------------------------
(***************************************************************************)
(* Block of the Solana source implements Source and answers what it should *)
(* when the nodes agree, for any number of nodes, any lookback and any     *)
(* number of slots, and so it does in the gateway's polling loop, whose    *)
(* steps are steps of the source or leave it alone (LoopUsesSource).       *)
(*                                                                         *)
(* Between its calls Block knows what the nodes told it; while they agree  *)
(* (Calm) that is still so.  A node's slots rise with the height (Rising), *)
(* so the blocks up to a slot are the first of its ledger (UpToFacts), and *)
(* counting back from the end of the window finds the height asked for     *)
(* (InWindow).                                                             *)
(***************************************************************************)
EXTENDS Gateway, SequenceTheorems, FiniteSetTheorems, WellFoundedInduction, TLAPS

Blocks == [slot : Nat, by : Node \cup {"genesis"}]

\* All that the refinement needs of a state: no node's ledger is empty (it has the
\* genesis block), and a height is a number.
Ledgers ==
    /\ ledger \in [Node -> Seq(Blocks)]
    /\ \A v \in Node : Len(ledger[v]) > 0
    /\ height \in Nat

asked == IF pc = "idle" THEN << >> ELSE <<height>>

-----------------------------------------------------------------------------
\* A node's head and its slots are natural numbers.
LEMMA Heads ==
    ASSUME Ledgers, NEW v \in Node
    PROVE  /\ Len(ledger[v]) \in Nat /\ HeadOf(v) \in Nat
           /\ HeadOf(v) + 1 = Len(ledger[v]) /\ SlotOf(v) \in Nat
           /\ \A i \in 1 .. Len(ledger[v]) : ledger[v][i].slot \in Nat
<1>1. ledger[v] \in Seq(Blocks)
  BY DEF Ledgers
<1>2. Len(ledger[v]) \in Nat /\ Len(ledger[v]) > 0
  BY <1>1 DEF Ledgers
<1>3. \A i \in 1 .. Len(ledger[v]) : ledger[v][i] \in Blocks
  BY <1>1, ElementOfSeq
<1>4. \A i \in 1 .. Len(ledger[v]) : ledger[v][i].slot \in Nat
  BY <1>3 DEF Blocks
<1>5. Len(ledger[v]) \in 1 .. Len(ledger[v])
  BY <1>2
<1>6. SlotOf(v) \in Nat
  BY <1>4, <1>5 DEF SlotOf
<1> QED
  BY <1>2, <1>4, <1>6 DEF HeadOf

\* Producing appends a block, following copies a ledger: none becomes empty.
LEMMA LedgersStay == Ledgers /\ [Next]_vars => Ledgers'
<1> SUFFICES ASSUME Ledgers, [Next]_vars PROVE Ledgers'
  OBVIOUS
<1>1. ASSUME NEW v \in Node, NEW s \in 1 .. MaxSlot, Produce(v, s) PROVE Ledgers'
  <2> DEFINE b == [slot |-> s, by |-> v]
  <2>1. b \in Blocks
    BY SolanaConstantsOK DEF Blocks, SolanaConstantsOK
  <2>2. ledger[v] \in Seq(Blocks)
    BY DEF Ledgers
  <2> HIDE DEF b
  <2>3. Append(ledger[v], b) \in Seq(Blocks) /\ Len(Append(ledger[v], b)) > 0
    BY <2>1, <2>2
  <2>4. ledger' = [ledger EXCEPT ![v] = Append(ledger[v], b)] /\ height' = height
    BY <1>1 DEF Produce, b
  <2> QED
    BY <2>3, <2>4 DEF Ledgers
<1>2. ASSUME NEW u \in Node, NEW v \in Node, Follow(v, u) PROVE Ledgers'
  BY <1>2 DEF Follow, Ledgers
<1>3. ASSUME NEW n \in 0 .. MaxSlot, Call(n) PROVE Ledgers'
  BY <1>3 DEF Call, Ledgers
<1>4. ASSUME NEW v \in Node, AskHead(v) \/ AskSlot(v) \/ AskBlocks(v) \/ AskBlock(v) PROVE Ledgers'
  <2>1. UNCHANGED <<ledger, height>>
    BY <1>4 DEF AskHead, AskSlot, AskBlocks, AskBlock, Return
  <2> QED
    BY <2>1 DEF Ledgers
<1>5. CASE CallFails
  BY <1>5 DEF CallFails, Return, Ledgers
<1>6. CASE UNCHANGED vars
  BY <1>6 DEF vars, Ledgers
<1> QED
  BY <1>1, <1>2, <1>3, <1>4, <1>5, <1>6 DEF Next

\* Holding of Ledgers in every reachable state.
LEMMA LedgersAlways == Spec => []Ledgers
<1>1. Init => Ledgers
  BY DEF Init, Ledgers, Genesis, Blocks
<1> QED
  BY <1>1, LedgersStay, PTL DEF Spec

-----------------------------------------------------------------------------
\* Each step of Block that returns gives the answer that the node asked in that
\* very step would give alone; what was read before only selects the question.
LEMMA Answered ==
    ASSUME Ledgers, NEW v \in Node, AskHead(v) \/ AskSlot(v) \/ AskBlocks(v) \/ AskBlock(v)
    PROVE  S!Next
<1>0. pc # "idle" /\ asked = <<height>> /\ asked # << >> /\ asked[1] = height
  BY DEF asked, AskHead, AskSlot, AskBlocks, AskBlock
<1>1. ASSUME NEW r, Return(r), r.kind = "error" \/ r = S!AnswerOf(v, height) PROVE S!Next
  BY <1>0, <1>1 DEF Return, S!Next, S!Answer, asked
<1>2. ASSUME pc' # "idle", UNCHANGED <<height, result>> PROVE S!Next
  BY <1>0, <1>2 DEF S!Next, S!ChainsMove
<1>3. CASE AskHead(v)
  <2>1. CASE height > HeadOf(v)
    <3>1. ~(height < Len(ledger[v]))
      BY <2>1, Heads DEF Ledgers
    <3>2. S!AnswerOf(v, height) = NotFound
      BY <3>1 DEF S!AnswerOf, NotFound
    <3> QED
      BY <1>1, <1>3, <2>1, <3>2 DEF AskHead
  <2>2. CASE ~(height > HeadOf(v))
    BY <1>2, <1>3, <2>2 DEF AskHead
  <2> QED
    BY <2>1, <2>2
<1>4. CASE AskSlot(v)
  BY <1>2, <1>4 DEF AskSlot
<1>5. \A why : Error(why).kind = "error"
  BY DEF Error
<1>6. CASE AskBlocks(v)
  BY <1>1, <1>2, <1>5, <1>6 DEF AskBlocks
<1>7. CASE AskBlock(v)
  <2>1. CASE Return(Error("no block")) \/ Return(Error("mismatch"))
    BY <1>1, <1>5, <2>1
  <2>2. ASSUME NEW n \in 0 .. HeadOf(v), Fits(n), Return(Found(height, BlockAt(v, n))) PROVE S!Next
    <3>1. n = height /\ height < Len(ledger[v])
      BY <2>2, Heads DEF Fits
    <3>2. S!AnswerOf(v, height) = Found(height, BlockAt(v, n))
      BY <3>1 DEF S!AnswerOf, S!BlockAt, Found, BlockAt
    <3> QED
      BY <1>1, <2>2, <3>2
  <2> QED
    BY <1>7, <2>1, <2>2 DEF AskBlock
<1> QED
  BY <1>3, <1>4, <1>6, <1>7

\* Every other step asks, fails, or is a step of the nodes only.
LEMMA Steps == Ledgers /\ [Next]_vars => [S!Next]_<<ledger, asked, result>>
<1> SUFFICES ASSUME Ledgers, [Next]_vars PROVE S!Next \/ UNCHANGED <<ledger, asked, result>>
  OBVIOUS
<1>1. ASSUME NEW v \in Node, NEW s \in 1 .. MaxSlot, Produce(v, s) PROVE S!Next
  BY <1>1 DEF Produce, S!Next, S!ChainsMove
<1>2. ASSUME NEW u \in Node, NEW v \in Node, Follow(v, u) PROVE S!Next
  BY <1>2 DEF Follow, S!Next, S!ChainsMove
<1>3. ASSUME NEW n \in 0 .. MaxSlot, Call(n) PROVE S!Next
  BY <1>3 DEF Call, S!Next, S!Ask, S!Nothing, Nothing
<1>4. ASSUME NEW v \in Node, AskHead(v) \/ AskSlot(v) \/ AskBlocks(v) \/ AskBlock(v) PROVE S!Next
  BY <1>4, Answered
<1>5. CASE CallFails
  BY <1>5 DEF CallFails, Return, Error, S!Next, S!Answer
<1>6. CASE UNCHANGED vars
  BY <1>6 DEF vars, asked
<1> QED
  BY <1>1, <1>2, <1>3, <1>4, <1>5, <1>6 DEF Next

\* Block implements Source: no interleaving of its four calls with the nodes'
\* progress makes it answer what no node would have answered at one moment.
THEOREM Refinement == Spec => ImplementsSource
<1>1. Init => S!Init
  BY DEF Init, S!Init, S!Nothing, Nothing
<1>2. Spec => [][S!Next]_<<ledger, asked, result>>
  BY LedgersAlways, Steps, PTL DEF Spec
<1> QED
  BY <1>1, <1>2, PTL DEF Spec, ImplementsSource, S!Spec, asked

-----------------------------------------------------------------------------
(* Counting the blocks of the window.                                        *)

Rising ==
    \A v \in Node : \A i, j \in 1 .. Len(ledger[v]) :
        i < j => ledger[v][i].slot < ledger[v][j].slot

\* Every set of natural numbers that is not empty has a least element.
LEMMA Least ==
  ASSUME NEW T \in SUBSET Nat, T # {}
  PROVE  \E x \in T : \A y \in T : x <= y
<1> DEFINE R == OpToRel(<, Nat)
<1>1. IsWellFoundedOn(R, Nat)
  BY NatLessThanWellFounded, Zenon
<1>2. \A x, y \in Nat : x < y => <<x, y>> \in R
  BY DEF OpToRel
<1> HIDE DEF R
<1>3. PICK x \in T : \A y \in T : ~(<<y, x>> \in R)
  BY <1>1, WFMin
<1>4. \A y \in T : ~(y < x)
  BY <1>2, <1>3
<1> QED
  BY <1>4

\* A set of indices that contains all below its members is 1 .. its size.
LEMMA FirstOnes ==
  ASSUME NEW n \in Nat, NEW A \in SUBSET (1 .. n),
         \A i, j \in 1 .. n : i < j /\ j \in A => i \in A
  PROVE  Cardinality(A) \in 0 .. n /\ A = 1 .. Cardinality(A)
<1> DEFINE T == {i \in 1 .. n + 1 : i \notin A}
<1>1. T \in SUBSET Nat /\ n + 1 \in T
  OBVIOUS
<1>2. PICK m \in T : \A y \in T : m <= y
  BY <1>1, Least
<1>3. m \in 1 .. n + 1 /\ m \notin A
  OBVIOUS
<1>4. \A i \in 1 .. m - 1 : i \in A
  <2> SUFFICES ASSUME NEW i \in 1 .. m - 1, i \notin A PROVE FALSE
    OBVIOUS
  <2>1. i \in T
    BY <1>3
  <2> QED  BY <1>2, <1>3, <2>1
<1>5. \A i \in A : i \in 1 .. m - 1
  BY <1>3
<1>6. A = 1 .. m - 1
  BY <1>4, <1>5
<1>7. m - 1 \in Int /\ 1 \in Int /\ m - 1 \in 0 .. n
  BY <1>3
<1>8. Cardinality(1 .. m - 1) = m - 1
  BY <1>7, FS_Interval
<1> QED
  BY <1>6, <1>7, <1>8

\* A node's blocks up to a slot are the first of its ledger.
LEMMA UpToFacts ==
  ASSUME Ledgers, Rising, NEW v \in Node, NEW s \in Int
  PROVE  /\ UpTo(v, s) \in 0 .. Len(ledger[v])
         /\ \A i \in 1 .. Len(ledger[v]) : i <= UpTo(v, s) <=> ledger[v][i].slot <= s
<1> DEFINE n == Len(ledger[v])
<1> DEFINE A == {i \in 1 .. n : ledger[v][i].slot <= s}
<1>1. n \in Nat /\ \A i \in 1 .. n : ledger[v][i].slot \in Nat
  BY Heads
<1>2. \A i, j \in 1 .. n : i < j /\ j \in A => i \in A
  <2> SUFFICES ASSUME NEW i \in 1 .. n, NEW j \in 1 .. n, i < j, j \in A PROVE ledger[v][i].slot <= s
    OBVIOUS
  <2>1. ledger[v][i].slot < ledger[v][j].slot /\ ledger[v][j].slot <= s
    BY DEF Rising
  <2>2. ledger[v][i].slot \in Nat /\ ledger[v][j].slot \in Nat
    BY <1>1
  <2> QED  BY <2>1, <2>2
<1>3. A \in SUBSET (1 .. n)
  OBVIOUS
<1>4. UpTo(v, s) = Cardinality(A)
  BY DEF UpTo
<1>5. \A i \in 1 .. n : i \in A <=> ledger[v][i].slot <= s
  OBVIOUS
<1> HIDE DEF A
<1>6. Cardinality(A) \in 0 .. n /\ A = 1 .. Cardinality(A)
  BY <1>1, <1>2, <1>3, FirstOnes
<1>7. \A i \in 1 .. n : i <= Cardinality(A) <=> i \in A
  BY <1>1, <1>6
<1> QED
  BY <1>4, <1>5, <1>6, <1>7

\* The list of getBlocks.
LEMMA BlocksFacts ==
  ASSUME Ledgers, Rising, slot \in Nat, NEW v \in Node
  PROVE  /\ From \in Nat /\ From <= slot
         /\ UpTo(v, slot) - UpTo(v, From - 1) \in Nat
         /\ BlocksOf(v) \in Seq(Nat)
         /\ Len(BlocksOf(v)) = UpTo(v, slot) - UpTo(v, From - 1)
         /\ \A i \in 1 .. Len(BlocksOf(v)) :
                BlocksOf(v)[i] = ledger[v][UpTo(v, From - 1) + i].slot
<1> DEFINE lo == UpTo(v, From - 1)
<1> DEFINE hi == UpTo(v, slot)
<1> DEFINE n == Len(ledger[v])
<1>1. From \in Nat /\ From <= slot /\ From - 1 \in Int
  BY SolanaConstantsOK DEF From
<1>2. n \in Nat /\ \A i \in 1 .. n : ledger[v][i].slot \in Nat
  BY Heads
<1>3. lo \in 0 .. n /\ \A i \in 1 .. n : i <= lo <=> ledger[v][i].slot <= From - 1
  BY <1>1, UpToFacts
<1>4. hi \in 0 .. n /\ \A i \in 1 .. n : i <= hi <=> ledger[v][i].slot <= slot
  BY UpToFacts
<1>5. BlocksOf(v) = [i \in 1 .. hi - lo |-> ledger[v][lo + i].slot]
  BY DEF BlocksOf
<1> HIDE DEF lo, hi, n
<1>6. lo <= hi
  <2>1. CASE lo = 0
    BY <1>4, <2>1
  <2>2. CASE lo # 0
    <3>1. lo \in 1 .. n /\ lo <= lo
      BY <1>2, <1>3, <2>2
    <3>2. ledger[v][lo].slot <= From - 1 /\ ledger[v][lo].slot \in Nat
      BY <1>2, <1>3, <3>1
    <3>3. ledger[v][lo].slot <= slot
      BY <1>1, <3>2
    <3> QED  BY <1>4, <3>1, <3>3
  <2> QED  BY <2>1, <2>2
<1>7. hi - lo \in Nat /\ \A i \in 1 .. hi - lo : lo + i \in 1 .. n
  BY <1>2, <1>3, <1>4, <1>6
<1>8. BlocksOf(v) \in [1 .. hi - lo -> Nat]
  BY <1>2, <1>5, <1>7
<1>9. BlocksOf(v) \in Seq(Nat) /\ Len(BlocksOf(v)) = hi - lo
  <2> DEFINE k == hi - lo
  <2> HIDE DEF k
  <2>1. k \in Nat /\ BlocksOf(v) \in [1 .. k -> Nat]
    BY <1>7, <1>8 DEF k
  <2>2. BlocksOf(v) \in Seq(Nat)
    BY <2>1, SeqDef
  <2>3. Len(BlocksOf(v)) \in Nat /\ DOMAIN BlocksOf(v) = 1 .. Len(BlocksOf(v))
    BY <2>2, LenProperties
  <2>4. 1 .. k = 1 .. Len(BlocksOf(v))
    BY <2>1, <2>3
  <2>5. k = Len(BlocksOf(v))
    BY <2>1, <2>3, <2>4
  <2> QED  BY <2>2, <2>5 DEF k
<1> QED
  BY <1>1, <1>5, <1>7, <1>9 DEF lo, hi

\* While the nodes agree: counting back from the end of the window finds the block
\* that is asked for, and finds none just when its slot is too old.
LEMMA InWindow ==
  ASSUME Ledgers, Rising, NEW v \in Node,
         slot = SlotOf(v), head = HeadOf(v), height <= head
  PROVE  /\ Outside(Len(BlocksOf(v))) <=> ~(ledger[v][height + 1].slot + Lookback >= SlotOf(v))
         /\ ~Outside(Len(BlocksOf(v))) =>
                BlocksOf(v)[Len(BlocksOf(v)) - (head - height)] = ledger[v][height + 1].slot
<1> DEFINE n == Len(ledger[v])
<1> DEFINE lo == UpTo(v, From - 1)
<1> DEFINE hi == UpTo(v, slot)
<1> DEFINE k == Len(BlocksOf(v))
<1> DEFINE x == ledger[v][height + 1].slot
<1>1. n \in Nat /\ n > 0 /\ head + 1 = n /\ head \in Nat /\ height \in Nat /\ slot \in Nat
  BY Heads DEF Ledgers
<1>2. \A i \in 1 .. n : ledger[v][i].slot \in Nat
  BY Heads
<1>3. height + 1 \in 1 .. n /\ n \in 1 .. n
  BY <1>1
<1>4. x \in Nat
  BY <1>2, <1>3
<1>5. \A i \in 1 .. n : ledger[v][i].slot <= slot
  <2> SUFFICES ASSUME NEW i \in 1 .. n PROVE ledger[v][i].slot <= ledger[v][n].slot
    BY DEF SlotOf
  <2>1. ledger[v][i].slot \in Nat
    BY <1>2
  <2>2. CASE i = n
    BY <2>1, <2>2
  <2>3. CASE i # n
    <3>1. i < n
      BY <1>1, <2>3
    <3>2. ledger[v][i].slot < ledger[v][n].slot /\ ledger[v][n].slot \in Nat
      BY <1>2, <1>3, <3>1 DEF Rising
    <3> QED  BY <2>1, <3>2
  <2> QED  BY <2>2, <2>3
<1>6. From \in Nat /\ k = hi - lo /\ \A i \in 1 .. k : BlocksOf(v)[i] = ledger[v][lo + i].slot
  BY <1>1, BlocksFacts
<1>7. lo \in 0 .. n /\ (height + 1 <= lo <=> x <= From - 1)
  <2>1. From - 1 \in Int
    BY <1>6
  <2> QED  BY <1>3, <2>1, UpToFacts
<1>8. hi = n
  <2>0. slot \in Int
    BY <1>1
  <2>1. hi \in 0 .. n /\ (n <= hi <=> ledger[v][n].slot <= slot)
    BY <1>3, <2>0, UpToFacts
  <2> QED  BY <1>1, <1>3, <1>5, <2>1
<1>9. x <= From - 1 <=> ~(x + Lookback >= slot)
  BY <1>1, <1>4, SolanaConstantsOK, SMTT(30) DEF From
<1>10. Outside(k) <=> head - height >= k
  BY DEF Outside
<1> HIDE DEF n, lo, hi, k, x
<1>11. Outside(k) <=> height + 1 <= lo
  BY <1>1, <1>6, <1>7, <1>8, <1>10
<1>12. ~Outside(k) => k - (head - height) \in 1 .. k /\ lo + (k - (head - height)) = height + 1
  BY <1>1, <1>6, <1>7, <1>8, <1>11
<1>13. ~Outside(k) => BlocksOf(v)[k - (head - height)] = x
  BY <1>6, <1>12 DEF x
<1> QED
  BY <1>7, <1>9, <1>11, <1>13 DEF k, x

-----------------------------------------------------------------------------
(* The invariant.                                                            *)

\* What Block was told is what node v would say now.
ToldBy(v) ==
    /\ pc \in {"slot", "blocks", "block"} => head = HeadOf(v)
    /\ pc \in {"blocks", "block"} => slot = SlotOf(v)
    /\ pc = "block" => slots = BlocksOf(v)

Calm ==
    /\ pc # "idle" => result = Nothing
    /\ calm => Agree /\ \A v \in Node : ToldBy(v)

SourceInv == Ledgers /\ Rising /\ TypeOK /\ Calm /\ StillAnswered

\* Slots rise: a node produces only in later slots.
LEMMA RisingStays == Ledgers /\ Rising /\ [Next]_vars => Rising'
<1> SUFFICES ASSUME Ledgers, Rising, [Next]_vars PROVE Rising'
  OBVIOUS
<1>1. ASSUME NEW v \in Node, NEW s \in 1 .. MaxSlot, Produce(v, s) PROVE Rising'
  <2> DEFINE b == [slot |-> s, by |-> v]
  <2> DEFINE n == Len(ledger[v])
  <2>1. /\ n \in Nat /\ n > 0 /\ ledger[v] \in Seq(Blocks)
        /\ \A i \in 1 .. n : ledger[v][i].slot \in Nat
    BY Heads DEF Ledgers
  <2>2. b \in Blocks /\ b.slot = s /\ s \in Nat
    BY SolanaConstantsOK DEF Blocks
  <2>3. s > ledger[v][n].slot /\ ledger' = [ledger EXCEPT ![v] = Append(ledger[v], b)]
    BY <1>1 DEF Produce, SlotOf
  <2>4. /\ ledger'[v] = Append(ledger[v], b)
        /\ \A u \in Node : u # v => ledger'[u] = ledger[u]
    BY <2>3 DEF Ledgers
  <2> HIDE DEF b
  <2>5. /\ Len(ledger'[v]) = n + 1 /\ ledger'[v][n + 1] = b
        /\ \A i \in 1 .. n : ledger'[v][i] = ledger[v][i]
    BY <2>1, <2>2, <2>4, AppendProperties
  <2>6. \A i \in 1 .. n : ledger[v][i].slot < s
    <3> SUFFICES ASSUME NEW i \in 1 .. n PROVE ledger[v][i].slot < s
      OBVIOUS
    <3>1. n \in 1 .. n /\ (i < n \/ i = n)
      BY <2>1
    <3>2. i < n => ledger[v][i].slot < ledger[v][n].slot
      BY <3>1 DEF Rising
    <3>3. ledger[v][i].slot \in Nat /\ ledger[v][n].slot \in Nat /\ ledger[v][n].slot < s
      BY <2>1, <2>2, <2>3, <3>1
    <3> QED  BY <2>2, <3>1, <3>2, <3>3
  <2>7. ASSUME NEW i \in 1 .. n + 1, NEW j \in 1 .. n + 1, i < j
        PROVE  ledger'[v][i].slot < ledger'[v][j].slot
    <3>1. i \in 1 .. n
      BY <2>1, <2>7
    <3>2. CASE j = n + 1
      BY <2>2, <2>5, <2>6, <3>1, <3>2
    <3>3. CASE j # n + 1
      <4>1. j \in 1 .. n
        BY <2>1, <3>3
      <4> QED  BY <2>5, <2>7, <3>1, <4>1 DEF Rising
    <3> QED  BY <3>2, <3>3
  <2> QED  BY <2>4, <2>5, <2>7 DEF Rising
<1>2. ASSUME NEW u \in Node, NEW v \in Node, Follow(v, u) PROVE Rising'
  <2>1. \A w \in Node : ledger'[w] = ledger[w] \/ ledger'[w] = ledger[u]
    BY <1>2 DEF Follow, Ledgers
  <2> QED  BY <2>1 DEF Rising
<1>3. ASSUME UNCHANGED ledger PROVE Rising'
  BY <1>3 DEF Rising
<1>4. ASSUME NEW n, Call(n) PROVE UNCHANGED ledger
  BY <1>4 DEF Call
<1>5. ASSUME NEW v, AskHead(v) \/ AskSlot(v) \/ AskBlocks(v) \/ AskBlock(v) PROVE UNCHANGED ledger
  BY <1>5 DEF AskHead, AskSlot, AskBlocks, AskBlock, Return
<1>6. CallFails \/ UNCHANGED vars => UNCHANGED ledger
  BY DEF CallFails, Return, vars
<1> QED
  BY <1>1, <1>2, <1>3, <1>4, <1>5, <1>6 DEF Next

Kinds == {"none", "not found", "error", "block"}

\* Returning leaves a well-typed state.
LEMMA ReturnType ==
  ASSUME TypeOK, NEW r, Return(r), r.kind \in Kinds, calm' \in BOOLEAN
  PROVE  TypeOK'
<1>1. /\ pc' = "idle" /\ result' = r /\ head' = 0 /\ slot' = 0 /\ slots' = << >>
      /\ UNCHANGED <<ledger, height>>
  BY DEF Return
<1>2. << >> \in Seq(Nat)
  BY EmptySeq
<1> QED
  BY <1>1, <1>2 DEF TypeOK, Kinds

\* Every step keeps the types, the order of the calls and the bounds on them.
LEMMA TypeStays == Ledgers /\ Rising /\ TypeOK /\ [Next]_vars => TypeOK'
<1> SUFFICES ASSUME Ledgers, Rising, TypeOK, [Next]_vars PROVE TypeOK'
  OBVIOUS
<1>1. Ledgers'
  BY LedgersStay
<1>2. /\ ledger' \in [Node -> Seq([slot : Nat, by : Node \cup {"genesis"}])]
      /\ \A v \in Node : ledger'[v] # << >>
      /\ height' \in Nat
  <2>1. Len(<< >>) = 0
    BY EmptySeq
  <2>2. \A v \in Node : ledger'[v] # << >>
    BY <1>1, <2>1 DEF Ledgers
  <2> QED  BY <1>1, <2>2 DEF Ledgers, Blocks
<1>3. ASSUME NEW v \in Node, NEW s, Produce(v, s) PROVE TypeOK'
  BY <1>2, <1>3 DEF Produce, TypeOK, locals
<1>4. ASSUME NEW u \in Node, NEW v \in Node, Follow(v, u) PROVE TypeOK'
  BY <1>2, <1>4 DEF Follow, TypeOK, locals
<1>5. ASSUME NEW n \in 0 .. MaxSlot, Call(n) PROVE TypeOK'
  <2>1. Nothing.kind = "none" /\ Agree \in BOOLEAN
    BY DEF Nothing, Agree
  <2>2. /\ pc' = "head" /\ result' = Nothing /\ calm' = Agree /\ UNCHANGED <<head, slot, slots>>
    BY <1>5 DEF Call, locals
  <2> QED  BY <1>2, <2>1, <2>2 DEF TypeOK
<1>6. ASSUME NEW v \in Node, AskHead(v) PROVE TypeOK'
  <2>1. CASE height > HeadOf(v)
    <3>1. Return(NotFound) /\ calm' = calm
      BY <1>6, <2>1 DEF AskHead
    <3>2. NotFound.kind \in Kinds /\ calm \in BOOLEAN
      BY DEF NotFound, Kinds, TypeOK
    <3> QED  BY <3>1, <3>2, ReturnType
  <2>2. CASE ~(height > HeadOf(v))
    <3>1. /\ pc' = "slot" /\ head' = HeadOf(v)
          /\ UNCHANGED <<ledger, height, slot, slots, result, calm>>
      BY <1>6, <2>2 DEF AskHead
    <3>2. HeadOf(v) \in Nat /\ height <= HeadOf(v)
      BY <2>2, Heads DEF Ledgers
    <3> QED  BY <3>1, <3>2 DEF TypeOK
  <2> QED  BY <2>1, <2>2
<1>7. ASSUME NEW v \in Node, AskSlot(v) PROVE TypeOK'
  <2>1. SlotOf(v) \in Nat
    BY Heads
  <2>2. /\ pc = "slot" /\ pc' = "blocks" /\ slot' = SlotOf(v)
        /\ UNCHANGED <<ledger, height, head, slots, result, calm>>
    BY <1>7 DEF AskSlot
  <2> QED  BY <2>1, <2>2 DEF TypeOK
<1>8. \A why : Error(why).kind \in Kinds
  BY DEF Error, Kinds
<1>9. ASSUME NEW v \in Node, AskBlocks(v) PROVE TypeOK'
  <2>1. CASE Outside(Len(BlocksOf(v)))
    <3>1. Return(Error("outside")) /\ calm' = calm
      BY <1>9, <2>1 DEF AskBlocks
    <3> QED  BY <1>8, <3>1, ReturnType DEF TypeOK
  <2>2. CASE ~Outside(Len(BlocksOf(v)))
    <3>1. /\ pc = "blocks" /\ pc' = "block" /\ slots' = BlocksOf(v)
          /\ UNCHANGED <<ledger, height, head, slot, result, calm>>
      BY <1>9, <2>2 DEF AskBlocks
    <3>2. slot \in Nat
      BY DEF TypeOK
    <3>3. BlocksOf(v) \in Seq(Nat) /\ Len(BlocksOf(v)) \in Nat
      BY <3>2, BlocksFacts, LenProperties
    <3>4. head - height < Len(BlocksOf(v))
      <4>1. head \in Nat /\ height \in Nat
        BY DEF TypeOK
      <4> QED  BY <2>2, <3>3, <4>1 DEF Outside
    <3> QED  BY <3>1, <3>3, <3>4 DEF TypeOK
  <2> QED  BY <2>1, <2>2
<1>10. ASSUME NEW v \in Node, AskBlock(v) PROVE TypeOK'
  <2>1. calm' = calm /\ \/ \E why : Return(Error(why))
                        \/ \E n, b : Return(Found(n, b))
    BY <1>10 DEF AskBlock
  <2>2. \A n, b : Found(n, b).kind \in Kinds
    BY DEF Found, Kinds
  <2>3. calm' \in BOOLEAN
    BY <2>1 DEF TypeOK
  <2> QED  BY <1>8, <2>1, <2>2, <2>3, ReturnType
<1>11. CASE CallFails
  <2>1. Return(Error("rpc")) /\ calm' = FALSE
    BY <1>11 DEF CallFails
  <2> QED  BY <1>8, <2>1, ReturnType
<1>12. CASE UNCHANGED vars
  BY <1>12 DEF vars, locals, TypeOK
<1> QED
  BY <1>3, <1>4, <1>5, <1>6, <1>7, <1>9, <1>10, <1>11, <1>12 DEF Next

-----------------------------------------------------------------------------
\* What Block should answer when all nodes are like v.
Expected(v) ==
    IF height > HeadOf(v) THEN NotFound
    ELSE IF ledger[v][height + 1].slot + Lookback >= SlotOf(v)
         THEN Found(height, BlockAt(v, height))
         ELSE Error("outside")

\* Block returns: in a calm state, what it should.
LEMMA CalmReturn ==
  ASSUME Calm, NEW r, Return(r), calm' => calm /\ \A v \in Node : r = Expected(v)
  PROVE  Calm' /\ StillAnswered'
<1>1. /\ pc' = "idle" /\ result' = r /\ UNCHANGED <<ledger, height>>
  BY DEF Return
<1>2. Calm'
  <2>1. calm' => Agree'
    BY <1>1 DEF Calm, Agree
  <2>2. \A v \in Node : ToldBy(v)'
    BY <1>1 DEF ToldBy
  <2> QED  BY <1>1, <2>1, <2>2 DEF Calm
<1>3. StillAnswered'
  BY <1>1 DEF StillAnswered, Expected, HeadOf, SlotOf, BlockAt
<1> QED
  BY <1>2, <1>3

\* Block asks on: no answer yet.
LEMMA CalmOn ==
  ASSUME pc' # "idle", result' = Nothing, calm' => Agree' /\ \A v \in Node : ToldBy(v)'
  PROVE  Calm' /\ StillAnswered'
  BY DEF Calm, StillAnswered

\* When the nodes agree they say the same.
LEMMA AllSame ==
  ASSUME Agree, NEW u \in Node, NEW v \in Node
  PROVE  /\ ledger[u] = ledger[v] /\ HeadOf(u) = HeadOf(v) /\ SlotOf(u) = SlotOf(v)
         /\ BlocksOf(u) = BlocksOf(v) /\ Expected(u) = Expected(v)
<1>1. ledger[u] = ledger[v]
  BY DEF Agree
<1> QED
  BY <1>1 DEF HeadOf, SlotOf, BlocksOf, UpTo, Expected, BlockAt

\* Every step keeps what Block knows right while the nodes agree, and when Block
\* returns in such a state it returns what it should.
LEMMA CalmStays == SourceInv /\ [Next]_vars => Calm' /\ StillAnswered'
<1> SUFFICES ASSUME SourceInv, [Next]_vars PROVE Calm' /\ StillAnswered'
  OBVIOUS
<1>0. Ledgers /\ Rising /\ TypeOK /\ Calm /\ StillAnswered
  BY DEF SourceInv
<1>1. ASSUME calm' = FALSE, UNCHANGED <<pc, result>> PROVE Calm' /\ StillAnswered'
  BY <1>0, <1>1 DEF Calm, StillAnswered
<1>2. ASSUME NEW v, NEW s, Produce(v, s) \/ Follow(v, s) PROVE calm' = FALSE /\ UNCHANGED <<pc, result>>
  BY <1>2 DEF Produce, Follow
<1>3. ASSUME NEW n, Call(n) PROVE Calm' /\ StillAnswered'
  <2>1. pc' = "head" /\ result' = Nothing /\ calm' = Agree /\ UNCHANGED ledger
    BY <1>3 DEF Call
  <2>2. Agree' = Agree
    BY <2>1 DEF Agree
  <2>3. \A v \in Node : ToldBy(v)'
    BY <2>1 DEF ToldBy
  <2> QED  BY <2>1, <2>2, <2>3, CalmOn
<1>4. ASSUME NEW v \in Node, AskHead(v) PROVE Calm' /\ StillAnswered'
  <2>1. CASE height > HeadOf(v)
    <3>1. Return(NotFound) /\ calm' = calm
      BY <1>4, <2>1 DEF AskHead
    <3>2. Expected(v) = NotFound
      BY <2>1 DEF Expected
    <3>3. calm => \A u \in Node : Expected(u) = NotFound
      BY <1>0, <3>2, AllSame DEF Calm
    <3> QED  BY <1>0, <3>1, <3>3, CalmReturn
  <2>2. CASE ~(height > HeadOf(v))
    <3>1. /\ pc = "head" /\ pc' = "slot" /\ head' = HeadOf(v)
          /\ UNCHANGED <<ledger, height, slot, slots, result, calm>>
      BY <1>4, <2>2 DEF AskHead
    <3>2. calm => Agree' /\ \A u \in Node : ToldBy(u)'
      <4> SUFFICES ASSUME calm PROVE Agree' /\ \A u \in Node : ToldBy(u)'
        OBVIOUS
      <4>1. Agree
        BY <1>0 DEF Calm
      <4>2. \A u \in Node : HeadOf(u) = HeadOf(v) /\ HeadOf(u)' = HeadOf(u)
        BY <3>1, <4>1, AllSame DEF HeadOf
      <4> QED  BY <3>1, <4>1, <4>2 DEF ToldBy, Agree
    <3> QED  BY <1>0, <3>1, <3>2, CalmOn DEF Calm
  <2> QED  BY <2>1, <2>2
<1>5. ASSUME NEW v \in Node, AskSlot(v) PROVE Calm' /\ StillAnswered'
  <2>1. /\ pc = "slot" /\ pc' = "blocks" /\ slot' = SlotOf(v)
        /\ UNCHANGED <<ledger, height, head, slots, result, calm>>
    BY <1>5 DEF AskSlot
  <2>2. calm => Agree' /\ \A u \in Node : ToldBy(u)'
    <3> SUFFICES ASSUME calm PROVE Agree' /\ \A u \in Node : ToldBy(u)'
      OBVIOUS
    <3>1. Agree /\ \A u \in Node : ToldBy(u)
      BY <1>0 DEF Calm
    <3>2. \A u \in Node : SlotOf(u) = SlotOf(v) /\ SlotOf(u)' = SlotOf(u) /\ HeadOf(u)' = HeadOf(u)
      BY <2>1, <3>1, AllSame DEF SlotOf, HeadOf
    <3> QED  BY <2>1, <3>1, <3>2 DEF ToldBy, Agree
  <2> QED  BY <1>0, <2>1, <2>2, CalmOn DEF Calm
<1>6. ASSUME NEW v \in Node, AskBlocks(v) PROVE Calm' /\ StillAnswered'
  <2>1. pc = "blocks" /\ height <= head
    BY <1>0, <1>6 DEF AskBlocks, TypeOK
  <2>2. CASE Outside(Len(BlocksOf(v)))
    <3>1. Return(Error("outside")) /\ calm' = calm
      BY <1>6, <2>2 DEF AskBlocks
    <3>2. calm => \A u \in Node : Error("outside") = Expected(u)
      <4> SUFFICES ASSUME calm PROVE \A u \in Node : Error("outside") = Expected(u)
        OBVIOUS
      <4>1. Agree /\ slot = SlotOf(v) /\ head = HeadOf(v)
        BY <1>0, <2>1 DEF Calm, ToldBy
      <4>2. ~(ledger[v][height + 1].slot + Lookback >= SlotOf(v))
        BY <1>0, <2>1, <2>2, <4>1, InWindow
      <4>3. ~(height > HeadOf(v))
        BY <1>0, <2>1, <4>1, Heads DEF Ledgers
      <4>4. Expected(v) = Error("outside")
        BY <4>2, <4>3 DEF Expected
      <4> QED  BY <4>1, <4>4, AllSame
    <3> QED  BY <1>0, <3>1, <3>2, CalmReturn
  <2>3. CASE ~Outside(Len(BlocksOf(v)))
    <3>1. /\ pc' = "block" /\ slots' = BlocksOf(v)
          /\ UNCHANGED <<ledger, height, head, slot, result, calm>>
      BY <1>6, <2>3 DEF AskBlocks
    <3>2. calm => Agree' /\ \A u \in Node : ToldBy(u)'
      <4> SUFFICES ASSUME calm PROVE Agree' /\ \A u \in Node : ToldBy(u)'
        OBVIOUS
      <4>1. Agree /\ \A u \in Node : ToldBy(u)
        BY <1>0 DEF Calm
      <4>2. \A u \in Node : SlotOf(u)' = SlotOf(u) /\ HeadOf(u)' = HeadOf(u)
        BY <3>1 DEF SlotOf, HeadOf
      <4>3. \A u \in Node : BlocksOf(u)' = BlocksOf(u) /\ BlocksOf(u) = BlocksOf(v)
        <5>1. \A u \in Node : BlocksOf(u)' = BlocksOf(u)
          BY <3>1 DEF BlocksOf, UpTo, From
        <5> QED  BY <4>1, <5>1, AllSame
      <4> QED  BY <2>1, <3>1, <4>1, <4>2, <4>3 DEF ToldBy, Agree
    <3> QED  BY <1>0, <2>1, <3>1, <3>2, CalmOn DEF Calm
  <2> QED  BY <2>2, <2>3
<1>7. ASSUME NEW v \in Node, AskBlock(v) PROVE Calm' /\ StillAnswered'
  <2>1. pc = "block" /\ height <= head /\ head - height < Len(slots) /\ calm' = calm
    BY <1>0, <1>7 DEF AskBlock, TypeOK
  <2>2. \E r : Return(r)
    BY <1>7 DEF AskBlock
  <2>3. PICK r : Return(r)
    BY <2>2
  <2>4. calm => r = Expected(v) /\ Agree
    <3> SUFFICES ASSUME calm PROVE r = Expected(v) /\ Agree
      OBVIOUS
    <3>1. Agree /\ head = HeadOf(v) /\ slot = SlotOf(v) /\ slots = BlocksOf(v)
      BY <1>0, <2>1 DEF Calm, ToldBy
    <3>2. ~Outside(Len(BlocksOf(v)))
      <4>1. head \in Nat /\ height \in Nat /\ Len(slots) \in Nat
        BY <1>0, LenProperties DEF TypeOK
      <4> QED  BY <2>1, <3>1, <4>1 DEF Outside
    <3>3. /\ Target = ledger[v][height + 1].slot
          /\ ledger[v][height + 1].slot + Lookback >= SlotOf(v)
      BY <1>0, <2>1, <3>1, <3>2, InWindow DEF Target
    <3>4. height \in 0 .. HeadOf(v) /\ ~(height > HeadOf(v))
      BY <1>0, <2>1, <3>1, Heads DEF Ledgers
    <3>5. \A n \in 0 .. HeadOf(v) : ledger[v][n + 1].slot = Target => n = height
      <4> SUFFICES ASSUME NEW n \in 0 .. HeadOf(v), ledger[v][n + 1].slot = Target, n # height
                   PROVE  FALSE
        OBVIOUS
      <4>1. /\ n + 1 \in 1 .. Len(ledger[v]) /\ height + 1 \in 1 .. Len(ledger[v])
            /\ n + 1 < height + 1 \/ height + 1 < n + 1
        BY <1>0, <3>4, Heads
      <4>2. ledger[v][n + 1].slot \in Nat /\ ledger[v][height + 1].slot \in Nat
        BY <1>0, <4>1, Heads
      <4>3. \/ ledger[v][n + 1].slot < ledger[v][height + 1].slot
            \/ ledger[v][height + 1].slot < ledger[v][n + 1].slot
        BY <1>0, <4>1 DEF Rising
      <4> QED  BY <3>3, <4>2, <4>3
    <3>6. Return(Found(height, BlockAt(v, height)))
      BY <1>7, <3>3, <3>4, <3>5 DEF AskBlock, Fits
    <3>7. r = Found(height, BlockAt(v, height))
      BY <2>3, <3>6 DEF Return
    <3> QED  BY <3>1, <3>3, <3>4, <3>7 DEF Expected
  <2>5. calm => \A u \in Node : r = Expected(u)
    BY <2>4, AllSame
  <2> QED  BY <1>0, <2>1, <2>3, <2>5, CalmReturn
<1>8. CASE CallFails
  BY <1>0, <1>8, CalmReturn DEF CallFails
<1>9. CASE UNCHANGED vars
  <2>1. UNCHANGED <<ledger, pc, height, head, slot, slots, result, calm>>
    BY <1>9 DEF vars, locals
  <2>2. UNCHANGED Agree /\ \A v \in Node : UNCHANGED <<HeadOf(v), SlotOf(v), BlocksOf(v)>>
    BY <2>1 DEF Agree, HeadOf, SlotOf, BlocksOf, UpTo, From
  <2>3. Calm'
    BY <1>0, <2>1, <2>2 DEF Calm, ToldBy
  <2>4. StillAnswered'
    BY <1>0, <2>1 DEF StillAnswered, HeadOf, SlotOf, BlockAt
  <2> QED  BY <2>3, <2>4
<1> QED
  BY <1>1, <1>2, <1>3, <1>4, <1>5, <1>6, <1>7, <1>8, <1>9 DEF Next

\* The invariant holds in every reachable state.
LEMMA SourceInvariance == Spec => []SourceInv
<1>1. Init => SourceInv
  <2> SUFFICES ASSUME Init PROVE SourceInv
    OBVIOUS
  <2>1. /\ ledger = [v \in Node |-> Genesis] /\ pc = "idle" /\ height = 0 /\ head = 0
        /\ slot = 0 /\ slots = << >> /\ result = Nothing /\ calm = FALSE
    BY DEF Init
  <2>2. Genesis \in Seq(Blocks) /\ Len(Genesis) = 1 /\ Genesis # << >>
    BY DEF Genesis, Blocks
  <2>3. Ledgers
    BY <2>1, <2>2 DEF Ledgers
  <2>4. Rising
    <3>1. \A v \in Node : Len(ledger[v]) = 1
      BY <2>1, <2>2
    <3>2. \A i, j \in 1 .. 1 : ~(i < j)
      OBVIOUS
    <3> QED  BY <3>1, <3>2 DEF Rising
  <2>5. << >> \in Seq(Nat)
    BY EmptySeq
  <2>6. TypeOK
    BY <2>1, <2>2, <2>5 DEF TypeOK, Blocks, Nothing
  <2>7. Calm /\ StillAnswered
    BY <2>1 DEF Calm, StillAnswered
  <2> QED  BY <2>3, <2>4, <2>6, <2>7 DEF SourceInv
<1>2. SourceInv /\ [Next]_vars => SourceInv'
  BY LedgersStay, RisingStays, TypeStays, CalmStays DEF SourceInv
<1> QED
  BY <1>1, <1>2, PTL DEF Spec

\* When the nodes agree from a call's begin to its end and no call fails, Block
\* finds every block whose slot is at most Lookback before the last, and no other.
THEOREM AnswersWhenCalm == Spec => []StillAnswered
<1>1. SourceInv => StillAnswered
  BY DEF SourceInv
<1> QED
  BY <1>1, SourceInvariance, PTL

-----------------------------------------------------------------------------
(* The gateway.                                                              *)

\* To the source, a step of the gateway is one of its own steps or none.
LEMMA LoopUsesSource == GatewaySpec => Spec
<1>1. GatewayInit => Init
  BY DEF GatewayInit
<1>2. [GatewayNext]_gatewayVars => [Next]_vars
  <2> SUFFICES ASSUME [GatewayNext]_gatewayVars PROVE Next \/ UNCHANGED vars
    OBVIOUS
  <2>1. CASE SetupFails \/ Start \/ Cancel \/ ListenerFails \/ ServerClosed
    BY <2>1 DEF SetupFails, Start, Cancel, ListenerFails, ServerClosed, ServerEnds
  <2>2. CASE \/ ServeFails \/ CloseServer \/ Shutdown \/ PassEnds \/ Ticked \/ LoopStops
             \/ HooksEnd \/ Connect \/ HandlerReturns
    BY <2>2 DEF ServeFails, CloseServer, Shutdown, PassEnds, Ticked, LoopStops,
                HooksEnd, Connect, HandlerReturns
  <2>3. ASSUME NEW n \in 0 .. MaxSlot, PassAsks(n) PROVE Next
    BY <2>3 DEF PassAsks, Next
  <2>4. CASE BlockStep
    BY <2>4 DEF BlockStep, Next
  <2>5. CASE NodeStep
    BY <2>5 DEF NodeStep, Next
  <2>6. CASE UNCHANGED gatewayVars
    BY <2>6 DEF gatewayVars
  <2> QED
    BY <2>1, <2>2, <2>3, <2>4, <2>5, <2>6 DEF GatewayNext
<1> QED
  BY <1>1, <1>2, PTL DEF GatewaySpec, Spec

\* The life of the gateway apart from the source.
Life ==
    /\ ctx \in BOOLEAN /\ bg \in BOOLEAN /\ (bg => ctx)
    /\ serve \in {"setup", "select", "closed", "returned"}
    /\ server \in {"none", "accepting", "ended"} /\ errc \in 0 .. 1
    /\ loop \in {"none", "begin", "sync", "select", "stopped"}
    /\ hooks \in {"none", "running", "stopped"} /\ conn \in {"none", "running", "dropped"}

\* No background goroutine outlives its parent context, and errc never overflows.
LEMMA LifeStays == Life /\ [GatewayNext]_gatewayVars => Life'
<1> SUFFICES ASSUME Life, [GatewayNext]_gatewayVars PROVE Life'
  OBVIOUS
<1>0. CASE SetupFails \/ Start
  BY <1>0 DEF Life, SetupFails, Start
<1>1. CASE Cancel
  BY <1>1, Zenon DEF Life, Cancel
<1>2. CASE ListenerFails \/ ServerClosed
  BY <1>2 DEF Life, ListenerFails, ServerClosed, ServerEnds
<1>3. CASE ServeFails \/ CloseServer \/ Shutdown
  <2>1. errc' \in 0 .. 1 /\ ctx' = ctx
    BY <1>3 DEF Life, ServeFails, CloseServer, Shutdown
  <2>2. bg' = FALSE \/ bg' = bg
    BY <1>3, Zenon DEF ServeFails, CloseServer, Shutdown, DeferredStop
  <2>3. bg' \in BOOLEAN /\ (bg' => ctx')
    <3>1. CASE bg' = FALSE
      BY <3>1, Zenon
    <3>2. CASE bg' = bg
      <4>1. ctx' = ctx
        BY <2>1
      <4> QED  BY <3>2, <4>1 DEF Life
    <3> QED  BY <2>2, <3>1, <3>2
  <2> QED  BY <1>3, <2>1, <2>3 DEF Life, ServeFails, CloseServer, Shutdown
<1>4. CASE PassEnds \/ Ticked \/ LoopStops
  BY <1>4 DEF Life, PassEnds, Ticked, LoopStops
<1>5. ASSUME NEW n, PassAsks(n) PROVE Life'
  BY <1>5 DEF Life, PassAsks
<1>6. CASE BlockStep \/ NodeStep \/ UNCHANGED gatewayVars
  BY <1>6 DEF Life, BlockStep, NodeStep, gatewayVars, lifeVars
<1>7. CASE HooksEnd \/ Connect \/ HandlerReturns
  BY <1>7 DEF Life, HooksEnd, Connect, HandlerReturns
<1> QED
  BY <1>0, <1>1, <1>2, <1>3, <1>4, <1>5, <1>6, <1>7 DEF GatewayNext

\* The gateway's state is well typed, the background context never outlives the
\* caller's, and Block counts back only within the list it was given.
THEOREM GatewayTypeCorrect == GatewaySpec => []GatewayTypeOK
<1>1. GatewayInit => Life
  BY DEF GatewayInit, Life
<1>2. SourceInv /\ Life => GatewayTypeOK
  BY DEF SourceInv, Life, GatewayTypeOK
<1>3. GatewaySpec => []Life
  BY <1>1, LifeStays, PTL DEF GatewaySpec
<1> QED
  BY <1>2, <1>3, LoopUsesSource, SourceInvariance, PTL

\* What is proved of the source holds in the gateway that polls and stops it.
THEOREM PolledSource == GatewaySpec => ImplementsSource /\ []StillAnswered
  BY LoopUsesSource, Refinement, AnswersWhenCalm, PTL

=============================================================================
