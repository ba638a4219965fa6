------------------------------- MODULE Solana -------------------------------
(***************************************************************************)
(* The Solana source of the indexer (services/gateway/internal/solana).    *)
(*                                                                         *)
(* Heights are contiguous but slots are not, and a node returns blocks by  *)
(* slot.  Block therefore asks for the height, the slot, the slots of the  *)
(* last blocks, counts back from the end, and asks for the block it finds  *)
(* there: four calls that may reach four nodes, while nodes produce        *)
(* blocks, fall behind and change branches.                                *)
(***************************************************************************)
EXTENDS Integers, Sequences, FiniteSets

CONSTANTS
    Node,       \* the nodes behind the pool
    Lookback,   \* how far below the last slot Block looks (Source.Lookback)
    MaxSlot     \* bound: number of slots

ASSUME SolanaConstantsOK == Lookback \in Nat /\ MaxSlot \in Nat

VARIABLES
    ledger,     \* ledger[v]: confirmed blocks of node v, records [slot, by]
    pc,         \* where Block is
    height,     \* its argument, kept until the next call
    head, slot, slots,  \* its locals
    result,     \* its result
    calm        \* ghost: since the call began all nodes agreed and no call failed

locals == <<head, slot, slots>>
vars == <<ledger, pc, height, locals, result, calm>>

Genesis == <<[slot |-> 0, by |-> "genesis"]>>

\* A block hash covers all before it: a block is the ledger up to itself.
BlockAt(v, n) == SubSeq(ledger[v], 1, n + 1)
HeadOf(v) == Len(ledger[v]) - 1
SlotOf(v) == ledger[v][Len(ledger[v])].slot
Agree == \A u, v \in Node : ledger[u] = ledger[v]

Nothing == [kind |-> "none"]
NotFound == [kind |-> "not found"]
Error(why) == [kind |-> "error", why |-> why]
Found(n, b) == [kind |-> "block", number |-> n, hash |-> b]

Init ==
    /\ ledger = [v \in Node |-> Genesis]
    /\ pc = "idle" /\ height = 0
    /\ head = 0 /\ slot = 0 /\ slots = << >>
    /\ result = Nothing /\ calm = FALSE

-----------------------------------------------------------------------------
(* The nodes.                                                                *)

\* A block in a later slot; the slots between are skipped.
Produce(v, s) ==
    /\ s > SlotOf(v)
    /\ ledger' = [ledger EXCEPT ![v] = Append(@, [slot |-> s, by |-> v])]
    /\ calm' = FALSE
    /\ UNCHANGED <<pc, height, locals, result>>

\* A node catches up with another, or changes to its branch.
Follow(v, u) ==
    /\ ledger[v] # ledger[u]
    /\ ledger' = [ledger EXCEPT ![v] = ledger[u]]
    /\ calm' = FALSE
    /\ UNCHANGED <<pc, height, locals, result>>

-----------------------------------------------------------------------------
(* Block.                                                                    *)

Return(r) ==
    /\ pc' = "idle" /\ result' = r
    /\ head' = 0 /\ slot' = 0 /\ slots' = << >>
    /\ UNCHANGED <<ledger, height>>

Call(n) ==
    /\ pc = "idle"
    /\ pc' = "head" /\ height' = n /\ result' = Nothing /\ calm' = Agree
    /\ UNCHANGED <<ledger, locals>>

\* Head: getBlockHeight.
AskHead(v) ==
    /\ pc = "head"
    /\ IF height > HeadOf(v) THEN Return(NotFound)
       ELSE pc' = "slot" /\ head' = HeadOf(v) /\ UNCHANGED <<ledger, height, slot, slots, result>>
    /\ UNCHANGED calm

AskSlot(v) ==
    /\ pc = "slot"
    /\ pc' = "blocks" /\ slot' = SlotOf(v)
    /\ UNCHANGED <<ledger, height, head, slots, result, calm>>

\* Mutant: the oldest slot of the window is left out.
FromLate == IF slot > Lookback THEN slot - Lookback + 1 ELSE 0

From == IF slot > Lookback THEN slot - Lookback ELSE 0

\* The number of node v's blocks in slots up to s, which are its first.
UpTo(v, s) == Cardinality({i \in 1 .. Len(ledger[v]) : ledger[v][i].slot <= s})

\* The slots in From .. slot that have a block, in order: what getBlocks returns.
BlocksOf(v) ==
    LET before == UpTo(v, From - 1)
    IN  [i \in 1 .. UpTo(v, slot) - before |-> ledger[v][before + i].slot]

\* Mutant: off by one.
OutsideLate(n) == head - height > n

\* The height is outside the n blocks of the window.
Outside(n) == head - height >= n

AskBlocks(v) ==
    /\ pc = "blocks"
    /\ IF Outside(Len(BlocksOf(v))) THEN Return(Error("outside"))
       ELSE pc' = "block" /\ slots' = BlocksOf(v) /\ UNCHANGED <<ledger, height, head, slot, result>>
    /\ UNCHANGED calm

Target == slots[Len(slots) - (head - height)]

\* Mutant: any block in that slot will do.
FitsAny(n) == TRUE

Fits(n) == n = height

\* getBlock: node v has no block in that slot, or one of another height, or this.
AskBlock(v) ==
    /\ pc = "block"
    /\ \/ /\ \A n \in 0 .. HeadOf(v) : ledger[v][n + 1].slot # Target
          /\ Return(Error("no block"))
       \/ \E n \in 0 .. HeadOf(v) :
          /\ ledger[v][n + 1].slot = Target
          /\ IF Fits(n) THEN Return(Found(height, BlockAt(v, n))) ELSE Return(Error("mismatch"))
    /\ UNCHANGED calm

\* No upstream, a malformed response, an error object, or null.
CallFails ==
    /\ pc # "idle"
    /\ Return(Error("rpc"))
    /\ calm' = FALSE

Next ==
    \/ \E v \in Node : \E s \in 1 .. MaxSlot : Produce(v, s)
    \/ \E u, v \in Node : Follow(v, u)
    \/ \E n \in 0 .. MaxSlot : Call(n)
    \/ \E v \in Node : AskHead(v) \/ AskSlot(v) \/ AskBlocks(v) \/ AskBlock(v)
    \/ CallFails

Spec == Init /\ [][Next]_vars

-----------------------------------------------------------------------------
TypeOK ==
    /\ ledger \in [Node -> Seq([slot : Nat, by : Node \cup {"genesis"}])]
    /\ \A v \in Node : ledger[v] # << >>
    /\ pc \in {"idle", "head", "slot", "blocks", "block"}
    /\ height \in Nat /\ head \in Nat /\ slot \in Nat /\ slots \in Seq(Nat)
    /\ pc \in {"slot", "blocks", "block"} => height <= head
    /\ pc = "block" => head - height < Len(slots)
    /\ result.kind \in {"none", "not found", "error", "block"} /\ calm \in BOOLEAN

\* "the head moved mid-resolution": what is put together from four calls to four
\* moving nodes is what one node would have answered at one moment, or an error;
\* Block never passes a block off as one of another height or another branch.
S == INSTANCE Source WITH
        chains <- ledger, answer <- result,
        asked <- IF pc = "idle" THEN << >> ELSE <<height>>

ImplementsSource == S!Spec

\* When the nodes agree and nothing fails, Block answers: nothing above the head
\* is found, everything at most Lookback slots below the last is, and no other.
\* An indexer whose tip is older than that can no longer be served.
StillAnswered ==
    (calm /\ result # Nothing) => \A v \in Node :
        result = IF height > HeadOf(v) THEN NotFound
                 ELSE IF ledger[v][height + 1].slot + Lookback >= SlotOf(v)
                      THEN Found(height, BlockAt(v, height))
                      ELSE Error("outside")

=============================================================================
