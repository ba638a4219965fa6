------------------------------ MODULE Indexer -------------------------------
(***************************************************************************)
(* The reorg-aware block indexer (services/gateway/internal/indexer) over  *)
(* the simulated nodes of services/gateway/internal/chainsim.              *)
(*                                                                         *)
(* One Sync pass asks the upstream pool for the head, re-verifies its tip, *)
(* unwinds what is no longer canonical, fetches up to the head, and stores *)
(* the result for the readers.  Every question is a separate RPC that the  *)
(* pool may route to another node, and nodes mine and reorganise between   *)
(* any two of them.                                                        *)
(*                                                                         *)
(* A block hash covers the parent hash and the miner's salt, so a block is *)
(* represented by the salts of the chain up to and including itself: equal *)
(* hash, equal history.                                                    *)
(***************************************************************************)
EXTENDS Integers, Sequences

CONSTANTS
    Node,       \* upstream nodes
    Window,     \* blocks the indexer keeps (after max(window, 1))
    Depths,     \* arguments of Reorg
    MaxHeight,  \* bound: length of a node's chain
    MaxSalt     \* bound: number of reorgs of a node

ASSUME IndexerConstantsOK ==
    /\ Window \in Nat \ {0}
    /\ Depths \subseteq Nat
    /\ MaxHeight \in Nat
    /\ MaxSalt \in Nat

VARIABLES
    tip,        \* tip[v]: the newest block of node v's canonical chain
    salt,       \* salt[v]: the salt node v mines with
    chain,      \* the stored chain, oldest first: what readers see
    pc,         \* where Sync is
    head,       \* local of Sync: the head number it was told
    next,       \* local of Sync: the next number to fetch
    work,       \* local of Sync: its copy of the chain
    live,       \* ghost: blocks announced by block.new and not yet retracted
                \*        by block.reorged, as a consumer of the log knows them
    high,       \* ghost: highest number announced since live was empty
    lost        \* ghost: an unwind once emptied the window while older blocks
                \*        of the stream were still live

nodeVars == <<tip, salt>>
syncVars == <<pc, head, next, work>>
feedVars == <<live, high, lost>>
vars == <<tip, salt, chain, pc, head, next, work, live, high, lost>>

Block == Seq(Nat) \ {<<>>}
Number(b) == Len(b) - 1
Parent(b) == SubSeq(b, 1, Len(b) - 1)
Last(c) == c[Len(c)]
Front(c) == SubSeq(c, 1, Len(c) - 1)

-----------------------------------------------------------------------------
(* The simulated node.                                                       *)

\* Mine appends one block.
Mine(v) ==
    /\ Len(tip[v]) < MaxHeight
    /\ tip' = [tip EXCEPT ![v] = Append(@, salt[v])]
    /\ UNCHANGED <<salt, chain, syncVars, feedVars>>

\* Reorg drops up to depth blocks, never the genesis block, and mines one more
\* than it dropped with a new salt.
Reorg(v, depth) ==
    LET d == IF depth >= Len(tip[v]) THEN Len(tip[v]) - 1 ELSE depth IN
    /\ Len(tip[v]) < MaxHeight /\ salt[v] < MaxSalt
    /\ salt' = [salt EXCEPT ![v] = @ + 1]
    /\ tip' = [tip EXCEPT ![v] = SubSeq(@, 1, Len(@) - d)
                                    \o [i \in 1 .. d + 1 |-> salt[v] + 1]]
    /\ UNCHANGED <<chain, syncVars, feedVars>>

\* Node v knows a block with number n, and which.  RPCSource turns the null of an
\* unknown number into ErrNotFound; any other error is SyncError.
Has(v, n) == n < Len(tip[v])
At(v, n) == SubSeq(tip[v], 1, n + 1)

\* Mutants: the tip is compared by height only; the parent hash is not checked.
CanonicalByNumber(v) == Has(v, Number(Last(work)))
ContinuesUnchecked(v) == Has(v, next)

\* Sync's tip is canonical on node v; node v's block continues Sync's chain.
Canonical(v) ==
    Has(v, Number(Last(work))) /\ At(v, Number(Last(work))) = Last(work)
Continues(v) ==
    Has(v, next) /\ (work # <<>> => Parent(At(v, next)) = Last(work))

-----------------------------------------------------------------------------
(* Sync.                                                                     *)

\* The first number to fetch when no stored block is left.
FirstNumber(h) == IF h + 1 > Window THEN h + 1 - Window ELSE 0

\* Mutant: the window is one block short.
TrimShort(c) == IF Len(c) >= Window THEN Tail(c) ELSE c

\* Keep the newest Window blocks.
Trim(c) == IF Len(c) > Window THEN Tail(c) ELSE c

\* Mutant: the retraction is not published.
EmitNothing(b) == live' = live

\* emit: what the two event types mean to a consumer of the log.
EmitNew(b) ==
    /\ live' = live \cup {b}
    /\ high' = IF live = {} \/ Number(b) > high THEN Number(b) ELSE high
EmitReorged(b) == live' = live \ {b}

\* Head answered by node v.  (If Head fails Sync returns with nothing changed.)
SyncStart(v) ==
    /\ pc = "idle"
    /\ head' = Len(tip[v]) - 1
    /\ work' = chain
    /\ IF chain = <<>>
       THEN pc' = "fetch" /\ next' = FirstNumber(Len(tip[v]) - 1)
       ELSE pc' = "unwind" /\ next' = 0
    /\ UNCHANGED <<nodeVars, chain, feedVars>>

\* The stored tip is still canonical on the node that answers.
UnwindMatch(v) ==
    /\ pc = "unwind"
    /\ Canonical(v)
    /\ pc' = "fetch"
    /\ next' = Number(Last(work)) + 1
    /\ UNCHANGED <<nodeVars, chain, head, work, feedVars>>

\* The answering node has another block at that height, or none: drop the tip.
UnwindPop(v) ==
    /\ pc = "unwind"
    /\ ~Canonical(v)
    /\ work' = Front(work)
    /\ EmitReorged(Last(work))
    /\ IF Len(work) = 1
       THEN /\ pc' = "fetch"
            /\ next' = FirstNumber(head)
            /\ lost' = (lost \/ live' # {})
       ELSE UNCHANGED <<pc, next, lost>>
    /\ UNCHANGED <<nodeVars, chain, head, high>>

\* The block fetched from node v continues the chain: append, trim, announce.
FetchNew(v) ==
    /\ pc = "fetch" /\ next <= head
    /\ Continues(v)
    /\ work' = Trim(Append(work, At(v, next)))
    /\ EmitNew(At(v, next))
    /\ next' = next + 1
    /\ UNCHANGED <<nodeVars, chain, pc, head, lost>>

\* The block is gone, or its parent is not our tip: give up, retry next pass.
FetchMismatch(v) ==
    /\ pc = "fetch" /\ next <= head
    /\ ~Continues(v)
    /\ pc' = "store"
    /\ UNCHANGED <<nodeVars, chain, head, next, work, feedVars>>

\* The pool fails to answer a Block call.
SyncError ==
    /\ pc = "unwind" \/ (pc = "fetch" /\ next <= head)
    /\ pc' = "store"
    /\ UNCHANGED <<nodeVars, chain, head, next, work, feedVars>>

\* The deferred store, on every way out of Sync once the head is known.
Store ==
    /\ pc = "store" \/ (pc = "fetch" /\ next > head)
    /\ chain' = work
    /\ pc' = "idle" /\ head' = 0 /\ next' = 0 /\ work' = <<>>
    /\ UNCHANGED <<nodeVars, feedVars>>

\* Every node starts with the genesis block; the indexer with nothing.
Init ==
    /\ tip = [v \in Node |-> <<0>>]
    /\ salt = [v \in Node |-> 0]
    /\ chain = <<>> /\ work = <<>>
    /\ pc = "idle" /\ head = 0 /\ next = 0
    /\ live = {} /\ high = 0 /\ lost = FALSE

Next ==
    \/ \E v \in Node : Mine(v) \/ \E d \in Depths : Reorg(v, d)
    \/ \E v \in Node : SyncStart(v) \/ UnwindMatch(v) \/ UnwindPop(v)
    \/ \E v \in Node : FetchNew(v) \/ FetchMismatch(v)
    \/ SyncError \/ Store

Spec == Init /\ [][Next]_vars

\* Run polls for ever, and the pool answers again and again: errors may recur
\* without end, but no step of Sync fails every time it is tried.
Fairness ==
    /\ \A v \in Node : WF_vars(SyncStart(v))
    /\ \A v \in Node : SF_vars(UnwindMatch(v)) /\ SF_vars(UnwindPop(v))
    /\ \A v \in Node : SF_vars(FetchNew(v)) /\ WF_vars(FetchMismatch(v))
    /\ WF_vars(Store)

FairSpec == Spec /\ Fairness

-----------------------------------------------------------------------------
\* The chain Sync is working on, or the stored one between passes.
Tracked == IF pc = "idle" THEN chain ELSE work
Blocks(c) == {c[i] : i \in DOMAIN c}

TypeOK ==
    /\ tip \in [Node -> Block]
    /\ salt \in [Node -> Nat]
    /\ chain \in Seq(Block) /\ work \in Seq(Block)
    /\ pc \in {"idle", "unwind", "fetch", "store"}
    /\ pc = "unwind" => work # <<>>
    /\ head \in Nat /\ next \in Nat
    /\ live \subseteq Block
    /\ high \in Nat
    /\ lost \in BOOLEAN

Linked(c) == \A i \in 1 .. Len(c) - 1 : Parent(c[i + 1]) = c[i]

\* What readers see, and what Sync builds, is one unbroken branch: every block
\* is the parent of the next, whatever reorgs and node switches happen while
\* the blocks are fetched one by one.  It never exceeds the window.
OneBranch ==
    /\ Linked(chain) /\ Len(chain) <= Window
    /\ Linked(work) /\ Len(work) <= Window

\* Every block the indexer holds has been announced and not been retracted.
TrackedIsLive == Blocks(Tracked) \subseteq live

\* Unless an unwind ran through the whole window, replaying the event log gives
\* one branch that ends in the indexer's tip: one block per height, each
\* followed by its child, and nothing above or beside what the indexer holds.
ReplayIsBranch ==
    ~lost =>
        /\ \A b, c \in live : Number(b) = Number(c) => b = c
        /\ \A b \in live : \/ Parent(b) \in live
                           \/ \A c \in live : Number(b) <= Number(c)
        /\ \A b \in live \ Blocks(Tracked) :
              Tracked # <<>> /\ Number(b) < Number(Tracked[1])

\* The indexer implements the feed: consumers hold one branch that changes only at
\* its tip, and lose it only to a reorganisation at least Window blocks deep,
\* whatever passes failed half-way and whichever nodes answered.
F == INSTANCE Feed WITH held <- live, top <- high, broken <- lost

ImplementsFeed == F!Spec

Newest(b) == IF Len(b) < Window THEN Len(b) ELSE Window

\* Once the nodes have settled on one chain, readers get the newest Window blocks
\* of it and keep getting them.
Agree == \A u, v \in Node : tip[u] = tip[v]

Converges ==
    <>[]Agree => \A v \in Node : <>[](/\ chain # <<>> /\ Last(chain) = tip[v]
                                     /\ Len(chain) = Newest(tip[v]))

=============================================================================
