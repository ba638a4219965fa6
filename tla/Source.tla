------------------------------- MODULE Source -------------------------------
(***************************************************************************)
(* What the indexer expects of a Source (interface indexer.Source, as      *)
(* Indexer models its use): an answer to Block(n) is one node's answer at  *)
(* one moment.  Either a node had no block with that number just then, or  *)
(* it is the block which a node then had there, or the call failed.        *)
(***************************************************************************)
EXTENDS Naturals, Sequences

CONSTANT Node

VARIABLES
    chains,     \* chains[v]: the blocks of node v, from number 0 on
    asked,      \* <<number>> while a call is under way, else << >>
    answer      \* the answer of the last call, or Nothing while one is under way

Nothing == [kind |-> "none"]

\* A block is the history that its hash stands for.
BlockAt(v, n) == SubSeq(chains[v], 1, n + 1)

\* What node v answers now.
AnswerOf(v, n) ==
    IF n < Len(chains[v]) THEN [kind |-> "block", number |-> n, hash |-> BlockAt(v, n)]
                          ELSE [kind |-> "not found"]

Ask == asked = << >> /\ Len(asked') = 1 /\ answer' = Nothing /\ UNCHANGED chains

Answer ==
    /\ asked # << >> /\ asked' = << >>
    /\ answer'.kind = "error" \/ \E v \in Node : answer' = AnswerOf(v, asked[1])
    /\ UNCHANGED chains

ChainsMove == UNCHANGED <<asked, answer>>

Init == asked = << >> /\ answer = Nothing

Next == Ask \/ Answer \/ ChainsMove

Spec == Init /\ [][Next]_<<chains, asked, answer>>

=============================================================================
