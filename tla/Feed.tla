-------------------------------- MODULE Feed --------------------------------
(***************************************************************************)
(* What the stream of block.new and block.reorged events promises to a     *)
(* consumer that keeps what was announced and drops what was retracted:    *)
(* it holds one branch, which grows at its tip and loses its tip.  Only a  *)
(* reorganisation at least as deep as the window the producer keeps may    *)
(* break that promise, and then for good: the consumer has to start over.  *)
(*                                                                         *)
(* A block is the history that its hash stands for (see Indexer).          *)
(***************************************************************************)
EXTENDS Integers, Sequences

CONSTANT Window     \* blocks the producer keeps

VARIABLES
    held,       \* blocks announced and not retracted
    top,        \* highest number announced since the consumer held nothing
    broken      \* the promise is off

feedVars == <<held, top, broken>>

Number(b) == Len(b) - 1
Parent(b) == SubSeq(b, 1, Len(b) - 1)

IsTip(b) == b \in held /\ \A c \in held : Number(c) <= Number(b)

Init == held = {} /\ top = 0 /\ broken = FALSE

\* Any block is first; every other is announced right after its parent.
Announce(b) ==
    /\ held = {} \/ IsTip(Parent(b))
    /\ held' = held \cup {b}
    /\ top' = IF held = {} \/ Number(b) > top THEN Number(b) ELSE top
    /\ UNCHANGED broken

\* Only the tip is retracted.  The consumer may be left behind if that completes
\* the retraction of a whole window.
Retract(b) ==
    /\ IsTip(b)
    /\ held' = held \ {b}
    /\ UNCHANGED top
    /\ broken' => held' # {} /\ Number(b) + Window <= top + 1

Next ==
    \/ ~broken /\ \E b \in held' \ held : Announce(b)
    \/ ~broken /\ \E b \in held \ held' : Retract(b)
    \/ broken /\ broken'

Spec == Init /\ [][Next]_feedVars

=============================================================================
