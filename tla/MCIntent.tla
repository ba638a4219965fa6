------------------------------ MODULE MCIntent ------------------------------
(* Gas: a use of 20 becomes a limit of 24, a use of 100 one of 120, which    *)
(* the signer's policy refuses.  With OthersFunds the owner of the key has   *)
(* nothing, so that what succeeds is sent from another account.              *)
EXTENDS Intent, TLC
CONSTANTS alice, bob, ka
MCOwner == (ka :> alice)
MCFunds == [a \in Account |-> 1]
OthersFunds == [a \in Account |-> IF a = alice THEN 0 ELSE 1]
CallSymmetry == Permutations(Call)
=============================================================================
