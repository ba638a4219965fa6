------------------------------ MODULE MCSigner ------------------------------
(* Requests that are right in everything, at every limit, with timestamps in *)
(* and out of the window, and requests with one thing wrong.                 *)
EXTENDS Signer, TLC
CONSTANTS alice, mallory
AtLimits == [chain |-> 1, to |-> "bob", value |-> 2, gas |-> 2, price |-> 2, data |-> 1]
Good == [route |-> "sign-tx", ts |-> 1, mac |-> TRUE, wellFormed |-> TRUE, key |-> alice,
         what |-> AtLimits]
MCRequests ==
    {[Good EXCEPT !.ts = t] : t \in 0 .. 2}
        \cup {[Good EXCEPT !.mac = FALSE], [Good EXCEPT !.wellFormed = FALSE],
              [Good EXCEPT !.key = mallory]}
        \cup {[Good EXCEPT !.what.chain = 2], [Good EXCEPT !.what.to = "carol"],
              [Good EXCEPT !.what.value = 3], [Good EXCEPT !.what.gas = 3],
              [Good EXCEPT !.what.price = 3], [Good EXCEPT !.what.data = 2]}
        \cup {[Good EXCEPT !.route = "sign", !.what = n] : n \in 1 .. 2}
CallSymmetry == Permutations(Call)
=============================================================================
