---------------------------- MODULE MCEngineCall ----------------------------
(* Groups of 2 bits in integers of 7: four bytes to a varint, the last one   *)
(* with a single bit, as ten bytes for 64 bits with groups of 7.             *)
EXTENDS EngineCall

MCAccounts ==
    {<< >>,
     <<[address |-> <<1>>, balance |-> 0, nonce |-> 0, code |-> << >>, storage |-> << >>]>>,
     <<[address |-> <<1>>, balance |-> 7, nonce |-> 127, code |-> <<4, 0>>,
        storage |-> <<[key |-> <<0>>, value |-> 0], [key |-> <<1>>, value |-> 5]>>],
       [address |-> <<2>>, balance |-> 63, nonce |-> 64, code |-> << >>, storage |-> << >>]>>,
     <<[address |-> <<2>>, balance |-> 1, nonce |-> 0, code |-> << >>,
        storage |-> <<[key |-> <<1>>, value |-> 64]>>]>>}

\* The parts of a call: to, value, data and the number that is its gas limit and block.
MCCalls == {<< << >>, 0, << >>, 4>>, <<<<2>>, 40, <<0, 7>>, 127>>, <<<<2>>, 64, << >>, 0>>}

\* Every call without accounts, and one of them with each list of accounts.
MCRequests ==
    {[chainId |-> 1, from |-> <<1>>, to |-> c[1], value |-> c[2], data |-> c[3], gasLimit |-> c[4],
      gasPrice |-> 8, state |-> s, block |-> c[4], timestamp |-> 3] :
        <<c, s>> \in (MCCalls \X {<< >>}) \union {p \in MCCalls \X MCAccounts : p[1][2] = 40}}

MCLogs ==
    {<< >>,
     <<[address |-> <<2>>, topics |-> << >>, data |-> << >>],
       [address |-> <<3>>, topics |-> <<<<1>>, <<0>>>>, data |-> <<5>>]>>}
MCChanges == {<< >>, <<[address |-> <<1>>, before |-> 7, after |-> 56]>>}

Answered(o, g, out, why, l, c, a) ==
    [outcome |-> o, gasUsed |-> g, output |-> out, reason |-> why, logs |-> l, changes |-> c,
     elapsed |-> 1, created |-> a]

\* Only a success has logs or creates a contract; only the others have a reason.
MCResponses ==
    {Answered(1, e[1], e[2], << >>, l, c, e[3]) :
        e \in {<<4, << >>, << >>>>, <<127, <<4, 0>>, <<2>>>>}, l \in MCLogs, c \in MCChanges}
    \union {Answered(2, 64, e[1], e[2], << >>, c, << >>) :
        e \in {<<<< >>, << >>>>, <<<<4, 0>>, <<6>>>>}, c \in MCChanges}
    \union {Answered(3, 5, << >>, <<6>>, << >>, c, << >>) : c \in MCChanges}

\* Field 12 of each fixed width, and an unknown field 11.
MCNewer ==
    {<< >>, PutVarint[8 * 12 + Fixed64] \o <<7, 7>>, PutVarint[8 * 12 + Fixed32] \o <<7>>,
     Put(RawAlways(11, <<1>>) \o Uint(11, 2))}
=============================================================================
