------------------------------- MODULE Intent -------------------------------
(***************************************************************************)
(* Intents: POST /v1/simulate, /v1/intent and /v1/sign of the gateway      *)
(* (server, intent.Service), the simulation engine and, through            *)
(* signerclient, the signer (Signer).                                      *)
(*                                                                         *)
(* An intent loads the state it touches with one RPC after the other,      *)
(* while the chain moves on; simulates; and, if asked to and the           *)
(* simulation succeeded, has the transaction signed.  The gateway stops    *)
(* waiting for the signer after a timeout; the signer does not notice.     *)
(*                                                                         *)
(* Calls of the signer are named by the intents that make them.            *)
(***************************************************************************)
EXTENDS Signer

CONSTANTS
    Account,
    Owner,      \* Owner[k]: the account of key k
    Chain,      \* the chain id that intents name
    Creation,   \* recipient of a contract creation
    NoKey,      \* no signature is asked for, or none is on offer: /v1/simulate
    Values,     \* amounts transferred
    GasUse,     \* gas that executions take, after refunds
    GasLimits,  \* gas limits that intents ask for or get by default
    Funds,      \* Funds[a]: what account a starts with
    Lag,        \* how many blocks a node of the pool may be behind
    MaxBlocks   \* bound: length of the chain

ASSUME IntentConstantsOK ==
    /\ Creation \notin Account
    /\ NoKey \notin KeyId
    /\ Owner \in [KeyId -> Account]
    /\ GasUse \subseteq Nat /\ GasLimits \subseteq Nat /\ Values \subseteq Nat
    /\ Funds \in [Account -> Nat] /\ Lag \in Nat /\ MaxBlocks \in Nat \ {0}

VARIABLES
    blocks,     \* state after each block: records [nonce, balance]
    step,       \* step[i]: where doIntent is
    want,       \* want[i]: the intent, [from, to, value, gas, key]
    pre,        \* pre[i]: the state loaded so far, [head, balance, nonce, other]
    sim,        \* sim[i]: outcome of the simulation
    simulated,  \* simulated[i]: the transaction that the engine ran, and its gas use
    prepared,   \* prepared[i]: the transaction that was prepared afterwards
    answer      \* answer[i]: what the client is told

intentVars == <<step, want, pre, sim, simulated, prepared, answer>>
allVars == <<now, signerVars, blocks, intentVars>>

\* What is left of a body and its route once they are decoded.
Wants == [from : Account, to : Account \cup {Creation},
          value : Values, gas : GasLimits, key : KeyId \cup {NoKey}]
NotLoaded == [head |-> 0, balance |-> 0, nonce |-> 0, other |-> 0]

IntentInit ==
    /\ SignerInit
    /\ blocks = << [nonce |-> [a \in Account |-> 0], balance |-> Funds] >>
    /\ step = [i \in Call |-> "unused"]
    /\ want = [i \in Call |-> << >>]
    /\ pre = [i \in Call |-> NotLoaded]
    /\ sim = [i \in Call |-> "none"]
    /\ simulated = [i \in Call |-> << >>]
    /\ prepared = [i \in Call |-> << >>]
    /\ answer = [i \in Call |-> "none"]

-----------------------------------------------------------------------------
\* A block with one payment.
Mine ==
    /\ Len(blocks) < MaxBlocks
    /\ \E a, b \in Account, v \in Values :
        LET top == blocks[Len(blocks)] IN
        /\ a # b /\ top.balance[a] >= v
        /\ blocks' = Append(blocks,
            [nonce |-> [top.nonce EXCEPT ![a] = @ + 1],
             balance |-> [top.balance EXCEPT ![a] = @ - v, ![b] = @ + v]])
    /\ UNCHANGED <<now, signerVars, intentVars>>

\* "latest", as the node that answers sees it.
Latest == {h \in 1 .. Len(blocks) : h + Lag >= Len(blocks)}

\* A valid intent arrives.  Bodies that do not parse, unknown chains, malformed
\* fields and gas above the ceiling are refused before the first RPC.
Begin(i, w) ==
    /\ step[i] = "unused"
    /\ step' = [step EXCEPT ![i] = "head"]
    /\ want' = [want EXCEPT ![i] = w]
    /\ UNCHANGED <<now, signerVars, blocks, pre, sim, simulated, prepared, answer>>

Finish(i, a) ==
    /\ answer' = [answer EXCEPT ![i] = a]
    /\ step' = [step EXCEPT ![i] = "done"]

Loading == {"head", "balance", "nonce", "other"}

\* Any of the RPCs fails, or returns what does not parse.
LoadFails(i) ==
    /\ step[i] \in Loading
    /\ Finish(i, "failed")
    /\ UNCHANGED <<now, signerVars, blocks, want, pre, sim, simulated, prepared>>

\* The RPCs: gas price and latest block, balance of the sender, its nonce and
\* code, and the same of the recipient if that is another account.
LoadHead(i) ==
    /\ step[i] = "head"
    /\ \E h \in Latest : pre' = [pre EXCEPT ![i].head = h]
    /\ step' = [step EXCEPT ![i] = "balance"]
    /\ UNCHANGED <<now, signerVars, blocks, want, sim, simulated, prepared, answer>>

LoadBalance(i) ==
    /\ step[i] = "balance"
    /\ \E h \in Latest : pre' = [pre EXCEPT ![i].balance = blocks[h].balance[want[i].from]]
    /\ step' = [step EXCEPT ![i] = "nonce"]
    /\ UNCHANGED <<now, signerVars, blocks, want, sim, simulated, prepared, answer>>

OtherAccount(i) == want[i].to # Creation /\ want[i].to # want[i].from

LoadNonce(i) ==
    /\ step[i] = "nonce"
    /\ \E h \in Latest : pre' = [pre EXCEPT ![i].nonce = blocks[h].nonce[want[i].from]]
    /\ step' = [step EXCEPT ![i] = IF OtherAccount(i) THEN "other" ELSE "simulate"]
    /\ UNCHANGED <<now, signerVars, blocks, want, sim, simulated, prepared, answer>>

LoadOther(i) ==
    /\ step[i] = "other"
    /\ \E h \in Latest : pre' = [pre EXCEPT ![i].other = blocks[h].balance[want[i].to]]
    /\ step' = [step EXCEPT ![i] = "simulate"]
    /\ UNCHANGED <<now, signerVars, blocks, want, sim, simulated, prepared, answer>>

-----------------------------------------------------------------------------
\* The engine is out of reach, or rejects the transaction before executing it.
SimulateFails(i) ==
    /\ step[i] = "simulate"
    /\ Finish(i, "failed")
    /\ UNCHANGED <<now, signerVars, blocks, want, pre, sim, simulated, prepared>>

\* The transaction that the engine gets: the limit of the request and a price of
\* zero, so that a wallet without the fee has a prediction too.  The engine checks
\* no nonce.
Unpriced(i) ==
    [chain |-> Chain, from |-> want[i].from, to |-> want[i].to, value |-> want[i].value,
     gas |-> want[i].gas, price |-> 0, data |-> 0]

\* The limit of the prepared transaction: a fifth above the measured use, and
\* never below the intrinsic gas.
GasFloor == 21
GasFor(used) == IF (used * 12) \div 10 > GasFloor THEN (used * 12) \div 10 ELSE GasFloor

\* The transaction that is returned and signed, at the price of the request or of
\* the node.
Priced(i, gas) ==
    [chain |-> Chain, nonce |-> pre[i].nonce, to |-> want[i].to, value |-> want[i].value,
     gas |-> gas, price |-> 1, data |-> 0]

\* The engine's verdict on what was loaded.  Code decides whether it succeeds; a
\* transaction that reverts or halts keeps the limit of the request.
Simulate(i) ==
    /\ step[i] = "simulate"
    /\ pre[i].balance >= want[i].value
    /\ \E out \in {"success", "revert"}, used \in GasUse :
        /\ used <= want[i].gas
        /\ sim' = [sim EXCEPT ![i] = out]
        /\ simulated' = [simulated EXCEPT ![i] = [tx |-> Unpriced(i), used |-> used]]
        /\ prepared' = [prepared EXCEPT
            ![i] = Priced(i, IF out = "success" THEN GasFor(used) ELSE want[i].gas)]
    /\ step' = [step EXCEPT ![i] = "decide"]
    /\ UNCHANGED <<now, signerVars, blocks, want, pre, answer>>

\* Mutant: a reverted simulation does not keep the transaction from being signed.
SignableAnyway(i) == want[i].to # Creation

\* The cases of doIntent in which an intent that asks for it is signed.
Signable(i) == sim[i] = "success" /\ want[i].to # Creation

NoSignature(i) ==
    /\ step[i] = "decide"
    /\ \/ want[i].key = NoKey /\ Finish(i, "simulated")
       \/ want[i].key # NoKey /\ ~Signable(i) /\ Finish(i, "skipped")
    /\ UNCHANGED <<now, signerVars, blocks, want, pre, sim, simulated, prepared>>

\* A Solana intent: one RPC to a node that simulates, and never a signature.
SimulateSolana(i) ==
    /\ step[i] = "unused"
    /\ \E a \in {"simulated", "failed"} : Finish(i, a)
    /\ UNCHANGED <<now, signerVars, blocks, want, pre, sim, simulated, prepared>>

\* signerclient: a post with the gateway's time and MAC.
PostToSigner(i, route, key, what) ==
    /\ Send(i, [route |-> route, ts |-> now, mac |-> TRUE, wellFormed |-> TRUE,
                key |-> key, what |-> what])
    /\ step' = [step EXCEPT ![i] = "signing"]
    /\ UNCHANGED <<blocks, want, pre, sim, simulated, prepared, answer>>

SignTx(i) ==
    /\ step[i] = "decide"
    /\ want[i].key # NoKey /\ Signable(i)
    /\ PostToSigner(i, "sign-tx", want[i].key, prepared[i])

\* /v1/sign: a message goes to the signer as it is.
SignMessage(i, k) ==
    /\ step[i] = "unused"
    /\ PostToSigner(i, "sign", k, 0)

\* The signer's answer is passed on.
SignerAnswers(i) ==
    /\ step[i] = "signing"
    /\ stage[i] = "answered"
    /\ Finish(i, IF status[i] = 200 THEN "signed" ELSE "refused")
    /\ UNCHANGED <<now, signerVars, blocks, want, pre, sim, simulated, prepared>>

\* Mutant: a lost answer is reported like a refusal.
WithoutAnswerRefused == "refused"

\* signerFail, for an error that is not the signer's.
WithoutAnswer == "unavailable"

\* The answer is lost or late: the client learns that the signer is unavailable.
GiveUp(i) ==
    /\ step[i] = "signing"
    /\ Finish(i, WithoutAnswer)
    /\ UNCHANGED <<now, signerVars, blocks, want, pre, sim, simulated, prepared>>

IntentStep(i) ==
    \/ LoadFails(i) \/ LoadHead(i) \/ LoadBalance(i) \/ LoadNonce(i) \/ LoadOther(i)
    \/ SimulateFails(i) \/ Simulate(i) \/ SimulateSolana(i) \/ NoSignature(i)
    \/ SignTx(i) \/ SignerAnswers(i) \/ GiveUp(i)

IntentNext ==
    \/ Mine
    \/ Tick /\ UNCHANGED <<blocks, intentVars>>
    \/ \E i \in Call :
        \/ \E w \in Wants : Begin(i, w)
        \/ \E k \in KeyId : SignMessage(i, k)
        \/ IntentStep(i)
        \/ SignerStep(i) /\ UNCHANGED <<blocks, intentVars>>

IntentSpec == IntentInit /\ [][IntentNext]_allVars

-----------------------------------------------------------------------------
Signed(i) == stage[i] = "signed" \/ status[i] = 200

\* The signed request is that of an intent, not a message of /v1/sign.
SignedTx(i) == Signed(i) /\ want[i] # << >>

\* "Only sign a transaction the engine just simulated successfully": whatever the
\* signer signs for an intent has a successful simulation on a balance that covered
\* the value (not the fee), was asked to be signed with that key, carries the nonce
\* that was loaded and is the simulated call: the same chain, recipient, value and
\* data, with at least the gas that the run was charged.  Limit and price are those
\* set after the simulation, and the sender is the key's: see IdenticalTransaction.
SignedWasSimulated ==
    \A i \in Call : SignedTx(i) =>
        /\ sim[i] = "success"
        /\ pre[i].balance >= simulated[i].tx.value
        /\ want[i].key # NoKey
        /\ stage[i] = "signed" =>
            LET tx == request[i].what
                ran == simulated[i].tx
            IN  /\ request[i].key = want[i].key
                /\ tx.chain = ran.chain /\ tx.to = ran.to
                /\ tx.value = ran.value /\ tx.data = ran.data
                /\ tx.nonce = pre[i].nonce
                /\ tx.gas >= simulated[i].used

\* "honest HTTP statuses": a client that is told of a signature has one that is on
\* record; a client that is told there is none will never have one, however late
\* the signer acts.  Only "unavailable" leaves it open.
HonestAnswers ==
    \A i \in Call :
        /\ answer[i] = "signed" => \E j \in 1 .. Len(recorded) : recorded[j].call = i
        /\ answer[i] \in {"failed", "simulated", "skipped", "refused"} =>
            ~Signed(i) /\ stage[i] \notin {"sent", "accepted"}

\* "The gateway signs only after a successful simulation of the identical
\* transaction": sender, recipient, value, data, gas limit and price of what is
\* signed are those of what the engine ran.
IdenticalTransaction ==
    \A i \in Call : stage[i] = "signed" /\ want[i] # << >> =>
        /\ Owner[request[i].key] = simulated[i].tx.from
        /\ \A f \in {"chain", "to", "value", "data", "gas", "price"} :
            request[i].what[f] = simulated[i].tx[f]

=============================================================================
