------------------------------- MODULE Signer -------------------------------
(***************************************************************************)
(* The custody signer (services/signer): authentication by timestamp and   *)
(* MAC, the transaction policy, the key backends and the audit trail.      *)
(*                                                                         *)
(* Handlers run concurrently.  A handler checks its request, has the       *)
(* backend sign, then takes the audit mutex and records: between any two   *)
(* of these time passes and other handlers move.  Only then does it        *)
(* answer.                                                                 *)
(***************************************************************************)
EXTENDS Integers, Sequences

CONSTANTS
    Call,           \* requests to the signer
    KeyId,          \* names of the configured keys
    Requests,       \* requests that may be sent, see RequestShape
    Chains,         \* policy: allowed chains, empty for none at all
    AllowTo,        \* policy: allowed recipients, empty for any
    MaxValue, MaxGasLimit, MaxGasPrice,     \* policy: caps
    MaxMessage,     \* longest message or calldata
    MaxSkew,        \* MAX_SKEW_SECS
    AuditCap,       \* AUDIT_CAP
    MaxTime         \* bound: length of a behaviour in seconds

\* A request: the route, the timestamp header, whether the MAC fits the body,
\* whether the body parses, the key asked for, and what is to be signed: the size
\* of a message, or a transaction.
RequestShape(r) ==
    /\ r.route \in {"sign", "sign-tx"}
    /\ r.ts \in Nat
    /\ r.mac \in BOOLEAN /\ r.wellFormed \in BOOLEAN
    /\ r.route = "sign" => r.what \in Nat
    /\ r.route = "sign-tx" => /\ r.what.value \in Nat /\ r.what.gas \in Nat
                              /\ r.what.price \in Nat /\ r.what.data \in Nat

ASSUME SignerConstantsOK ==
    /\ MaxValue \in Nat /\ MaxGasLimit \in Nat /\ MaxGasPrice \in Nat /\ MaxMessage \in Nat
    /\ AuditCap \in Nat \ {0}
    /\ MaxSkew \in Nat
    /\ MaxTime \in Nat
    /\ \A r \in Requests : RequestShape(r)

VARIABLES
    now,        \* the signer's clock
    request,    \* request[c]: what the handler of c works on
    stage,      \* stage[c]: "unused", "sent", "accepted", "signed" or "answered"
    status,     \* status[c]: HTTP status of the answer
    audit,      \* the trail: records [call, key, at]
    recorded,   \* ghost: everything ever recorded
    stamped     \* ghost: stamped[c]: when c was accepted

signerVars == <<request, stage, status, audit, recorded, stamped>>

NoRequest == << >>

SignerInit ==
    /\ now = 0
    /\ request = [c \in Call |-> NoRequest]
    /\ stage = [c \in Call |-> "unused"]
    /\ status = [c \in Call |-> 0]
    /\ audit = << >>
    /\ recorded = << >>
    /\ stamped = [c \in Call |-> 0]

-----------------------------------------------------------------------------
\* Mutant: only timestamps of the past are checked.
VerifyPast(r) == now - r.ts <= MaxSkew /\ r.mac

\* auth::verify.
Verify(r) ==
    /\ r.ts - now <= MaxSkew /\ now - r.ts <= MaxSkew
    /\ r.mac

\* TxPolicy::check: the first rule that is broken.  A creation never gets here,
\* for a request without recipient does not parse.
Check(tx) ==
    IF Chains = {} THEN "Disabled"
    ELSE IF tx.chain \notin Chains THEN "Chain"
    ELSE IF AllowTo # {} /\ tx.to \notin AllowTo THEN "Recipient"
    ELSE IF tx.value > MaxValue THEN "Value"
    ELSE IF tx.gas > MaxGasLimit THEN "GasLimit"
    ELSE IF tx.price > MaxGasPrice THEN "GasPrice"
    ELSE IF tx.data > MaxMessage THEN "Data"
    ELSE "ok"

\* The checks of sign_inner and sign_tx_inner up to the backend, in their order.
Verdict(r) ==
    IF ~Verify(r) THEN 401
    ELSE IF ~r.wellFormed THEN 400
    ELSE IF r.route = "sign" /\ r.what > MaxMessage THEN 413
    ELSE IF r.key \notin KeyId THEN 403
    ELSE IF r.route = "sign-tx" /\ Check(r.what) # "ok" THEN 403
    ELSE 200

-----------------------------------------------------------------------------
\* A client posts a request.
Send(c, r) ==
    /\ stage[c] = "unused"
    /\ request' = [request EXCEPT ![c] = r]
    /\ stage' = [stage EXCEPT ![c] = "sent"]
    /\ UNCHANGED <<now, status, audit, recorded, stamped>>

\* The handler of c is done.
Done(c) ==
    /\ stage' = [stage EXCEPT ![c] = "answered"]
    /\ request' = [request EXCEPT ![c] = NoRequest]

\* A check fails.
Refuse(c) ==
    /\ stage[c] = "sent"
    /\ Verdict(request[c]) # 200
    /\ status' = [status EXCEPT ![c] = Verdict(request[c])]
    /\ Done(c)
    /\ UNCHANGED <<now, audit, recorded, stamped>>

\* All checks pass.
Accept(c) ==
    /\ stage[c] = "sent"
    /\ Verdict(request[c]) = 200
    /\ stage' = [stage EXCEPT ![c] = "accepted"]
    /\ stamped' = [stamped EXCEPT ![c] = now]
    /\ UNCHANGED <<now, request, status, audit, recorded>>

\* The backend (an HSM, a KMS, a key in memory) fails.
BackendFails(c) ==
    /\ stage[c] = "accepted"
    /\ status' = [status EXCEPT ![c] = 500]
    /\ Done(c)
    /\ UNCHANGED <<now, audit, recorded, stamped>>

\* Mutant: the answer does not wait for the record.
SignAnswers(c) ==
    /\ stage[c] = "accepted"
    /\ stage' = [stage EXCEPT ![c] = "signed"]
    /\ status' = [status EXCEPT ![c] = 200]
    /\ UNCHANGED <<now, request, audit, recorded, stamped>>

\* The backend signs.
Sign(c) ==
    /\ stage[c] = "accepted"
    /\ stage' = [stage EXCEPT ![c] = "signed"]
    /\ UNCHANGED <<now, request, status, audit, recorded, stamped>>

\* Mutants: room is made one record too late; a record carries the time of the
\* check, taken before the mutex.
PushLate(s, e) == IF Len(s) > AuditCap THEN Append(Tail(s), e) ELSE Append(s, e)

EntryEarly(c) == [call |-> c, key |-> request[c].key, at |-> stamped[c]]

\* AppState::record, and the answer.
Push(s, e) == IF Len(s) = AuditCap THEN Append(Tail(s), e) ELSE Append(s, e)

Entry(c) == [call |-> c, key |-> request[c].key, at |-> now]

Record(c) ==
    /\ stage[c] = "signed"
    /\ audit' = Push(audit, Entry(c))
    /\ recorded' = Append(recorded, Entry(c))
    /\ status' = [status EXCEPT ![c] = 200]
    /\ Done(c)
    /\ UNCHANGED <<now, stamped>>

Tick ==
    /\ now < MaxTime
    /\ now' = now + 1
    /\ UNCHANGED signerVars

SignerStep(c) == Refuse(c) \/ Accept(c) \/ BackendFails(c) \/ Sign(c) \/ Record(c)

Next ==
    \/ Tick
    \/ \E c \in Call : SignerStep(c) \/ \E r \in Requests : Send(c, r)

Spec == SignerInit /\ [][Next]_<<now, signerVars>>

-----------------------------------------------------------------------------
\* The bounded trail is the end of everything recorded, with nothing missing in
\* the middle, and holds as much of it as fits.
AuditIsRecent ==
    LET n == Len(recorded)
        k == IF n < AuditCap THEN n ELSE AuditCap
    IN  audit = SubSeq(recorded, n - k + 1, n)

\* The times of the trail never go back, however handlers overtake each other
\* between signing and recording.
AuditInTimeOrder ==
    \A i, j \in 1 .. Len(audit) : i <= j => audit[i].at <= audit[j].at

\* No signature leaves the service unrecorded, and each is recorded once; what was
\* refused or failed in the backend leaves no record.
AnsweredIffRecorded ==
    \A c \in Call :
        /\ status[c] = 200 <=> \E i \in 1 .. Len(recorded) : recorded[i].call = c
        /\ \A i, j \in 1 .. Len(recorded) :
            recorded[i].call = c /\ recorded[j].call = c => i = j

\* "default-deny: chain/value/gas/recipient caps": whatever was signed carried a MAC
\* that fits its body, was within MAX_SKEW_SECS of its timestamp, in both directions,
\* when it was checked, and asked for a configured key; a message is no longer than
\* allowed and a transaction meets all limits at once, however long the backend took.
SignedByTheRules ==
    \A c \in Call : stage[c] = "signed" =>
        /\ request[c].mac /\ request[c].wellFormed
        /\ stamped[c] - request[c].ts \in -MaxSkew .. MaxSkew
        /\ request[c].key \in KeyId
        /\ request[c].route = "sign" => request[c].what \in 0 .. MaxMessage
        /\ request[c].route = "sign-tx" =>
            LET tx == request[c].what IN
            /\ tx.chain \in Chains
            /\ AllowTo = {} \/ tx.to \in AllowTo
            /\ tx.value \in 0 .. MaxValue
            /\ tx.gas \in 0 .. MaxGasLimit
            /\ tx.price \in 0 .. MaxGasPrice
            /\ tx.data \in 0 .. MaxMessage

=============================================================================
