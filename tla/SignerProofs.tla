---------------------------- MODULE SignerProofs ----------------------------
(***************************************************************************)
(* Proofs about Signer and about Intent, which drives it, for every set of *)
(* calls, keys, requests and intents, every policy, window and capacity of *)
(* the audit trail.                                                        *)
(*                                                                         *)
(* The signer's invariant SignerInv is kept by every step of a handler and *)
(* by every well-shaped request that is sent, so it holds of the signer on *)
(* its own and of the signer behind the gateway.                           *)
(***************************************************************************)
EXTENDS Intent, SequenceTheorems, TLAPS

Rec == [call : Call, key : KeyId, at : Nat]

SignerType ==
    /\ now \in Nat
    /\ DOMAIN request = Call
    /\ stage \in [Call -> {"unused", "sent", "accepted", "signed", "answered"}]
    /\ status \in [Call -> Nat]
    /\ stamped \in [Call -> Nat]
    /\ audit \in Seq(Rec)
    /\ recorded \in Seq(Rec)

\* A handler works on a request that parsed as one.
Shaped ==
    \A c \in Call : stage[c] \in {"sent", "accepted", "signed"} => RequestShape(request[c])

\* What a request that passed the checks at time t has to satisfy.
Lawful(r, t) ==
    /\ r.mac /\ r.wellFormed
    /\ t - r.ts \in -MaxSkew .. MaxSkew
    /\ r.key \in KeyId
    /\ r.route = "sign" => r.what \in 0 .. MaxMessage
    /\ r.route = "sign-tx" =>
        /\ r.what.chain \in Chains
        /\ AllowTo = {} \/ r.what.to \in AllowTo
        /\ r.what.value \in 0 .. MaxValue
        /\ r.what.gas \in 0 .. MaxGasLimit
        /\ r.what.price \in 0 .. MaxGasPrice
        /\ r.what.data \in 0 .. MaxMessage

\* Requests stay lawful while the backend works on them.
Passed ==
    \A c \in Call : stage[c] \in {"accepted", "signed"} => Lawful(request[c], stamped[c])

\* The trail, element by element, is the end of what was recorded.
Trail ==
    /\ Len(audit) = IF Len(recorded) < AuditCap THEN Len(recorded) ELSE AuditCap
    /\ \A j \in 1 .. Len(audit) : audit[j] = recorded[Len(recorded) - Len(audit) + j]

\* Everything recorded is in time order and not later than now.
InOrder ==
    \A j \in 1 .. Len(recorded) :
        /\ recorded[j].at <= now
        /\ \A i \in 1 .. j : recorded[i].at <= recorded[j].at

\* Only a call that is answered is on record, once, if and only if it succeeded.
Once ==
    /\ AnsweredIffRecorded
    /\ \A c \in Call : stage[c] # "answered" => status[c] # 200

SignerInv == SignerType /\ Shaped /\ Passed /\ Trail /\ InOrder /\ Once

-----------------------------------------------------------------------------
\* The checks of sign_inner and sign_tx_inner let only lawful requests pass.
LEMMA ChecksAreTheRules ==
  ASSUME NEW r, RequestShape(r), now \in Nat, Verdict(r) = 200
  PROVE  Lawful(r, now)
<1>1. /\ Verify(r) /\ r.wellFormed /\ r.key \in KeyId
      /\ ~(r.route = "sign" /\ r.what > MaxMessage)
      /\ ~(r.route = "sign-tx" /\ Check(r.what) # "ok")
  BY DEF Verdict
<1>2. now - r.ts \in -MaxSkew .. MaxSkew
  <2>1. r.ts \in Nat /\ MaxSkew \in Nat
    BY SignerConstantsOK DEF RequestShape
  <2> QED  BY <1>1, <2>1 DEF Verify
<1>3. ASSUME r.route = "sign-tx"
      PROVE  /\ r.what.chain \in Chains
             /\ AllowTo = {} \/ r.what.to \in AllowTo
             /\ r.what.value \in 0 .. MaxValue
             /\ r.what.gas \in 0 .. MaxGasLimit
             /\ r.what.price \in 0 .. MaxGasPrice
             /\ r.what.data \in 0 .. MaxMessage
  <2>1. /\ r.what.value \in Nat /\ r.what.gas \in Nat
        /\ r.what.price \in Nat /\ r.what.data \in Nat
    BY <1>3 DEF RequestShape
  <2>2. Check(r.what) = "ok"
    BY <1>1, <1>3
  <2>3. /\ r.what.chain \in Chains
        /\ AllowTo = {} \/ r.what.to \in AllowTo
        /\ ~(r.what.value > MaxValue) /\ ~(r.what.gas > MaxGasLimit)
        /\ ~(r.what.price > MaxGasPrice) /\ ~(r.what.data > MaxMessage)
    BY <2>2 DEF Check
  <2> QED  BY <2>1, <2>3, SignerConstantsOK
<1>4. ASSUME r.route = "sign"
      PROVE  r.what \in 0 .. MaxMessage
  <2>1. r.what \in Nat /\ ~(r.what > MaxMessage)
    BY <1>1, <1>4 DEF RequestShape
  <2> QED  BY <2>1, SignerConstantsOK
<1>5. r.mac
  BY <1>1 DEF Verify
<1> QED
  BY <1>1, <1>2, <1>3, <1>4, <1>5 DEF Lawful

\* The signer starts in a state of the invariant.
LEMMA SignerInitInv == SignerInit => SignerInv
<1> SUFFICES ASSUME SignerInit PROVE SignerInv
  OBVIOUS
<1>1. SignerType /\ Shaped /\ Passed
  BY DEF SignerInit, SignerType, Shaped, Passed
<1>2. Trail /\ InOrder
  BY SignerConstantsOK DEF SignerInit, Trail, InOrder
<1>3. Once
  BY DEF SignerInit, Once, AnsweredIffRecorded
<1> QED
  BY <1>1, <1>2, <1>3 DEF SignerInv

\* Sending a well-shaped request.
LEMMA SendKeeps ==
  ASSUME SignerInv, NEW c \in Call, NEW r, RequestShape(r), Send(c, r)
  PROVE  SignerInv'
<1>1. /\ stage[c] = "unused" /\ UNCHANGED <<now, status, audit, recorded, stamped>>
      /\ stage' \in [Call -> {"unused", "sent", "accepted", "signed", "answered"}]
      /\ \A d \in Call : stage'[d] = IF d = c THEN "sent" ELSE stage[d]
      /\ DOMAIN request' = Call
      /\ \A d \in Call : request'[d] = IF d = c THEN r ELSE request[d]
  BY DEF Send, SignerInv, SignerType
<1>2. SignerType' /\ Trail' /\ InOrder'
  BY <1>1 DEF SignerInv, SignerType, Trail, InOrder
<1>3. Shaped' /\ Passed'
  BY <1>1 DEF SignerInv, Shaped, Passed, Lawful, RequestShape
<1>4. Once'
  BY <1>1 DEF SignerInv, Once, AnsweredIffRecorded
<1> QED
  BY <1>2, <1>3, <1>4 DEF SignerInv

\* A handler checks, refuses or fails: nothing is recorded.
LEMMA UnrecordedStepKeeps ==
  ASSUME SignerInv, NEW c \in Call, Refuse(c) \/ Accept(c) \/ BackendFails(c) \/ Sign(c)
  PROVE  SignerInv'
<1> DEFINE Stages == {"unused", "sent", "accepted", "signed", "answered"}
<1>0. DOMAIN request = Call /\ stage \in [Call -> Stages] /\ status \in [Call -> Nat]
      /\ stamped \in [Call -> Nat]
  BY DEF SignerInv, SignerType
<1>1. /\ UNCHANGED <<now, audit, recorded>>
      /\ DOMAIN request' = Call
      /\ \A d \in Call : stage'[d] # "answered" => request'[d] = request[d]
      /\ \A d \in Call : d # c => /\ stage'[d] = stage[d] /\ status'[d] = status[d]
                                  /\ stamped'[d] = stamped[d]
      /\ stage[c] \in {"sent", "accepted"}
      /\ stage' \in [Call -> Stages]
  <2>1. CASE Refuse(c)
    BY <1>0, <2>1 DEF Refuse, Done
  <2>2. CASE Accept(c)
    BY <1>0, <2>2 DEF Accept
  <2>3. CASE BackendFails(c)
    BY <1>0, <2>3 DEF BackendFails, Done
  <2>4. CASE Sign(c)
    BY <1>0, <2>4 DEF Sign
  <2> QED  BY <2>1, <2>2, <2>3, <2>4
<1>3. Verdict(request[c]) \in Nat
  BY DEF Verdict
<1>4. status' \in [Call -> Nat] /\ stamped' \in [Call -> Nat]
  <2>1. CASE Refuse(c)
    BY <1>0, <1>3, <2>1 DEF Refuse
  <2>2. CASE Accept(c)
    BY <1>0, <2>2 DEF Accept, SignerInv, SignerType
  <2>3. CASE BackendFails(c)
    BY <1>0, <2>3 DEF BackendFails
  <2>4. CASE Sign(c)
    BY <1>0, <2>4 DEF Sign
  <2> QED  BY <2>1, <2>2, <2>3, <2>4
<1>5. status[c] # 200 /\ status'[c] # 200
  BY <1>1 DEF Refuse, Accept, BackendFails, Sign, SignerInv, SignerType, Once
<1>6. SignerType' /\ Trail' /\ InOrder'
  BY <1>1, <1>4 DEF SignerInv, SignerType, Trail, InOrder
<1>7. Shaped'
  <2> SUFFICES ASSUME NEW d \in Call, stage'[d] \in {"sent", "accepted", "signed"}
               PROVE  RequestShape(request'[d])
    BY DEF Shaped, RequestShape
  <2>1. stage[d] \in {"sent", "accepted", "signed"} /\ request'[d] = request[d]
    BY <1>1
  <2> QED  BY <2>1 DEF SignerInv, Shaped
<1>8. Passed'
  <2> SUFFICES ASSUME NEW d \in Call, stage'[d] \in {"accepted", "signed"}
               PROVE  Lawful(request'[d], stamped'[d])
    BY DEF Passed, Lawful
  <2>1. CASE d # c
    BY <1>1, <2>1 DEF SignerInv, Passed
  <2>2. CASE d = c /\ Accept(c)
    <3>1. RequestShape(request[c]) /\ Verdict(request[c]) = 200 /\ now \in Nat
      BY <1>1, <2>2 DEF Accept, SignerInv, SignerType, Shaped
    <3>2. Lawful(request[c], now)
      BY <3>1, ChecksAreTheRules
    <3> QED  BY <1>1, <2>2, <3>2 DEF Accept, SignerInv, SignerType
  <2>3. CASE d = c /\ Sign(c)
    BY <1>1, <2>3 DEF Sign, SignerInv, Passed
  <2>4. CASE d = c /\ (Refuse(c) \/ BackendFails(c))
    BY <2>4 DEF Refuse, BackendFails, Done, SignerInv, SignerType
  <2> QED  BY <2>1, <2>2, <2>3, <2>4
<1>9. Once'
  <2>1. \A d \in Call : status'[d] = 200 <=> status[d] = 200
    BY <1>1, <1>5
  <2>2. \A d \in Call : stage'[d] # "answered" => status'[d] # 200
    BY <1>1, <1>5 DEF SignerInv, Once
  <2> QED  BY <1>1, <2>1, <2>2 DEF SignerInv, Once, AnsweredIffRecorded
<1> QED
  BY <1>6, <1>7, <1>8, <1>9 DEF SignerInv

\* AppState::record, then the answer.
LEMMA RecordKeeps ==
  ASSUME SignerInv, NEW c \in Call, Record(c)
  PROVE  SignerInv'
<1> DEFINE e == Entry(c)
<1> DEFINE n == Len(recorded)
<1> DEFINE k == Len(audit)
<1>1. e \in Rec /\ e.call = c /\ e.at = now
  BY DEF Entry, Rec, Record, SignerInv, SignerType, Passed, Lawful
<1>2. audit \in Seq(Rec) /\ recorded \in Seq(Rec) /\ n \in Nat /\ k \in Nat
  BY LenProperties DEF SignerInv, SignerType
<1>3. /\ UNCHANGED <<now, stamped>> /\ stage[c] = "signed"
      /\ recorded' = Append(recorded, e) /\ audit' = Push(audit, e)
      /\ DOMAIN request' = Call
      /\ \A d \in Call : stage'[d] # "answered" => d # c /\ request'[d] = request[d]
      /\ \A d \in Call : d # c => stage'[d] = stage[d]
      /\ \A d \in Call : status'[d] = IF d = c THEN 200 ELSE status[d]
      /\ stage'[c] = "answered"
      /\ stage' \in [Call -> {"unused", "sent", "accepted", "signed", "answered"}]
      /\ status' \in [Call -> Nat]
  BY DEF Record, Done, SignerInv, SignerType
<1> HIDE DEF e
<1>4. /\ recorded' \in Seq(Rec) /\ Len(recorded') = n + 1 /\ recorded'[n + 1] = e
      /\ \A j \in 1 .. n : recorded'[j] = recorded[j]
  BY <1>1, <1>2, <1>3, AppendProperties
<1>5. Trail' /\ audit' \in Seq(Rec)
  <2>1. /\ k = IF n < AuditCap THEN n ELSE AuditCap
        /\ \A j \in 1 .. k : audit[j] = recorded[n - k + j]
        /\ AuditCap \in Nat \ {0}
    BY SignerConstantsOK DEF SignerInv, Trail
  <2>2. CASE k = AuditCap
    <3>1. audit' = Append(Tail(audit), e) /\ audit # << >>
      BY <1>2, <1>3, <2>1, <2>2 DEF Push
    <3>2. /\ Tail(audit) \in Seq(Rec) /\ Len(Tail(audit)) = k - 1
          /\ \A j \in 1 .. k - 1 : Tail(audit)[j] = audit[j + 1]
      BY <1>2, <3>1, HeadTailProperties
    <3>3. /\ audit' \in Seq(Rec) /\ Len(audit') = k /\ audit'[k] = e
          /\ \A j \in 1 .. k - 1 : audit'[j] = audit[j + 1]
      BY <1>1, <1>2, <3>1, <3>2, AppendProperties
    <3>4. ASSUME NEW j \in 1 .. k
          PROVE  audit'[j] = recorded'[n + 1 - k + j]
      <4>1. CASE j = k
        BY <1>2, <1>4, <3>3, <4>1
      <4>2. CASE j \in 1 .. k - 1
        <5>1. audit'[j] = recorded[n - k + (j + 1)]
          <6>1. audit'[j] = audit[j + 1] /\ j + 1 \in 1 .. k
            BY <1>2, <3>3, <4>2
          <6> QED  BY <2>1, <6>1
        <5>2. n - k + (j + 1) \in 1 .. n /\ n - k + (j + 1) = n + 1 - k + j
          BY <1>2, <2>1, <4>2
        <5> QED  BY <1>4, <5>1, <5>2
      <4> QED  BY <1>2, <4>1, <4>2
    <3>5. Len(audit') = IF Len(recorded') < AuditCap THEN Len(recorded') ELSE AuditCap
      BY <1>2, <1>4, <2>1, <2>2, <3>3
    <3>6. \A j \in 1 .. Len(audit') : audit'[j] = recorded'[Len(recorded') - Len(audit') + j]
      BY <1>4, <3>3, <3>4
    <3> QED  BY <3>3, <3>5, <3>6 DEF Trail
  <2>3. CASE k # AuditCap
    <3>1. audit' = Append(audit, e) /\ k = n /\ n < AuditCap
      BY <1>2, <1>3, <2>1, <2>3 DEF Push
    <3>2. /\ audit' \in Seq(Rec) /\ Len(audit') = k + 1 /\ audit'[k + 1] = e
          /\ \A j \in 1 .. k : audit'[j] = audit[j]
      BY <1>1, <1>2, <3>1, AppendProperties
    <3>3. Len(audit') = IF Len(recorded') < AuditCap THEN Len(recorded') ELSE AuditCap
      BY <1>2, <1>4, <2>1, <3>1, <3>2
    <3>4. ASSUME NEW j \in 1 .. n + 1
          PROVE  audit'[j] = recorded'[Len(recorded') - Len(audit') + j]
      <4>1. Len(recorded') - Len(audit') + j = j
        BY <1>2, <1>4, <3>1, <3>2
      <4>2. \A h \in 1 .. n : audit[h] = recorded[h]
        BY <1>2, <2>1, <3>1
      <4> QED  BY <1>2, <1>4, <3>1, <3>2, <4>1, <4>2
    <3> QED  BY <1>2, <3>1, <3>2, <3>3, <3>4 DEF Trail
  <2> QED  BY <2>2, <2>3
<1>6. SignerType'
  BY <1>3, <1>4, <1>5 DEF SignerInv, SignerType
<1>7. Shaped' /\ Passed'
  <2>1. \A d \in Call : stage'[d] # "answered" =>
          stage'[d] = stage[d] /\ request'[d] = request[d] /\ stamped'[d] = stamped[d]
    BY <1>3
  <2>2. ASSUME NEW d \in Call, stage'[d] \in {"sent", "accepted", "signed"}
        PROVE  RequestShape(request'[d])
    BY <2>1, <2>2 DEF SignerInv, Shaped
  <2>3. ASSUME NEW d \in Call, stage'[d] \in {"accepted", "signed"}
        PROVE  Lawful(request'[d], stamped'[d])
    BY <2>1, <2>3 DEF SignerInv, Passed
  <2>4. Shaped'
    BY <2>2 DEF Shaped, RequestShape
  <2>5. Passed'
    BY <2>3 DEF Passed, Lawful
  <2> QED  BY <2>4, <2>5
<1>8. InOrder'
  <2>1. \A j \in 1 .. n : recorded[j].at <= now /\ \A i \in 1 .. j : recorded[i].at <= recorded[j].at
    BY DEF SignerInv, InOrder
  <2>2. now \in Nat
    BY DEF SignerInv, SignerType
  <2>3. ASSUME NEW j \in 1 .. n + 1
        PROVE  recorded'[j].at <= now /\ \A i \in 1 .. j : recorded'[i].at <= recorded'[j].at
    <3>1. CASE j = n + 1
      BY <1>1, <1>2, <1>4, <2>1, <2>2, <3>1
    <3>2. CASE j \in 1 .. n
      BY <1>2, <1>4, <2>1, <3>2, SMTT(30)
    <3> QED  BY <1>2, <3>1, <3>2
  <2> QED  BY <1>3, <1>4, <2>3 DEF InOrder
<1>9. Once'
  <2>1. /\ \A d \in Call : status[d] = 200 <=> \E i \in 1 .. n : recorded[i].call = d
        /\ \A d \in Call : \A i, j \in 1 .. n :
              recorded[i].call = d /\ recorded[j].call = d => i = j
        /\ status[c] # 200
    BY <1>3 DEF SignerInv, Once, AnsweredIffRecorded
  <2>2. \A i \in 1 .. n : recorded[i].call # c
    BY <2>1
  <2>3. \A i \in 1 .. n + 1 : recorded'[i].call = IF i = n + 1 THEN c ELSE recorded[i].call
    BY <1>1, <1>2, <1>4
  <2>4. ASSUME NEW d \in Call
        PROVE  /\ status'[d] = 200 <=> \E i \in 1 .. n + 1 : recorded'[i].call = d
               /\ \A i, j \in 1 .. n + 1 :
                    recorded'[i].call = d /\ recorded'[j].call = d => i = j
    <3>1. CASE d = c
      <4>1. \A i \in 1 .. n + 1 : recorded'[i].call = c <=> i = n + 1
        BY <1>2, <2>2, <2>3
      <4>2. n + 1 \in 1 .. n + 1 /\ status'[c] = 200
        BY <1>2, <1>3
      <4> QED  BY <3>1, <4>1, <4>2
    <3>2. CASE d # c
      <4>1. \A i \in 1 .. n + 1 : recorded'[i].call = d <=> i \in 1 .. n /\ recorded[i].call = d
        BY <1>2, <2>3, <3>2
      <4>2. status'[d] = status[d] /\ \A i \in 1 .. n : i \in 1 .. n + 1
        BY <1>2, <1>3, <3>2
      <4> QED  BY <2>1, <4>1, <4>2
    <3> QED  BY <3>1, <3>2
  <2>5. \A d \in Call : stage'[d] # "answered" => status'[d] # 200
    BY <1>3 DEF SignerInv, Once
  <2> QED  BY <1>4, <2>4, <2>5 DEF Once, AnsweredIffRecorded
<1> QED
  BY <1>5, <1>6, <1>7, <1>8, <1>9 DEF SignerInv

\* Every step of a handler, and time passing.
LEMMA SignerStepKeeps ==
  ASSUME SignerInv, NEW c \in Call, SignerStep(c)
  PROVE  SignerInv'
  BY UnrecordedStepKeeps, RecordKeeps DEF SignerStep

\* The clock does not go back.
LEMMA TickKeeps ==
  ASSUME SignerInv, Tick
  PROVE  SignerInv'
<1>1. UNCHANGED signerVars /\ now' = now + 1 /\ now \in Nat
  BY DEF Tick, SignerInv, SignerType
<1>2. SignerType' /\ Shaped' /\ Passed' /\ Trail' /\ Once'
  BY <1>1 DEF SignerInv, signerVars, SignerType, Shaped, RequestShape, Passed, Lawful,
     Trail, Once, AnsweredIffRecorded
<1>3. InOrder'
  <2>1. \A j \in 1 .. Len(recorded) : recorded[j].at \in Nat
    <3>1. recorded \in Seq(Rec)
      BY DEF SignerInv, SignerType
    <3>2. \A j \in 1 .. Len(recorded) : recorded[j] \in Rec
      BY <3>1, ElementOfSeq
    <3> QED  BY <3>2 DEF Rec
  <2> QED  BY <1>1, <2>1 DEF SignerInv, signerVars, InOrder
<1> QED
  BY <1>2, <1>3 DEF SignerInv

\* Nothing of the signer changes.
LEMMA SignerStutters ==
  ASSUME SignerInv, UNCHANGED <<now, signerVars>>
  PROVE  SignerInv'
  BY DEF SignerInv, signerVars, SignerType, Shaped, RequestShape, Passed, Lawful,
     Trail, InOrder, Once, AnsweredIffRecorded

-----------------------------------------------------------------------------
\* What the parts of the invariant say about the trail.
LEMMA TrailIsRecent == SignerInv => AuditIsRecent
<1> SUFFICES ASSUME SignerInv PROVE AuditIsRecent
  OBVIOUS
<1> DEFINE n == Len(recorded)
<1> DEFINE k == IF n < AuditCap THEN n ELSE AuditCap
<1> DEFINE a == n - k + 1
<1> DEFINE tail == SubSeq(recorded, a, n)
<1>1. /\ recorded \in Seq(Rec) /\ audit \in Seq(Rec) /\ n \in Nat /\ Len(audit) = k
      /\ \A j \in 1 .. Len(audit) : audit[j] = recorded[n - k + j]
  BY LenProperties DEF SignerInv, SignerType, Trail
<1>2. k \in Nat /\ k <= n
  BY <1>1, SignerConstantsOK
<1> HIDE DEF k
<1>3. a \in 1 .. n + 1 /\ n - a + 1 = k /\ (a <= n <=> k # 0)
  BY <1>1, <1>2
<1>4. \A j \in 1 .. k : a + j - 1 = n - k + j
  BY <1>1, <1>2
<1> HIDE DEF a, n
<1>5. /\ tail \in Seq(Rec) /\ Len(tail) = k
      /\ \A j \in 1 .. k : tail[j] = recorded[n - k + j]
  <2>1. a \in Int /\ n \in Int
    BY <1>1, <1>3
  <2>2. \A i \in a .. n : i \in 1 .. Len(recorded)
    BY <1>1, <1>3 DEF n
  <2>3. /\ tail \in Seq(Rec)
        /\ Len(tail) = IF a <= n THEN n - a + 1 ELSE 0
        /\ \A j \in 1 .. n - a + 1 : tail[j] = recorded[a + j - 1]
    BY <1>1, <2>1, <2>2, SubSeqProperties
  <2> QED  BY <1>2, <1>3, <1>4, <2>3
<1>6. audit = tail
  BY <1>1, <1>5, SeqEqual
<1> QED
  BY <1>6 DEF AuditIsRecent, a, k, n

\* A later part of what is in order is in order.
LEMMA TrailInTimeOrder == SignerInv => AuditInTimeOrder
<1> SUFFICES ASSUME SignerInv, NEW i \in 1 .. Len(audit), NEW j \in 1 .. Len(audit), i <= j
             PROVE  audit[i].at <= audit[j].at
  BY DEF AuditInTimeOrder
<1> DEFINE d == Len(recorded) - Len(audit)
<1>1. Len(audit) \in Nat /\ Len(recorded) \in Nat /\ d \in Nat
  BY LenProperties, SignerConstantsOK DEF SignerInv, SignerType, Trail
<1>2. audit[i] = recorded[d + i] /\ audit[j] = recorded[d + j]
  BY DEF SignerInv, Trail
<1>3. d + i \in 1 .. d + j /\ d + j \in 1 .. Len(recorded)
  BY <1>1
<1> QED
  BY <1>2, <1>3 DEF SignerInv, InOrder

\* The invariant of the signer on its own.
LEMMA SignerAlways == Spec => []SignerInv
<1>1. SignerInit => SignerInv
  BY SignerInitInv
<1>2. SignerInv /\ [Next]_<<now, signerVars>> => SignerInv'
  <2> SUFFICES ASSUME SignerInv, [Next]_<<now, signerVars>> PROVE SignerInv'
    OBVIOUS
  <2>1. CASE Tick
    BY <2>1, TickKeeps
  <2>2. ASSUME NEW c \in Call, SignerStep(c) PROVE SignerInv'
    BY <2>2, SignerStepKeeps
  <2>3. ASSUME NEW c \in Call, NEW r \in Requests, Send(c, r) PROVE SignerInv'
    BY <2>3, SendKeeps, SignerConstantsOK
  <2>4. CASE UNCHANGED <<now, signerVars>>
    BY <2>4, SignerStutters
  <2> QED  BY <2>1, <2>2, <2>3, <2>4 DEF Next
<1> QED
  BY <1>1, <1>2, PTL DEF Spec

\* The bounded trail of AppState::record is always the end of everything recorded,
\* for every capacity and however many handlers record.
THEOREM TrailKeepsTheEnd == Spec => []AuditIsRecent
  BY SignerAlways, TrailIsRecent, PTL

\* The times of the trail never go back: a record takes its time under the mutex.
THEOREM TrailNeverGoesBack == Spec => []AuditInTimeOrder
  BY SignerAlways, TrailInTimeOrder, PTL

\* A handler answers 200 if and only if it recorded its signature, and it does so
\* once: record comes before the answer.
THEOREM NoUnrecordedSignature == Spec => []AnsweredIffRecorded
<1>1. SignerInv => AnsweredIffRecorded
  BY DEF SignerInv, Once
<1> QED
  BY <1>1, SignerAlways, PTL

\* Whatever the backend signed passed auth::verify, MAC and window, and the size
\* limit of a message or every rule of TxPolicy::check at the moment of the check,
\* for every policy.
THEOREM DefaultDeny == Spec => []SignedByTheRules
<1>1. SignerInv => SignedByTheRules
  BY DEF SignerInv, Passed, Lawful, SignedByTheRules
<1> QED
  BY <1>1, SignerAlways, PTL

-----------------------------------------------------------------------------
(***************************************************************************)
(* Intents.  The invariant follows one intent, Own(i): the signer has not   *)
(* heard of it until it is decided; what is decided is the simulated call,   *)
(* on a balance that covers its value; what the signer works on is what was decided;    *)
(* and an answer that rules a signature out is given only when the signer   *)
(* can no longer produce one.                                               *)
(***************************************************************************)
Steps == {"unused", "simulate", "decide", "signing", "done"} \cup Loading

IntentType ==
    /\ step \in [Call -> Steps]
    /\ DOMAIN want = Call /\ DOMAIN pre = Call /\ DOMAIN sim = Call
    /\ DOMAIN simulated = Call /\ DOMAIN prepared = Call /\ DOMAIN answer = Call

Unheard(i) ==
    step[i] \notin {"signing", "done"} =>
        /\ stage[i] = "unused" /\ answer[i] = "none"
        /\ IF step[i] = "unused" THEN want[i] = << >> ELSE want[i] \in Wants

\* What is prepared is what was simulated, but for limit, price and sender.
SameCall(i) ==
    /\ prepared[i].chain = simulated[i].tx.chain /\ prepared[i].to = simulated[i].tx.to
    /\ prepared[i].value = simulated[i].tx.value /\ prepared[i].data = simulated[i].tx.data
    /\ prepared[i].nonce = pre[i].nonce
    /\ pre[i].balance >= simulated[i].tx.value
    /\ sim[i] = "success" => prepared[i].gas >= simulated[i].used

Decided(i) ==
    step[i] = "decide" =>
        /\ SameCall(i)
        /\ prepared[i].value \in Nat /\ prepared[i].gas \in Nat
        /\ prepared[i].price \in Nat /\ prepared[i].data \in Nat

Asked(i) ==
    stage[i] # "unused" /\ want[i] # << >> =>
        /\ sim[i] = "success"
        /\ SameCall(i)
        /\ want[i].key # NoKey
        /\ stage[i] # "answered" =>
            request[i].what = prepared[i] /\ request[i].key = want[i].key

Told(i) ==
    /\ answer[i] # "none" => step[i] = "done"
    /\ answer[i] = "signed" => stage[i] = "answered" /\ status[i] = 200
    /\ answer[i] \in {"failed", "simulated", "skipped", "refused"} =>
        \/ stage[i] = "unused"
        \/ stage[i] = "answered" /\ status[i] # 200

Own(i) == Unheard(i) /\ Decided(i) /\ Asked(i) /\ Told(i)

IntentInv == SignerInv /\ IntentType /\ \A i \in Call : Own(i)

\* What concerns an intent changes only by its own steps.
LEMMA OthersKeepOwn ==
  ASSUME NEW i, Own(i),
         step'[i] = step[i], want'[i] = want[i], pre'[i] = pre[i], sim'[i] = sim[i],
         simulated'[i] = simulated[i], prepared'[i] = prepared[i], answer'[i] = answer[i],
         stage'[i] = stage[i], status'[i] = status[i], request'[i] = request[i]
  PROVE  Own(i)'
  BY DEF Own, Unheard, Decided, Asked, SameCall, Told, Wants

\* What a handler of the signer does to its request.
LEMMA HandlerMoves ==
  ASSUME SignerInv, NEW c \in Call, SignerStep(c)
  PROVE  /\ stage[c] \in {"sent", "accepted", "signed"}
         /\ stage'[c] \in {"accepted", "signed", "answered"}
         /\ stage'[c] # "answered" => request'[c] = request[c]
         /\ \A d \in Call : d # c =>
              stage'[d] = stage[d] /\ status'[d] = status[d] /\ request'[d] = request[d]
<1>1. DOMAIN request = Call /\ DOMAIN stage = Call /\ DOMAIN status = Call
  BY DEF SignerInv, SignerType
<1>2. CASE Refuse(c)
  BY <1>1, <1>2 DEF Refuse, Done
<1>3. CASE Accept(c)
  BY <1>1, <1>3 DEF Accept
<1>4. CASE BackendFails(c)
  BY <1>1, <1>4 DEF BackendFails, Done
<1>5. CASE Sign(c)
  BY <1>1, <1>5 DEF Sign
<1>6. CASE Record(c)
  BY <1>1, <1>6 DEF Record, Done
<1> QED
  BY <1>2, <1>3, <1>4, <1>5, <1>6 DEF SignerStep

\* A step of the signer leaves the intent that waits for it in order.
LEMMA SignerStepKeepsIntents ==
  ASSUME IntentInv, NEW c \in Call, SignerStep(c), UNCHANGED <<blocks, intentVars>>
  PROVE  IntentInv'
<1>1. SignerInv' /\ IntentType'
  BY SignerStepKeeps DEF IntentInv, IntentType, intentVars
<1>2. /\ stage[c] \in {"sent", "accepted", "signed"}
      /\ stage'[c] \in {"accepted", "signed", "answered"}
      /\ stage'[c] # "answered" => request'[c] = request[c]
      /\ \A d \in Call : d # c =>
           stage'[d] = stage[d] /\ status'[d] = status[d] /\ request'[d] = request[d]
  BY HandlerMoves DEF IntentInv
<1>3. UNCHANGED <<step, want, pre, sim, simulated, prepared, answer>>
  BY DEF intentVars
<1>4. \A d \in Call : d # c => Own(d)'
  BY <1>2, <1>3, OthersKeepOwn DEF IntentInv
<1>5. Own(c)'
  <2>1. Own(c)
    BY DEF IntentInv
  <2>2. step[c] \in {"signing", "done"}
    BY <1>2, <2>1 DEF Own, Unheard
  <2>3. Unheard(c)' /\ Decided(c)'
    BY <1>3, <2>2 DEF Unheard, Decided
  <2>4. Asked(c)'
    BY <1>2, <1>3, <2>1 DEF Own, Asked, SameCall
  <2>5. Told(c)'
    BY <1>2, <1>3, <2>1 DEF Own, Told
  <2> QED  BY <2>3, <2>4, <2>5 DEF Own
<1> QED
  BY <1>1, <1>4, <1>5 DEF IntentInv

\* A post to the signer: of what was decided, or of a message.
LEMMA PostKeepsIntents ==
  ASSUME IntentInv, NEW i \in Call, SignTx(i) \/ \E k \in KeyId : SignMessage(i, k)
  PROVE  IntentInv'
<1>1. Own(i) /\ IntentType /\ SignerInv
  BY DEF IntentInv
<1>2. PICK route, key, what :
        /\ route \in {"sign", "sign-tx"}
        /\ PostToSigner(i, route, key, what)
        /\ \/ /\ step[i] = "decide" /\ route = "sign-tx" /\ key = want[i].key
              /\ what = prepared[i] /\ sim[i] = "success" /\ want[i].key # NoKey
           \/ step[i] = "unused" /\ route = "sign" /\ what = 0
  BY DEF SignTx, SignMessage, Signable
<1> DEFINE r == [route |-> route, ts |-> now, mac |-> TRUE, wellFormed |-> TRUE,
                 key |-> key, what |-> what]
<1>3. Send(i, r) /\ step' = [step EXCEPT ![i] = "signing"]
      /\ UNCHANGED <<blocks, want, pre, sim, simulated, prepared, answer>>
  BY <1>2 DEF PostToSigner
<1>4. RequestShape(r)
  <2>1. r.route = route /\ r.ts = now /\ r.mac = TRUE /\ r.wellFormed = TRUE /\ r.what = what
    OBVIOUS
  <2>2. now \in Nat
    BY <1>1 DEF SignerInv, SignerType
  <2>3. CASE step[i] = "unused" /\ route = "sign" /\ what = 0
    BY <2>1, <2>2, <2>3 DEF RequestShape
  <2>4. CASE step[i] = "decide" /\ route = "sign-tx" /\ what = prepared[i]
    BY <1>1, <2>1, <2>2, <2>4 DEF RequestShape, Own, Decided
  <2> QED  BY <1>2, <2>3, <2>4
<1>5. SignerInv'
  BY <1>1, <1>3, <1>4, SendKeeps
<1>6. IntentType'
  BY <1>1, <1>3 DEF IntentType, Steps
<1>7. /\ stage'[i] = "sent" /\ request'[i] = r /\ step'[i] = "signing" /\ status' = status
      /\ \A d \in Call : d # i =>
           stage'[d] = stage[d] /\ request'[d] = request[d] /\ step'[d] = step[d]
  BY <1>1, <1>3 DEF Send, SignerInv, SignerType, IntentType
<1>8. \A d \in Call : d # i => Own(d)'
  BY <1>3, <1>7, OthersKeepOwn DEF IntentInv
<1>9. Own(i)'
  <2>1. Unheard(i)' /\ Decided(i)'
    BY <1>7 DEF Unheard, Decided
  <2>2. answer'[i] = "none"
    BY <1>1, <1>2, <1>3 DEF Own, Unheard
  <2>3. Told(i)'
    BY <2>2 DEF Told
  <2>4. r.what = what /\ r.key = key
    OBVIOUS
  <2>5. CASE step[i] = "unused"
    <3>1. want'[i] = << >>
      BY <1>1, <1>3, <2>5 DEF Own, Unheard
    <3> QED  BY <2>1, <2>3, <3>1 DEF Own, Asked
  <2>6. CASE step[i] = "decide"
    <3>1. Asked(i)'
      BY <1>1, <1>2, <1>3, <1>7, <2>4, <2>6 DEF Own, Decided, Asked, SameCall
    <3> QED  BY <2>1, <2>3, <3>1 DEF Own
  <2> QED  BY <1>2, <2>5, <2>6
<1> QED
  BY <1>5, <1>6, <1>8, <1>9 DEF IntentInv

\* A step that ends an intent, with an answer that the signer's state allows.
LEMMA FinishKeepsIntents ==
  ASSUME IntentInv, NEW i \in Call, NEW a, Finish(i, a),
         UNCHANGED <<now, signerVars, blocks, want, pre, sim, simulated, prepared>>,
         step[i] # "done",
         a = "signed" => stage[i] = "answered" /\ status[i] = 200,
         a \in {"failed", "simulated", "skipped", "refused"} =>
            stage[i] = "unused" \/ (stage[i] = "answered" /\ status[i] # 200)
  PROVE  IntentInv'
<1>1. Own(i) /\ IntentType /\ SignerInv
  BY DEF IntentInv
<1>2. SignerInv'
  BY <1>1, SignerStutters
<1>3. /\ step' = [step EXCEPT ![i] = "done"] /\ answer' = [answer EXCEPT ![i] = a]
      /\ UNCHANGED <<stage, status, request, want, pre, sim, simulated, prepared>>
  BY DEF Finish, signerVars
<1>4. IntentType'
  BY <1>1, <1>3 DEF IntentType, Steps
<1>5. /\ step'[i] = "done" /\ answer'[i] = a
      /\ \A d \in Call : d # i => step'[d] = step[d] /\ answer'[d] = answer[d]
  BY <1>1, <1>3 DEF IntentType
<1>6. \A d \in Call : d # i => Own(d)'
  BY <1>3, <1>5, OthersKeepOwn DEF IntentInv
<1>7. Own(i)'
  <2>1. Unheard(i)' /\ Decided(i)'
    BY <1>5 DEF Unheard, Decided
  <2>2. Asked(i)'
    BY <1>1, <1>3 DEF Own, Asked, SameCall
  <2>3. Told(i)'
    BY <1>3, <1>5 DEF Told
  <2> QED  BY <2>1, <2>2, <2>3 DEF Own
<1> QED
  BY <1>2, <1>4, <1>6, <1>7 DEF IntentInv

\* The steps that end an intent.
LEMMA EndsKeepIntents ==
  ASSUME IntentInv, NEW i \in Call,
         \/ LoadFails(i) \/ SimulateFails(i) \/ SimulateSolana(i) \/ NoSignature(i)
         \/ SignerAnswers(i) \/ GiveUp(i)
  PROVE  IntentInv'
<1>1. Own(i)
  BY DEF IntentInv
<1>2. UNCHANGED <<now, signerVars, blocks, want, pre, sim, simulated, prepared>>
  BY DEF LoadFails, SimulateFails, SimulateSolana, NoSignature, SignerAnswers, GiveUp
<1>3. CASE LoadFails(i) \/ SimulateFails(i) \/ SimulateSolana(i) \/ NoSignature(i)
  <2>1. PICK a \in {"failed", "simulated", "skipped"} : Finish(i, a)
    BY <1>3 DEF LoadFails, SimulateFails, SimulateSolana, NoSignature
  <2>2. step[i] \notin {"signing", "done"}
    BY <1>3 DEF LoadFails, SimulateFails, SimulateSolana, NoSignature, Loading
  <2>3. stage[i] = "unused"
    BY <1>1, <2>2 DEF Own, Unheard
  <2> QED  BY <1>2, <2>1, <2>2, <2>3, FinishKeepsIntents
<1>4. CASE SignerAnswers(i)
  <2> DEFINE a == IF status[i] = 200 THEN "signed" ELSE "refused"
  <2>1. Finish(i, a) /\ step[i] = "signing" /\ stage[i] = "answered"
    BY <1>4 DEF SignerAnswers
  <2> QED  BY <1>2, <2>1, FinishKeepsIntents
<1>5. CASE GiveUp(i)
  <2>1. Finish(i, "unavailable") /\ step[i] = "signing"
    BY <1>5 DEF GiveUp, WithoutAnswer
  <2> QED  BY <1>2, <2>1, FinishKeepsIntents
<1> QED
  BY <1>3, <1>4, <1>5

\* Arrival, the RPCs and the simulation, none of which the signer hears of.
LEMMA UnheardStepKeeps ==
  ASSUME IntentInv, NEW i \in Call, NEW s \in Steps \ {"unused", "signing", "done"},
         step[i] \notin {"signing", "done"}, step' = [step EXCEPT ![i] = s],
         UNCHANGED <<now, signerVars, answer>>,
         DOMAIN want' = Call, DOMAIN pre' = Call, DOMAIN sim' = Call,
         DOMAIN simulated' = Call, DOMAIN prepared' = Call,
         want'[i] \in Wants, Decided(i)',
         \A d \in Call : d # i =>
            /\ want'[d] = want[d] /\ pre'[d] = pre[d]
            /\ sim'[d] = sim[d] /\ simulated'[d] = simulated[d] /\ prepared'[d] = prepared[d]
  PROVE  IntentInv'
<1>1. Own(i) /\ IntentType /\ SignerInv
  BY DEF IntentInv
<1>2. SignerInv'
  BY <1>1, SignerStutters
<1>3. IntentType'
  BY <1>1 DEF IntentType
<1>4. UNCHANGED <<stage, status, request>>
  BY DEF signerVars
<1>5. step'[i] = s /\ \A d \in Call : d # i => step'[d] = step[d]
  BY <1>1 DEF IntentType
<1>6. \A d \in Call : d # i => Own(d)'
  BY <1>4, <1>5, OthersKeepOwn DEF IntentInv
<1>7. stage'[i] = "unused" /\ answer'[i] = "none"
  BY <1>1, <1>4 DEF Own, Unheard
<1>8. Own(i)'
  <2>1. Unheard(i)'
    BY <1>5, <1>7 DEF Unheard, Wants
  <2>2. Asked(i)' /\ Told(i)'
    BY <1>7 DEF Asked, Told
  <2> QED  BY <2>1, <2>2 DEF Own
<1> QED
  BY <1>2, <1>3, <1>6, <1>8 DEF IntentInv

\* The limit of the prepared transaction is a number, and no less than the use.
LEMMA GasForNat ==
  ASSUME NEW used \in Nat
  PROVE  GasFor(used) \in Nat /\ GasFor(used) >= used
  BY DEF GasFor, GasFloor

\* An intent makes progress before it is decided.
LEMMA ProgressKeepsIntents ==
  ASSUME IntentInv, NEW i \in Call,
         \/ \E w \in Wants : Begin(i, w)
         \/ LoadHead(i) \/ LoadBalance(i) \/ LoadNonce(i) \/ LoadOther(i) \/ Simulate(i)
  PROVE  IntentInv'
<1>1. Own(i) /\ IntentType
  BY DEF IntentInv
<1>2. ASSUME NEW w \in Wants, Begin(i, w) PROVE IntentInv'
  <2>1. /\ step[i] = "unused" /\ step' = [step EXCEPT ![i] = "head"]
        /\ want' = [want EXCEPT ![i] = w]
        /\ UNCHANGED <<now, signerVars, answer, pre, sim, simulated, prepared>>
    BY <1>2 DEF Begin
  <2>2. DOMAIN want' = Call /\ want'[i] = w /\ \A d \in Call : d # i => want'[d] = want[d]
    BY <1>1, <2>1 DEF IntentType
  <2>3. Decided(i)'
    BY <1>1, <2>1 DEF IntentType, Decided
  <2>4. "head" \in Steps \ {"unused", "signing", "done"}
    BY DEF Steps, Loading
  <2> QED  BY <1>1, <2>1, <2>2, <2>3, <2>4, UnheardStepKeeps DEF IntentType
<1>3. CASE LoadHead(i) \/ LoadBalance(i) \/ LoadNonce(i) \/ LoadOther(i)
  <2>1. PICK s \in {"balance", "nonce", "other", "simulate"} : step' = [step EXCEPT ![i] = s]
    BY <1>3 DEF LoadHead, LoadBalance, LoadNonce, LoadOther
  <2>2. step[i] \in Loading /\ UNCHANGED <<now, signerVars, answer, want, sim, simulated, prepared>>
    BY <1>3 DEF LoadHead, LoadBalance, LoadNonce, LoadOther, Loading
  <2>3. DOMAIN pre' = Call /\ \A d \in Call : d # i => pre'[d] = pre[d]
    BY <1>1, <1>3 DEF LoadHead, LoadBalance, LoadNonce, LoadOther, IntentType
  <2>4. want[i] \in Wants /\ step[i] \notin {"signing", "done"}
    BY <1>1, <2>2 DEF Own, Unheard, Loading
  <2>5. Decided(i)'
    BY <1>1, <2>1 DEF IntentType, Decided
  <2>6. s \in Steps \ {"unused", "signing", "done"}
    BY DEF Steps, Loading
  <2> QED  BY <1>1, <2>1, <2>2, <2>3, <2>4, <2>5, <2>6, UnheardStepKeeps DEF IntentType
<1>4. CASE Simulate(i)
  <2>1. /\ step[i] = "simulate" /\ step' = [step EXCEPT ![i] = "decide"]
        /\ pre[i].balance >= want[i].value
        /\ UNCHANGED <<now, signerVars, answer, want, pre>>
    BY <1>4 DEF Simulate
  <2>2. PICK out \in {"success", "revert"}, used \in GasUse :
          /\ sim' = [sim EXCEPT ![i] = out]
          /\ simulated' = [simulated EXCEPT ![i] = [tx |-> Unpriced(i), used |-> used]]
          /\ prepared' = [prepared EXCEPT
                ![i] = Priced(i, IF out = "success" THEN GasFor(used) ELSE want[i].gas)]
    BY <1>4 DEF Simulate
  <2>5. want[i] \in Wants
    BY <1>1, <2>1 DEF Own, Unheard
  <2>6. want[i].value \in Nat /\ want[i].gas \in Nat
    BY <2>5, IntentConstantsOK DEF Wants
  <2> DEFINE gas == IF out = "success" THEN GasFor(used) ELSE want[i].gas
  <2>3. gas \in Nat /\ (out = "success" => gas >= used)
    BY <2>6, GasForNat, IntentConstantsOK
  <2> DEFINE ran == [tx |-> Unpriced(i), used |-> used]
  <2>10. ran.tx = Unpriced(i) /\ ran.used = used
    OBVIOUS
  <2> HIDE DEF gas, ran
  <2>4. /\ DOMAIN sim' = Call /\ DOMAIN prepared' = Call /\ DOMAIN simulated' = Call
        /\ sim'[i] = out /\ simulated'[i] = ran /\ prepared'[i] = Priced(i, gas)
        /\ \A d \in Call : d # i =>
             sim'[d] = sim[d] /\ simulated'[d] = simulated[d] /\ prepared'[d] = prepared[d]
    BY <1>1, <2>2 DEF IntentType, gas, ran
  <2>7. /\ prepared'[i].value = want[i].value /\ prepared'[i].gas = gas
        /\ prepared'[i].price = 1 /\ prepared'[i].data = 0 /\ prepared'[i].chain = Chain
        /\ prepared'[i].to = want[i].to /\ prepared'[i].nonce = pre[i].nonce
    BY <2>4 DEF Priced
  <2>11. /\ simulated'[i].tx.value = want[i].value /\ simulated'[i].tx.data = 0
         /\ simulated'[i].tx.chain = Chain /\ simulated'[i].tx.to = want[i].to
         /\ simulated'[i].used = used
    BY <2>4, <2>10 DEF Unpriced
  <2>8. Decided(i)'
    BY <2>1, <2>3, <2>4, <2>6, <2>7, <2>11 DEF Decided, SameCall
  <2>9. "decide" \in Steps \ {"unused", "signing", "done"}
    BY DEF Steps
  <2> QED  BY <1>1, <2>1, <2>4, <2>5, <2>8, <2>9, UnheardStepKeeps DEF IntentType
<1> QED
  BY <1>2, <1>3, <1>4

\* The invariant of the gateway and the signer together.
LEMMA IntentAlways == IntentSpec => []IntentInv
<1>1. IntentInit => IntentInv
  <2> SUFFICES ASSUME IntentInit PROVE IntentInv
    OBVIOUS
  <2>1. SignerInv
    BY SignerInitInv DEF IntentInit
  <2>2. IntentType
    BY DEF IntentInit, IntentType, Steps
  <2>3. \A i \in Call : Own(i)
    BY DEF IntentInit, SignerInit, Own, Unheard, Decided, Asked, Told
  <2> QED  BY <2>1, <2>2, <2>3 DEF IntentInv
<1>2. IntentInv /\ [IntentNext]_allVars => IntentInv'
  <2> SUFFICES ASSUME IntentInv, [IntentNext]_allVars PROVE IntentInv'
    OBVIOUS
  <2>1. ASSUME UNCHANGED intentVars, SignerInv', UNCHANGED <<stage, status, request>>
        PROVE  IntentInv'
    <3>1. UNCHANGED <<step, want, pre, sim, simulated, prepared, answer>>
      BY <2>1 DEF intentVars
    <3>2. IntentType'
      BY <3>1 DEF IntentInv, IntentType
    <3>3. \A i \in Call : Own(i)'
      BY <2>1, <3>1, OthersKeepOwn DEF IntentInv
    <3> QED  BY <2>1, <3>2, <3>3 DEF IntentInv
  <2>2. CASE Mine \/ UNCHANGED allVars
    <3>1. UNCHANGED <<now, signerVars>> /\ UNCHANGED intentVars
      BY <2>2 DEF Mine, allVars
    <3> QED  BY <2>1, <3>1, SignerStutters DEF IntentInv, signerVars
  <2>3. CASE Tick /\ UNCHANGED <<blocks, intentVars>>
    BY <2>1, <2>3, TickKeeps DEF IntentInv, Tick, signerVars
  <2>4. ASSUME NEW i \in Call,
               \/ \E w \in Wants : Begin(i, w)
               \/ \E k \in KeyId : SignMessage(i, k)
               \/ IntentStep(i)
               \/ SignerStep(i) /\ UNCHANGED <<blocks, intentVars>>
        PROVE  IntentInv'
    BY <2>4, PostKeepsIntents, EndsKeepIntents, ProgressKeepsIntents, SignerStepKeepsIntents
       DEF IntentStep
  <2> QED  BY <2>2, <2>3, <2>4 DEF IntentNext
<1> QED
  BY <1>1, <1>2, PTL DEF IntentSpec

\* Whatever the signer signs for an intent is the call that the engine simulated
\* with success on a balance that covered its value: same chain, recipient, value
\* and data, the loaded nonce, the key that was asked for, and at least the gas that
\* the run was charged.  The gate of doIntent, and nothing between it and the
\* backend, lets another one by.  (Limit and price are those set afterwards.)
THEOREM OnlySimulatedIsSigned == IntentSpec => []SignedWasSimulated
<1>1. IntentInv => SignedWasSimulated
  BY DEF IntentInv, SignerInv, Once, Own, Asked, SameCall, SignedWasSimulated, SignedTx, Signed
<1> QED
  BY <1>1, IntentAlways, PTL

\* A client that is told of a signature has one on record; one that is told that
\* there is none never gets one, in whatever order the signer and the gateway act.
THEOREM AnswersAreHonest == IntentSpec => []HonestAnswers
<1>1. IntentInv => HonestAnswers
  <2> SUFFICES ASSUME IntentInv, NEW i \in Call
               PROVE  /\ answer[i] = "signed" =>
                            \E j \in 1 .. Len(recorded) : recorded[j].call = i
                      /\ answer[i] \in {"failed", "simulated", "skipped", "refused"} =>
                            ~Signed(i) /\ stage[i] \notin {"sent", "accepted"}
    BY DEF HonestAnswers
  <2>1. Told(i) /\ AnsweredIffRecorded /\ (stage[i] # "answered" => status[i] # 200)
    BY DEF IntentInv, SignerInv, Own, Once
  <2> QED  BY <2>1 DEF Told, Signed, AnsweredIffRecorded
<1> QED
  BY <1>1, IntentAlways, PTL

\* The rules of the signer hold of what the gateway sends it as well.
THEOREM GatewayMeetsThePolicy ==
    IntentSpec => [](SignedByTheRules /\ AnsweredIffRecorded /\ AuditIsRecent /\ AuditInTimeOrder)
<1>1. IntentInv => SignedByTheRules /\ AnsweredIffRecorded
  BY DEF IntentInv, SignerInv, Once, Passed, Lawful, SignedByTheRules
<1>2. IntentInv => AuditIsRecent /\ AuditInTimeOrder
  BY TrailIsRecent, TrailInTimeOrder DEF IntentInv
<1> QED
  BY <1>1, <1>2, IntentAlways, PTL

=============================================================================
