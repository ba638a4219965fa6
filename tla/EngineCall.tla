----------------------------- MODULE EngineCall -----------------------------
(***************************************************************************)
(* One simulation call of the gateway: engineclient's messages over        *)
(* pbwire (Wire), grpcx.Invoke with its framing and status, and a          *)
(* transport that may lose the answer, its trailer or part of its body.    *)
(* The engine reads and writes the same messages with generated code.      *)
(*                                                                         *)
(* Addresses have AddrLen bytes and words WordLen.                         *)
(***************************************************************************)
EXTENDS Wire

CONSTANTS
    Requests,       \* SimRequest values the gateway may send
    Responses,      \* SimulateResponse values the engine may give
    Statuses,       \* gRPC codes other than OK that the engine may give
    Newer,          \* fields a newer engine may append to a response
    AddrLen,        \* bytes of an address
    WordLen,        \* bytes of a word
    LenBytes,       \* bytes of the length in a frame
    MaxMessage      \* the largest response frame

\* The values that n bytes have.
Values(n) == Pow2[(GroupBits + 1) * n]

ASSUME CallConstantsOK ==
    /\ AddrLen \in Nat \ {0} /\ LenBytes \in Nat \ {0}
    /\ WordLen \in 1 .. MaxRaw
    /\ MaxMessage \in 0 .. Values(LenBytes) - 1
    /\ 0 \notin Statuses

VARIABLES
    pc,         \* "idle", "sent", "answered", "arrived", "returned"
    request,    \* the request of the call
    frame,      \* the frame on its way to the engine, then the body of the answer
    trailer,    \* grpc-status of the answer, or NoTrailer
    httpOK,     \* whether the HTTP status is 200
    seen,       \* what the engine decoded
    reply,      \* what the engine gave
    whole,      \* ghost: nothing happened to the answer on its way
    result      \* what Simulate returned

vars == <<pc, request, frame, trailer, httpOK, seen, reply, whole, result>>

NoTrailer == -1
Nothing == [kind |-> "nothing"]
Failed == [kind |-> "error"]
Is(v) == [kind |-> "value", val |-> v]

-----------------------------------------------------------------------------
\* Big-endian integers: v in n bytes; word, the shortest form, empty for zero, where
\* what is too large is an error; and SetBytes.
Digit(v, i) == (v \div Values(i)) % (2 * Group)
FillBytes(v, n) == [i \in 1 .. n |-> Digit(v, n - i)]
Fits(v) == v < Values(WordLen)
Word(v) ==
    FillBytes(v, CHOOSE n \in 0 .. WordLen : v < Values(n) /\ \A k \in 0 .. n - 1 : v >= Values(k))
BigEndian[s \in Seq(Byte)] ==
    IF s = << >> THEN 0 ELSE 2 * Group * BigEndian[Front(s)] + Last(s)

\* The errors of encodeAccount and Encode.
AccountFits(a) == Fits(a.balance) /\ \A i \in 1 .. Len(a.storage) : Fits(a.storage[i].value)
RequestFits(r) ==
    Fits(r.value) /\ Fits(r.gasPrice) /\ \A i \in 1 .. Len(r.state) : AccountFits(r.state[i])

Each(Op(_), s) == FlattenSeq([i \in 1 .. Len(s) |-> Op(s[i])])

slotBytes(s) == Put(Raw(1, s.key) \o Raw(2, Word(s.value)))

\* Mutant: a slot that holds zero is omitted like a zero field.
EncodeSlotNonZero(s) == IF s.value = 0 THEN << >> ELSE RawAlways(5, slotBytes(s))

EncodeSlot(s) == RawAlways(5, slotBytes(s))

encodeAccount(a) ==
    Put(Raw(1, a.address) \o Raw(2, Word(a.balance)) \o Uint(3, a.nonce) \o Raw(4, a.code)
        \o Each(EncodeSlot, a.storage))

EncodeState(a) == RawAlways(8, encodeAccount(a))

\* engineclient.Encode; to is << >> for a contract creation.
Encode(r) ==
    Put(Uint(1, r.chainId) \o Raw(2, r.from) \o Raw(3, r.to) \o Raw(4, Word(r.value)) \o Raw(5, r.data)
        \o Uint(6, r.gasLimit) \o Raw(7, Word(r.gasPrice)) \o Each(EncodeState, r.state)
        \o Uint(9, r.block) \o Uint(10, r.timestamp))

-----------------------------------------------------------------------------
\* What a decoder makes of fields: the last of a kind, or all of them.
All(fs, num, wire) ==
    FlattenSeq([i \in 1 .. Len(fs) |->
                  IF fs[i].num = num /\ fs[i].wire = wire THEN <<fs[i].val>> ELSE << >>])
LastOr(s, default) == IF s = << >> THEN default ELSE Last(s)
UintOf(fs, num) == LastOr(All(fs, num, Varint), 0)
RawOf(fs, num) == LastOr(All(fs, num, Bytes), << >>)

\* The engine's side, generated from the contract.
SlotOf(s) ==
    LET fs == Fields[s].fields IN [key |-> RawOf(fs, 1), value |-> BigEndian[RawOf(fs, 2)]]
AccountOf(s) ==
    LET fs == Fields[s].fields
        slots == All(fs, 5, Bytes)
    IN  [address |-> RawOf(fs, 1), balance |-> BigEndian[RawOf(fs, 2)], nonce |-> UintOf(fs, 3),
         code |-> RawOf(fs, 4), storage |-> [i \in 1 .. Len(slots) |-> SlotOf(slots[i])]]
RequestOf(s) ==
    LET fs == Fields[s].fields
        accounts == All(fs, 8, Bytes)
    IN  [chainId |-> UintOf(fs, 1), from |-> RawOf(fs, 2), to |-> RawOf(fs, 3),
         value |-> BigEndian[RawOf(fs, 4)], data |-> RawOf(fs, 5), gasLimit |-> UintOf(fs, 6),
         gasPrice |-> BigEndian[RawOf(fs, 7)], block |-> UintOf(fs, 9), timestamp |-> UintOf(fs, 10),
         state |-> [i \in 1 .. Len(accounts) |-> AccountOf(accounts[i])]]

PutTopic(t) == RawAlways(2, t)
logBytes(l) == Put(Raw(1, l.address) \o Each(PutTopic, l.topics) \o Raw(3, l.data))
changeBytes(c) ==
    Put(Raw(1, c.address) \o Raw(2, FillBytes(c.before, WordLen)) \o Raw(3, FillBytes(c.after, WordLen)))
PutLog(l) == RawAlways(5, logBytes(l))
PutChange(c) == RawAlways(6, changeBytes(c))
PutResponse(v) ==
    Put(Uint(1, v.outcome) \o Uint(2, v.gasUsed) \o Raw(3, v.output) \o Raw(4, v.reason)
        \o Each(PutLog, v.logs) \o Each(PutChange, v.changes) \o Uint(7, v.elapsed) \o Raw(8, v.created))

-----------------------------------------------------------------------------
\* The messages: integers and bytes as the contract has them, none so long that a
\* Reader refuses it.
Short(s) == Len(s) <= MaxRaw
Text == {s \in Seq(Byte) : Short(s)}
Addr == {s \in Text : Len(s) = AddrLen}

Slot == {s \in [key : Text, value : Nat] : Fits(s.value) => Short(slotBytes(s))}
Account ==
    {a \in [address : Text, balance : Nat, nonce : UInt, code : Text, storage : Seq(Slot)] :
        AccountFits(a) => Short(encodeAccount(a))}
Request ==
    [chainId : UInt, from : Text, to : Text, value : Nat, data : Text, gasLimit : UInt,
     gasPrice : Nat, state : Seq(Account), block : UInt, timestamp : UInt]

Log == {l \in [address : Addr, topics : Seq(Text), data : Text] : Short(logBytes(l))}
Change == {c \in [address : Addr, before : Nat, after : Nat] :
             Fits(c.before) /\ Fits(c.after) /\ Short(changeBytes(c))}
Response ==
    [outcome : 1 .. 3, gasUsed : UInt, output : Text, reason : Text, logs : Seq(Log),
     changes : Seq(Change), elapsed : UInt, created : Addr \union {<< >>}]

\* A newer engine only adds fields, and gRPC has no frame longer than its length says.
ASSUME MessagesOK ==
    /\ 8 * 10 + Bytes \in UInt
    /\ Requests \subseteq Request
    /\ Responses \subseteq Response
    /\ \A more \in Newer :
        /\ more \in Seq(Byte) /\ Fields[more].ok
        /\ \A i \in 1 .. Len(Fields[more].fields) : Fields[more].fields[i].num \notin 1 .. 8
    /\ \A v \in Responses, more \in Newer :
        Len(PutResponse(v) \o more) < Values(LenBytes)

-----------------------------------------------------------------------------
\* decodeLog, decodeChange and Decode: the errors, and the values if there is none.
IsAddr(s) == Len(s) = AddrLen
AllAddr(fs, num) == \A i \in 1 .. Len(All(fs, num, Bytes)) : IsAddr(All(fs, num, Bytes)[i])
PartOK(s) == Fields[s].ok /\ AllAddr(Fields[s].fields, 1)
AllParts(fs, num) == \A i \in 1 .. Len(All(fs, num, Bytes)) : PartOK(All(fs, num, Bytes)[i])

ZeroAddr == [i \in 1 .. AddrLen |-> 0]
AddrOf(fs) == LastOr(All(fs, 1, Bytes), ZeroAddr)

decodeLog(s) ==
    LET fs == Fields[s].fields
    IN  [address |-> AddrOf(fs), topics |-> All(fs, 2, Bytes), data |-> RawOf(fs, 3)]
decodeChange(s) ==
    LET fs == Fields[s].fields
    IN  [address |-> AddrOf(fs), before |-> BigEndian[RawOf(fs, 2)], after |-> BigEndian[RawOf(fs, 3)]]

Decode(s) ==
    LET fs == Fields[s].fields
        outcomes == All(fs, 1, Varint)
        logs == All(fs, 5, Bytes)
        changes == All(fs, 6, Bytes)
    IN  IF \/ ~Fields[s].ok
           \/ outcomes = << >> \/ \E i \in 1 .. Len(outcomes) : outcomes[i] \notin 1 .. 3
           \/ ~AllParts(fs, 5) \/ ~AllParts(fs, 6) \/ ~AllAddr(fs, 8)
        THEN Failed
        ELSE Is([outcome |-> Last(outcomes), gasUsed |-> UintOf(fs, 2), output |-> RawOf(fs, 3),
                 reason |-> RawOf(fs, 4), elapsed |-> UintOf(fs, 7), created |-> RawOf(fs, 8),
                 logs |-> [i \in 1 .. Len(logs) |-> decodeLog(logs[i])],
                 changes |-> [i \in 1 .. Len(changes) |-> decodeChange(changes[i])]])

-----------------------------------------------------------------------------
\* A frame: no compression, the length, the message.
Frame(s) == <<0>> \o FillBytes(Len(s), LenBytes) \o s
Header == 1 + LenBytes

\* Mutant: the length is not compared with the body.
UnframeLoose(b) ==
    IF Len(b) < Header \/ b[1] # 0 THEN Failed
    ELSE LET n == BigEndian[SubSeq(b, 2, Header)] IN
         IF n > MaxMessage THEN Failed ELSE Is(Drop(b, Header))

\* The end of Invoke: one frame that fills the body exactly.
Unframe(b) ==
    IF Len(b) < Header \/ b[1] # 0 THEN Failed
    ELSE LET n == BigEndian[SubSeq(b, 2, Header)] IN
         IF n > MaxMessage \/ n # Len(b) - Header THEN Failed ELSE Is(Drop(b, Header))

\* Mutant: the limit leaves out the header.
LimitedToMessage(b) == IF Len(b) > MaxMessage THEN SubSeq(b, 1, MaxMessage) ELSE b

\* Invoke reads no more than one byte beyond the largest frame.
Limited(b) == IF Len(b) > MaxMessage + Header + 1 THEN SubSeq(b, 1, MaxMessage + Header + 1) ELSE b

\* Invoke, then Decode.
Simulate(b, status, ok) ==
    IF ~ok \/ status # 0 THEN Failed
    ELSE LET m == Unframe(Limited(b)) IN IF m = Failed THEN Failed ELSE Decode(m.val)

-----------------------------------------------------------------------------
Init ==
    /\ pc = "idle"
    /\ request = Nothing /\ frame = << >> /\ trailer = NoTrailer /\ httpOK = FALSE
    /\ seen = Nothing /\ reply = Nothing /\ whole = TRUE /\ result = Nothing

EncodeFails(r) ==
    /\ pc = "idle"
    /\ ~RequestFits(r)
    /\ pc' = "returned"
    /\ request' = Is(r)
    /\ result' = Failed
    /\ UNCHANGED <<frame, trailer, httpOK, seen, reply, whole>>

Call(r) ==
    /\ pc = "idle"
    /\ RequestFits(r)
    /\ pc' = "sent"
    /\ request' = Is(r)
    /\ frame' = Frame(Encode(r))
    /\ UNCHANGED <<trailer, httpOK, seen, reply, whole, result>>

\* The engine answers with a response, perhaps of a newer version, or a status.
Answer ==
    /\ pc = "sent"
    /\ pc' = "answered"
    /\ seen' = Is(RequestOf(Drop(frame, Header)))
    /\ httpOK' = TRUE
    /\ \/ \E v \in Responses, more \in Newer :
            /\ reply' = Is(v)
            /\ frame' = Frame(PutResponse(v) \o more)
            /\ trailer' = 0
       \/ \E s \in Statuses : reply' = Failed /\ frame' = << >> /\ trailer' = s
    /\ UNCHANGED <<request, whole, result>>

\* The answer arrives whole, or without its trailer, or cut short, or as another
\* status of an intermediary.
Arrive ==
    /\ pc = "answered"
    /\ pc' = "arrived"
    /\ \E n \in 0 .. Len(frame), t \in {trailer, NoTrailer}, ok \in BOOLEAN :
        /\ frame' = SubSeq(frame, 1, n)
        /\ trailer' = t
        /\ httpOK' = ok
        /\ whole' = (n = Len(frame) /\ t = trailer /\ ok)
    /\ UNCHANGED <<request, seen, reply, result>>

Return ==
    /\ pc = "arrived"
    /\ pc' = "returned"
    /\ result' = Simulate(frame, trailer, httpOK)
    /\ UNCHANGED <<request, frame, trailer, httpOK, seen, reply, whole>>

\* No connection, no answer in time, or cancelled.
GiveUp ==
    /\ pc \in {"sent", "answered"}
    /\ pc' = "returned"
    /\ result' = Failed
    /\ whole' = FALSE
    /\ UNCHANGED <<request, frame, trailer, httpOK, seen, reply>>

Next == Answer \/ Arrive \/ Return \/ GiveUp \/ \E r \in Requests : Call(r) \/ EncodeFails(r)

Spec == Init /\ [][Next]_vars

-----------------------------------------------------------------------------
\* "serialises a request exactly as prost would": the engine simulates the
\* transaction and the state that the gateway meant, zero values, large integers,
\* empty bytes and nested messages included.
RequestArrives == seen # Nothing => seen = request

\* The gateway never takes part of an answer for an answer: whatever is cut off or
\* lost, what Simulate returns without error is the engine's response.
NoWrongResult == result.kind = "value" => result = reply

\* And an answer that arrives whole is returned, up to the largest frame and
\* whatever fields a newer engine adds.
WholeResultReturned ==
    pc = "returned" /\ whole /\ reply.kind = "value" /\ Len(frame) <= MaxMessage + Header =>
        result = reply

=============================================================================
