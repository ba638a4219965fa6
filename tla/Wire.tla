-------------------------------- MODULE Wire --------------------------------
(***************************************************************************)
(* The protobuf codec between gateway and engine                           *)
(* (services/gateway/internal/pbwire): what Buf appends for a field, and   *)
(* the fields that Reader.Next finds in a message.                         *)
(*                                                                         *)
(* Widths are constants: the code has groups of 7 bits in integers of 64,  *)
(* so that a tenth group holds one bit.  A message under construction is   *)
(* the sequence of its fields; Put gives its bytes.                        *)
(***************************************************************************)
EXTENDS Integers, Sequences, SequencesExt

CONSTANTS
    GroupBits,      \* bits of a varint byte beside the continuation bit
    Width,          \* bits of an integer
    MaxRaw,         \* the longest bytes field that a Reader accepts (MaxInt32)
    Fixed64Len, Fixed32Len      \* bytes of the fixed-width wire types

\* A power of two, as a function that proofs can unfold.
Pow2[n \in Nat] == IF n = 0 THEN 1 ELSE 2 * Pow2[n - 1]

Group == Pow2[GroupBits]
Byte == 0 .. 2 * Group - 1
UInt == 0 .. Pow2[Width] - 1

ASSUME WireConstantsOK ==
    /\ GroupBits \in Nat \ {0} /\ Width \in Nat \ {0}
    /\ MaxRaw \in UInt \ {0}
    /\ Fixed64Len \in Nat /\ Fixed32Len \in Nat

Varint == 0
Fixed64 == 1
Bytes == 2
Fixed32 == 5

-----------------------------------------------------------------------------
\* Buf.varint: low groups first, all but the last with the continuation bit.
PutVarint[v \in UInt] ==
    IF v >= Group THEN <<Group + (v % Group)>> \o PutVarint[v \div Group] ELSE <<v>>

Field(num, wire, val) == [num |-> num, wire |-> wire, val |-> val]

\* Uint and Raw omit what is zero or empty.
RawAlways(num, s) == <<Field(num, Bytes, s)>>
Raw(num, s) == IF s = << >> THEN << >> ELSE RawAlways(num, s)
Uint(num, v) == IF v = 0 THEN << >> ELSE <<Field(num, Varint, v)>>

PutField(f) ==
    PutVarint[8 * f.num + f.wire]
        \o (IF f.wire = Varint THEN PutVarint[f.val] ELSE PutVarint[Len(f.val)] \o f.val)
Put(fs) == FlattenSeq([i \in 1 .. Len(fs) |-> PutField(fs[i])])

-----------------------------------------------------------------------------
\* Reader.varint: one byte for each shift below Width.
MaxGroups == (Width + GroupBits - 1) \div GroupBits

VarintEnds(s) ==
    {k \in 1 .. Len(s) : k <= MaxGroups /\ s[k] < Group /\ \A j \in 1 .. k - 1 : s[j] >= Group}

Drop(s, n) == SubSeq(s, n + 1, Len(s))

\* The integer whose groups are the bytes, low groups first.
LowFirst[s \in Seq(Byte)] ==
    IF s = << >> THEN 0 ELSE (Head(s) % Group) + Group * LowFirst[Tail(s)]

\* The value that was read, with the rest of the message; bits beyond Width are
\* shifted out.  An error if the varint is cut off or too long.
ErrTruncated == [ok |-> FALSE]
ReadVarint(s) ==
    IF VarintEnds(s) = {} THEN ErrTruncated
    ELSE LET k == CHOOSE k \in VarintEnds(s) : TRUE
         IN  [ok |-> TRUE, val |-> LowFirst[SubSeq(s, 1, k)] % Pow2[Width], rest |-> Drop(s, k)]

\* One turn of the loop in Reader.Next: the field that is read, or none for one of
\* fixed width, which is skipped, and the rest.
ReadField(s) ==
    LET tag == ReadVarint(s)
        num == tag.val \div 8
        wire == tag.val % 8
        arg == ReadVarint(tag.rest)
        skip == IF wire = Fixed64 THEN Fixed64Len ELSE Fixed32Len
    IN  IF ~tag.ok THEN ErrTruncated
        ELSE IF wire \in {Fixed64, Fixed32}
        THEN IF Len(tag.rest) < skip THEN ErrTruncated
             ELSE [ok |-> TRUE, field |-> << >>, rest |-> Drop(tag.rest, skip)]
        ELSE IF wire \notin {Varint, Bytes} THEN ErrTruncated
        ELSE IF ~arg.ok THEN ErrTruncated
        ELSE IF wire = Varint THEN [ok |-> TRUE, field |-> <<Field(num, wire, arg.val)>>, rest |-> arg.rest]
        ELSE IF arg.val > Len(arg.rest) \/ arg.val > MaxRaw THEN ErrTruncated
        ELSE [ok |-> TRUE, field |-> <<Field(num, wire, SubSeq(arg.rest, 1, arg.val))>>,
              rest |-> Drop(arg.rest, arg.val)]

\* All that Next returns until it fails or is at the end.
Fields[s \in Seq(Byte)] ==
    IF s = << >> THEN [ok |-> TRUE, fields |-> << >>]
    ELSE LET one == ReadField(s) IN
         IF ~one.ok THEN [ok |-> FALSE, fields |-> << >>]
         ELSE LET more == Fields[one.rest]
              IN  [ok |-> more.ok, fields |-> one.field \o more.fields]

=============================================================================
