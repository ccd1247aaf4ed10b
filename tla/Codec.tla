------------------------------- MODULE Codec -------------------------------
(***************************************************************************)
(* The generated protobuf code of the network and rollkitmngr modules:     *)
(* Size and Marshal as operators over the tables of Messages, Unmarshal as *)
(* a machine that handles one field of its input at a time and calls       *)
(* itself for an embedded message (a stack of frames).  Every method the   *)
(* generator wrote has the same shape; the tables are what differs.        *)
(*                                                                         *)
(* A message is a function from field names to values, a string or byte    *)
(* slice a sequence of bytes, a pointer <<>> (nil) or <<message>>, a       *)
(* repeated field a sequence of messages.  Integers keep their widths:     *)
(* WordBits and IntBits.                                                   *)
(***************************************************************************)
EXTENDS Messages, Integers, SequencesExt

CONSTANT Inputs  \* records [type, origin, parts, dAtA]

ASSUME WidthsAssumption ==
    /\ WordBits \in Nat /\ IntBits \in Nat
    /\ 8 < IntBits /\ IntBits < WordBits

VARIABLES input,   \* the call: Unmarshal(input.dAtA) on a zero message
          frames,  \* the active calls of Unmarshal, the innermost last
          err,     \* the error the call returned, "" for nil
          out      \* the message, once the call has returned without one

vars == <<input, frames, err, out>>

-----------------------------------------------------------------------------
\* Powers of two.
Two[n \in 0..WordBits] == IF n = 0 THEN 1 ELSE 2 * Two[n - 1]

\* Two's complement: the integer that `bits` bits of v stand for.
ToInt(v, bits) ==
    LET u == v % Two[bits] IN IF u < Two[bits - 1] THEN u ELSE u - Two[bits]

\* math_bits.Len64
BitLen(x) == Min({n \in 0..WordBits : x < Two[n]})

sov(x) == (BitLen(IF x = 0 THEN 1 ELSE x) + 6) \div 7

\* The loop writes seven bits a byte, `v >>= 7`, while more than these are
\* left; Left(k) is v after k rounds.
encodeVarint(v) ==
    LET Left(k) == v \div Two[7 * k]
        rounds == Min({k \in 0..(WordBits \div 7) : Left(k) < 128})
    IN  [k \in 1..(rounds + 1) |->
           IF k <= rounds THEN (Left(k - 1) % 128) + 128 ELSE Left(rounds)]

\* A tag, the length as a uint64, the bytes.
Delimited(head, bytes) ==
    <<head>> \o encodeVarint(Len(bytes) % Two[WordBits]) \o bytes

-----------------------------------------------------------------------------
(***************************************************************************)
(* Messages.  MsgMigrateToRollkit holds a Sequencer, which holds an Any;   *)
(* no message is nested deeper.  So what a method does is defined from     *)
(* what it does to the embedded messages (Inner), three levels in all.     *)
(***************************************************************************)
\* The embedded messages that field `row` with value v holds.
Parts(row, v) ==
    CASE row.kind = "sub" -> <<v>>
      [] row.kind \in {"ptr", "rep"} -> v
      [] OTHER -> <<>>

\* The row of a field in one of its message's tables.
RowOf(table, f) == CHOOSE row \in Range(table) : row.field = f

Fields(type) == {row.field : row \in Range(Message[type].Unmarshal)}

\* What Marshal writes for a field; enc has the embedded messages' bytes.
Written(row, v, enc) ==
    CASE row.kind = "num" ->
           IF v = 0 THEN <<>>
           ELSE <<row.head>> \o encodeVarint(v % Two[WordBits])
      [] row.kind = "flag" -> IF v THEN <<row.head, 1>> ELSE <<>>
      [] row.kind = "raw" -> IF v = <<>> THEN <<>> ELSE Delimited(row.head, v)
      [] OTHER -> FlattenSeq([i \in DOMAIN enc |-> Delimited(row.head, enc[i])])

\* MarshalToSizedBuffer fills the buffer from its end, fields and elements in
\* reverse: read forwards, the rows are in the order of the table.
MarshalBy(Inner(_, _), type, m) ==
    LET table == Message[type].Marshal
        Row(row, parts) ==
          Written(row, m[row.field],
                  [j \in DOMAIN parts |-> Inner(row.type, parts[j])])
    IN  FlattenSeq([i \in DOMAIN table |->
                      Row(table[i], Parts(table[i], m[table[i].field]))])

Marshal0(type, m) == MarshalBy(LAMBDA t, v : <<>>, type, m)
Marshal1(type, m) == MarshalBy(Marshal0, type, m)
Marshal(type, m) == MarshalBy(Marshal1, type, m)

\* The sum of a sequence of numbers.
Total(s) ==
    LET sum[n \in 0..Len(s)] == IF n = 0 THEN 0 ELSE sum[n - 1] + s[n]
    IN  sum[Len(s)]

\* What Size counts for a field; sizes has those of the embedded messages.
Counted(row, v, sizes) ==
    LET Bytewise(n) == row.head + n + sov(n % Two[WordBits]) IN
    CASE row.kind = "num" ->
           IF v = 0 THEN 0 ELSE row.head + sov(v % Two[WordBits])
      [] row.kind = "flag" -> IF v THEN row.head + 1 ELSE 0
      [] row.kind = "raw" -> IF v = <<>> THEN 0 ELSE Bytewise(Len(v))
      [] OTHER -> Total([i \in DOMAIN sizes |-> Bytewise(sizes[i])])

SizeBy(Inner(_, _), type, m) ==
    LET table == Message[type].Size
        Row(row, parts) ==
          Counted(row, m[row.field],
                  [j \in DOMAIN parts |-> Inner(row.type, parts[j])])
    IN  Total([i \in DOMAIN table |->
                 Row(table[i], Parts(table[i], m[table[i].field]))])

Size0(type, m) == SizeBy(LAMBDA t, v : 0, type, m)
Size1(type, m) == SizeBy(Size0, type, m)
Size(type, m) == SizeBy(Size1, type, m)

\* The zero value of a message.
ZeroBy(Inner(_), type) ==
    LET ZeroField(row) ==
          CASE row.kind \in {"uint", "int"} -> 0
            [] row.kind = "flag" -> FALSE
            [] row.kind = "sub" -> Inner(row.type)
            [] OTHER -> <<>>
    IN  [f \in Fields(type) |-> ZeroField(RowOf(Message[type].Unmarshal, f))]

Zero0(type) == ZeroBy(LAMBDA t : <<>>, type)
Zero1(type) == ZeroBy(Zero0, type)
Zero(type) == ZeroBy(Zero1, type)

\* The values a message can have in the program: Go's types of its fields.
Byte == 0..255

IsMessageBy(Inner(_, _), type, m) ==
    LET Typed(row, v) ==
          CASE row.kind = "uint" -> v \in 0..(Two[row.bits] - 1)
            [] row.kind = "int" ->
                 v \in -Two[row.bits - 1]..(Two[row.bits - 1] - 1)
            [] row.kind = "flag" -> v \in BOOLEAN
            [] row.kind = "raw" -> v \in Seq(Byte)
            [] row.kind = "sub" -> Inner(row.type, v)
            [] OTHER -> /\ v \in Seq(Range(v))
                        /\ row.kind = "ptr" => Len(v) <= 1
                        /\ \A i \in DOMAIN v : Inner(row.type, v[i])
    IN  /\ m = [f \in Fields(type) |-> m[f]]
        /\ \A row \in Range(Message[type].Unmarshal) : Typed(row, m[row.field])

IsMessage0(type, m) == IsMessageBy(LAMBDA t, v : FALSE, type, m)
IsMessage1(type, m) == IsMessageBy(IsMessage0, type, m)
IsMessage(type, m) == IsMessageBy(IsMessage1, type, m)

-----------------------------------------------------------------------------
Got(v, next) == [err |-> "", v |-> v, next |-> next]
Failed(e) == [err |-> e, v |-> 0, next |-> 0]
IsErr(r) == r.err # ""

\* iNdEx + n in a signed word.
Index(i) == ToInt(i, WordBits)

\* The inlined loop that reads a varint at iNdEx = i: seven bits a byte, up to
\* a byte below 128; an error once the shift reaches the width or the buffer
\* ends.  acc[k] is the value after k bytes, `v |= uint64(b&0x7F) << shift`.
ReadVarint(s, i) ==
    LET ends == {k \in 1..WordBits : /\ 7 * (k - 1) < WordBits
                                     /\ i + k <= Len(s) /\ s[i + k] < 128}
        acc[k \in 0..Min(ends)] ==
          IF k = 0 THEN 0
          ELSE (acc[k - 1] + (s[i + k] % 128) * Two[7 * (k - 1)])
                 % Two[WordBits]
    IN  IF ends # {} THEN Got(acc[Min(ends)], i + Min(ends))
        ELSE Failed(IF 7 * (Len(s) - i) >= WordBits THEN "overflow" ELSE "EOF")

\* A slip: the end is not tested for having wrapped around.
ReadDelimitedNoWrapCheck(s, i) ==
    LET len == ReadVarint(s, i)
        n == ToInt(len.v, WordBits)
        postIndex == Index(len.next + n)
    IN  IF IsErr(len) THEN len
        ELSE IF n < 0 THEN Failed("length")
        ELSE IF postIndex > Len(s) THEN Failed("EOF")
        ELSE Got(len.next, postIndex)

\* A slip: a field that the buffer cuts off is taken as far as it goes.
ReadDelimitedClipped(s, i) ==
    LET len == ReadVarint(s, i)
        n == ToInt(len.v, WordBits)
        postIndex == Index(len.next + n)
    IN  IF IsErr(len) THEN len
        ELSE IF n < 0 \/ postIndex < 0 THEN Failed("length")
        ELSE Got(len.next, IF postIndex > Len(s) THEN Len(s) ELSE postIndex)

\* A length at i, then [where the bytes begin, where they end].
ReadDelimited(s, i) ==
    LET len == ReadVarint(s, i)
        n == ToInt(len.v, WordBits)
        postIndex == Index(len.next + n)
    IN  IF IsErr(len) THEN len
        ELSE IF n < 0 \/ postIndex < 0 THEN Failed("length")
        ELSE IF postIndex > Len(s) THEN Failed("EOF")
        ELSE Got(len.next, postIndex)

\* The payload behind a tag, inside `depth` open groups; length is the varint
\* that follows.
Payload(depth, tag, length) ==
    LET wireType == tag.v % 8
        n == ToInt(length.v, WordBits)
    IN  CASE wireType = 0 -> length
          [] wireType = 1 -> Got(0, Index(tag.next + 8))
          [] wireType = 2 -> IF IsErr(length) THEN length
                             ELSE IF n < 0 THEN Failed("length")
                             ELSE Got(0, Index(length.next + n))
          [] wireType = 3 -> tag
          [] wireType = 4 -> IF depth = 0 THEN Failed("group") ELSE tag
          [] wireType = 5 -> Got(0, Index(tag.next + 4))
          [] OTHER -> Failed("wireType")

Depth(depth, tag) == CASE tag.v % 8 = 3 -> depth + 1
                       [] tag.v % 8 = 4 -> depth - 1
                       [] OTHER -> depth

\* A round of skip's loop: a tag and its payload, at index st.next and inside
\* st.v open groups.
SkipRound(s, st) ==
    LET tag == ReadVarint(s, st.next)
        after == Payload(st.v, tag, ReadVarint(s, tag.next))
    IN  IF st.next >= Len(s) THEN Failed("EOF")
        ELSE IF IsErr(tag) THEN tag
        ELSE IF IsErr(after) THEN after
        ELSE IF after.next < 0 THEN Failed("length")
        ELSE Got(Depth(st.v, tag), after.next)

\* The loop ends with an error or outside all groups; a round takes a byte at
\* least, so that this is so after Len(s) + 1 of them.
skip(s) ==
    LET run[k \in 0..(Len(s) + 1)] ==
          IF k = 0 THEN Got(0, 0)
          ELSE LET st == run[k - 1]
               IN  IF k > 1 /\ st.v = 0 THEN st ELSE SkipRound(s, st)
    IN  run[Len(s) + 1]

-----------------------------------------------------------------------------
NoTag == -1

\* A call of Unmarshal: the message it fills, where its loop is (the tag read
\* last and where it began), and the case of the caller's switch it is for.
Frame(type, dAtA, m, row) ==
    [type |-> type, dAtA |-> dAtA, iNdEx |-> 0, preIndex |-> 0,
     wire |-> NoTag, m |-> m, row |-> row]

Init ==
    /\ input \in Inputs
    /\ frames = <<Frame(input.type, input.dAtA, Zero(input.type), <<>>)>>
    /\ err = ""
    /\ out = Zero(input.type)

Top == Last(frames)
AtLoop == frames # <<>> /\ Top.wire = NoTag
AtSwitch == frames # <<>> /\ Top.wire # NoTag

\* The outermost call returns an error: every caller passes it on.
Fail(e) == err' = e /\ frames' = <<>> /\ UNCHANGED <<input, out>>

\* The innermost call goes on as fr says.
Resume(fr) ==
    /\ frames' = [frames EXCEPT ![Len(frames)] = fr]
    /\ UNCHANGED <<input, err, out>>

\* The loop's next round, at iNdEx.
Advance(iNdEx, m) ==
    Resume([Top EXCEPT !.iNdEx = iNdEx, !.wire = NoTag, !.m = m])

ReadTag ==
    LET tag == ReadVarint(Top.dAtA, Top.iNdEx) IN
    /\ AtLoop /\ Top.iNdEx < Len(Top.dAtA)
    /\ CASE IsErr(tag) -> Fail(tag.err)
         [] ~ IsErr(tag) /\ tag.v % 8 = 4 -> Fail("endGroup")
         [] ~ IsErr(tag) /\ tag.v % 8 # 4
              /\ ToInt(tag.v \div 8, IntBits) <= 0 -> Fail("tag")
         [] OTHER ->
              Resume([Top EXCEPT !.iNdEx = tag.next, !.wire = tag.v,
                                 !.preIndex = Top.iNdEx])

WireType == Top.wire % 8
FieldNum == ToInt(Top.wire \div 8, IntBits)

\* The cases of the switch that the tag selects: one, or none (default).
Cases == IF AtSwitch
         THEN {row \in Range(Message[Top.type].Unmarshal) : row.num = FieldNum}
         ELSE {}

\* A slip: the index stays at the tag (iNdEx += skippy is missing).
SkipFieldStays ==
    LET s == skip(SubSeq(Top.dAtA, Top.preIndex + 1, Len(Top.dAtA))) IN
    /\ AtSwitch /\ Cases = {}
    /\ IF IsErr(s) THEN Fail(s.err) ELSE Advance(Top.preIndex, Top.m)

\* default: back to the tag, and over the whole field.
SkipField ==
    LET s == skip(SubSeq(Top.dAtA, Top.preIndex + 1, Len(Top.dAtA)))
        next == Index(Top.preIndex + s.next)
    IN
    /\ AtSwitch /\ Cases = {}
    /\ CASE IsErr(s) -> Fail(s.err)
         [] ~ IsErr(s) /\ next < 0 -> Fail("length")
         [] ~ IsErr(s) /\ next > Len(Top.dAtA) -> Fail("EOF")
         [] OTHER -> Advance(next, Top.m)

WrongWireType ==
    /\ \E row \in Cases : row.wireType # WireType
    /\ Fail("wireType")

\* The conversion of a varint to the field's type.
Number(row, v) ==
    CASE row.kind = "uint" -> v % Two[row.bits]
      [] row.kind = "int" -> ToInt(v, row.bits)
      [] OTHER -> v # 0

DecodeNumber(row) ==
    LET r == ReadVarint(Top.dAtA, Top.iNdEx) IN
    /\ row.wireType = WireType /\ row.kind \in {"uint", "int", "flag"}
    /\ IF IsErr(r) THEN Fail(r.err)
       ELSE Advance(r.next, [Top.m EXCEPT ![row.field] = Number(row, r.v)])

\* Strings and byte slices replace the field, `append(m.Bitmap[:0], ...)`.
DecodeBytes(row) ==
    LET r == ReadDelimited(Top.dAtA, Top.iNdEx)
        bytes == SubSeq(Top.dAtA, r.v + 1, r.next)
    IN
    /\ row.wireType = WireType /\ row.kind = "raw"
    /\ IF IsErr(r) THEN Fail(r.err)
       ELSE Advance(r.next, [Top.m EXCEPT ![row.field] = bytes])

\* m.Unmarshal(dAtA[iNdEx:postIndex]) for the field of row, on the message m.
\* (The caller's index moves to postIndex when the call returns; nothing reads
\* it before that.)
Call(row, r, m) ==
    /\ frames' = Append([frames EXCEPT ![Len(frames)] =
                            [Top EXCEPT !.iNdEx = r.next, !.wire = NoTag]],
                        Frame(row.type, SubSeq(Top.dAtA, r.v + 1, r.next),
                              m, row))
    /\ UNCHANGED <<input, err, out>>

\* A slip: a pointer that is set already is replaced, not filled.
FilledFresh(row, v) ==
    IF row.kind = "sub" THEN v ELSE Zero(row.type)

\* The message that is filled: the embedded one in place, for a nil pointer or
\* a new element of a repeated field a zero one.
Filled(row, v) ==
    CASE row.kind = "sub" -> v
      [] row.kind = "ptr" /\ v # <<>> -> v[1]
      [] OTHER -> Zero(row.type)

\* The field's value v once m has been filled.
Stored(row, v, m) ==
    CASE row.kind = "sub" -> m
      [] row.kind = "ptr" -> <<m>>
      [] OTHER -> Append(v, m)

EnterMessage(row) ==
    LET r == ReadDelimited(Top.dAtA, Top.iNdEx) IN
    /\ row.wireType = WireType /\ row.kind \in {"sub", "ptr", "rep"}
    /\ IF IsErr(r) THEN Fail(r.err)
       ELSE Call(row, r, Filled(row, Top.m[row.field]))

\* A call ends at the end of its buffer: the embedded message is complete,
\* or the outermost call returns.
ReturnToCaller ==
    LET caller == frames[Len(frames) - 1]
        f == Top.row.field
    IN
    /\ Len(frames) > 1 /\ AtLoop /\ Top.iNdEx >= Len(Top.dAtA)
    /\ frames' = Append(SubSeq(frames, 1, Len(frames) - 2),
                        [caller EXCEPT !.m[f] =
                           Stored(Top.row, caller.m[f], Top.m)])
    /\ UNCHANGED <<input, err, out>>

Return ==
    /\ Len(frames) = 1 /\ AtLoop /\ Top.iNdEx >= Len(Top.dAtA)
    /\ out' = Top.m
    /\ frames' = <<>>
    /\ UNCHANGED <<input, err>>

Returned == frames = <<>> /\ UNCHANGED vars

Next ==
    \/ ReadTag \/ SkipField \/ WrongWireType
    \/ \E row \in Cases : DecodeNumber(row) \/ DecodeBytes(row)
                                            \/ EnterMessage(row)
    \/ ReturnToCaller \/ Return \/ Returned

Spec == Init /\ [][Next]_vars

-----------------------------------------------------------------------------
Ok == frames = <<>> /\ err = ""

\* What reading b's encoding after a's must give: a number, flag or byte
\* string of b that is not zero replaces a's, embedded messages are merged,
\* elements appended.
MergeBy(Inner(_, _, _), type, a, b) ==
    LET Merged(row, x, y) ==
          CASE row.kind = "sub" -> Inner(row.type, x, y)
            [] row.kind = "ptr" /\ x # <<>> /\ y # <<>> ->
                 <<Inner(row.type, x[1], y[1])>>
            [] row.kind = "rep" -> x \o y
            [] OTHER -> IF y = Zero(type)[row.field] THEN x ELSE y
    IN  [f \in Fields(type) |->
           Merged(RowOf(Message[type].Unmarshal, f), a[f], b[f])]

Merge0(type, a, b) == MergeBy(LAMBDA t, x, y : <<>>, type, a, b)
Merge1(type, a, b) == MergeBy(Merge0, type, a, b)
Merge(type, a, b) == MergeBy(Merge1, type, a, b)

\* An input is put together from parts: messages, marshalled, and fields of
\* numbers this version does not know.
Known(m) == [known |-> TRUE, value |-> m]
Unknown(u) == [known |-> FALSE, value |-> u]

Spelled(type, part) ==
    IF part.known THEN Marshal(type, part.value) ELSE part.value

Joined(type, parts) ==
    FlattenSeq([i \in DOMAIN parts |-> Spelled(type, parts[i])])

\* What reading them must give: the merge of the messages.
Result(type, parts) ==
    LET r[n \in 0..Len(parts)] ==
          IF n = 0 THEN Zero(type)
          ELSE IF parts[n].known THEN Merge(type, r[n - 1], parts[n].value)
          ELSE r[n - 1]
    IN  r[Len(parts)]

\* One field of a number that the message does not have.
UnknownField(type, u) ==
    LET tag == ReadVarint(u, 0) IN
    /\ u \in Seq(Byte) /\ u # <<>>
    /\ ~ IsErr(tag) /\ tag.v % 8 # 4
    /\ ToInt(tag.v \div 8, IntBits) > 0
    /\ \A row \in Range(Message[type].Unmarshal) :
         row.num # ToInt(tag.v \div 8, IntBits)
    /\ skip(u) = Got(0, Len(u))

\* Inputs are buffers whose length is an int.  Those of the first three origins
\* hold their parts, a cut one holds the beginning of a message that was such a
\* buffer.
ASSUME InputsAssumption ==
    \A in \in Inputs :
      /\ in.type \in DOMAIN Message
      /\ in.dAtA \in Seq(Byte) /\ Len(in.dAtA) < Two[WordBits - 1]
      /\ in.parts \in Seq(Range(in.parts))
      /\ \A i \in DOMAIN in.parts :
           IF in.parts[i].known THEN IsMessage(in.type, in.parts[i].value)
                                ELSE UnknownField(in.type, in.parts[i].value)
      /\ in.origin \in {"whole", "concatenated", "extended"} =>
           in.dAtA = Joined(in.type, in.parts)
      /\ in.origin \in {"whole", "cut"} =>
           Len(in.parts) = 1 /\ in.parts[1].known
      /\ in.origin = "cut" =>
           LET whole == Joined(in.type, in.parts)
           IN  IsPrefix(in.dAtA, whole) /\ Len(whole) < Two[WordBits - 1]

\* Whatever messages were marshalled one after the other, with fields of
\* numbers this version does not know among them, Unmarshal succeeds and
\* yields their merge (for one message: that message).
DecodesAsMerge ==
    (input.origin \in {"whole", "concatenated", "extended"} /\ frames = <<>>)
        => /\ err = ""
           /\ out = Result(input.type, input.parts)

\* Marshal fills exactly the buffer that Size allocated.
SizeExact ==
    input.origin = "whole" =>
        Size(input.type, input.parts[1].value) = Len(input.dAtA)

\* Of a message cut short Unmarshal accepts only what ends at a field: the
\* fields before the cut are the message's, the one at the cut has lost
\* elements at its end, the ones behind it are zero.
CutKeepsPrefix ==
    (input.origin = "cut" /\ Ok) =>
        LET table == Message[input.type].Marshal
            m == input.parts[1].value
            Same(i) == out[table[i].field] = m[table[i].field]
            None(i) == out[table[i].field] = Zero(input.type)[table[i].field]
            Short(i) == table[i].kind = "rep" /\
                        IsPrefix(out[table[i].field], m[table[i].field])
        IN  \E k \in 1..(Len(table) + 1) :
              /\ \A i \in DOMAIN table : i < k => Same(i)
              /\ \A i \in DOMAIN table : i > k => None(i)
              /\ k \in DOMAIN table => None(k) \/ Short(k)

\* No call reads or slices outside its buffer, whatever the bytes are:
\* indices stay within it in spite of lengths that are negative or wrap, and
\* a callee's buffer ends where its caller goes on.
IndexInBounds ==
    \A i \in DOMAIN frames :
      /\ 0 <= frames[i].iNdEx /\ frames[i].iNdEx <= Len(frames[i].dAtA)
      /\ i > 1 =>
           LET caller == frames[i - 1] IN
           frames[i].dAtA = SubSeq(caller.dAtA,
                                   caller.iNdEx - Len(frames[i].dAtA) + 1,
                                   caller.iNdEx)

\* Every call of Unmarshal returns, with a message or an error: no step goes
\* back, so the bytes left to read and the calls left to return (a callee's
\* bytes are no longer its caller's) run out after a bounded number of steps.
BytesLeft == Total([i \in DOMAIN frames |->
                      Len(frames[i].dAtA) - frames[i].iNdEx])
WorkLeft == 2 * BytesLeft + Len(frames)
AlwaysProgresses == [][WorkLeft' < WorkLeft]_vars
=============================================================================
