------------------------------ MODULE MCCodec ------------------------------
(***************************************************************************)
(* Codec for TLC: every message type, with sample values at the edges of   *)
(* the varint encoding, and the buffers they are read from.                *)
(***************************************************************************)
EXTENDS Codec

Types == DOMAIN Message

\* Every field set, none of them to the same value.
RECURSIVE Full(_)
Full(type) ==
    LET FullField(row) ==
          CASE row.kind \in {"uint", "int"} -> row.num
            [] row.kind = "flag" -> TRUE
            [] row.kind = "raw" -> <<row.num, 200>>
            [] row.kind = "sub" -> Full(row.type)
            [] row.kind = "ptr" -> <<Full(row.type)>>
            [] OTHER -> <<Full(row.type), Zero(row.type), Full(row.type)>>
        FullOf(table) ==
          [f \in {row.field : row \in Range(table)} |->
             FullField(RowOf(table, f))]
    IN  FullOf(Message[type].Unmarshal)

\* Values at the boundaries: of a varint byte, of the type, of a length.
Samples(row) ==
    CASE row.kind = "uint" -> {1, 127, 128, Two[row.bits] - 1}
      [] row.kind = "int" ->
           {128, -1, Two[row.bits - 1] - 1, -Two[row.bits - 1]}
      [] row.kind = "flag" -> {TRUE}
      [] row.kind = "raw" -> {<<0>>, [i \in 1..128 |-> i]}
      [] row.kind = "sub" -> {Full(row.type)}
      [] row.kind = "ptr" -> {<<Zero(row.type)>>, <<Full(row.type)>>}
      [] OTHER -> {<<Zero(row.type)>>, <<Full(row.type), Zero(row.type)>>}

\* One field set.
Single(type) ==
    UNION {{[Zero(type) EXCEPT ![row.field] = v] : v \in Samples(row)} :
             row \in Range(Message[type].Unmarshal)}

\* Fields of number 15, which no message has: one of each wire type that can
\* be skipped.
Unknowns == {<<120, 128, 1>>, <<121, 1, 2, 3, 4, 5, 6, 7, 8>>, <<122, 2, 8, 8>>,
             <<123, 120, 1, 123, 124, 124>>, <<125, 1, 2, 3, 4>>}

Input(type, origin, parts, dAtA) ==
    [type |-> type, origin |-> origin, parts |-> parts, dAtA |-> dAtA]

Join(type, origin, parts) == Input(type, origin, parts, Joined(type, parts))

\* What is marshalled from `full`, with every field set, and from `singles`.
Whole(t, full, singles) ==
    {Join(t, "whole", <<Known(m)>>) : m \in {Zero(t), full} \cup singles}

Concatenated(t, full, singles) ==
    {Join(t, "concatenated", <<Known(a), Known(b)>>) :
       a \in {full} \cup singles, b \in {full} \cup singles}

Extended(t, full, singles) ==
    {Join(t, "extended", <<Known(m), Unknown(u), Known(full)>> \o w) :
       m \in singles, u \in Unknowns, w \in {<<>>, <<Unknown(<<120, 1>>)>>}}

Cut(t, full) ==
    {Input(t, "cut", <<Known(full)>>, s) : s \in Prefixes(Marshal(t, full))}

Encoded(t, full, singles) ==
    Whole(t, full, singles) \cup Concatenated(t, full, singles)
      \cup Extended(t, full, singles) \cup Cut(t, full)

\* Any bytes: tags of known and unknown fields, of every wire type, and
\* lengths that are too long, negative (128 128 1) or wrap (255 255 0).
Alphabet == {0, 1, 8, 10, 18, 123, 124, 128, 255}
ArbitraryLen == 4

Arbitrary == {Input(t, "arbitrary", <<>>, s) :
                t \in {"RollkitMigration", "Sequencer", "AttestationBitmap"},
                s \in UNION {[1..n -> Alphabet] : n \in 1..ArbitraryLen}}

MCInputs == Arbitrary \cup UNION {Encoded(t, Full(t), Single(t)) : t \in Types}
=============================================================================
