-------------------------------- MODULE Codec --------------------------------
(***************************************************************************)
(* The serialization of maps and of property paths (codec/pairs.rs,        *)
(* codec/path.rs).  A result is a record: `error' is NoError when `value'  *)
(* is what the function returns.  An error is its variant; the index and   *)
(* the numbers it reports are left out.  usize is never reached, so the    *)
(* saturating and checked additions on it are plain ones.                  *)
(***************************************************************************)
EXTENDS GuestMemory, SequencesExt

NoLimit == -1
Terminator == 0

DecodeError ==
    {"TruncatedCount", "TruncatedLengths", "TruncatedKey", "TruncatedValue",
     "MissingTerminator", "TrailingBytes", "PairLimit", "ByteLimit"}
EncodeError == {"TooLong", "TooManyPairs", "Changed"}
NoError == "NoError"

Decoded(value) == [error |-> NoError, value |-> value]
Failed(error) == [error |-> error, value |-> <<>>]

(***************************************************************************)
(* Sizes                                                                   *)
(***************************************************************************)
PairEncodedSize(pair) == 2 * WordBytes + Len(pair[1]) + 1 + Len(pair[2]) + 1

TotalSize(pairs) ==
    IF pairs = <<>> THEN 0
    ELSE FoldLeft(LAMBDA sum, pair : sum + PairEncodedSize(pair), WordBytes, pairs)

(***************************************************************************)
(* Encoding.  The source is walked twice, and a map that computes its      *)
(* pairs may yield others on its second walk.                              *)
(***************************************************************************)
\* length_of and the loop of measure.
Measurable(pairs) ==
    \A i \in DOMAIN pairs : Len(pairs[i][1]) <= WordMax /\ Len(pairs[i][2]) <= WordMax

LengthTable(pairs) ==
    FlattenSeq([i \in DOMAIN pairs |->
        LittleEndian(Len(pairs[i][1]), WordBytes)
            \o LittleEndian(Len(pairs[i][2]), WordBytes)])

\* The second walk writes at most `count' pairs.
DataSection(pairs, count) ==
    FlattenSeq([i \in 1 .. IF Len(pairs) < count THEN Len(pairs) ELSE count |->
        Append(pairs[i][1], Terminator) \o Append(pairs[i][2], Terminator)])

EncodeVisited(first, second) ==
    IF ~Measurable(first) THEN Failed("TooLong")
    ELSE IF first = <<>> THEN Decoded(<<>>)
    ELSE IF Len(first) > WordMax THEN Failed("TooManyPairs")
    ELSE    LET out == LittleEndian(Len(first), WordBytes) \o LengthTable(first)
                           \o DataSection(second, Len(first))
            IN  IF Len(out) = TotalSize(first) THEN Decoded(out)
                ELSE Failed("Changed")

EncodePairs(pairs) == EncodeVisited(pairs, pairs)

(***************************************************************************)
(* Decoding                                                                *)
(***************************************************************************)
Cursor(pos) == [pos |-> pos, value |-> <<>>, error |-> NoError]

\* Cursor::take, which moves `pos' past the terminator of one field.
Take(data, cursor, len, truncated) ==
    LET end == cursor.pos + len IN
    IF cursor.error # NoError THEN cursor
    ELSE IF end >= Len(data) THEN [cursor EXCEPT !.error = truncated]
    ELSE IF data[end + 1] # Terminator THEN [cursor EXCEPT !.error = "MissingTerminator"]
    ELSE    [cursor EXCEPT !.pos = end + 1,
                           !.value = Append(@, SubSeq(data, cursor.pos + 1, end))]

\* The loop over the length table: the keys and values in turn.
TakeAll(data, count, table_end) ==
    LET length(i) == WordOf(data, i * WordBytes)
        take[i \in 0 .. 2 * count] ==
            IF i = 0 THEN Cursor(table_end)
            ELSE Take(data, take[i - 1], length(i),
                      IF i % 2 = 1 THEN "TruncatedKey" ELSE "TruncatedValue")
    IN  take[2 * count]

\* Mutant: bytes after the last pair are skipped.
FinishAnywhere(data, cursor) ==
    IF cursor.error # NoError THEN Failed(cursor.error)
    ELSE Decoded([i \in 1 .. Len(cursor.value) \div 2 |->
             <<cursor.value[2 * i - 1], cursor.value[2 * i]>>])

\* Cursor::finish.
Finish(data, cursor) ==
    IF cursor.error = NoError /\ cursor.pos # Len(data) THEN Failed("TrailingBytes")
    ELSE FinishAnywhere(data, cursor)

Exceeds(number, limit) == limit # NoLimit /\ number > limit

DecodePairs(data, limits) ==
    IF Exceeds(Len(data), limits.bytes) THEN Failed("ByteLimit")
    ELSE IF data \in {<<>>, <<Terminator>>} THEN Decoded(<<>>)
    ELSE IF Len(data) < WordBytes THEN Failed("TruncatedCount")
    ELSE
    LET count == WordOf(data, 0)
        table_end == WordBytes + count * 2 * WordBytes
    IN  IF Exceeds(count, limits.pairs) THEN Failed("PairLimit")
        ELSE IF table_end > Len(data) THEN Failed("TruncatedLengths")
        ELSE Finish(data, TakeAll(data, count, table_end))

Unlimited == [pairs |-> NoLimit, bytes |-> NoLimit]

\* What a decode reserves before it reads a field.
ReserveFor(count, data_len, table_end) ==
    LET room == (data_len - table_end) \div 2
    IN  IF count < room THEN count ELSE room

(***************************************************************************)
(* Property paths                                                          *)
(***************************************************************************)
\* slice::split: a separator begins another part.
Split(data, separator) ==
    LET visit(parts, byte) ==
            IF byte = separator THEN Append(parts, <<>>)
            ELSE [parts EXCEPT ![Len(parts)] = Append(@, byte)]
    IN  FoldLeft(visit, <<<<>>>>, data)

\* One separator at the end is dropped before the split.
DecodePath(data) ==
    LET trimmed == IF data # <<>> /\ Last(data) = Terminator THEN Front(data) ELSE data
    IN  IF trimmed = <<>> THEN <<>> ELSE Split(trimmed, Terminator)

EncodePath(segments) ==
    FlattenSeq([i \in DOMAIN segments |->
        IF i = 1 THEN segments[i] ELSE <<Terminator>> \o segments[i]])
=============================================================================
