------------------------------ MODULE HeaderMaps ------------------------------
(***************************************************************************)
(* The header map and the buffer that the crate ships (header_map.rs,      *)
(* buffer.rs): a sequence of pairs <<key, value>> and a sequence of bytes. *)
(***************************************************************************)
EXTENDS Codec

CONSTANT Absent     \* Option::None

Pair == Seq(Byte) \X Seq(Byte)

ASSUME AbsentAssumption == Absent \notin Nat \cup Seq(Byte) \cup Seq(Pair)

WithKey(map, key) == {i \in DOMAIN map : map[i][1] = key}

\* VecHeaderMap::get: the first value.
Get(map, key) ==
    IF WithKey(map, key) = {} THEN Absent ELSE map[Min(WithKey(map, key))][2]

\* HeaderMapExt::get_all and get_joined.
GetAll(map, key) ==
    FoldLeft(LAMBDA values, pair : IF pair[1] = key THEN Append(values, pair[2]) ELSE values,
             <<>>, map)
GetJoined(map, key, separator) ==
    LET values == GetAll(map, key) IN
    IF values = <<>> THEN Absent
    ELSE FlattenSeq([i \in DOMAIN values |->
             IF i = 1 THEN values[i] ELSE separator \o values[i]])

Add(map, key, value) == Append(map, <<key, value>>)
\* VecHeaderMap::remove, as its retain visits the pairs.
Delete(map, key) ==
    FoldLeft(LAMBDA kept, pair : IF pair[1] # key THEN Append(kept, pair) ELSE kept, <<>>, map)

\* Mutant: a set that leaves the other values of the key.
SetFirstOnly(map, key, value) ==
    IF WithKey(map, key) = {} THEN Add(map, key, value)
    ELSE [map EXCEPT ![Min(WithKey(map, key))] = <<key, value>>]

\* VecHeaderMap::set, as its retain_mut visits the pairs.
Set(map, key, value) ==
    LET visit(kept, pair) ==
            IF pair[1] # key THEN [kept EXCEPT !.pairs = Append(@, pair)]
            ELSE IF kept.one THEN kept
            ELSE [pairs |-> Append(kept.pairs, <<key, value>>), one |-> TRUE]
        kept == FoldLeft(visit, [pairs |-> <<>>, one |-> FALSE], map)
    IN  IF kept.one THEN kept.pairs ELSE Add(kept.pairs, key, value)

ReplacePairs(map, pairs) == pairs

\* encoded_size_of and encode_map.
EncodedSizeOf(map) == TotalSize(map)
EncodeMap(map) == EncodeVisited(map, map)

(***************************************************************************)
(* Buffers                                                                 *)
(***************************************************************************)
Least(a, b) == IF a < b THEN a ELSE b

\* clamp_range: the half-open range that `start' and `size' select.
ClampRange(len, start, size) ==
    LET from == Least(start, len)
    IN  [start |-> from, end |-> Least(from + size, len)]

CopyRange(buffer, start, size) ==
    LET range == ClampRange(Len(buffer), start, size)
    IN  SubSeq(buffer, range.start + 1, range.end)

\* Vec::splice over the clamped range.
Replace(buffer, start, size, value) ==
    LET range == ClampRange(Len(buffer), start, size)
    IN  SubSeq(buffer, 1, range.start) \o value
            \o SubSeq(buffer, range.end + 1, Len(buffer))
=============================================================================
