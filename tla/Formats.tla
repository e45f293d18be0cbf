------------------------------- MODULE Formats -------------------------------
(***************************************************************************)
(* What the codec, the header map and the buffer promise, as predicates    *)
(* over any input.                                                         *)
(***************************************************************************)
EXTENDS HeaderMaps

VARIABLE sample     \* an input of each of them

Inputs ==
    [data : Seq(Byte), map : Seq(Pair), key : Seq(Byte), value : Seq(Byte), start : Nat,
     size : Nat, limits : [pairs : Nat \cup {NoLimit}, bytes : Nat \cup {NoLimit}]]

\* Strict decoding of codec/pairs.rs: bytes that decode to a map with pairs are
\* its one encoding, so nothing is skipped or guessed; limits only ever refuse;
\* and the pairs that decode are never more than were reserved for them.
StrictDecode(data, limits) ==
    LET any == DecodePairs(data, Unlimited)
        within == DecodePairs(data, limits)
        count == WordOf(data, 0)
    IN  /\ any.error = NoError =>
              IF any.value = <<>> THEN Range(data) \subseteq {Terminator}
              ELSE /\ EncodePairs(any.value) = Decoded(data)
                   /\ count = ReserveFor(count, Len(data), WordBytes + 2 * WordBytes * count)
        /\ within = any \/ within.error \in {"ByteLimit", "PairLimit"}
        /\ within.error = NoError =>
              ~Exceeds(Len(data), limits.bytes) /\ ~Exceeds(Len(within.value), limits.pairs)

\* A map that fits in the counts of a word comes back from its encoding, whose
\* size is the one proxy_get_header_map_size told the guest.
RoundTrip(map) ==
    LET encoded == EncodePairs(map) IN
    IF Measurable(map) /\ Len(map) <= WordMax
    THEN /\ encoded.error = NoError
         /\ Len(encoded.value) = EncodedSizeOf(map)
         /\ DecodePairs(encoded.value, Unlimited) = Decoded(map)
    ELSE encoded.error \in EncodeError

\* A path comes back from its bytes unless its last segment is empty, and one
\* separator at its end says nothing.
PathRoundTrip(segments) ==
    /\ segments # <<>> /\ Last(segments) # <<>>
    /\ \A i \in DOMAIN segments : Terminator \notin Range(segments[i])
    =>
        /\ DecodePath(EncodePath(segments)) = segments
        /\ DecodePath(Append(EncodePath(segments), Terminator)) = segments

\* The pairs of a map that have another key, in order.
Others(map, key) ==
    FoldLeft(LAMBDA others, pair : IF pair[1] = key THEN others ELSE Append(others, pair),
             <<>>, map)

\* Every edit of a header map changes the values of its key alone, keeps the
\* order of the others, and set leaves exactly one value where the first was.
MapEdits(map, key, value) ==
    LET before(m) == IF WithKey(m, key) = {} THEN Others(m, key)
                     ELSE SubSeq(m, 1, Min(WithKey(m, key)) - 1)
    IN  /\ \A m \in {Set(map, key, value), Delete(map, key), Add(map, key, value)} :
              Others(m, key) = Others(map, key)
        /\ GetAll(Set(map, key, value), key) = <<value>>
        /\ before(Set(map, key, value)) = before(map)
        /\ GetAll(Delete(map, key), key) = <<>>
        /\ GetAll(Add(map, key, value), key) = Append(GetAll(map, key), value)
        /\ Get(map, key) = IF GetAll(map, key) = <<>> THEN Absent
                           ELSE GetAll(map, key)[1]
        /\ GetJoined(map, key, <<>>) # Absent <=> Get(map, key) # Absent

\* The four operations of Buffer::replace: prepend, append, inject, replace.
BufferEdits(buffer, start, size, value) ==
    LET result == Replace(buffer, start, size, value)
        len == Len(buffer)
    IN  /\ start = 0 /\ size = 0 => result = value \o buffer
        /\ start >= len => result = buffer \o value
        /\ start < len /\ start + size <= len =>
              /\ IsPrefix(SubSeq(buffer, 1, start), result)
              /\ IsSuffix(SubSeq(buffer, start + size + 1, len), result)
              /\ Len(result) = len - size + Len(value)
        /\ CopyRange(Replace(buffer, start, 0, value), Least(start, len), Len(value)) = value
        /\ CopyRange(buffer, 0, len + size) = buffer

-----------------------------------------------------------------------------
\* The decoder is strict and the encoder is its inverse (codec/pairs.rs,
\* codec/path.rs), whatever the bytes, the limits and the pairs are.
CodecStrict ==
    /\ StrictDecode(sample.data, sample.limits)
    /\ RoundTrip(sample.map)
    /\ PathRoundTrip([i \in DOMAIN sample.map |-> sample.map[i][1]])

\* The edits of a header map and of a buffer do what their traits say
\* (header_map.rs, buffer.rs), duplicates, empty keys and ranges past the end
\* included.
EditsAreExact ==
    /\ MapEdits(sample.map, sample.key, sample.value)
    /\ BufferEdits(sample.data, sample.start, sample.size, sample.value)
=============================================================================
