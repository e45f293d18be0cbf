----------------------------- MODULE MCHostCalls -----------------------------
(***************************************************************************)
(* Host calls for TLC, and samples of the formats they use: a behaviour     *)
(* makes calls, or draws one sample after another of one format.            *)
(***************************************************************************)
EXTENDS Wasi, Formats, TableTests

VARIABLE part

mcVars == <<vars, part, sample>>

T == INSTANCE Types

\* The names of the model are variants of the ABI's enumerations.
ASSUME TypesAssumption ==
    /\ Failing \subseteq DOMAIN T!Status
    /\ WasiFailing \subseteq DOMAIN T!WasiErrno
    /\ MapType \subseteq DOMAIN T!MapType
    /\ BufferType \subseteq DOMAIN T!BufferType
    /\ Configuration.level \in {T!LogLevel[l] : l \in DOMAIN T!LogLevel}

-----------------------------------------------------------------------------
\* The memory: single bytes, an encoded map <<1>> -> <<2>> at 6, an iovec table
\* of two entries at 16.
MemoryBytes ==
    <<0, 1, 2, 3, 0, 5,   1, 0, 1, 0, 1, 0, 1, 0, 2, 0,   1, 0, 3, 0, 2, 0, 2, 0>>
MCFirstMemory == [a \in 0 .. Len(MemoryBytes) - 1 |-> MemoryBytes[a + 1]]

At(ptr, len) == [ptr |-> ptr, len |-> len]
Outside == At(23, 2)        \* past the end of the memory
TooFar == At(35, 1)         \* past the end of a word

MCSpansOf(name) ==
    CASE name \in {"key", "value"} -> {At(1, 1), At(1, 0), Outside}
      [] name = "path" -> {At(1, 1), At(3, 2), At(5, 1), At(2, 1), At(1, 3), TooFar}
      [] name = "pairs" -> {At(6, 10), At(6, 9), At(1, 0), Outside}
      [] name = "headers" -> {At(6, 10), At(4, 1)}
      [] name = "trailers" -> {At(1, 0), At(6, 9)}
      [] name = "random" -> {At(1, 2), At(1, 3), Outside, TooFar}
      [] name = "message" -> {At(0, 2), At(0, 4), Outside}
      [] name \in {"body", "arguments"} -> {At(2, 2), TooFar}
      [] OTHER -> {At(1, 1), Outside}
MCPtrsOf(name) ==
    CASE name \in {"data", "level", "call"} -> {0, 16, 23}
      [] name = "size" -> {0, 17, 18}
      [] name = "iovs" -> {16, 17, 22}
      [] name = "count" -> {0, 1, 2, 3, 20}
      [] name = "buffer" -> {6, 21, 33}
      [] name = "time" -> {16, 21}
      [] OTHER -> {20, 35}

\* A map of one pair, and one whose encoding no i32 can measure.
Pair1 == <<<<1>>, <<2>>>>
MCHeld == [map : {<<Pair1>>, <<Pair1, Pair1>>}, buffer : {<<2, 3>>}]
MCValues == {<<>>, <<4, 5>>}
MCPayloads ==
    [map |-> <<<<<<1>>, <<5>>>>>>, trailers |-> <<>>, bytes |-> <<3>>, code |-> 7]
MCConfiguration ==
    [vm |-> <<4>>, plugin |-> <<4, 5>>, vm_id |-> <<2>>, name |-> <<4>>, root_id |-> <<>>,
     names |-> [vm_id |-> <<5>>, name |-> <<3>>, root_id |-> <<1>>],
     level |-> 2, time |-> [Realtime |-> 7, Monotonic |-> 8],
     environment |-> <<<<1>>, <<2, 3>>>>, newline |-> 3]
MCPairLimits == [pairs |-> 1, bytes |-> 12]
MCRequired == {<<1>>}

\* No callback, a refused root, an accepted one with and without a stream, and
\* each delivery.
Place(context, callback, stream, delivery) ==
    [context |-> context, plugin |-> context # "None", callback |-> callback,
     stream |-> stream, delivery |-> delivery]
MCPlaces ==
    {Place("None", FALSE, FALSE, NoPayload), Place("Refused", TRUE, TRUE, NoPayload),
     Place("Accepted", FALSE, FALSE, NoPayload), Place("Accepted", TRUE, TRUE, NoPayload)}
        \cup {Place("Accepted", TRUE, FALSE, kind) : kind \in PayloadKind}

\* What an allocator calls: reads that allocate again, writes, a callout, a log.
MCNested ==
    {"proxy_get_header_map_value", "proxy_add_header_map_value", "proxy_http_call",
     "fd_write"}

-----------------------------------------------------------------------------
NoSample ==
    [data |-> <<>>, map |-> <<>>, limits |-> Unlimited, key |-> <<>>, value |-> <<>>,
     start |-> 0, size |-> 0]

Strings(n) == UNION {[1 .. k -> {0, 1}] : k \in 0 .. n}
Maps(n, strings) == UNION {[1 .. k -> strings \X strings] : k \in 0 .. n}

\* Bytes that fall short of a map, hold one or two, or go on after it.
DataSamples == {[NoSample EXCEPT !.data = d, !.limits = l] :
                   d \in Strings(14), l \in {[pairs |-> 1, bytes |-> 13]}}
\* Maps with as many pairs and as long a key as a word can say, and one more.
MapSamples ==
    {[NoSample EXCEPT !.map = m] :
        m \in Maps(2, Strings(2)) \cup Maps(4, {<<>>, <<0>>})
                  \cup {<<<<[i \in 1 .. n |-> 1], <<>>>>>> : n \in {WordMax, WordMax + 1}}
                  \cup {[i \in 1 .. n |-> <<<<>>, <<>>>>] : n \in {WordMax, WordMax + 1}}}
EditSamples ==
    {[NoSample EXCEPT !.map = m, !.key = k, !.value = v] :
        m \in Maps(3, Strings(1)), k \in Strings(1), v \in Strings(1)}
BufferSamples ==
    {[NoSample EXCEPT !.data = d, !.value = v, !.start = s, !.size = n] :
        d \in Strings(3), v \in Strings(2), s \in 0 .. 4, n \in 0 .. 4}

SamplesOf(p) ==
    CASE p = "data" -> DataSamples [] p = "map" -> MapSamples
      [] p = "edit" -> EditSamples [] p = "buffer" -> BufferSamples

ASSUME SamplesAssumption ==
    \A p \in {"data", "map", "edit", "buffer"} : SamplesOf(p) \subseteq Inputs

Draw == sample = NoSample /\ sample' \in SamplesOf(part) /\ UNCHANGED <<vars, part>>
PutBack == sample # NoSample /\ sample' = NoSample /\ UNCHANGED <<vars, part>>

MCInit ==
    /\ part \in {"calls", "data", "map", "edit", "buffer"}
    /\ Init /\ (part # "calls" => here = Place("None", FALSE, FALSE, NoPayload))
    /\ sample = NoSample
MCNext ==
    \/ part = "calls" /\ CallsNext /\ UNCHANGED <<part, sample>>
    \/ part # "calls" /\ (Draw \/ PutBack)
MCSpec == MCInit /\ [][MCNext]_mcVars

=============================================================================
