------------------------------ MODULE HostTests ------------------------------
(***************************************************************************)
(* The unit tests of the host functions, run on the operators that model   *)
(* them: the tests of host_functions and of wasi.rs.  A test is a conjunct, *)
(* after its name.                                                         *)
(* Bytes are digits of base 16, u32 has two of them, a letter is a digit,  *)
(* and limits, pages and repetitions are scaled to that width.             *)
(*                                                                         *)
(* Not here: the tests of the identity of a context, a callout or a guest, *)
(* of numbers that are passed on (timeouts, status codes), of WASI clocks  *)
(* and randomness, and of callouts that are already open: the first two    *)
(* are not modelled, the last are in Guest.                                *)
(***************************************************************************)
EXTENDS Integers, Sequences, FiniteSets

CONSTANT Absent

\* A guest of a test, and the operators as they are for it.
NoArguments(name) == {}
H(g) == INSTANCE Wasi WITH
    Base <- 16, WordBytes <- 2, Absent <- Absent,
    memory <- g.memory, held <- g.held, here <- g.here,
    Payloads <- g.payloads, Configuration <- g.configuration, Values <- g.values,
    PairLimits <- g.limits, MaxLogBytes <- g.log,
    MaxNameBytes <- 6, MaxIovecs <- 3, MaxRandomBytes <- 4,
    RequiredHeaders <- {<<1>>, <<2>>, <<3>>},
    SpansOf <- NoArguments, PtrsOf <- NoArguments, Numbers <- {}, Allocations <- {},
    FirstMemory <- g.memory, MaxMemory <- 240, MaxCalls <- 1, MaxDepth <- 1,
    NestedFunctions <- {}, Places <- {}, Held <- {}, MaxOpened <- 1,
    MaxMapPairs <- 8, MaxBuffer <- 16,
    calls <- <<>>, last <- Absent, told <- Absent, opened <- 0, logged <- Absent,
    asked <- Absent, made <- 0, poisoned <- FALSE

-----------------------------------------------------------------------------
(***************************************************************************)
(* Guests                                                                  *)
(***************************************************************************)
Digits(from, count) == [i \in 1 .. count |-> (from + i - 1) % 16]
NoPairs == <<>>

\* A zero memory whose return slots are seeded.
FirstSlot == 200
Seed == 7 * 16 + 7
Zeroed == [a \in 0 .. 239 |-> IF a < FirstSlot THEN 0 ELSE 7]

\* An effective context, a stream state, no plugin and no delivery.
Hosted ==
    [memory |-> Zeroed, held |-> [map |-> NoPairs, buffer |-> <<>>],
     here |-> [context |-> "Accepted", plugin |-> FALSE, callback |-> TRUE, stream |-> TRUE,
               delivery |-> "NoPayload"],
     payloads |-> [map |-> NoPairs, trailers |-> NoPairs, bytes |-> <<>>, code |-> 0],
     configuration |->
        [vm |-> Digits(1, 4), plugin |-> Digits(2, 5), vm_id |-> Digits(3, 2),
         name |-> Digits(4, 2), root_id |-> Digits(5, 3),
         names |-> [vm_id |-> <<5>>, name |-> <<6>>, root_id |-> <<7>>],
         level |-> 2, time |-> [Realtime |-> 4660, Monotonic |-> 42],
         environment |-> <<>>, newline |-> 15],
     values |-> {Digits(8, 4)}, limits |-> [pairs |-> 4, bytes |-> -1], log |-> -1]
Unhosted == [Hosted EXCEPT !.here.stream = FALSE]
Bare == [Unhosted EXCEPT !.here.context = "None"]
RefusedRoot(g) == [g EXCEPT !.here.context = "Refused"]
WithPlugin(g) == [g EXCEPT !.here.plugin = TRUE]
WithBody(bytes) == [Hosted EXCEPT !.held.buffer = bytes]
WithMap(map) == [Hosted EXCEPT !.held.map = map]
Delivering(kind, map, bytes) ==
    [Hosted EXCEPT !.here.delivery = kind,
                   !.payloads = [map |-> map, trailers |-> map, bytes |-> bytes, code |-> 14]]

(***************************************************************************)
(* Calls: the guest it runs in, its function and its arguments, whose      *)
(* bytes are given by name.                                                *)
(***************************************************************************)
At(ptr, len) == [ptr |-> ptr, len |-> len]
PlaceOf ==
    [key |-> 4, value |-> 10, path |-> 20, name |-> 4, arguments |-> 10, details |-> 4,
     upstream |-> 4, body |-> 10, message |-> 20, service |-> 28, method |-> 32,
     pairs |-> 40, headers |-> 40, trailers |-> 90]
Slots ==
    [data |-> FirstSlot, size |-> 204, unused |-> 208, call |-> 212, code |-> 216,
     level |-> 220, time |-> 224]
Heap == 140
PastEnd == 239

Placed(m, given) ==
    [a \in DOMAIN m |->
        LET here == {n \in DOMAIN given : a \in PlaceOf[n] .. PlaceOf[n] + Len(given[n]) - 1}
        IN  IF here = {} THEN m[a]
            ELSE LET n == CHOOSE n \in here : TRUE IN given[n][a - PlaceOf[n] + 1]]

Asking(g, f, id, given) ==
    [g |-> [g EXCEPT !.memory = Placed(@, given)], f |-> f,
     a |-> [id |-> id, start |-> 0, size |-> 0, ptrs |-> Slots,
            spans |-> [n \in DOMAIN given |-> At(PlaceOf[n], Len(given[n]))]]]

Results(c) == H(c.g)!Outcomes(c.f, c.a)
Successes(c) == {o \in Results(c) : o.status = "Ok"}
Success(c) == CHOOSE o \in Successes(c) : TRUE

\* The memory after an outcome, with an allocator that answers Heap.
MemoryAfter(c, o) ==
    LET frame == H(c.g)!Frame(c.f, c.a, o)
        address == IF H(c.g)!NeedsAllocation(frame) THEN Heap ELSE 0
    IN  H(c.g)!WriteAll(c.g.memory,
            IF o.value = Absent THEN o.writes ELSE H(c.g)!ReturnWrites(frame, address))
WordAfter(c, o, slot) == H(c.g)!ReadWord(MemoryAfter(c, o), Slots[slot])

\* Nobody is asked, and the guest gets this status alone.
Refused(c, status) == Results(c) = {H(c.g)!Fails(status)}
\* The embedder is asked and may answer with this status.
Passes(c, status) == H(c.g)!Asks(H(c.g)!Fails(status)) \in Results(c)
Unasked(c) == \A o \in Results(c) : ~o.ask
Succeeds(c) == Cardinality(Successes(c)) = 1

\* The guest gets the value; an empty one is two zeros and no allocation.
Receives(c, value) ==
    LET address == IF value = <<>> THEN 0 ELSE Heap IN
    /\ Succeeds(c)
    /\ WordAfter(c, Success(c), "data") = address
    /\ WordAfter(c, Success(c), "size") = Len(value)
    /\ H(c.g)!Read(MemoryAfter(c, Success(c)), At(address, Len(value))) = value
Writes(c, slot, word) == Succeeds(c) /\ WordAfter(c, Success(c), slot) = word

\* What the embedder holds, or is told, after the call.
Leaves(c, map) == Succeeds(c) /\ Success(c).held.map = map
LeavesBuffer(c, bytes) == Succeeds(c) /\ Success(c).held.buffer = bytes
Tells(c, bytes, maps) == Succeeds(c) /\ Success(c).told = H(c.g)!Request(c.f, bytes, maps)

\* Every range and every return pointer is checked before anyone is asked.
PointersChecked(c) ==
    /\ \A n \in H(c.g)!SpanNames(c.f) :
          Refused([c EXCEPT !.a.spans[n] = At(PastEnd, 4)], "InvalidMemoryAccess")
    /\ \A n \in H(c.g)!PtrNames(c.f) :
          Refused([c EXCEPT !.a.ptrs[n] = PastEnd], "InvalidMemoryAccess")

-----------------------------------------------------------------------------
(***************************************************************************)
(* host_functions/buffer.rs                                                *)
(***************************************************************************)
Body == "HttpRequestBody"
GetBuffer(g, buffer_type, start, size) ==
    [Asking(g, "proxy_get_buffer_bytes", buffer_type, NoPairs) EXCEPT
        !.a.start = start, !.a.size = size]
SetBuffer(g, buffer_type, start, size, bytes) ==
    [Asking(g, "proxy_set_buffer_bytes", buffer_type, [value |-> bytes]) EXCEPT
        !.a.start = start, !.a.size = size]
BufferStatus(g, buffer_type) == Asking(g, "proxy_get_buffer_status", buffer_type, NoPairs)
StatusIs(c, length) == Writes(c, "size", length) /\ Writes(c, "unused", 0)

Ten == Digits(0, 10)
Four == Digits(11, 4)
New == <<1, 2>>
Largest == 255
LargestSigned == 127

GetBufferTests ==
    \* the_largest_max_size_returns_the_whole_buffer
    /\ Receives(GetBuffer(WithBody(Ten), Body, 0, Largest), Ten)
    \* a_range_past_the_end_is_cut_at_the_end
    /\ Receives(GetBuffer(WithBody(Ten), Body, 7, 100), <<7, 8, 9>>)
    \* an_empty_buffer_is_returned_without_an_allocation
    /\ Receives(GetBuffer(WithBody(<<>>), Body, 0, Largest), <<>>)
    \* a_start_at_the_end_is_an_empty_answer
    /\ Receives(GetBuffer(WithBody(Ten), Body, 10, 4), <<>>)
    \* a_start_past_the_end_and_an_unknown_buffer_are_bad_arguments
    /\ Successes(GetBuffer(WithBody(Ten), Body, 11, 1)) = {}
    /\ Passes(GetBuffer(WithBody(Ten), Body, 11, 1), "BadArgument")
    /\ Refused(GetBuffer(WithBody(Ten), "Unknown", 0, 1), "BadArgument")
    \* the_status_a_stream_returns_passes_through
    /\ H(Hosted)!FromEmbedder("BadArgument").status = "BadArgument"
    \* a_buffer_the_crate_cannot_reach_is_not_found
    /\ Passes(GetBuffer(Hosted, Body, 0, 1), "NotFound")
    /\ Refused(GetBuffer(Unhosted, Body, 0, 1), "NotFound")

VmBuffer == "VmConfiguration"
PluginBuffer == "PluginConfiguration"
ConfigurationTests ==
    LET g == WithPlugin(Hosted)
        settings == Hosted.configuration
    IN
    \* the_vm_configuration_is_served_without_a_stream_and_without_a_context
    /\ Receives(GetBuffer(Bare, VmBuffer, 0, Largest), settings.vm)
    \* the_plugin_configuration_is_served_through_the_root_of_the_effective_context
    /\ Receives(GetBuffer(g, PluginBuffer, 0, Largest), settings.plugin)
    \* the_plugin_configuration_of_a_refused_root_is_not_found
    /\ Refused(GetBuffer(RefusedRoot(g), PluginBuffer, 0, Largest), "NotFound")
    \* a_root_with_no_plugin_has_no_plugin_configuration
    /\ Refused(GetBuffer(Unhosted, PluginBuffer, 0, Largest), "NotFound")
    \* the_plugin_configuration_without_an_effective_context_is_not_found
    /\ Refused(GetBuffer(Bare, PluginBuffer, 0, Largest), "NotFound")
    \* the_status_of_the_plugin_configuration_is_its_length
    /\ StatusIs(BufferStatus(g, PluginBuffer), Len(settings.plugin))

SetBufferTests ==
    LET g == WithBody(Four) IN
    \* a_start_and_a_size_of_zero_prepend
    /\ LeavesBuffer(SetBuffer(g, Body, 0, 0, New), New \o Four)
    \* the_largest_start_appends
    /\ LeavesBuffer(SetBuffer(g, Body, Largest, 0, New), Four \o New)
    \* a_size_of_zero_inside_the_buffer_injects
    /\ LeavesBuffer(SetBuffer(g, Body, 2, 0, New), <<11, 12>> \o New \o <<13, 14>>)
    \* a_range_inside_the_buffer_is_replaced
    /\ LeavesBuffer(SetBuffer(g, Body, 1, 2, New), <<11>> \o New \o <<14>>)
    \* a_write_a_buffer_refuses_is_not_found
    /\ \E o \in Results(SetBuffer(g, Body, 0, 0, New)) :
          o.status = "NotFound" /\ o.held.buffer = Four
    \* a_write_to_the_vm_configuration_is_not_found
    /\ Refused(SetBuffer(WithPlugin(g), VmBuffer, 0, 0, New), "NotFound")

BufferStatusTests ==
    \* the_embedder_receives_a_clamped_range_on_the_write_path
    /\ LeavesBuffer(SetBuffer(WithBody(Four), Body, Largest, Largest, New), Four \o New)
    \* the_embedder_receives_a_range_inside_its_buffer
    /\ Receives(GetBuffer(WithBody(Ten), Body, 0, Largest), Ten)
    \* the_buffer_status_writes_the_length_and_a_zero_over_a_seeded_slot
    /\ StatusIs(BufferStatus(WithBody(Ten), Body), 10)
    \* the_buffer_status_of_an_empty_buffer_is_two_zeros
    /\ StatusIs(BufferStatus(WithBody(<<>>), Body), 0)
    \* every_pointer_argument_is_checked_before_the_buffer_is_reached
    /\ \A c \in {GetBuffer(WithBody(Ten), Body, 0, 1), SetBuffer(WithBody(Ten), Body, 0, 0, New),
                 BufferStatus(WithBody(Ten), Body)} : PointersChecked(c)

ServedBufferTests ==
    LET g == WithPlugin(Hosted) IN
    \* a_configuration_the_crate_serves_is_never_asked_of_the_stream_state
    /\ \A t \in {VmBuffer, PluginBuffer} :
          Succeeds(GetBuffer(g, t, 0, Largest)) /\ Unasked(GetBuffer(g, t, 0, Largest))
    \* a_write_to_a_configuration_the_crate_serves_is_never_asked_of_the_stream_state
    /\ \A t \in {VmBuffer, PluginBuffer} : Refused(SetBuffer(g, t, 0, Largest, New), "NotFound")
    \* a_guest_under_a_refused_root_is_not_served_the_plugin_configuration
    /\ Refused(GetBuffer(RefusedRoot(g), PluginBuffer, 0, Largest), "NotFound")

\* A delivered buffer is sliced, sized and not written.
SlicedLike(g, t) ==
    /\ Receives(GetBuffer(g, t, 0, LargestSigned), Four)
    /\ Receives(GetBuffer(g, t, 1, 2), <<12, 13>>)
    /\ Receives(GetBuffer(g, t, 4, 1), <<>>)
    /\ Unasked(GetBuffer(g, t, 0, LargestSigned))
NotReached(g, t) ==
    \A c \in {GetBuffer(g, t, 0, LargestSigned), SetBuffer(g, t, 0, 0, New), BufferStatus(g, t)} :
        Refused(c, "NotFound")

Response == Delivering("HttpCallResponse", NoPairs, Four)
DeliveredBodyTests ==
    LET t == "HttpCallResponseBody" IN
    \* the_body_of_a_delivered_response_is_sliced_as_every_buffer_is
    /\ SlicedLike(Response, t)
    \* a_delivered_body_refuses_a_start_past_its_end_and_every_write
    /\ Refused(GetBuffer(Response, t, 5, 1), "BadArgument")
    /\ Refused(SetBuffer(Response, t, 0, 0, New), "NotFound")
    \* the_status_of_a_delivered_body_is_its_length
    /\ StatusIs(BufferStatus(Response, t), 4)
    \* the_body_of_a_response_is_not_found_outside_a_delivery
    /\ NotReached(Hosted, t)
    \* the_predicate_names_the_five_crate_buffers_and_sends_the_rest_to_the_embedder
    /\ Cardinality(H(Hosted)!CrateBuffer) = 5
    /\ Body \notin H(Hosted)!CrateBuffer

GrpcMessage == Delivering("GrpcMessage", NoPairs, Four)
GrpcMessageTests ==
    LET t == "GrpcCallMessage" IN
    \* the_message_of_a_grpc_delivery_is_sliced_as_every_buffer_is
    /\ SlicedLike(GrpcMessage, t) /\ StatusIs(BufferStatus(GrpcMessage, t), 4)
    \* a_write_to_the_message_of_a_grpc_delivery_is_not_found
    /\ Refused(SetBuffer(GrpcMessage, t, 0, 0, New), "NotFound")
    \* the_message_buffer_is_not_found_in_another_delivery_and_outside_one
    /\ NotReached(Response, t) /\ NotReached(Hosted, t)
    \* the_response_body_is_not_found_in_a_grpc_delivery
    /\ NotReached(GrpcMessage, "HttpCallResponseBody")

-----------------------------------------------------------------------------
(***************************************************************************)
(* host_functions/header_map.rs                                            *)
(***************************************************************************)
Headers == "HttpRequestHeaders"
EncodedMap(map) == H(Hosted)!EncodePairs(map).value
Filler(count) == [i \in 1 .. count |-> <<<<10>>, <<11>>>>]

MapSize(g, map_type) == Asking(g, "proxy_get_header_map_size", map_type, NoPairs)
MapPairs(g, map_type) == Asking(g, "proxy_get_header_map_pairs", map_type, NoPairs)
MapValue(g, map_type, k) == Asking(g, "proxy_get_header_map_value", map_type, [key |-> k])
SetPairs(g, map_type, bytes) ==
    Asking(g, "proxy_set_header_map_pairs", map_type, [pairs |-> bytes])
AddValue(g, map_type, k, v) ==
    Asking(g, "proxy_add_header_map_value", map_type, [key |-> k, value |-> v])
ReplaceValue(g, map_type, k, v) ==
    Asking(g, "proxy_replace_header_map_value", map_type, [key |-> k, value |-> v])
RemoveValue(g, map_type, k) == Asking(g, "proxy_remove_header_map_value", map_type, [key |-> k])

MapReads(g, map_type) == {MapSize(g, map_type), MapPairs(g, map_type), MapValue(g, map_type, <<10>>)}
MapWrites(g, map_type) ==
    {SetPairs(g, map_type, <<>>), AddValue(g, map_type, <<10>>, <<11>>),
     ReplaceValue(g, map_type, <<10>>, <<11>>), RemoveValue(g, map_type, <<10>>)}
DriveAll(g, map_type) == MapReads(g, map_type) \cup MapWrites(g, map_type)
AllRefused(g, map_type) == \A c \in DriveAll(g, map_type) : Refused(c, "BadArgument")

TwoPairs == <<<<<<1>>, <<2>>>>, <<<<3>>, <<4, 4>>>>>>
MapReadTests ==
    \* size_reports_the_encoded_size_and_zero_for_an_empty_map
    /\ Writes(MapSize(WithMap(TwoPairs), Headers), "size", 2 + 8 + 4 + 5)
    /\ Writes(MapSize(Hosted, Headers), "size", 0)
    \* pairs_round_trip_through_the_codec
    /\ Receives(MapPairs(WithMap(TwoPairs), Headers), EncodedMap(TwoPairs))
    \* pairs_of_an_empty_map_write_two_zeros_without_allocating
    /\ Receives(MapPairs(Hosted, Headers), <<>>)

MapLimitTests ==
    LET g == WithMap(TwoPairs)
        large == SetPairs([g EXCEPT !.limits.pairs = 8], Headers, EncodedMap(Filler(5)))
        short == SetPairs([g EXCEPT !.limits.bytes = 16], Headers, EncodedMap(Filler(4)))
    IN
    \* a_header_map_above_the_pair_limit_is_a_bad_argument
    /\ Refused(SetPairs(g, Headers, EncodedMap(Filler(5))), "BadArgument")
    \* a_header_map_above_the_byte_limit_is_a_bad_argument
    /\ Refused(short, "BadArgument")
    \* an_embedder_that_raises_the_limit_accepts_the_larger_map
    /\ Leaves(large, Filler(5))

SetPairsTests ==
    LET g == WithMap(TwoPairs)
        encoded == EncodedMap(<<<<<<7>>, <<9>>>>>>)
    IN
    \* set_pairs_replaces_the_map_and_accepts_every_empty_encoding
    /\ Leaves(SetPairs(g, Headers, encoded), <<<<<<7>>, <<9>>>>>>)
    /\ \A empty \in {<<>>, <<0>>, <<0, 0>>} : Leaves(SetPairs(g, Headers, empty), NoPairs)
    \* set_pairs_with_a_truncated_encoding_leaves_the_map_unchanged
    /\ Refused(SetPairs(g, Headers, SubSeq(encoded, 1, Len(encoded) - 2)), "BadArgument")

MapValueTests ==
    LET g == WithMap(<<<<<<1>>, <<2>>>>, <<<<1>>, <<3>>>>, <<<<5>>, <<>>>>, <<<<>>, Four>>>>)
        missing == MapValue(g, Headers, <<9>>)
    IN
    \* get_value_returns_the_first_value_or_not_found
    /\ Receives(MapValue(g, Headers, <<1>>), <<2>>)
    /\ Successes(missing) = {} /\ Passes(missing, "NotFound")
    /\ Receives(MapValue(g, Headers, <<>>), Four)
    \* get_value_of_an_empty_value_writes_two_zeros
    /\ Receives(MapValue(g, Headers, <<5>>), <<>>)

MapWriteTests ==
    LET three == <<<<<<1>>, <<2>>>>, <<<<3>>, <<4>>>>, <<<<3>>, <<5>>>>>> IN
    \* add_replace_and_remove_change_the_map
    /\ Leaves(AddValue(WithMap(three), Headers, <<1>>, <<>>), Append(three, <<<<1>>, <<>>>>))
    /\ Leaves(ReplaceValue(WithMap(three), Headers, <<3>>, New), <<three[1], <<<<3>>, New>>>>)
    /\ Leaves(RemoveValue(WithMap(three), Headers, <<9>>), three)
    \* remove_of_every_pair_of_a_key_is_ok
    /\ Leaves(RemoveValue(WithMap(three), Headers, <<3>>), <<three[1]>>)

UnknownMapTests ==
    \* an_unknown_map_type_is_bad_argument_everywhere
    AllRefused(WithMap(TwoPairs), "Unknown")

UnservedMapTests ==
    LET g == WithMap(TwoPairs) IN
    \* without_a_stream_state_or_an_effective_context_every_function_is_bad_argument
    /\ AllRefused([g EXCEPT !.here.stream = FALSE], Headers)
    /\ AllRefused([g EXCEPT !.here.context = "None"], Headers)
    \* a_refused_root_is_not_served
    /\ AllRefused(RefusedRoot(g), Headers)
    \* the_embedder_status_passes_through_for_every_function
    /\ \A c \in DriveAll(g, Headers) : Passes(c, "NotFound")
    \* an_ok_refusal_is_reported_as_internal_failure
    /\ \A c \in DriveAll(g, Headers) : Passes(c, "InternalFailure")

RefusedMapTests ==
    LET c == MapPairs(WithMap(TwoPairs), Headers)
        frame == H(c.g)!Frame(c.f, c.a, Success(c))
    IN
    \* not_allowed_is_bad_argument_and_leaves_the_map_unchanged
    /\ \E o \in Results(ReplaceValue(WithMap(TwoPairs), Headers, <<1>>, New)) :
          o.status = "BadArgument" /\ o.held.map = TwoPairs
    \* a_null_allocator_is_internal_failure_and_a_trapping_one_unwinds
    /\ H(c.g)!Allocated(frame, 0) = "InternalFailure"
    /\ H(c.g)!Allocated(frame, Heap) = "Ok"

MapPointerTests ==
    \* every_pointer_argument_is_bounds_checked_before_the_map_is_asked
    \A c \in DriveAll(WithMap(TwoPairs), Headers) : PointersChecked(c)

DeliveredMapTests ==
    LET key == <<10>>
        g == Delivering("HttpCallResponse", <<<<key, New>>>>, <<>>)
        maps == {"HttpCallResponseHeaders", "HttpCallResponseTrailers"}
    IN
    \* every_function_is_a_bad_argument_for_a_response_map_outside_a_delivery
    /\ \A m \in maps : AllRefused(Hosted, m)
    \* a_delivered_map_refuses_every_write
    /\ \A m \in maps : \A c \in MapWrites(g, m) : Refused(c, "BadArgument")
    \* the_trailers_of_a_delivered_response_answer_their_size_and_pairs
    /\ Writes(MapSize(g, "HttpCallResponseTrailers"), "size", Len(EncodedMap(<<<<key, New>>>>)))
    /\ Receives(MapPairs(g, "HttpCallResponseTrailers"), EncodedMap(<<<<key, New>>>>))
    \* a_value_of_a_delivered_map_is_found_or_not_found
    /\ \A m \in maps : Receives(MapValue(g, m, key), New) /\ Unasked(MapValue(g, m, key))
    /\ \A m \in maps : Refused(MapValue(g, m, <<9>>), "NotFound")

GrpcMapTests ==
    LET initial == Delivering("GrpcInitialMetadata", Filler(1), <<>>)
        trailing == Delivering("GrpcTrailingMetadata", Filler(1), <<>>)
        own(g, m) ==
            /\ \A c \in MapReads(g, m) : Succeeds(c) /\ Unasked(c)
            /\ \A c \in MapWrites(g, m) : Refused(c, "BadArgument")
    IN
    \* the_initial_metadata_of_a_grpc_callout_is_read_in_its_own_delivery
    /\ own(initial, "GrpcCallInitialMetadata")
    \* the_trailing_metadata_of_a_grpc_callout_is_read_in_its_own_delivery
    /\ own(trailing, "GrpcCallTrailingMetadata")
    \* a_metadata_map_is_a_bad_argument_in_another_delivery_and_outside_one
    /\ AllRefused(initial, "GrpcCallTrailingMetadata")
    /\ AllRefused(Hosted, "GrpcCallInitialMetadata")
    /\ AllRefused(Hosted, "GrpcCallTrailingMetadata")
    \* a_response_map_is_a_bad_argument_in_a_grpc_delivery
    /\ AllRefused(initial, "HttpCallResponseHeaders")
    /\ AllRefused(initial, "HttpCallResponseTrailers")

-----------------------------------------------------------------------------
(***************************************************************************)
(* host_functions/property.rs                                              *)
(***************************************************************************)
GetProperty(g, path) ==
    Asking(g, "proxy_get_property", "None", [path |-> H(g)!EncodePath(path)])
SetProperty(g, path, v) ==
    Asking(g, "proxy_set_property", "None", [path |-> H(g)!EncodePath(path), value |-> v])
PluginName == <<Hosted.configuration.names.name>>
PluginRootId == <<Hosted.configuration.names.root_id>>
PluginVmId == <<Hosted.configuration.names.vm_id>>
RouteName == <<<<9>>, <<10>>>>

PropertyReadTests ==
    LET g == WithPlugin(Unhosted)
        asking == [WithPlugin(Hosted) EXCEPT !.values = {<<15>>}]
    IN
    \* the_plugin_name_is_served_by_the_crate
    /\ Receives(GetProperty(g, PluginName), Hosted.configuration.name)
    \* the_plugin_root_id_is_served_by_the_crate
    /\ Receives(GetProperty(g, PluginRootId), Hosted.configuration.root_id)
    \* the_vm_id_is_served_without_a_plugin_and_without_a_context
    /\ Receives(GetProperty(Bare, PluginVmId), Hosted.configuration.vm_id)
    \* a_well_known_path_never_reaches_the_stream_state
    /\ Receives(GetProperty(asking, PluginName), Hosted.configuration.name)
    \* another_path_reaches_the_stream_state
    /\ Receives(GetProperty(Hosted, RouteName), Digits(8, 4))
    \* a_path_over_the_name_bound_is_not_found_before_the_stream_state_is_asked
    /\ Refused(GetProperty(Hosted, <<Digits(1, 7)>>), "NotFound")

PropertyWriteTests ==
    \* a_path_the_stream_state_does_not_serve_is_not_found
    /\ Passes(GetProperty(Hosted, RouteName), "NotFound")
    \* an_empty_path_reaches_the_stream_state
    /\ Passes(GetProperty(Hosted, <<>>), "NotFound")
    \* a_write_reaches_the_stream_state_with_the_segments
    /\ Tells(SetProperty(Hosted, RouteName, Four), Append(RouteName, Four), <<>>)
    \* a_write_to_a_well_known_path_is_refused_without_the_stream_state
    /\ Refused(SetProperty(Hosted, PluginName, New), "NotFound")
    \* a_body_with_no_stream_state_or_no_context_is_not_found
    /\ Refused(GetProperty(Unhosted, RouteName), "NotFound")
    /\ Refused(GetProperty(Bare, RouteName), "NotFound")

PropertyCheckTests ==
    \* every_pointer_is_checked_before_the_stream_state_is_asked
    /\ PointersChecked(GetProperty(Hosted, RouteName))
    /\ PointersChecked(SetProperty(Hosted, RouteName, New))
    \* a_read_under_a_refused_root_is_not_found
    /\ Refused(GetProperty(RefusedRoot(Hosted), RouteName), "NotFound")
    \* the_plugin_name_of_a_refused_root_is_not_found
    /\ Refused(GetProperty(RefusedRoot(WithPlugin(Hosted)), PluginName), "NotFound")
    \* a_root_with_no_plugin_never_asks_the_stream_state_for_a_well_known_name
    /\ Refused(GetProperty(Hosted, PluginName), "NotFound")
    \* a_well_known_property_is_never_asked_of_the_stream_state
    /\ \A path \in {PluginName, PluginRootId, PluginVmId} :
          LET c == GetProperty(WithPlugin(Hosted), path) IN Succeeds(c) /\ Unasked(c)

ServedPropertyTests ==
    \* the_predicate_names_the_three_well_known_paths_and_sends_the_rest_to_the_embedder
    /\ \A path \in {PluginName, PluginRootId, PluginVmId} : H(Hosted)!ServedProperty(path)
    /\ \A path \in {<<<<9>>>>, Append(PluginName, <<9>>), <<>>} : ~H(Hosted)!ServedProperty(path)

-----------------------------------------------------------------------------
(***************************************************************************)
(* host_functions/foreign.rs                                               *)
(***************************************************************************)
Foreign(g) ==
    Asking(g, "proxy_call_foreign_function", "None", [name |-> <<5>>, arguments |-> Four])
Returning(data, size) ==
    [Foreign(Hosted) EXCEPT !.a.ptrs.data = data, !.a.ptrs.size = size]
Done == Digits(8, 4)

ForeignReturnTests ==
    LET sized == Returning(0, Slots.size)
        neither == Returning(0, 0)
    IN
    \* a_foreign_call_with_no_data_pointer_allocates_nothing_in_the_guest
    \* a_foreign_call_with_no_data_pointer_still_runs_the_embedder
    \* a_foreign_call_with_no_data_pointer_still_writes_the_size
    /\ ~H(Hosted)!NeedsAllocation(H(Hosted)!Frame(sized.f, sized.a, Success(sized)))
    /\ Tells(sized, <<<<5>>, Four>>, <<>>)
    /\ Writes(sized, "size", 4) /\ Writes(sized, "data", Seed)
    /\ MemoryAfter(sized, Success(sized))[0] = 0
    \* a_foreign_call_with_no_pointer_at_all_writes_nothing_and_runs_the_embedder
    /\ MemoryAfter(neither, Success(neither)) = neither.g.memory
    /\ Tells(neither, <<<<5>>, Four>>, <<>>)

ForeignRefusedTests ==
    LET c == Foreign(Hosted)
        refused == {o \in Results(c) : o.status = "NotFound"}
        addressed == Returning(Slots.data, 0)
    IN
    \* a_refused_foreign_call_writes_two_zeros
    /\ refused # {}
    /\ \A o \in refused : WordAfter(c, o, "data") = 0 /\ WordAfter(c, o, "size") = 0
    \* a_foreign_call_with_no_size_pointer_writes_the_address_alone
    /\ Writes(addressed, "data", Heap) /\ Writes(addressed, "size", Seed)
    \* a_foreign_call_with_both_pointers_writes_both
    /\ Receives(c, Done)
    \* the_name_and_the_arguments_reach_the_stream_state
    /\ Tells(c, <<<<5>>, Four>>, <<>>)
    \* an_empty_result_is_returned_as_two_zeros
    /\ Receives(Foreign([Hosted EXCEPT !.values = {<<>>}]), <<>>)

ForeignCheckTests ==
    \* a_name_the_stream_state_does_not_serve_is_not_found
    /\ \E o \in Results(Foreign(Hosted)) : o.ask /\ o.status = "NotFound"
    \* a_body_with_no_stream_state_or_no_context_is_not_found
    /\ Refused(Foreign(Unhosted), "NotFound") /\ Refused(Foreign(Bare), "NotFound")
    \* every_pointer_is_checked_before_the_stream_state_is_asked
    /\ PointersChecked(Foreign(Hosted))
    \* a_body_under_a_refused_root_is_not_found
    /\ Refused(Foreign(RefusedRoot(Hosted)), "NotFound")

-----------------------------------------------------------------------------
(***************************************************************************)
(* host_functions/log.rs and clock.rs                                      *)
(***************************************************************************)
Hello == Digits(3, 5)
Log(g, level, bytes) == Asking(g, "proxy_log", level, [message |-> bytes])
Logs(c, level, bytes, sent, call, plugin) ==
    Succeeds(c) /\ Success(c).message =
        [level |-> level, message |-> bytes, sent |-> sent, call |-> call, plugin |-> plugin]
LogHello(g) == Log(g, "Info", Hello)

LogContextTests ==
    LET g == WithPlugin(Hosted)
        between == [g EXCEPT !.here.callback = FALSE]
        removed == [Hosted EXCEPT !.here.context = "None"]
    IN
    \* a_line_from_a_stream_callback_names_its_plugin_and_its_call
    /\ Logs(LogHello(g), "Info", Hello, Hello, TRUE, TRUE)
    \* a_line_with_no_callback_running_carries_no_call
    /\ Logs(LogHello(between), "Info", Hello, Hello, FALSE, FALSE)
    \* a_line_before_a_configuration_names_no_plugin
    /\ Logs(LogHello(Hosted), "Info", Hello, Hello, TRUE, FALSE)
    \* a_line_with_a_callback_and_no_context_carries_no_call
    /\ Logs(LogHello(removed), "Info", Hello, Hello, FALSE, FALSE)

LogMessageTests ==
    \* a_message_is_logged_at_its_level
    /\ Logs(LogHello(Bare), "Info", Hello, Hello, FALSE, FALSE)
    \* an_empty_message_is_logged_as_an_empty_entry
    /\ Logs(Log(Bare, "Error", <<>>), "Error", <<>>, <<>>, FALSE, FALSE)
    \* a_bad_level_and_a_bad_address_log_nothing
    /\ Refused(Log(Bare, "Unknown", Hello), "BadArgument")
    /\ \A span \in {At(235, 10), At(Largest, 5)} :
          Refused([LogHello(Bare) EXCEPT !.a.spans.message = span], "InvalidMemoryAccess")

Level(g) == Asking(g, "proxy_get_log_level", "None", NoPairs)
Now(g) == Asking(g, "proxy_get_current_time_nanoseconds", "None", NoPairs)
LogLevelTests ==
    \* the_level_in_the_services_is_written
    /\ Writes(Level(Bare), "level", 2)
    \* a_changed_level_is_written
    /\ Writes(Level([Bare EXCEPT !.configuration.level = 5]), "level", 5)
    \* a_level_return_pointer_past_memory_is_an_invalid_access
    /\ PointersChecked(Level(Bare))
    \* a_message_above_the_log_bound_reaches_the_sink_cut_to_it
    /\ Logs(LogHello([Bare EXCEPT !.log = 3]), "Info", <<3, 4, 5>>, Hello, FALSE, FALSE)
    \* a_message_at_the_log_bound_reaches_the_sink_whole
    /\ Logs(LogHello([Bare EXCEPT !.log = 5]), "Info", Hello, Hello, FALSE, FALSE)
    \* a_removed_log_bound_gives_the_sink_the_whole_message
    /\ Logs(LogHello(Bare), "Info", Hello, Hello, FALSE, FALSE)

ClockTests ==
    \* the_clock_is_written_as_eight_little_endian_bytes
    /\ Succeeds(Now(Bare))
    /\ H(Bare)!Read(MemoryAfter(Now(Bare), Success(Now(Bare))), At(Slots.time, 4)) = <<4, 3, 2, 1>>
    \* a_return_pointer_past_memory_is_an_invalid_access
    /\ PointersChecked(Now(Bare))

-----------------------------------------------------------------------------
(***************************************************************************)
(* host_functions/stream.rs and local_response.rs                          *)
(***************************************************************************)
Resumes(g, stream_type) == Asking(g, "proxy_continue_stream", stream_type, NoPairs)
Closes(g, stream_type) == Asking(g, "proxy_close_stream", stream_type, NoPairs)
Both(g, stream_type) == {Resumes(g, stream_type), Closes(g, stream_type)}

StreamTests ==
    \* every_stream_type_reaches_the_embedder_as_a_resume
    \* every_stream_type_reaches_the_embedder_as_a_close
    /\ \A c \in Both(Hosted, "Known") : Tells(c, <<>>, <<>>) /\ Success(c).ask
    \* an_unknown_stream_type_is_a_bad_argument
    /\ \A c \in Both(Hosted, "Unknown") : Refused(c, "BadArgument")
    \* a_success_for_a_stream_that_was_never_touched_is_an_internal_failure
    /\ H(Hosted)!FromEmbedder("Ok").status = "InternalFailure"
    \* no_stream_state_and_no_effective_context_both_report_unimplemented
    /\ \A c \in Both(Unhosted, "Known") \cup Both(Bare, "Known") : Refused(c, "Unimplemented")
    \* the_default_bodies_report_unimplemented
    /\ \A c \in Both(Hosted, "Known") : Passes(c, "Unimplemented")
    \* the_status_a_stream_returns_passes_through
    /\ H(Hosted)!FromEmbedder("BadArgument").status = "BadArgument"

SendResponse(g, details, body, map) ==
    Asking(g, "proxy_send_local_response", "None",
           [details |-> details, body |-> body, pairs |-> map])
Denied == <<5, 5>>

LocalResponseTests ==
    \* a_local_response_above_the_pair_limit_is_a_bad_argument
    /\ Refused(SendResponse(Hosted, Denied, <<>>, EncodedMap(Filler(5))), "BadArgument")
    \* the_whole_response_reaches_the_embedder
    /\ Tells(SendResponse(Hosted, Denied, New, EncodedMap(TwoPairs)), <<Denied, New>>, <<TwoPairs>>)
    \* a_null_pointer_with_a_zero_size_is_an_empty_value
    /\ Tells(SendResponse(Hosted, <<>>, <<>>, <<>>), <<<<>>, <<>>>>, <<NoPairs>>)

LocalResponseCheckTests ==
    \* a_header_block_that_does_not_decode_is_a_bad_argument
    /\ Refused(SendResponse(Hosted, <<>>, <<>>, <<1, 0, 9, 0>>), "BadArgument")
    \* the_default_body_reports_unimplemented
    /\ Passes(SendResponse(Hosted, <<>>, <<>>, <<>>), "Unimplemented")
    \* no_effective_context_reports_unimplemented
    /\ Refused(SendResponse(Bare, <<>>, <<>>, <<>>), "Unimplemented")
    \* every_data_pointer_is_checked_before_the_embedder_is_asked
    /\ PointersChecked(SendResponse(Hosted, <<>>, <<>>, <<>>))

-----------------------------------------------------------------------------
(***************************************************************************)
(* host_functions/callout.rs and the openers of grpc.rs                    *)
(***************************************************************************)
Required == <<<<<<1>>, <<7>>>>, <<<<2>>, <<8>>>>, <<<<3>>, <<9>>>>>>
HttpCallWith(g, headers, body, trailers) ==
    Asking(g, "proxy_http_call", "None",
           [upstream |-> <<5>>, headers |-> headers, body |-> body, trailers |-> trailers])
HttpCall(g) == HttpCallWith(g, EncodedMap(Required), Hello, EncodedMap(Filler(1)))

\* Only the maximum of open callouts, in Guest, and these end an open request.
RefusedAs(c, statuses) ==
    LET refused == {o \in Results(c) : o.status # "Ok"} IN
    /\ {o.status : o \in refused} = statuses
    /\ \A o \in refused : o.ask /\ ~o.opens /\ o.writes = <<>>
Opens(c) == Succeeds(c) /\ Success(c).opens /\ Writes(c, "call", 1)

HttpCallLimitTests ==
    LET padded == EncodedMap(Required \o Filler(2)) IN
    \* callout_headers_above_the_pair_limit_are_a_bad_argument
    /\ Refused(HttpCallWith(Hosted, padded, <<>>, <<>>), "BadArgument")
    \* callout_trailers_above_the_pair_limit_are_a_bad_argument
    /\ Refused(HttpCallWith(Hosted, EncodedMap(Required), <<>>, EncodedMap(Filler(5))),
               "BadArgument")

HttpCallTests ==
    \* an_accepted_call_reaches_the_service_and_the_guest_gets_the_identifier
    /\ Opens(HttpCall(Hosted))
    /\ Tells(HttpCall(Hosted), <<<<5>>, Hello>>, <<Required, Filler(1)>>)
    \* each_refusal_gives_its_status_and_leaves_the_table_empty
    \* a_guest_that_repeats_a_refused_call_does_not_grow_the_table
    \* services_with_no_callout_service_refuse_as_an_internal_failure
    /\ RefusedAs(HttpCall(Hosted), {"BadArgument", "InternalFailure"})
    \* every_pointer_is_checked_before_the_service_is_asked
    /\ PointersChecked(HttpCall(Hosted))

HttpCallFormTests ==
    \* headers_that_lack_a_required_name_are_a_bad_argument
    /\ \A i \in DOMAIN Required :
          LET lacking == [Required EXCEPT ![i] = <<<<10>>, <<7>>>>]
          IN  Refused(HttpCallWith(Hosted, EncodedMap(lacking), <<>>, <<>>), "BadArgument")
    \* a_map_that_does_not_decode_is_a_bad_argument
    /\ Refused(HttpCallWith(Hosted, <<9, 0, 1>>, <<>>, <<>>), "BadArgument")
    \* an_empty_body_and_the_three_empty_trailer_forms_are_accepted
    /\ \A form \in {<<>>, <<0>>, <<0, 0>>} :
          Tells(HttpCallWith(Hosted, EncodedMap(Required), <<>>, form),
                <<<<5>>, <<>>>>, <<Required, NoPairs>>)
    \* no_effective_context_and_a_refused_root_are_an_internal_failure
    /\ Refused(HttpCall(Bare), "InternalFailure")
    /\ Refused(HttpCall(RefusedRoot(Hosted)), "InternalFailure")

GetStatus(g) == Asking(g, "proxy_get_status", "None", NoPairs)
StatusAnswers(g, code, bytes) ==
    Receives(GetStatus(g), bytes) /\ Writes(GetStatus(g), "code", code)
StatusAnswerTests ==
    \* the_status_is_not_found_with_no_delivery
    /\ Refused(GetStatus(Hosted), "NotFound")
    \* a_delivered_http_call_answers_code_zero_and_an_empty_message
    /\ StatusAnswers(Response, 0, <<>>)
    \* every_status_pointer_is_checked_before_the_delivery_is_read
    /\ PointersChecked(GetStatus(Response))
    \* a_delivered_grpc_close_answers_its_code_and_its_message
    /\ StatusAnswers(Delivering("GrpcClose", NoPairs, Hello), 14, Hello)
    \* the_other_grpc_deliveries_answer_code_zero_and_an_empty_message
    /\ \A kind \in {"GrpcMessage", "GrpcInitialMetadata", "GrpcTrailingMetadata"} :
          StatusAnswers(Delivering(kind, NoPairs, Hello), 0, <<>>)

GrpcWith(g, f, metadata, message) ==
    Asking(g, f, "None",
           [upstream |-> <<5>>, service |-> <<6>>, method |-> <<7>>, pairs |-> metadata,
            message |-> message])
GrpcCallWith(g, metadata, message) == GrpcWith(g, "proxy_grpc_call", metadata, message)
GrpcCall(g) == GrpcCallWith(g, EncodedMap(Filler(1)), Hello)
GrpcStream(g) == GrpcWith(g, "proxy_grpc_stream", EncodedMap(Filler(1)), <<>>)

GrpcLimitTests ==
    LET large == EncodedMap(Filler(5)) IN
    \* grpc_metadata_above_the_pair_limit_is_a_parse_failure
    /\ Refused(GrpcCallWith(Hosted, large, <<>>), "ParseFailure")
    \* grpc_metadata_above_the_byte_limit_is_a_parse_failure
    /\ Refused(GrpcCall([Hosted EXCEPT !.limits.bytes = 4]), "ParseFailure")
    \* a_grpc_stream_refuses_metadata_above_the_pair_limit
    /\ Refused(GrpcWith(Hosted, "proxy_grpc_stream", large, <<>>), "ParseFailure")

GrpcOpenTests ==
    \* an_accepted_grpc_call_reaches_the_service_and_the_guest_gets_the_identifier
    /\ Opens(GrpcCall(Hosted))
    /\ Tells(GrpcCall(Hosted), <<<<5>>, <<6>>, <<7>>, Hello>>, <<Filler(1)>>)
    \* an_accepted_grpc_stream_reaches_the_service_and_takes_no_message
    /\ Opens(GrpcStream(Hosted))
    /\ Tells(GrpcStream(Hosted), <<<<5>>, <<6>>, <<7>>>>, <<Filler(1)>>)
    \* every_pointer_of_the_two_openers_is_checked_before_the_service_is_asked
    /\ PointersChecked(GrpcCall(Hosted)) /\ PointersChecked(GrpcStream(Hosted))
    \* metadata_that_does_not_decode_answers_parse_failure
    /\ Refused(GrpcCallWith(Hosted, <<9, 9>>, Hello), "ParseFailure")
    \* a_null_empty_message_and_a_timeout_of_zero_are_accepted
    /\ Opens(GrpcCallWith(Hosted, EncodedMap(Filler(1)), <<>>))

GrpcRefusalTests ==
    \* each_refusal_of_an_opener_gives_its_status_and_releases_the_identifier
    \* a_guest_that_repeats_a_refused_grpc_call_does_not_grow_the_table
    \A c \in {GrpcCall(Hosted), GrpcStream(Hosted)} :
        RefusedAs(c, {"ParseFailure", "InternalFailure"})

GrpcRefusedTests ==
    \* an_opener_is_refused_without_an_effective_context
    \* an_opener_is_refused_under_a_refused_root
    \A g \in {Bare, RefusedRoot(Hosted)} :
        \A c \in {GrpcCall(g), GrpcStream(g)} : Refused(c, "InternalFailure")

-----------------------------------------------------------------------------
(***************************************************************************)
(* wasi.rs                                                                 *)
(***************************************************************************)
Newline == Hosted.configuration.newline
HelloLine == <<1, 2, Newline, 3, 4, Newline>>

\* A memory with HelloLine at 4 and a table of entries at 40.
Iovecs(entries) ==
    [Bare EXCEPT !.memory = Placed(@,
        [key |-> HelloLine,
         pairs |-> [i \in 1 .. 4 * Len(entries) |->
            LET entry == entries[(i + 3) \div 4]
                word == IF (i - 1) % 4 < 2 THEN entry.ptr ELSE entry.len
            IN  IF i % 2 = 1 THEN word % 16 ELSE word \div 16]])]
Errno(g, fd, iovs, count) == H(g)!FdWriteErrno(fd, iovs, count, Slots.size)
MessageOf(g, count) == H(g)!FdWriteMessage(H(g)!Sent(H(g)!Entries(g.memory, 40, count)))

FdWriteTests ==
    LET g == Iovecs(<<At(4, 3), At(7, 3)>>) IN
    \* fd_write_logs_joined_entries_and_counts_bytes
    /\ \A fd \in {"Stdout", "Stderr"} : Errno(g, fd, 40, 2) = "Success"
    /\ H(g)!LevelOf("Stdout") = "Info" /\ H(g)!LevelOf("Stderr") = "Error"
    /\ H(g)!Sent(H(g)!Entries(g.memory, 40, 2)) = HelloLine
    /\ MessageOf(g, 2) = <<1, 2, Newline, 3, 4>>
    \* fd_write_with_no_entries_logs_nothing_and_writes_zero
    /\ Errno(g, "Stdout", 40, 0) = "Success"
    /\ H(g)!Sent(H(g)!Entries(g.memory, 40, 0)) = <<>>

FdWriteRefusedTests ==
    LET bad == Iovecs(<<At(250, 4)>>)
        good == Iovecs(<<At(0, 4)>>)
    IN
    \* fd_write_rejects_bad_descriptors_and_bad_addresses_without_logging
    /\ Errno(good, "Unknown", 40, 1) = "Badf"
    /\ Errno(good, "Stdout", 238, 1) = "Fault"
    /\ Errno(bad, "Stdout", 40, 1) = "Fault"
    /\ H(good)!FdWriteErrno("Stdout", 40, 1, PastEnd) = "Fault"
    \* fd_write_refuses_more_entries_than_a_wasi_host_accepts
    /\ Errno(good, "Stdout", 40, 3) = "Success"
    /\ Errno(good, "Stdout", 40, 4) = "Inval"

FdWriteBoundTests ==
    LET g == Iovecs(<<At(4, 3), At(7, 3)>>)
        whole == Iovecs(<<At(0, 240), At(0, 240), At(0, 240)>>)
    IN
    \* fd_write_cuts_a_message_at_the_bound_the_embedder_set
    /\ MessageOf([g EXCEPT !.log = 4], 2) = <<1, 2, Newline, 3>>
    /\ H(g)!Sent(H(g)!Entries(g.memory, 40, 2)) = HelloLine
    \* fd_write_gives_the_sink_the_whole_message_when_no_bound_is_set
    /\ MessageOf(g, 2) = <<1, 2, Newline, 3, 4>>
    \* fd_write_with_no_bound_copies_no_more_than_the_guest_memory
    /\ Errno(whole, "Stdout", 40, 3) = "Success"
    /\ Len(MessageOf(whole, 3)) = 240
    \* fd_write_refuses_an_iovec_past_the_memory_before_it_logs
    /\ Errno(Iovecs(<<At(0, 8), At(0, Largest)>>), "Stdout", 40, 2) = "Fault"

EnvironmentTests ==
    LET g == [Bare EXCEPT !.configuration.environment = <<<<1, 2, 3>>, <<4, 5, 2, 6, 6>>>>] IN
    \* environment_functions_serialize_the_variables
    /\ H(g)!EnvironmentBlock = <<1, 2, 3, 0, 4, 5, 2, 6, 6, 0>>
    /\ H(g)!Offsets(100) = <<100, 104, 110>>
    \* an_empty_environment_reports_zero_sizes
    /\ H(Bare)!EnvironmentBlock = <<>>

-----------------------------------------------------------------------------
\* Every replayed test passes.
HostTestsPass ==
    /\ GetBufferTests /\ ConfigurationTests /\ SetBufferTests /\ BufferStatusTests
    /\ ServedBufferTests /\ DeliveredBodyTests /\ GrpcMessageTests
    /\ MapReadTests /\ MapLimitTests /\ SetPairsTests /\ MapValueTests /\ MapWriteTests
    /\ UnknownMapTests /\ UnservedMapTests /\ RefusedMapTests /\ MapPointerTests
    /\ DeliveredMapTests /\ GrpcMapTests
    /\ PropertyReadTests /\ PropertyWriteTests /\ PropertyCheckTests /\ ServedPropertyTests
    /\ ForeignReturnTests /\ ForeignRefusedTests /\ ForeignCheckTests
    /\ LogContextTests /\ LogMessageTests /\ LogLevelTests /\ ClockTests
    /\ StreamTests /\ LocalResponseTests /\ LocalResponseCheckTests
    /\ HttpCallLimitTests /\ HttpCallTests /\ HttpCallFormTests /\ StatusAnswerTests
    /\ GrpcLimitTests /\ GrpcOpenTests /\ GrpcRefusalTests /\ GrpcRefusedTests
    /\ FdWriteTests /\ FdWriteRefusedTests /\ FdWriteBoundTests /\ EnvironmentTests
==============================================================================
