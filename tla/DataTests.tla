------------------------------ MODULE DataTests ------------------------------
(***************************************************************************)
(* The unit tests of the pure parts of the crate, run on the operators     *)
(* that model them: codec/pairs.rs, codec/path.rs, header_map.rs,          *)
(* buffer.rs, runtime/memory.rs and abi/v0_2_1/types.rs.  A test is a      *)
(* conjunct, after its name.                                               *)
(* Bytes are digits of base 16, u32 has four of them, a letter is a digit, *)
(* and limits, pages and repetitions are scaled to that width.             *)
(*                                                                         *)
(* Not here: the tests of messages, of usize::MAX and of a write whose     *)
(* slice has another length, which the operators leave out.                *)
(***************************************************************************)
EXTENDS Integers, Sequences, FiniteSets

D == INSTANCE HeaderMaps WITH Base <- 16, WordBytes <- 4, Absent <- "None"

\* A string of digits, and a map from its pairs.
Letters(from, count) == [i \in 1 .. count |-> ((from + i - 2) % 15) + 1]
KV == <<<<10>>, <<11>>>>
MapOfPairs(count) == D!EncodePairs([i \in 1 .. count |-> KV]).value
Decode(input) == D!DecodePairs(input, D!Unlimited)
RoundTrips(map) == Decode(D!EncodePairs(map).value) = D!Decoded(map)
Limited(pairs, bytes) == [pairs |-> pairs, bytes |-> bytes]

-----------------------------------------------------------------------------
(***************************************************************************)
(* codec/pairs.rs                                                          *)
(***************************************************************************)
PairLimitTests ==
    \* a_map_above_the_pair_limit_is_refused_before_it_is_built
    /\ D!DecodePairs(MapOfPairs(5), Limited(4, D!NoLimit)).error = "PairLimit"
    \* a_map_at_the_pair_limit_is_accepted
    /\ Len(D!DecodePairs(MapOfPairs(4), Limited(4, D!NoLimit)).value) = 4
    \* a_map_above_the_byte_limit_is_refused_before_the_count_is_read
    /\ D!DecodePairs([i \in 1 .. 9 |-> 9], Limited(D!NoLimit, 8)).error = "ByteLimit"
    \* a_map_at_the_byte_limit_is_accepted
    /\ Len(D!DecodePairs(MapOfPairs(3), Limited(D!NoLimit, Len(MapOfPairs(3)))).value) = 3
    \* an_unlimited_decode_accepts_a_map_above_both_limits
    /\ Len(Decode(MapOfPairs(20)).value) = 20
    \* the_reserve_grows_with_the_pairs_that_decode
    /\ D!ReserveFor(100, 4 + 100 * 8 + 20, 4 + 100 * 8) = 10
    /\ D!ReserveFor(3, 4 + 24 + 12, 4 + 24) = 3

\* The maps of at most two pairs of strings of at most one digit.
SmallStrings == {<<>>, <<0>>, <<1>>}
SmallMaps == UNION {[1 .. n -> SmallStrings \X SmallStrings] : n \in 0 .. 2}

\* The inputs that differ from a valid one in one byte.
ValidMap == <<<<<<1, 2>>, <<3, 4, 5>>>>, <<<<>>, <<6>>>>>>
Mutations(input) ==
    {[input EXCEPT ![i] = byte] : i \in DOMAIN input, byte \in {0, 1, 15}}

RoundTripTests ==
    \* spec_example_encodes_to_the_rule_bytes
    /\ D!EncodePairs(<<<<<<1>>, <<2>>>>, <<<<3>>, <<4, 4>>>>>>) =
         D!Decoded(<<2, 0, 0, 0>> \o <<1, 0, 0, 0, 1, 0, 0, 0>> \o <<1, 0, 0, 0, 2, 0, 0, 0>>
                     \o <<1, 0, 2, 0>> \o <<3, 0, 4, 4, 0>>)
    \* handwritten_maps_round_trip
    /\ \A map \in {<<>>, <<KV>>,
                   <<<<Letters(1, 3), Letters(2, 3)>>, <<Letters(1, 3), Letters(3, 3)>>>>,
                   <<<<<<>>, Letters(1, 9)>>>>, <<<<Letters(1, 11), <<>>>>>>,
                   <<<<Letters(1, 3), <<0, 1, 0>>>>, <<<<0>>, <<0>>>>>>} : RoundTrips(map)
    \* order_is_preserved_through_a_round_trip
    /\ RoundTrips(<<<<Letters(9, 4), <<1>>>>, <<Letters(1, 5), <<2>>>>,
                    <<Letters(5, 3), <<3>>>>, <<Letters(1, 5), <<4>>>>>>)
    \* generated_maps_round_trip
    /\ \A map \in SmallMaps : RoundTrips(map)
    /\ RoundTrips([i \in 1 .. 18 |-> <<<<10>>, [j \in 1 .. 20 |-> i % 16]>>])
    \* generated_inputs_never_panic_and_accepted_inputs_are_canonical
    /\ \A input \in Mutations(D!EncodePairs(ValidMap).value)
                        \cup UNION {[1 .. n -> {0, 1, 15}] : n \in 0 .. 6} :
         LET again == D!EncodePairs(Decode(input).value).value IN
         Decode(input).error = D!NoError =>
            \/ again = input
            \/ input \in {<<>>, <<0>>, <<0, 0, 0, 0>>} /\ again = <<>>

TwoWalkTests ==
    \* a_source_that_grows_on_the_second_pass_encodes_the_measured_pairs
    /\ D!EncodeVisited(<<KV>>, <<KV, <<<<10, 2>>, <<11, 2>>>>>>) = D!EncodePairs(<<KV>>)
    \* a_decode_error_reports_the_index_of_the_pair_it_found
    /\ LET bytes == D!EncodePairs(<<<<<<1>>, <<2>>>>, <<<<3>>, <<4>>>>>>).value
       IN  Decode([bytes EXCEPT ![Len(bytes)] = 9]).error = "MissingTerminator"
    \* a_source_that_changes_between_the_two_passes_is_refused
    /\ D!EncodeVisited(<<KV, <<<<10, 2>>, <<11, 2>>>>>>, <<KV>>).error = "Changed"
    \* encoded_size_matches_the_encoded_length
    /\ LET maps == <<<<>>, <<KV>>, <<<<<<>>, <<>>>>>>,
                     <<<<Letters(1, 3), Letters(4, 4)>>, <<<<>>, <<9>>>>>>>>
           sizes == [i \in DOMAIN maps |-> D!TotalSize(maps[i])]
       IN  /\ sizes = [i \in DOMAIN maps |-> Len(D!EncodePairs(maps[i]).value)]
           /\ sizes = <<0, 4 + 8 + 4, 4 + 8 + 2, 4 + 16 + 9 + 3>>

VisitedTests ==
    \* total_size_is_zero_for_no_pairs_and_adds_the_count_once
    /\ D!TotalSize(<<>>) = 0
    /\ \A n \in 1 .. 3 : D!TotalSize([i \in 1 .. n |-> <<<<>>, <<>>>>]) = 4 + n * 10
    \* encoder_accepts_owned_borrowed_and_str_pairs, encode_visited_matches_encode_pairs
    /\ LET pairs == <<<<<<1>>, <<2>>>>, <<<<>>, <<>>>>, <<<<3>>, <<4, 4, 4>>>>>>
       IN  D!EncodeVisited(pairs, pairs) = D!EncodePairs(pairs)
    \* encode_visited_reports_a_source_that_changes
    /\ D!EncodeVisited(<<<<<<10>>, Letters(1, 10)>>>>, <<<<<<10>>, Letters(1, 5)>>>>).error
          = "Changed"
    \* both_empty_encodings_decode_to_an_empty_map
    /\ \A input \in {<<>>, <<0>>} : Decode(input) = D!Decoded(<<>>)
    \* short_inputs_are_truncated_count
    /\ \A input \in {<<1>>, <<0, 0>>, <<10, 11>>} : Decode(input).error = "TruncatedCount"
    \* short_length_table_is_truncated_lengths
    /\ Decode(<<3, 0, 0, 0, 1, 0, 0, 0, 1, 0, 0, 0>>).error = "TruncatedLengths"

\* The first words of a map of one pair with these lengths.
OnePair(key, value) == <<1, 0, 0, 0>> \o key \o value
One == <<1, 0, 0, 0>>

TruncationTests ==
    \* key_length_past_the_end_is_truncated_key
    /\ Decode(OnePair(<<9, 0, 0, 0>>, <<0, 0, 0, 0>>) \o <<1, 0, 0>>).error = "TruncatedKey"
    \* value_length_past_the_end_is_truncated_value
    /\ Decode(OnePair(One, <<9, 0, 0, 0>>) \o <<1, 0, 2, 0>>).error = "TruncatedValue"
    \* key_terminator_that_is_not_nul_is_rejected
    /\ Decode(OnePair(One, One) \o <<1, 3, 2, 3>>).error = "MissingTerminator"
    \* value_terminator_that_is_not_nul_is_rejected
    /\ Decode(OnePair(One, One) \o <<1, 0, 2, 3>>).error = "MissingTerminator"
    \* bytes_after_the_last_pair_are_rejected
    /\ Decode(Append(D!EncodePairs(<<<<<<1>>, <<2>>>>>>).value, 15)).error = "TrailingBytes"
    \* maximum_key_length_is_truncated_key_without_panic
    /\ Decode(OnePair(<<15, 15, 15, 15>>, <<0, 0, 0, 0>>) \o <<1, 0, 0>>).error = "TruncatedKey"
    \* maximum_count_without_a_table_is_truncated_lengths
    /\ Decode(<<15, 15, 15, 15>>).error = "TruncatedLengths"

EndTests ==
    \* a_last_value_with_no_terminator_is_truncated_value
    /\ Decode(OnePair(One, One) \o <<1, 0, 2>>).error = "TruncatedValue"
    \* a_last_key_with_no_terminator_is_truncated_key
    /\ Decode(OnePair(One, One) \o <<1>>).error = "TruncatedKey"

-----------------------------------------------------------------------------
(***************************************************************************)
(* codec/path.rs                                                           *)
(***************************************************************************)
PathTests ==
    LET foo == <<6, 7, 7>>
        bar == <<2, 1, 8>>
    IN  \* spec_example_encodes_without_a_trailing_byte
        /\ D!EncodePath(<<foo, bar>>) = foo \o <<0>> \o bar
        \* segments_round_trip
        /\ \A path \in {<<>>, <<foo>>, <<<<1>>, <<2>>, <<3>>>>, <<<<1>>, <<>>, <<3>>>>} :
             D!DecodePath(D!EncodePath(path)) = path
        \* one_trailing_nul_is_tolerated
        /\ D!DecodePath(foo \o <<0>> \o bar \o <<0>>) = <<foo, bar>>
        /\ D!DecodePath(foo \o <<0>> \o bar) = <<foo, bar>>
        \* two_trailing_nuls_leave_one_empty_segment
        /\ D!DecodePath(foo \o <<0, 0>>) = <<foo, <<>>>>
        \* empty_input_decodes_to_no_segments
        /\ D!DecodePath(<<>>) = <<>>
        \* trailing_empty_segments_do_not_round_trip
        /\ D!EncodePath(<<<<>>>>) = <<>> /\ D!EncodePath(<<<<>>, <<>>>>) = <<0>>
        /\ D!DecodePath(<<>>) = <<>> /\ D!DecodePath(<<0>>) = <<>>
        \* a_trailing_empty_segment_does_not_survive_the_round_trip
        /\ D!DecodePath(D!EncodePath(<<<<1>>, <<>>>>)) = <<<<1>>>>

-----------------------------------------------------------------------------
(***************************************************************************)
(* header_map.rs: k, a, b and `missing' are keys, the other digits values  *)
(***************************************************************************)
HeaderMapTests ==
    LET k == <<1>>  a == <<2>>  b == <<3>>  missing == <<4, 4>>
        first == <<5, 6>>  second == <<7>>  x == <<8>>  y == <<9>>
    IN  \* get_returns_the_first_value
        /\ D!Get(<<<<k, first>>, <<k, second>>>>, k) = first
        /\ D!Get(<<<<k, first>>, <<k, second>>>>, missing) = "None"
        \* get_all_returns_every_value_in_order
        /\ D!GetAll(<<<<k, first>>, <<a, x>>, <<k, second>>>>, k) = <<first, second>>
        \* get_joined_joins_values_and_is_none_when_absent
        /\ D!GetJoined(<<<<k, a>>, <<k, b>>>>, k, <<13, 14>>) = a \o <<13, 14>> \o b
        /\ D!GetJoined(<<<<k, a>>, <<k, b>>>>, missing, <<13, 14>>) = "None"
        \* add_keeps_the_existing_pair_and_appends
        /\ D!Add(<<<<k, first>>>>, k, second) = <<<<k, first>>, <<k, second>>>>
        \* set_leaves_one_pair_at_the_first_position
        /\ D!Set(<<<<a, x>>, <<k, first>>, <<b, y>>, <<k, second>>>>, k, <<15>>)
              = <<<<a, x>>, <<k, <<15>>>>, <<b, y>>>>
        \* set_on_a_missing_key_appends
        /\ D!Set(<<<<a, x>>>>, k, y) = <<<<a, x>>, <<k, y>>>>
        \* remove_drops_every_pair_for_the_key
        /\ D!Delete(<<<<k, x>>, <<a, x>>, <<k, y>>, <<b, y>>>>, k) = <<<<a, x>>, <<b, y>>>>
        \* remove_of_a_missing_key_is_ok_and_changes_nothing
        /\ D!Delete(<<<<a, x>>>>, missing) = <<<<a, x>>>>
        \* replace_all_takes_the_new_pairs_in_order
        /\ D!ReplacePairs(<<<<k, x>>>>, <<<<b, y>>, <<a, x>>>>) = <<<<b, y>>, <<a, x>>>>

HeaderMapSizeTests ==
    \* keys_that_differ_by_case_are_different_keys
    /\ D!Get(<<<<<<1, 2>>, <<3>>>>>>, <<9, 2>>) = "None"
    /\ D!Get(<<<<<<1, 2>>, <<3>>>>>>, <<1, 2>>) = <<3>>
    \* len_is_empty_and_encoded_size_agree_with_pairs
    /\ D!EncodedSizeOf(<<>>) = 0
    /\ D!EncodedSizeOf(<<<<<<1, 2>>, <<3, 4, 5>>>>, <<<<>>, <<>>>>>>)
          = 4 + (8 + 2 + 1 + 3 + 1) + (8 + 2)
    \* encode_matches_the_codec
    /\ LET map == <<<<<<1>>, <<2>>>>, <<<<>>, <<3>>>>, <<<<1>>, <<4>>>>>>
       IN  D!EncodeMap(map) = D!EncodePairs(map)

-----------------------------------------------------------------------------
(***************************************************************************)
(* buffer.rs                                                               *)
(***************************************************************************)
CopyTests ==
    LET ten == [i \in 1 .. 10 |-> i - 1]
        range(len, start, size) ==
            <<D!ClampRange(len, start, size).start, D!ClampRange(len, start, size).end>>
    IN  \* clamp_range_clamps_start_and_saturates_the_end
        /\ <<range(10, 0, 3), range(10, 4, 2), range(10, 7, 100), range(10, 10, 1),
             range(10, 50, 5), range(10, 3, D!WordMax), range(0, 0, 0)>>
              = <<<<0, 3>>, <<4, 6>>, <<7, 10>>, <<10, 10>>, <<10, 10>>, <<3, 10>>, <<0, 0>>>>
        \* copy_range_clamps_to_the_buffer
        /\ D!CopyRange(ten, 0, 3) = <<0, 1, 2>>
        /\ D!CopyRange(ten, 4, 2) = <<4, 5>>
        /\ D!CopyRange(ten, 7, 100) = <<7, 8, 9>>
        /\ D!CopyRange(ten, 10, 1) = <<>> /\ D!CopyRange(ten, 50, 5) = <<>>
        \* copy_range_into_appends_to_the_output
        /\ <<15>> \o D!CopyRange(<<1, 2, 3, 4, 5, 6>>, 1, 3) = <<15, 2, 3, 4>>
        \* copy_range_on_an_empty_buffer_is_empty
        /\ D!CopyRange(<<>>, 0, 10) = <<>>

ReplaceTests ==
    \* replace_prepends_with_zero_start_and_size
    /\ D!Replace(<<7, 8>>, 0, 0, <<1, 2>>) = <<1, 2, 7, 8>>
    \* replace_appends_when_start_is_at_or_past_the_end
    /\ D!Replace(<<1, 2>>, 2, 0, <<3>>) = <<1, 2, 3>>
    /\ D!Replace(<<1, 2>>, 99, 5, <<3>>) = <<1, 2, 3>>
    \* replace_appends_with_maximum_sizes
    /\ D!Replace(<<1, 2>>, 5, D!WordMax, <<3>>) = <<1, 2, 3>>
    \* replace_injects_with_zero_size_inside_the_buffer
    /\ D!Replace(<<1, 3>>, 1, 0, <<2>>) = <<1, 2, 3>>
    \* replace_swaps_a_middle_range
    /\ D!Replace(<<0, 1, 2, 3, 4, 5, 6, 7, 8, 9>>, 3, 4, <<14, 15>>) = <<0, 1, 2, 14, 15, 7, 8, 9>>
    \* replace_clamps_a_size_past_the_end
    /\ D!Replace(<<0, 1, 2, 3, 4>>, 3, 100, <<15>>) = <<0, 1, 2, 15>>
    \* replace_swaps_the_whole_buffer
    /\ D!Replace(<<1, 2, 3>>, 0, 3, <<4, 5, 6, 7>>) = <<4, 5, 6, 7>>
    \* replace_on_an_empty_buffer_inserts
    /\ D!Replace(<<>>, 3, 3, <<1>>) = <<1>>
    \* vector_works_as_a_trait_object
    /\ LET buffer == D!Replace(<<1, 2, 3>>, 3, 0, <<4>>)
       IN  Len(buffer) = 4 /\ D!CopyRange(buffer, 0, 4) = <<1, 2, 3, 4>>

-----------------------------------------------------------------------------
(***************************************************************************)
(* runtime/memory.rs: a page is 32 bytes                                   *)
(***************************************************************************)
Page == [a \in 0 .. 31 |-> 0]
Slice(ptr, len) == [ptr |-> ptr, len |-> len]

SliceTests ==
    \* guest_slice_rejects_an_overflowing_range_and_accepts_the_rest
    /\ ~D!InRangeOfWord(Slice(D!WordMax, 4)) /\ ~D!InRangeOfWord(Slice(4, D!WordMax))
    /\ D!InRangeOfWord(Slice(D!SignedMax, D!SignedMax))
    /\ ~D!InRangeOfWord(Slice(D!WordMax, 1))
    \* guest_slice_reports_emptiness
    /\ D!Read(Page, Slice(8, 0)) = <<>> /\ D!Read(Page, Slice(8, 1)) = <<0>>
    \* read_and_write_round_trip_at_both_ends
    /\ LET memory == D!Write(D!Write(Page, 0, <<1, 2, 3>>), 29, <<4, 5, 6>>)
       IN  /\ D!Readable(memory, Slice(0, 3)) /\ D!Read(memory, Slice(0, 3)) = <<1, 2, 3>>
           /\ D!Readable(memory, Slice(29, 3)) /\ D!Read(memory, Slice(29, 3)) = <<4, 5, 6>>
           /\ D!Size(memory) = 32
    \* an_empty_slice_at_the_end_is_in_bounds
    /\ D!Readable(Page, Slice(32, 0))
    \* one_byte_past_the_end_is_out_of_bounds
    /\ ~D!Readable(Page, Slice(29, 4))

IntegerTests ==
    \* slice_mut_allows_an_in_place_fill
    /\ D!Write(Page, 4, <<10, 10, 10, 10>>) = [a \in 0 .. 31 |-> IF a \in 4 .. 7 THEN 10 ELSE 0]
    \* integers_are_little_endian
    /\ LET memory == D!WriteLong(D!WriteWord(Page, 0, 1 + 16 * (2 + 16 * (3 + 16 * 4))), 8,
                                 1 + 16 * (2 + 16 * (3 + 16 * (4 + 16 * (5 + 16 * (6 + 16 * 7))))))
       IN  /\ D!ReadWord(memory, 0) = 1 + 16 * (2 + 16 * (3 + 16 * 4))
           /\ D!Read(memory, Slice(0, 16)) = <<1, 2, 3, 4, 0, 0, 0, 0, 1, 2, 3, 4, 5, 6, 7, 0>>
    \* u64_fits_at_the_last_offset_and_not_one_later
    /\ D!HasLong(Page, 24) /\ ~D!HasLong(Page, 25)

-----------------------------------------------------------------------------
(***************************************************************************)
(* types.rs, types/proxy.rs, types/wasi.rs                                 *)
(***************************************************************************)
T == INSTANCE Types

\* `round_trip' gives what is `expected' of the table, which `covers' the enum.
MatchesAbi(enum, variants, values) ==
    /\ \A i \in DOMAIN variants :
         enum[variants[i]] = values[i] /\ T!TryFrom(enum, values[i]) = variants[i]
    /\ Len(variants) = Cardinality(DOMAIN enum)
    /\ DOMAIN enum \subseteq {variants[i] : i \in DOMAIN variants}
RejectsUnknown(enum, values) == \A v \in values : T!TryFrom(enum, v) = "UnknownValue"

StatusTests ==
    \* log_level_matches_the_abi_document, log_level_rejects_unknown_values
    /\ MatchesAbi(T!LogLevel, <<"Trace", "Debug", "Info", "Warn", "Error", "Critical">>,
                  <<0, 1, 2, 3, 4, 5>>)
    /\ RejectsUnknown(T!LogLevel, {-1, 6})
    \* status_matches_the_abi_document, status_rejects_the_gaps_and_out_of_range_values
    /\ MatchesAbi(T!Status,
                  <<"Ok", "NotFound", "BadArgument", "SerializationFailure", "ParseFailure",
                    "InvalidMemoryAccess", "Empty", "CasMismatch", "InternalFailure",
                    "Unimplemented">>, <<0, 1, 2, 3, 4, 6, 7, 8, 10, 12>>)
    /\ RejectsUnknown(T!Status, {-1, 5, 9, 11, 13})
    \* action_matches_the_abi_document, action_rejects_unknown_values
    /\ MatchesAbi(T!Action, <<"Continue", "Pause">>, <<0, 1>>)
    /\ RejectsUnknown(T!Action, {-1, 2})

BufferTypeTests ==
    \* buffer_type_matches_the_abi_document, buffer_type_rejects_unknown_values
    /\ MatchesAbi(T!BufferType,
                  <<"HttpRequestBody", "HttpResponseBody", "DownstreamData", "UpstreamData",
                    "HttpCallResponseBody", "GrpcCallMessage", "VmConfiguration",
                    "PluginConfiguration", "ForeignFunctionArguments">>,
                  <<0, 1, 2, 3, 4, 5, 6, 7, 8>>)
    /\ RejectsUnknown(T!BufferType, {-1, 9})
    \* map_type_matches_the_abi_document, map_type_rejects_unknown_values
    /\ MatchesAbi(T!MapType,
                  <<"HttpRequestHeaders", "HttpRequestTrailers", "HttpResponseHeaders",
                    "HttpResponseTrailers", "GrpcCallInitialMetadata",
                    "GrpcCallTrailingMetadata", "HttpCallResponseHeaders",
                    "HttpCallResponseTrailers">>, <<0, 1, 2, 3, 4, 5, 6, 7>>)
    /\ RejectsUnknown(T!MapType, {-1, 8})

OtherTypeTests ==
    \* peer_type_matches_the_abi_document, peer_type_rejects_unknown_values
    /\ MatchesAbi(T!PeerType, <<"Unknown", "Local", "Remote">>, <<0, 1, 2>>)
    /\ RejectsUnknown(T!PeerType, {-1, 3})
    \* stream_type_matches_the_abi_document, stream_type_rejects_unknown_values
    /\ MatchesAbi(T!StreamType, <<"HttpRequest", "HttpResponse", "Downstream", "Upstream">>,
                  <<0, 1, 2, 3>>)
    /\ RejectsUnknown(T!StreamType, {-1, 4})
    \* metric_type_matches_the_abi_document, metric_type_rejects_unknown_values
    /\ MatchesAbi(T!MetricType, <<"Counter", "Gauge", "Histogram">>, <<0, 1, 2>>)
    /\ RejectsUnknown(T!MetricType, {-1, 3})

WasiTypeTests ==
    \* wasi_errno_matches_the_abi_document, wasi_errno_rejects_unknown_values
    /\ MatchesAbi(T!WasiErrno, <<"Success", "Badf", "Fault", "Inval", "Notsup">>,
                  <<0, 8, 21, 28, 58>>)
    /\ RejectsUnknown(T!WasiErrno, {-1, 1, 59})
    \* wasi_fd_id_matches_the_abi_document, wasi_fd_id_rejects_unknown_values
    /\ MatchesAbi(T!WasiFdId, <<"Stdout", "Stderr">>, <<1, 2>>)
    /\ RejectsUnknown(T!WasiFdId, {-1, 0, 3})
    \* wasi_clock_id_matches_the_abi_document, wasi_clock_id_rejects_unknown_values
    /\ MatchesAbi(T!WasiClockId, <<"Realtime", "Monotonic">>, <<0, 1>>)
    /\ RejectsUnknown(T!WasiClockId, {-1, 2})

\* log_level_orders_from_trace_to_critical
LogLevelOrderTests ==
    LET levels == <<"Trace", "Debug", "Info", "Warn", "Error", "Critical">>
    IN  \A i \in 1 .. 5 : T!LogLevel[levels[i]] < T!LogLevel[levels[i + 1]]

\* The model's operators give what the unit tests of the crate assert.
ASSUME DataTestsPass ==
    /\ PairLimitTests /\ RoundTripTests /\ TwoWalkTests /\ VisitedTests
    /\ TruncationTests /\ EndTests
    /\ PathTests
    /\ HeaderMapTests /\ HeaderMapSizeTests
    /\ CopyTests /\ ReplaceTests
    /\ SliceTests /\ IntegerTests
    /\ StatusTests /\ BufferTypeTests /\ OtherTypeTests /\ WasiTypeTests /\ LogLevelOrderTests
=============================================================================
