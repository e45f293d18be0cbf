------------------------------ MODULE HostBodies ------------------------------
(***************************************************************************)
(* The bodies of the host functions up to the point where they ask for     *)
(* what they serve (host_functions and wasi.rs).  A body is a sequence of  *)
(* checks on the guest's arguments, in the order of the code; the first    *)
(* check that fails gives the guest its status.  The arguments of a call   *)
(* are the record                                                          *)
(*   [id, spans, ptrs, start, size]                                        *)
(* of the enumeration value it passes, the ranges and the return pointers  *)
(* by their names, and the two plain numbers of the buffer functions.      *)
(***************************************************************************)
EXTENDS HeaderMaps

CONSTANTS
    MaxNameBytes,       \* Limits::max_name_bytes
    MaxIovecs,          \* MAX_IOVECS
    MaxRandomBytes,     \* MAX_RANDOM_BYTES
    PairLimits,         \* Limits::pair_limits
    RequiredHeaders     \* REQUIRED_HEADERS

Unknown == "Unknown"
Failing ==
    {"NotFound", "BadArgument", "SerializationFailure", "ParseFailure",
     "InvalidMemoryAccess", "Unimplemented", "InternalFailure"}
WasiFailing == {"Badf", "Fault", "Inval", "Notsup"}

-----------------------------------------------------------------------------
(***************************************************************************)
(* Checks.  Each names the argument it is about and the status of a guest  *)
(* that fails it: From<MemoryError>, From<UnknownValue>, From<DecodeError>.*)
(***************************************************************************)
Check(test, arg, status) == [test |-> test, arg |-> arg, status |-> status]

Known == Check("Known", "id", "BadArgument")
Span(arg) == Check("Span", arg, "InvalidMemoryAccess")
Bytes(arg) == Check("Bytes", arg, "InvalidMemoryAccess")
Word(arg) == Check("Word", arg, "InvalidMemoryAccess")
Long(arg) == Check("Long", arg, "InvalidMemoryAccess")
Wanted(arg) == Check("Wanted", arg, "InvalidMemoryAccess")
Name(arg, refusal) == Check("Name", arg, refusal)
Pairs(arg, refusal) == Check("Pairs", arg, refusal)
Required(arg) == Check("Required", arg, "BadArgument")

\* within_name_bytes.
WithinNameBytes(bytes) == ~Exceeds(Len(bytes), MaxNameBytes)

\* guest_pairs: every map of a guest is decoded under the limits.
GuestPairs(bytes) == DecodePairs(bytes, PairLimits)

Holds(check, args, memory) ==
    LET span == args.spans[check.arg]
        ptr == args.ptrs[check.arg]
    IN  CASE check.test = "Known" -> args.id # Unknown
          [] check.test = "Span" -> InRangeOfWord(span)
          [] check.test = "Bytes" -> Inside(memory, span)
          [] check.test = "Word" -> HasWord(memory, ptr)
          [] check.test = "Long" -> HasLong(memory, ptr)
          [] check.test = "Wanted" -> ptr = 0 \/ HasWord(memory, ptr)
          [] check.test = "Name" -> WithinNameBytes(Read(memory, span))
          [] check.test = "Pairs" -> GuestPairs(Read(memory, span)).error = NoError
          [] check.test = "Required" ->
                LET pairs == GuestPairs(Read(memory, span)).value
                IN  \A name \in RequiredHeaders : WithKey(pairs, name) # {}

\* The `?' operators of a body, in their order.
FirstFailure(checks, args, memory) ==
    LET holds[i \in 0 .. Len(checks)] ==
            i = 0 \/ (holds[i - 1] /\ Holds(checks[i], args, memory))
        passed == {i \in DOMAIN checks : holds[i]}
    IN  IF Cardinality(passed) = Len(checks) THEN "Ok"
        ELSE checks[Cardinality(passed) + 1].status

-----------------------------------------------------------------------------
(***************************************************************************)
(* Header maps                                                             *)
(***************************************************************************)
proxy_get_header_map_size == <<Known, Word("size")>>
proxy_get_header_map_pairs == <<Known, Word("data"), Word("size")>>
proxy_set_header_map_pairs ==
    <<Known, Span("pairs"), Bytes("pairs"), Pairs("pairs", "BadArgument")>>
proxy_get_header_map_value ==
    <<Known, Span("key"), Word("data"), Word("size"), Bytes("key")>>
KeyAndValue == <<Known, Span("key"), Span("value"), Bytes("key"), Bytes("value")>>
proxy_add_header_map_value == KeyAndValue
proxy_replace_header_map_value == KeyAndValue
proxy_remove_header_map_value == <<Known, Span("key"), Bytes("key")>>

(***************************************************************************)
(* Buffers                                                                 *)
(***************************************************************************)
proxy_get_buffer_bytes == <<Known, Word("data"), Word("size")>>
proxy_set_buffer_bytes == <<Known, Span("value"), Bytes("value")>>
proxy_get_buffer_status == <<Known, Word("size"), Word("unused")>>

(***************************************************************************)
(* Properties, foreign functions, local responses, stream control          *)
(***************************************************************************)
proxy_get_property ==
    <<Span("path"), Word("data"), Word("size"), Bytes("path"), Name("path", "NotFound")>>
proxy_set_property ==
    <<Span("path"), Span("value"), Bytes("path"), Name("path", "NotFound"), Bytes("value")>>
proxy_call_foreign_function ==
    <<Span("name"), Span("arguments"), Wanted("data"), Wanted("size"),
      Bytes("name"), Bytes("arguments")>>
proxy_send_local_response ==
    <<Span("details"), Span("body"), Span("pairs"), Bytes("details"), Bytes("body"),
      Bytes("pairs"), Pairs("pairs", "BadArgument")>>
proxy_continue_stream == <<Known>>
proxy_close_stream == <<Known>>

(***************************************************************************)
(* Callouts.  The word the identifier goes to is read first, so that the   *)
(* write after the service accepted cannot fail.                           *)
(***************************************************************************)
proxy_http_call ==
    <<Span("upstream"), Span("headers"), Span("body"), Span("trailers"), Word("call"),
      Bytes("upstream"), Bytes("headers"), Pairs("headers", "BadArgument"), Bytes("body"),
      Bytes("trailers"), Pairs("trailers", "BadArgument"), Required("headers")>>
NamesAndMetadata ==
    <<Word("call"), Bytes("upstream"), Bytes("service"), Bytes("method"),
      Bytes("pairs"), Pairs("pairs", "ParseFailure")>>
proxy_grpc_call ==
    <<Span("upstream"), Span("service"), Span("method"), Span("pairs"),
      Span("message")>> \o NamesAndMetadata \o <<Bytes("message")>>
proxy_grpc_stream ==
    <<Span("upstream"), Span("service"), Span("method"), Span("pairs")>>
        \o NamesAndMetadata
proxy_get_status == <<Word("code"), Word("data"), Word("size")>>

(***************************************************************************)
(* Logs, levels, time.  The last two write the word they check.            *)
(***************************************************************************)
proxy_log == <<Known, Span("message"), Bytes("message")>>
proxy_get_log_level == <<Word("level")>>
proxy_get_current_time_nanoseconds == <<Long("time")>>

\* The functions of the table that these bodies serve.  The functions of
\* contexts, open gRPC callouts and the shared services are not here.
Body ==
    [proxy_get_header_map_size |-> proxy_get_header_map_size,
     proxy_get_header_map_pairs |-> proxy_get_header_map_pairs,
     proxy_set_header_map_pairs |-> proxy_set_header_map_pairs,
     proxy_get_header_map_value |-> proxy_get_header_map_value,
     proxy_add_header_map_value |-> proxy_add_header_map_value,
     proxy_replace_header_map_value |-> proxy_replace_header_map_value,
     proxy_remove_header_map_value |-> proxy_remove_header_map_value,
     proxy_get_buffer_bytes |-> proxy_get_buffer_bytes,
     proxy_set_buffer_bytes |-> proxy_set_buffer_bytes,
     proxy_get_buffer_status |-> proxy_get_buffer_status,
     proxy_get_property |-> proxy_get_property,
     proxy_set_property |-> proxy_set_property,
     proxy_call_foreign_function |-> proxy_call_foreign_function,
     proxy_send_local_response |-> proxy_send_local_response,
     proxy_continue_stream |-> proxy_continue_stream,
     proxy_close_stream |-> proxy_close_stream,
     proxy_http_call |-> proxy_http_call,
     proxy_grpc_call |-> proxy_grpc_call,
     proxy_grpc_stream |-> proxy_grpc_stream,
     proxy_get_status |-> proxy_get_status,
     proxy_log |-> proxy_log,
     proxy_get_log_level |-> proxy_get_log_level,
     proxy_get_current_time_nanoseconds |-> proxy_get_current_time_nanoseconds]
HostFunction == DOMAIN Body

\* The names of the ranges and of the pointers a function takes.
SpanNames(f) == {Body[f][i].arg : i \in {j \in DOMAIN Body[f] : Body[f][j].test = "Bytes"}}
PtrNames(f) ==
    {Body[f][i].arg : i \in {j \in DOMAIN Body[f] : Body[f][j].test \in {"Word", "Long", "Wanted"}}}
=============================================================================
