------------------------------ MODULE HostCalls ------------------------------
(***************************************************************************)
(* One callback of a guest as its host functions see it: the guest calls,  *)
(* the host checks the arguments, resolves who answers (the crate from     *)
(* what it holds, or the embedder through the stream state), and writes    *)
(* the result into memory that the guest's own allocator gives it.         *)
(*                                                                         *)
(* The allocator runs the guest again, so a function that returns a value  *)
(* is two steps with guest steps between them: the guest may grow its      *)
(* memory, write to it, call other host functions, return any address, or  *)
(* trap.  `calls' is the stack of functions that wait for the allocator.   *)
(***************************************************************************)
EXTENDS HostBodies

CONSTANTS
    SpansOf(_), PtrsOf(_),  \* the ranges and pointers a guest passes, by name
    Numbers,                \* the start and size arguments of the buffer calls
    Allocations,            \* what the guest's allocator returns
    FirstMemory,            \* the memory of the guest between its calls
    MaxMemory,              \* bound: the addresses the guest grows to
    MaxCalls,               \* bound: the calls of the allocators of one callback
    MaxDepth,               \* bound: the calls that wait for the allocator
    NestedFunctions,        \* bound: the functions an allocator calls
    Places,                 \* bound: where the callbacks run
    Held,                   \* what the embedder's stream may hold at first
    Values,                 \* what the embedder answers for a property or a function
    Payloads,               \* what a delivery holds
    Configuration,          \* the vm, plugin, environment, clock and log level values
    MaxLogBytes,            \* Limits::max_log_bytes
    MaxOpened,              \* bound: the callouts of one callback
    MaxMapPairs, MaxBuffer  \* bounds: the pairs and bytes the embedder holds

\* What the embedder gives a VM and a plugin.  The values of the shared services
\* and of the callouts are in other modules.
VmServices(c) ==
    /\ c.vm \in Seq(Byte) /\ c.vm_id \in Seq(Byte)
    /\ c.level \in 0 .. 5
    /\ \A clock \in {"Realtime", "Monotonic"} : c.time[clock] \in 0 .. Power[2 * WordBytes] - 1
    /\ c.environment \in Seq(Seq(Byte))
PluginConfig(c) == {c.plugin, c.name, c.root_id} \subseteq Seq(Byte)

ASSUME ConfigurationAssumption == VmServices(Configuration) /\ PluginConfig(Configuration)

\* Every argument is a u32, and a range is two of them.
ASSUME ArgumentsAssumption ==
    /\ \A f \in HostFunction :
          /\ \A n \in SpanNames(f) : SpansOf(n) \subseteq GuestSlice
          /\ \A n \in PtrNames(f) : PtrsOf(n) \subseteq GuestPtr
    /\ Numbers \subseteq GuestPtr /\ Allocations \subseteq GuestPtr

\* What the embedder holds and answers is bytes.
ASSUME EmbedderAssumption ==
    /\ Held \subseteq [map : Seq(Pair), buffer : Seq(Byte)]
    /\ Values \subseteq Seq(Byte)
    /\ Payloads \in [map : Seq(Pair), trailers : Seq(Pair), bytes : Seq(Byte), code : GuestPtr]

ASSUME BoundsAssumption ==
    /\ Memories(FirstMemory) /\ MaxMemory \in 0 .. WordMax + 1
    /\ MaxCalls \in Nat /\ MaxDepth \in Nat \ {0} /\ MaxOpened \in Nat
    /\ MaxLogBytes \in Nat \cup {NoLimit}

VARIABLES
    memory,     \* the linear memory
    calls,      \* the functions that wait for the allocator
    last,       \* the answer the guest has just received
    held,       \* the map and the buffer of the stream state
    told,       \* what the embedder accepted in the last call, other than a write to them
    opened,     \* the callouts that the guest opened in this callback
    logged,     \* the message the sink received last
    asked,      \* what the embedder was asked for by the last step
    here,       \* where the callback runs
    made,       \* the calls of the allocators that returned
    poisoned    \* HostState.poisoned

vars == <<memory, calls, last, held, told, opened, logged, asked, here, made, poisoned>>

-----------------------------------------------------------------------------
(***************************************************************************)
(* Where a callback runs                                                   *)
(***************************************************************************)
\* A delivery is the callback whose payload it holds.
PayloadKind ==
    {"HttpCallResponse", "GrpcInitialMetadata", "GrpcMessage", "GrpcTrailingMetadata",
     "GrpcClose", "ForeignArguments"}
NoPayload == "NoPayload"

\* `context' is whether an effective context exists and its root is accepted,
\* `plugin' whether that root has its configuration, `callback' whether a
\* callback runs, `stream' whether a scope lends a stream state.
Here ==
    [context : {"None", "Refused", "Accepted"}, plugin : BOOLEAN, callback : BOOLEAN,
     stream : BOOLEAN, delivery : PayloadKind \cup {NoPayload}]

\* The context table: a plugin belongs to a context, a delivery to a callback
\* on an accepted context.
PossiblePlace(h) ==
    /\ h.plugin => h.context # "None"
    /\ h.delivery # NoPayload => h.callback /\ h.context = "Accepted"
    /\ h.callback => h.context # "None"

ASSUME PlacesAssumption == \A h \in Places : h \in Here /\ PossiblePlace(h)

Accepted == here.context = "Accepted"
WithStream == Accepted /\ here.stream

(***************************************************************************)
(* Answers                                                                 *)
(***************************************************************************)
NoAnswer ==
    [fn |-> "None", status |-> "None", data |-> Absent, size |-> Absent, value |-> <<>>,
     address |-> 0, others |-> <<>>]
Answer(fn, status) == [NoAnswer EXCEPT !.fn = fn, !.status = status]

NoLog == [level |-> "None", message |-> <<>>, sent |-> <<>>, call |-> FALSE, plugin |-> FALSE]
Request(f, bytes, maps) == [fn |-> f, bytes |-> bytes, maps |-> maps]
Nothing == Request("None", <<>>, <<>>)
WordAt(ptr, value) == <<ptr, LittleEndian(value, WordBytes)>>
LongAt(ptr, value) == <<ptr, LittleEndian(value, 2 * WordBytes)>>
Nobody == [fn |-> "None", id |-> "None"]

\* What a body does once its checks passed: `value' is returned in memory of
\* the guest's allocator, `writes' are done with no allocation, `after' follow
\* a value.  A write is an address and its bytes.
Outcome ==
    [status |-> "Ok", writes |-> <<>>, value |-> Absent, after |-> <<>>, held |-> held,
     told |-> Nothing, opens |-> FALSE, ask |-> FALSE, message |-> Absent]
Fails(status) == [Outcome EXCEPT !.status = status]
Asks(outcome) == [outcome EXCEPT !.ask = TRUE]

\* Mutant: a refusal with OK is passed on.
FromEmbedderUnchecked(status) == Asks(Fails(status))

\* from_embedder: a refusal with OK becomes a failure.
FromEmbedder(status) ==
    Asks(Fails(IF status = "Ok" THEN "InternalFailure" ELSE status))

\* The default body of a method of StreamState, by its status.
Unserved(method) ==
    CASE method = "header_map" -> "BadArgument"
      [] method \in {"continue_stream", "close_stream", "send_local_response"} -> "Unimplemented"
      [] OTHER -> "NotFound"

\* What an embedder that refuses reports.
Refusals(method) == {FromEmbedder(status) : status \in {"Ok", "NotFound", Unserved(method)}}

\* with_stream: `absent' without an accepted context or a stream state.
AskStream(method, answers) ==
    IF WithStream THEN Refusals(method) \cup {Asks(o) : o \in answers}
    ELSE {Fails(Unserved(method))}

-----------------------------------------------------------------------------
(***************************************************************************)
(* Header maps: served and map of header_map.rs                            *)
(***************************************************************************)
DeliveredMap ==
    {"HttpCallResponseHeaders", "HttpCallResponseTrailers", "GrpcCallInitialMetadata",
     "GrpcCallTrailingMetadata"}
MapType == {"HttpRequestHeaders"} \cup DeliveredMap

\* Delivery::map_mut.
MapOf(map_type) ==
    CASE here.delivery = "HttpCallResponse" /\ map_type = "HttpCallResponseHeaders" -> Payloads.map
      [] here.delivery = "HttpCallResponse" /\ map_type = "HttpCallResponseTrailers" -> Payloads.trailers
      [] here.delivery = "GrpcInitialMetadata" /\ map_type = "GrpcCallInitialMetadata" -> Payloads.map
      [] here.delivery = "GrpcTrailingMetadata" /\ map_type = "GrpcCallTrailingMetadata" -> Payloads.map
      [] OTHER -> Absent

\* A read of a map, and the answer once it is found.
MapRead(map_type) == IF map_type \in DeliveredMap THEN MapOf(map_type) ELSE held.map
ReadMap(map_type, answer) ==
    IF map_type \in DeliveredMap
    THEN {IF MapOf(map_type) = Absent THEN Fails("BadArgument") ELSE answer}
    ELSE AskStream("header_map", {answer})

\* Mutant: a write that asks the embedder whatever map it is for.
WriteMapAnywhere(map_type, written) ==
    AskStream("header_map",
        {Fails("BadArgument"), [Outcome EXCEPT !.held.map = written]})

\* A write to a delivered map is refused before anyone is asked; the embedder
\* may refuse one to its own map with NotAllowed.
WriteMap(map_type, written) ==
    IF map_type \in DeliveredMap THEN {Fails("BadArgument")}
    ELSE AskStream("header_map",
             {Fails("BadArgument"), [Outcome EXCEPT !.held.map = written]})

Returns(value) == [Outcome EXCEPT !.value = value]
ReturnsMap(map) ==
    LET encoded == EncodeMap(map) IN
    IF encoded.error = NoError THEN Returns(encoded.value) ELSE Fails("SerializationFailure")

HeaderMapOutcomes(f, a) ==
    LET bytes(arg) == Read(memory, a.spans[arg])
        sized(map) ==
            IF EncodedSizeOf(map) > WordMax THEN Fails("InternalFailure")
            ELSE [Outcome EXCEPT !.writes = <<WordAt(a.ptrs["size"], EncodedSizeOf(map))>>]
        valued(map) ==
            IF Get(map, bytes("key")) = Absent THEN Fails("NotFound")
            ELSE Returns(Get(map, bytes("key")))
    IN  CASE f = "proxy_get_header_map_size" -> ReadMap(a.id, sized(MapRead(a.id)))
          [] f = "proxy_get_header_map_pairs" -> ReadMap(a.id, ReturnsMap(MapRead(a.id)))
          [] f = "proxy_get_header_map_value" -> ReadMap(a.id, valued(MapRead(a.id)))
          [] f = "proxy_set_header_map_pairs" ->
                WriteMap(a.id, ReplacePairs(held.map, GuestPairs(bytes("pairs")).value))
          [] f = "proxy_add_header_map_value" ->
                WriteMap(a.id, Add(held.map, bytes("key"), bytes("value")))
          [] f = "proxy_replace_header_map_value" ->
                WriteMap(a.id, Set(held.map, bytes("key"), bytes("value")))
          [] f = "proxy_remove_header_map_value" ->
                WriteMap(a.id, Delete(held.map, bytes("key")))

-----------------------------------------------------------------------------
(***************************************************************************)
(* Buffers: read_buffer and write_buffer of buffer.rs                      *)
(***************************************************************************)
DeliveredBuffer == {"HttpCallResponseBody", "GrpcCallMessage", "ForeignFunctionArguments"}
CrateBuffer == {"VmConfiguration", "PluginConfiguration"} \cup DeliveredBuffer
BufferType == {"HttpRequestBody"} \cup CrateBuffer

\* Delivery::buffer.
BufferOf(buffer_type) ==
    CASE here.delivery = "HttpCallResponse" /\ buffer_type = "HttpCallResponseBody" -> Payloads.bytes
      [] here.delivery = "GrpcMessage" /\ buffer_type = "GrpcCallMessage" -> Payloads.bytes
      [] here.delivery = "ForeignArguments" /\ buffer_type = "ForeignFunctionArguments" -> Payloads.bytes
      [] OTHER -> Absent

\* The plugin of the effective context, which a refused root does not have.
PluginOf(value) == IF Accepted /\ here.plugin THEN value ELSE Absent

CrateBytes(buffer_type) ==
    CASE buffer_type = "VmConfiguration" -> Configuration.vm
      [] buffer_type = "PluginConfiguration" -> PluginOf(Configuration.plugin)
      [] OTHER -> BufferOf(buffer_type)

Source(buffer_type) ==
    IF buffer_type \in CrateBuffer THEN CrateBytes(buffer_type) ELSE held.buffer
ReadBuffer(buffer_type, answer) ==
    IF buffer_type \in CrateBuffer
    THEN {IF CrateBytes(buffer_type) = Absent THEN Fails("NotFound") ELSE answer}
    ELSE AskStream("buffer", {answer})

\* `refused' gives NOT_FOUND where a map write gives BAD_ARGUMENT.
WriteBuffer(buffer_type, written) ==
    IF buffer_type \in CrateBuffer THEN {Fails("NotFound")}
    ELSE AskStream("buffer",
             {Fails("NotFound"), [Outcome EXCEPT !.held.buffer = written]})

BufferOutcomes(f, a) ==
    LET copied(bytes) ==
            IF a.start > Len(bytes) THEN Fails("BadArgument")
            ELSE Returns(CopyRange(bytes, a.start, a.size))
        sized(bytes) ==
            IF Len(bytes) > WordMax THEN Fails("InternalFailure")
            ELSE [Outcome EXCEPT !.writes = <<WordAt(a.ptrs["size"], Len(bytes)),
                                              WordAt(a.ptrs["unused"], 0)>>]
    IN  CASE f = "proxy_get_buffer_bytes" -> ReadBuffer(a.id, copied(Source(a.id)))
          [] f = "proxy_get_buffer_status" -> ReadBuffer(a.id, sized(Source(a.id)))
          [] f = "proxy_set_buffer_bytes" ->
                WriteBuffer(a.id, Replace(held.buffer, a.start, a.size,
                                          Read(memory, a.spans["value"])))

-----------------------------------------------------------------------------
(***************************************************************************)
(* Properties: served and well_known of property.rs                        *)
(***************************************************************************)
WellKnown == {Configuration.names[n] : n \in {"name", "root_id", "vm_id"}}

WellKnownValue(segment) ==
    CASE segment = Configuration.names.vm_id -> Configuration.vm_id
      [] segment = Configuration.names.name -> PluginOf(Configuration.name)
      [] segment = Configuration.names.root_id -> PluginOf(Configuration.root_id)

\* Only a path of one segment is one of the three.
ServedProperty(path) == Len(path) = 1 /\ path[1] \in WellKnown

PropertyOutcomes(f, a) ==
    LET path == DecodePath(Read(memory, a.spans["path"])) IN
    IF f = "proxy_get_property"
    THEN IF ServedProperty(path)
         THEN {IF WellKnownValue(path[1]) = Absent THEN Fails("NotFound")
               ELSE Returns(WellKnownValue(path[1]))}
         ELSE AskStream("property", {Returns(v) : v \in Values})
    ELSE IF ServedProperty(path) THEN {Fails("NotFound")}
         ELSE AskStream("set_property",
                 {[Outcome EXCEPT !.told =
                     Request(f, Append(path, Read(memory, a.spans["value"])), <<>>)]})

-----------------------------------------------------------------------------
(***************************************************************************)
(* The other functions                                                     *)
(***************************************************************************)
\* A refused foreign call writes an empty result before it reports the refusal.
ForeignOutcomes(f, a) ==
    LET request == Request(f, <<Read(memory, a.spans["name"]), Read(memory, a.spans["arguments"])>>, <<>>)
    IN  {IF o.ask /\ o.status # "Ok" THEN [o EXCEPT !.value = <<>>] ELSE o :
            o \in AskStream("call_foreign_function",
                            {[Returns(v) EXCEPT !.told = request] : v \in Values})}

\* What the embedder receives: the byte strings and the maps of the request.
Parts(a, names, maps) ==
    <<[i \in DOMAIN names |-> Read(memory, a.spans[names[i]])],
      [i \in DOMAIN maps |-> GuestPairs(Read(memory, a.spans[maps[i]])).value]>>
LocalResponse(a) == Parts(a, <<"details", "body">>, <<"pairs">>)
HttpCall(a) == Parts(a, <<"upstream", "body">>, <<"headers", "trailers">>)
GrpcStream(a) == Parts(a, <<"upstream", "service", "method">>, <<"pairs">>)
GrpcCall(a) == Parts(a, <<"upstream", "service", "method", "message">>, <<"pairs">>)

\* HttpCallRefusal and GrpcOpenRefusal: an unknown upstream and a failure.
CalloutRefusal(f) ==
    {IF f = "proxy_http_call" THEN "BadArgument" ELSE "ParseFailure", "InternalFailure"}

RequestOf(f, a) ==
    LET parts == CASE f = "proxy_http_call" -> HttpCall(a)
                   [] f = "proxy_grpc_call" -> GrpcCall(a)
                   [] f = "proxy_grpc_stream" -> GrpcStream(a)
                   [] f = "proxy_send_local_response" -> LocalResponse(a)
                   [] OTHER -> <<<<>>, <<>>>>
    IN  Request(f, parts[1], parts[2])

StreamOutcomes(f, a) ==
    AskStream(CASE f = "proxy_continue_stream" -> "continue_stream"
                [] f = "proxy_close_stream" -> "close_stream"
                [] OTHER -> "send_local_response",
              {[Outcome EXCEPT !.told = RequestOf(f, a)]})

\* open_callout: the service decides, and the identifier is written after it.
\* Guest.tla has its table, its deletion and its maximum.
OpenOutcomes(f, a) ==
    IF ~Accepted THEN {Fails("InternalFailure")}
    ELSE {Asks(Fails(s)) : s \in CalloutRefusal(f)}
             \cup {Asks([Outcome EXCEPT !.opens = TRUE, !.told = RequestOf(f, a),
                                        !.writes = <<WordAt(a.ptrs["call"], opened + 1)>>])}

\* Delivery::status: a close has a status, a foreign call has none.
StatusOutcomes(a) ==
    CASE here.delivery \in {NoPayload, "ForeignArguments"} -> {Fails("NotFound")}
      [] here.delivery = "GrpcClose" ->
            {[Returns(Payloads.bytes) EXCEPT !.after = <<WordAt(a.ptrs["code"], Payloads.code)>>]}
      [] OTHER -> {[Returns(<<>>) EXCEPT !.after = <<WordAt(a.ptrs["code"], 0)>>]}

\* Mutant: a cut that leaves one byte too many.
CutToLate(message, max) ==
    IF Exceeds(Len(message), max + 1) THEN SubSeq(message, 1, max + 1) ELSE message

\* within_limit of log.rs.
CutTo(message, max) ==
    IF Exceeds(Len(message), max) THEN SubSeq(message, 1, max) ELSE message

\* log_context: the call of a running callback, and the plugin of its root.
LogContext(level, message, sent) ==
    LET call == here.callback /\ here.context # "None"
    IN  [level |-> level, message |-> message, sent |-> sent,
         call |-> call, plugin |-> call /\ here.plugin]

LogOutcomes(a) ==
    LET sent == Read(memory, a.spans["message"])
    IN  {[Outcome EXCEPT !.message = LogContext(a.id, CutTo(sent, MaxLogBytes), sent)]}

OutcomesOf(f, a) ==
    CASE f \in {"proxy_get_header_map_size", "proxy_get_header_map_pairs",
                "proxy_set_header_map_pairs", "proxy_get_header_map_value",
                "proxy_add_header_map_value", "proxy_replace_header_map_value",
                "proxy_remove_header_map_value"} -> HeaderMapOutcomes(f, a)
      [] f \in {"proxy_get_buffer_bytes", "proxy_set_buffer_bytes",
                "proxy_get_buffer_status"} -> BufferOutcomes(f, a)
      [] f \in {"proxy_get_property", "proxy_set_property"} -> PropertyOutcomes(f, a)
      [] f = "proxy_call_foreign_function" -> ForeignOutcomes(f, a)
      [] f \in {"proxy_send_local_response", "proxy_continue_stream",
                "proxy_close_stream"} -> StreamOutcomes(f, a)
      [] f \in {"proxy_http_call", "proxy_grpc_call", "proxy_grpc_stream"} -> OpenOutcomes(f, a)
      [] f = "proxy_get_status" -> StatusOutcomes(a)
      [] f = "proxy_log" -> LogOutcomes(a)
      [] f = "proxy_get_log_level" ->
            {[Outcome EXCEPT !.writes = <<WordAt(a.ptrs["level"], Configuration.level)>>]}
      [] f = "proxy_get_current_time_nanoseconds" ->
            {[Outcome EXCEPT !.writes = <<LongAt(a.ptrs["time"], Configuration.time["Realtime"])>>]}

-----------------------------------------------------------------------------
(***************************************************************************)
(* Returning a value (runtime/alloc.rs)                                    *)
(***************************************************************************)
WriteAll(m, writes) == FoldLeft(LAMBDA n, w : Write(n, w[1], w[2]), m, writes)

\* A function that waits for its allocation.  `data' is Absent where the guest
\* wants no value and `size' where it wants no length.
Frame(f, a, o) ==
    LET slot(name) ==
            IF f = "proxy_call_foreign_function" /\ a.ptrs[name] = 0 THEN Absent
            ELSE a.ptrs[name]
    IN  [fn |-> f, data |-> slot("data"), size |-> slot("size"), value |-> o.value,
         after |-> o.after, status |-> o.status]

\* The writes of write_optional_return, once the value has its address.
ReturnWrites(frame, address) ==
    (IF frame.data = Absent THEN <<>>
     ELSE <<<<address, frame.value>>, WordAt(frame.data, address)>>)
    \o (IF frame.size = Absent THEN <<>> ELSE <<WordAt(frame.size, Len(frame.value))>>)
    \o frame.after

\* An empty value, and one the guest does not want, need no allocation.
NeedsAllocation(frame) == frame.data # Absent /\ frame.value # <<>>

Delivered(frame, address) ==
    [fn |-> frame.fn, status |-> frame.status, data |-> frame.data, size |-> frame.size,
     value |-> frame.value, address |-> address, others |-> frame.after]

Complete(frame, address) ==
    /\ memory' = WriteAll(memory, ReturnWrites(frame, address))
    /\ last' = Delivered(frame, address)

\* Mutant: the length is written before the allocator runs.
BeginReturnEager(frame) ==
    /\ calls' = Append(calls, frame)
    /\ memory' = IF frame.size = Absent THEN memory
                 ELSE WriteWord(memory, frame.size, Len(frame.value))
    /\ UNCHANGED last

\* A value above i32::MAX bytes has no allocation, and the length of one that
\* the guest does not want must still fit in its word.
TooLarge(frame) ==
    IF NeedsAllocation(frame) THEN Len(frame.value) > SignedMax
    ELSE frame.data = Absent /\ frame.size # Absent /\ Len(frame.value) > WordMax

BeginReturn(frame) ==
    \/ /\ ~NeedsAllocation(frame) /\ ~TooLarge(frame)
       /\ Complete(frame, 0)
       /\ UNCHANGED calls
    \/ /\ TooLarge(frame)
       /\ last' = Answer(frame.fn, "InternalFailure")
       /\ UNCHANGED <<calls, memory>>
    \/ /\ NeedsAllocation(frame) /\ ~TooLarge(frame)
       /\ calls' = Append(calls, frame)
       /\ UNCHANGED <<memory, last>>

\* allocate and write_to_guest against the memory as it is after the call.
Allocated(frame, address) ==
    IF address = 0 THEN "InternalFailure"
    ELSE IF ~Readable(memory, [ptr |-> address, len |-> Len(frame.value)])
    THEN "InvalidMemoryAccess"
    ELSE "Ok"

AllocatorReturns(address) ==
    LET frame == Last(calls) IN
    /\ calls # <<>> /\ last = NoAnswer
    /\ calls' = Front(calls)
    /\ IF Allocated(frame, address) = "Ok" THEN Complete(frame, address)
       ELSE last' = Answer(frame.fn, Allocated(frame, address)) /\ UNCHANGED memory
    /\ asked' = Nobody
    /\ UNCHANGED <<held, told, opened, logged, here, made, poisoned>>

-----------------------------------------------------------------------------
(***************************************************************************)
(* Steps                                                                   *)
(***************************************************************************)
IdsOf(f) ==
    IF Body[f][1] # Known THEN {"None"}
    ELSE {Unknown} \cup
         CASE f \in {"proxy_get_buffer_bytes", "proxy_set_buffer_bytes",
                     "proxy_get_buffer_status"} -> BufferType
           [] f \in {"proxy_continue_stream", "proxy_close_stream", "proxy_log"} -> {"Known"}
           [] OTHER -> MapType

NumbersOf(f) ==
    IF f \in {"proxy_get_buffer_bytes", "proxy_set_buffer_bytes"} THEN Numbers ELSE {0}

Args == [f \in HostFunction |->
    [id : IdsOf(f), start : NumbersOf(f), size : NumbersOf(f),
     spans : {s \in [SpanNames(f) -> UNION {SpansOf(n) : n \in SpanNames(f)}] :
                \A n \in SpanNames(f) : s[n] \in SpansOf(n)},
     ptrs : {p \in [PtrNames(f) -> UNION {PtrsOf(n) : n \in PtrNames(f)}] :
                \A n \in PtrNames(f) : p[n] \in PtrsOf(n)}]]

Init ==
    /\ memory = FirstMemory
    /\ calls = <<>>
    /\ last = NoAnswer
    /\ held \in Held
    /\ told = Nothing
    /\ opened = 0
    /\ logged = NoLog
    /\ asked = Nobody
    /\ here \in Places
    /\ made = 0
    /\ poisoned = FALSE

MayCall(f) ==
    /\ ~poisoned
    /\ last = NoAnswer
    /\ made < MaxCalls
    /\ calls = <<>> \/ (Len(calls) < MaxDepth /\ f \in NestedFunctions)

\* A body that its checks do not end.
Outcomes(f, a) ==
    LET failure == FirstFailure(Body[f], a, memory)
    IN  IF failure = "Ok" THEN OutcomesOf(f, a) ELSE {Fails(failure)}

\* A host function, up to its answer or to the allocation it waits for.
Call(f, a) ==
    /\ \E o \in Outcomes(f, a) :
          /\ Len(o.held.map) <= MaxMapPairs /\ Len(o.held.buffer) <= MaxBuffer
          /\ o.opens => opened < MaxOpened
          /\ held' = o.held
          /\ told' = o.told
          /\ opened' = IF o.opens THEN opened + 1 ELSE opened
          /\ logged' = IF o.message = Absent THEN logged ELSE o.message
          /\ asked' = IF o.ask THEN [fn |-> f, id |-> a.id] ELSE Nobody
          /\ IF o.value = Absent
             THEN /\ memory' = IF o.status = "Ok" THEN WriteAll(memory, o.writes) ELSE memory
                  /\ last' = Answer(f, o.status)
                  /\ UNCHANGED calls
             ELSE BeginReturn(Frame(f, a, o))
          /\ UNCHANGED <<here, made, poisoned>>

\* The guest takes an answer inside its allocator and goes on.
Resume ==
    /\ last # NoAnswer /\ calls # <<>>
    /\ last' = NoAnswer
    /\ made' = made + 1
    /\ told' = Nothing /\ asked' = Nobody /\ logged' = NoLog
    /\ UNCHANGED <<memory, calls, held, opened, here, poisoned>>

\* The callback ends, and a guest runs the next one.
NextGuest ==
    /\ calls = <<>> /\ (poisoned \/ last # NoAnswer)
    /\ memory' = FirstMemory /\ calls' = <<>> /\ last' = NoAnswer
    /\ held' \in Held /\ told' = Nothing /\ opened' = 0 /\ logged' = NoLog
    /\ asked' = Nobody /\ made' = 0 /\ poisoned' = FALSE
    /\ here' \in Places

\* The guest grows its memory while the host waits.
Grow ==
    /\ calls # <<>> /\ last = NoAnswer
    /\ Size(memory) < MaxMemory
    /\ memory' = Grown(memory, MaxMemory - Size(memory))
    /\ UNCHANGED <<calls, last, held, told, opened, logged, asked, here, made, poisoned>>

\* The allocator traps, or calls proc_exit: every waiting call unwinds.
AllocatorTraps ==
    /\ calls # <<>> /\ last = NoAnswer
    /\ poisoned' = TRUE
    /\ calls' = <<>>
    /\ UNCHANGED <<memory, last, held, told, opened, logged, asked, here, made>>

Next ==
    \/ \E f \in HostFunction : MayCall(f) /\ \E a \in Args[f] : Call(f, a)
    \/ \E address \in Allocations : AllocatorReturns(address)
    \/ AllocatorTraps
    \/ Grow
    \/ Resume
    \/ NextGuest

Spec == Init /\ [][Next]_vars

-----------------------------------------------------------------------------
(***************************************************************************)
(* Properties                                                              *)
(***************************************************************************)
TypeOK ==
    /\ Memories(memory)
    /\ Len(calls) <= MaxDepth
    /\ last.status \in Failing \cup WasiFailing \cup {"Ok", "None"}
    /\ here \in Here /\ PossiblePlace(here)
    /\ opened \in 0 .. MaxOpened
    /\ poisoned \in BOOLEAN

\* The functions that answer OK only for something the embedder did.
Effects ==
    {"proxy_set_property", "proxy_continue_stream", "proxy_close_stream",
     "proxy_send_local_response", "proxy_http_call", "proxy_grpc_call",
     "proxy_grpc_stream"}

Span4(ptr) == ptr .. ptr + WordBytes - 1
Apart(ranges) ==
    \A i, j \in DOMAIN ranges : i # j => ranges[i] \cap ranges[j] = {}

\* An OK is true (alloc.rs, failure.rs, call.rs).  When the guest gave places
\* that do not overlap, it finds there the address, the length and every byte
\* of the value that was answered, whatever its allocator did meanwhile: grow
\* the memory, or call the host again.  And a function whose work the embedder
\* does never answers OK for work the embedder refused.
OkMeansDone ==
    last.status = "Ok" =>
        LET data == IF last.data = Absent THEN {} ELSE Span4(last.data)
            size == IF last.size = Absent THEN {} ELSE Span4(last.size)
            bytes == IF last.data = Absent THEN {}
                     ELSE last.address .. last.address + Len(last.value) - 1
            others == UNION {Span4(last.others[i][1]) : i \in DOMAIN last.others}
        IN  /\ Apart(<<data, size, bytes, others>>) =>
                 /\ last.data # Absent =>
                      /\ ReadWord(memory, last.data) = last.address
                      /\ Read(memory, [ptr |-> last.address, len |-> Len(last.value)])
                            = last.value
                 /\ last.size # Absent =>
                      ReadWord(memory, last.size) = Least(Len(last.value), WordMax)
                 /\ \A i \in DOMAIN last.others :
                      Read(memory, WordSlice(last.others[i][1])) = last.others[i][2]
            /\ last.fn \in Effects => told.fn = last.fn

\* The functions whose failure is seen in memory: a refused foreign call zeroes
\* what the guest asked for, and these WASI functions write one value before
\* they check the address of the next.
Partial ==
    {"proxy_call_foreign_function", "environ_sizes_get", "environ_get", "args_sizes_get",
     "random_get"}

\* A call that fails has no effect (callout.rs, alloc.rs): the guest's memory,
\* what the embedder holds, the callouts that are open are what they were, and
\* nothing is written while the allocator runs.
FailedCallHasNoEffect ==
    [][/\ last' # last /\ last'.status \in Failing \cup WasiFailing
           /\ last'.fn \notin Partial
           => /\ memory' = memory /\ held' = held /\ opened' = opened
              /\ told'.fn = "None"
       /\ Len(calls') > Len(calls) => memory' = memory]_vars

\* The embedder is asked last (served.rs, call.rs): only for an accepted root,
\* only through a stream that is lent, never for a resource of the crate in
\* either direction, and never by a call whose addresses are bad.
EmbedderAskedLast ==
    asked.fn # "None" =>
        /\ Accepted
        /\ asked.fn \notin {"proxy_http_call", "proxy_grpc_call", "proxy_grpc_stream"}
                => here.stream
        /\ asked.id \notin DeliveredMap \cup CrateBuffer
        /\ last.status # "InvalidMemoryAccess"

\* A log line is what the guest wrote, cut to the embedder's limit (log.rs,
\* wasi.rs fd_write), and names a plugin only within a call.
LogIsPrefix ==
    /\ IsPrefix(logged.message, logged.sent)
    /\ ~Exceeds(Len(logged.message), MaxLogBytes)
    /\ logged.plugin => logged.call /\ here.context # "None"
=============================================================================
