-------------------------------- MODULE Types --------------------------------
(***************************************************************************)
(* The enumerations of the ABI (abi/v0_2_1/types.rs, types/proxy.rs,       *)
(* types/wasi.rs): each is the function from its variants to the i32 that  *)
(* crosses the boundary of the guest.                                      *)
(***************************************************************************)
EXTENDS Integers, Sequences, SequencesExt

\* Variants whose values follow each other from zero.
FromZero(variants) == [v \in ToSet(variants) |-> (CHOOSE i \in DOMAIN variants : variants[i] = v) - 1]

LogLevel == FromZero(<<"Trace", "Debug", "Info", "Warn", "Error", "Critical">>)
Status ==
    [Ok |-> 0, NotFound |-> 1, BadArgument |-> 2, SerializationFailure |-> 3,
     ParseFailure |-> 4, InvalidMemoryAccess |-> 6, Empty |-> 7, CasMismatch |-> 8,
     InternalFailure |-> 10, Unimplemented |-> 12]
Action == FromZero(<<"Continue", "Pause">>)
BufferType ==
    FromZero(<<"HttpRequestBody", "HttpResponseBody", "DownstreamData", "UpstreamData",
               "HttpCallResponseBody", "GrpcCallMessage", "VmConfiguration",
               "PluginConfiguration", "ForeignFunctionArguments">>)
MapType ==
    FromZero(<<"HttpRequestHeaders", "HttpRequestTrailers", "HttpResponseHeaders",
               "HttpResponseTrailers", "GrpcCallInitialMetadata", "GrpcCallTrailingMetadata",
               "HttpCallResponseHeaders", "HttpCallResponseTrailers">>)
PeerType == FromZero(<<"Unknown", "Local", "Remote">>)
StreamType == FromZero(<<"HttpRequest", "HttpResponse", "Downstream", "Upstream">>)
MetricType == FromZero(<<"Counter", "Gauge", "Histogram">>)

WasiErrno == [Success |-> 0, Badf |-> 8, Fault |-> 21, Inval |-> 28, Notsup |-> 58]
WasiFdId == [Stdout |-> 1, Stderr |-> 2]
WasiClockId == [Realtime |-> 0, Monotonic |-> 1]

\* TryFrom<i32>.
TryFrom(enum, value) ==
    LET found == {v \in DOMAIN enum : enum[v] = value}
    IN  IF found = {} THEN "UnknownValue" ELSE CHOOSE v \in found : TRUE
=============================================================================
