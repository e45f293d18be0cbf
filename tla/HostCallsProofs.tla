--------------------------- MODULE HostCallsProofs ---------------------------
(***************************************************************************)
(* Proofs about the calls of a guest (HostCalls, Wasi).                    *)
(***************************************************************************)
EXTENDS Wasi, FormatsProofs

-----------------------------------------------------------------------------
(***************************************************************************)
(* What a body may do, for every function and every argument               *)
(***************************************************************************)
Foreign == "proxy_call_foreign_function"
Opening == {"proxy_http_call", "proxy_grpc_call", "proxy_grpc_stream"}
OfTheCrate == DeliveredMap \cup CrateBuffer

IsOutcome(o) == DOMAIN o = DOMAIN Outcome

\* A failure changes nothing, and neither does a value until it is delivered,
\* but for the foreign function, whose call the embedder has then served.
Careful(o, f) ==
    /\ o.status # "Ok" => o.held = held /\ o.told = Nothing /\ ~o.opens
    /\ o.value # Absent =>
          /\ o.held = held /\ ~o.opens
          /\ f # Foreign => o.status = "Ok" /\ o.told = Nothing

\* What the embedder answers, before it is marked as asked.
GoodAnswer(o, f) ==
    IsOutcome(o) /\ Careful(o, f) /\ ~o.ask /\ o.status # "InvalidMemoryAccess"

MayAsk(f, id) == Accepted /\ (f \notin Opening => here.stream) /\ id \notin OfTheCrate

GoodOutcome(o, f, id) ==
    /\ IsOutcome(o) /\ Careful(o, f)
    /\ o.ask => MayAsk(f, id) /\ o.status # "InvalidMemoryAccess"

LEMMA OutcomeFields ==
    /\ DOMAIN Outcome = {"status", "writes", "value", "after", "held", "told", "opens", "ask", "message"}
    /\ Outcome.status = "Ok" /\ Outcome.value = Absent /\ Outcome.held = held
    /\ Outcome.told = Nothing /\ Outcome.opens = FALSE /\ Outcome.ask = FALSE
    /\ Outcome.message = Absent
    BY DEF Outcome

LEMMA FailsGood ==
    ASSUME NEW status, NEW f, NEW id
    PROVE  /\ GoodOutcome(Fails(status), f, id)
           /\ status # "InvalidMemoryAccess" => GoodAnswer(Fails(status), f)
    BY OutcomeFields DEF GoodOutcome, GoodAnswer, Fails, IsOutcome, Careful

\* An answer that keeps what is held and says OK.
LEMMA ReturnsGood ==
    ASSUME NEW value, NEW f, NEW id
    PROVE  GoodAnswer(Returns(value), f) /\ GoodOutcome(Returns(value), f, id)
    BY OutcomeFields DEF GoodAnswer, GoodOutcome, Returns, IsOutcome, Careful

LEMMA AskedGood ==
    ASSUME NEW o, NEW f, NEW id, GoodAnswer(o, f), MayAsk(f, id)
    PROVE  GoodOutcome(Asks(o), f, id)
    BY OutcomeFields DEF GoodAnswer, GoodOutcome, Asks, IsOutcome, Careful

LEMMA AskStreamGood ==
    ASSUME NEW method, NEW answers, NEW f, NEW id, id \notin OfTheCrate,
           \A p \in answers : GoodAnswer(p, f),
           NEW o \in AskStream(method, answers)
    PROVE  GoodOutcome(o, f, id)
<1>1. CASE ~WithStream
    BY <1>1, FailsGood DEF AskStream
<1>2. CASE WithStream
    <2>0. MayAsk(f, id)
        BY <1>2 DEF WithStream, MayAsk
    <2>1. CASE o \in Refusals(method)
        <3>1. PICK status \in {"Ok", "NotFound", Unserved(method)} : o = FromEmbedder(status)
            BY <2>1 DEF Refusals
        <3>2. DEFINE s == IF status = "Ok" THEN "InternalFailure" ELSE status
        <3>3. s # "InvalidMemoryAccess"
            BY DEF Unserved
        <3>4. o = Asks(Fails(s))
            BY <3>1 DEF FromEmbedder
        <3> HIDE DEF s
        <3>. QED
            BY <2>0, <3>3, <3>4, FailsGood, AskedGood
    <2>2. CASE \E p \in answers : o = Asks(p)
        BY <2>0, <2>2, AskedGood
    <2>. QED
        BY <1>2, <2>1, <2>2 DEF AskStream
<1>. QED
    BY <1>1, <1>2

-----------------------------------------------------------------------------
(***************************************************************************)
(* The identifiers of a call                                               *)
(***************************************************************************)
MapFunction ==
    {"proxy_get_header_map_size", "proxy_get_header_map_pairs",
     "proxy_set_header_map_pairs", "proxy_get_header_map_value",
     "proxy_add_header_map_value", "proxy_replace_header_map_value",
     "proxy_remove_header_map_value"}
BufferFunction ==
    {"proxy_get_buffer_bytes", "proxy_set_buffer_bytes", "proxy_get_buffer_status"}
StreamFunction ==
    {"proxy_send_local_response", "proxy_continue_stream", "proxy_close_stream"}
PropertyFunction == {"proxy_get_property", "proxy_set_property"}

LEMMA ArgsId ==
    ASSUME NEW f \in HostFunction, NEW a \in Args[f]
    PROVE  a.id \in IdsOf(f)
    BY DEF Args

LEMMA MapIds ==
    ASSUME NEW f \in MapFunction
    PROVE  IdsOf(f) \cap CrateBuffer = {}
<1>1. IdsOf(f) = {"None"} \/ IdsOf(f) = MapType \cup {Unknown}
    BY DEF IdsOf, MapFunction
<1>. QED
    BY <1>1 DEF MapType, DeliveredMap, CrateBuffer, DeliveredBuffer, Unknown

LEMMA BufferIds ==
    ASSUME NEW f \in BufferFunction
    PROVE  IdsOf(f) \cap DeliveredMap = {}
<1>1. IdsOf(f) = {"None"} \/ IdsOf(f) = BufferType \cup {Unknown}
    BY DEF IdsOf, BufferFunction
<1>. QED
    BY <1>1 DEF BufferType, DeliveredMap, CrateBuffer, DeliveredBuffer, Unknown

\* A function whose body does not begin with the check of an enumeration.
LEMMA NoIds ==
    ASSUME NEW f \in PropertyFunction \cup Opening \cup {Foreign, "proxy_send_local_response"}
    PROVE  IdsOf(f) = {"None"}
<1>1. Body[f][1] # Known
    <2>1. CASE f \in PropertyFunction
        BY <2>1 DEF PropertyFunction, Body, proxy_get_property, proxy_set_property, Span, Known, Check
    <2>2. CASE f = "proxy_http_call"
        BY <2>2 DEF Body, proxy_http_call, Span, Known, Check
    <2>3. CASE f = "proxy_grpc_call"
        <3>1. Body[f] = proxy_grpc_call
            BY <2>3 DEF Body
        <3>2. proxy_grpc_call[1] = Span("upstream")
            BY DEF proxy_grpc_call, NamesAndMetadata
        <3>. QED
            BY <3>1, <3>2 DEF Span, Known, Check
    <2>4. CASE f = "proxy_grpc_stream"
        <3>1. Body[f] = proxy_grpc_stream
            BY <2>4 DEF Body
        <3>2. proxy_grpc_stream[1] = Span("upstream")
            BY DEF proxy_grpc_stream, NamesAndMetadata
        <3>. QED
            BY <3>1, <3>2 DEF Span, Known, Check
    <2>5. CASE f = Foreign
        BY <2>5 DEF Foreign, Body, proxy_call_foreign_function, Span, Known, Check
    <2>6. CASE f = "proxy_send_local_response"
        BY <2>6 DEF Body, proxy_send_local_response, Span, Known, Check
    <2>. QED
        BY <2>1, <2>2, <2>3, <2>4, <2>5, <2>6 DEF Opening
<1>. QED
    BY <1>1 DEF IdsOf, PropertyFunction, Opening, Foreign

LEMMA StreamIds ==
    ASSUME NEW f \in StreamFunction
    PROVE  IdsOf(f) \cap OfTheCrate = {}
<1>1. CASE f = "proxy_send_local_response"
    BY <1>1, NoIds DEF OfTheCrate, DeliveredMap, CrateBuffer, DeliveredBuffer
<1>2. CASE f # "proxy_send_local_response"
    <2>1. IdsOf(f) = {"None"} \/ IdsOf(f) = {"Known", Unknown}
        BY <1>2 DEF IdsOf, StreamFunction
    <2>. QED
        BY <2>1 DEF OfTheCrate, DeliveredMap, CrateBuffer, DeliveredBuffer, Unknown
<1>. QED
    BY <1>1, <1>2

-----------------------------------------------------------------------------
(***************************************************************************)
(* The bodies, one family at a time                                        *)
(***************************************************************************)
LEMMA ReadMapGood ==
    ASSUME NEW f, NEW id, id \notin CrateBuffer, NEW answer, GoodAnswer(answer, f),
           NEW o \in ReadMap(id, answer)
    PROVE  GoodOutcome(o, f, id)
<1>1. CASE id \in DeliveredMap
    <2>1. o = Fails("BadArgument") \/ o = answer
        BY <1>1 DEF ReadMap
    <2>. QED
        BY <2>1, FailsGood DEF GoodAnswer, GoodOutcome
<1>2. CASE id \notin DeliveredMap
    BY <1>2, AskStreamGood DEF ReadMap, OfTheCrate
<1>. QED
    BY <1>1, <1>2

LEMMA WrittenGood ==
    ASSUME NEW f, NEW new
    PROVE  GoodAnswer([Outcome EXCEPT !.held = new], f)
    BY OutcomeFields DEF GoodAnswer, IsOutcome, Careful

LEMMA WriteMapGood ==
    ASSUME NEW f, NEW id, id \notin CrateBuffer, NEW written,
           NEW o \in WriteMap(id, written)
    PROVE  GoodOutcome(o, f, id)
<1>1. CASE id \in DeliveredMap
    BY <1>1, FailsGood DEF WriteMap
<1>2. CASE id \notin DeliveredMap
    <2>1. GoodAnswer(Fails("BadArgument"), f)
        BY FailsGood
    <2>2. GoodAnswer([Outcome EXCEPT !.held.map = written], f)
        BY OutcomeFields DEF GoodAnswer, IsOutcome, Careful
    <2>. QED
        BY <1>2, <2>1, <2>2, AskStreamGood DEF WriteMap, OfTheCrate
<1>. QED
    BY <1>1, <1>2

\* An outcome that only writes words.
Writing(writes) == [Outcome EXCEPT !.writes = writes]

LEMMA WritesGood ==
    ASSUME NEW f, NEW id, NEW writes
    PROVE  GoodAnswer(Writing(writes), f) /\ GoodOutcome(Writing(writes), f, id)
    BY OutcomeFields DEF Writing, GoodAnswer, GoodOutcome, IsOutcome, Careful

\* An answer that either fails or is good.
LEMMA EitherGood ==
    ASSUME NEW f, NEW status, status # "InvalidMemoryAccess", NEW good,
           GoodAnswer(good, f),
           NEW o \in {Fails(status), good}
    PROVE  GoodAnswer(o, f)
    BY FailsGood

LEMMA HeaderMapGood ==
    ASSUME NEW f \in MapFunction, NEW a, a.id \notin CrateBuffer,
           NEW o \in HeaderMapOutcomes(f, a)
    PROVE  GoodOutcome(o, f, a.id)
<1>1. CASE f = "proxy_get_header_map_size"
    <2> DEFINE map == MapRead(a.id)
               sized == IF EncodedSizeOf(map) > WordMax THEN Fails("InternalFailure")
                        ELSE [Outcome EXCEPT !.writes = <<WordAt(a.ptrs["size"], EncodedSizeOf(map))>>]
    <2>0. \E writes : sized \in {Fails("InternalFailure"), Writing(writes)}
        BY DEF Writing
    <2>1. GoodAnswer(sized, f)
        <3> HIDE DEF sized
        <3>. QED
            BY <2>0, EitherGood, WritesGood
    <2>2. o \in ReadMap(a.id, sized)
        BY <1>1 DEF HeaderMapOutcomes
    <2>. QED
        BY <2>1, <2>2, ReadMapGood
<1>2. CASE f = "proxy_get_header_map_pairs"
    <2>0. \E value : ReturnsMap(MapRead(a.id)) \in {Fails("SerializationFailure"), Returns(value)}
        BY DEF ReturnsMap
    <2>1. GoodAnswer(ReturnsMap(MapRead(a.id)), f)
        BY <2>0, EitherGood, ReturnsGood
    <2>2. o \in ReadMap(a.id, ReturnsMap(MapRead(a.id)))
        BY <1>2 DEF HeaderMapOutcomes
    <2>. QED
        BY <2>1, <2>2, ReadMapGood
<1>3. CASE f = "proxy_get_header_map_value"
    <2> DEFINE found == Get(MapRead(a.id), Read(memory, a.spans["key"]))
               valued == IF found = Absent THEN Fails("NotFound") ELSE Returns(found)
    <2>0. \E value : valued \in {Fails("NotFound"), Returns(value)}
        OBVIOUS
    <2>1. GoodAnswer(valued, f)
        <3> HIDE DEF valued
        <3>. QED
            BY <2>0, EitherGood, ReturnsGood
    <2>2. o \in ReadMap(a.id, valued)
        BY <1>3 DEF HeaderMapOutcomes
    <2>. QED
        BY <2>1, <2>2, ReadMapGood
<1>4. CASE f \in {"proxy_set_header_map_pairs", "proxy_add_header_map_value",
                  "proxy_replace_header_map_value", "proxy_remove_header_map_value"}
    <2>1. \E written : o \in WriteMap(a.id, written)
        BY <1>4 DEF HeaderMapOutcomes
    <2>. QED
        BY <2>1, WriteMapGood
<1>. QED
    BY <1>1, <1>2, <1>3, <1>4 DEF MapFunction

LEMMA BufferGood ==
    ASSUME NEW f \in BufferFunction, NEW a, a.id \notin DeliveredMap,
           NEW o \in BufferOutcomes(f, a)
    PROVE  GoodOutcome(o, f, a.id)
<1>1. ASSUME NEW answer, GoodAnswer(answer, f), o \in ReadBuffer(a.id, answer)
      PROVE  GoodOutcome(o, f, a.id)
    <2>1. CASE a.id \in CrateBuffer
        <3>1. o = Fails("NotFound") \/ o = answer
            BY <1>1, <2>1 DEF ReadBuffer
        <3>. QED
            BY <1>1, <3>1, FailsGood DEF GoodAnswer, GoodOutcome
    <2>2. CASE a.id \notin CrateBuffer
        BY <1>1, <2>2, AskStreamGood DEF ReadBuffer, OfTheCrate
    <2>. QED
        BY <2>1, <2>2
<1>2. CASE f = "proxy_get_buffer_bytes"
    <2> DEFINE bytes == Source(a.id)
               copied == IF a.start > Len(bytes) THEN Fails("BadArgument")
                         ELSE Returns(CopyRange(bytes, a.start, a.size))
    <2>0. \E value : copied \in {Fails("BadArgument"), Returns(value)}
        OBVIOUS
    <2>1. GoodAnswer(copied, f)
        <3> HIDE DEF copied
        <3>. QED
            BY <2>0, EitherGood, ReturnsGood
    <2>2. o \in ReadBuffer(a.id, copied)
        BY <1>2 DEF BufferOutcomes
    <2>. QED
        BY <1>1, <2>1, <2>2
<1>3. CASE f = "proxy_get_buffer_status"
    <2> DEFINE bytes == Source(a.id)
               sized == IF Len(bytes) > WordMax THEN Fails("InternalFailure")
                        ELSE [Outcome EXCEPT !.writes = <<WordAt(a.ptrs["size"], Len(bytes)),
                                                          WordAt(a.ptrs["unused"], 0)>>]
    <2>0. \E writes : sized \in {Fails("InternalFailure"), Writing(writes)}
        BY DEF Writing
    <2>1. GoodAnswer(sized, f)
        <3> HIDE DEF sized
        <3>. QED
            BY <2>0, EitherGood, WritesGood
    <2>2. o \in ReadBuffer(a.id, sized)
        BY <1>3 DEF BufferOutcomes
    <2>. QED
        BY <1>1, <2>1, <2>2
<1>4. CASE f = "proxy_set_buffer_bytes"
    <2> DEFINE written == Replace(held.buffer, a.start, a.size, Read(memory, a.spans["value"]))
    <2>1. o \in WriteBuffer(a.id, written)
        BY <1>4 DEF BufferOutcomes
    <2> HIDE DEF written
    <2>2. CASE a.id \in CrateBuffer
        BY <2>1, <2>2, FailsGood DEF WriteBuffer
    <2>3. CASE a.id \notin CrateBuffer
        <3>1. GoodAnswer(Fails("NotFound"), f)
            BY FailsGood
        <3>2. GoodAnswer([Outcome EXCEPT !.held.buffer = written], f)
            BY OutcomeFields DEF GoodAnswer, IsOutcome, Careful
        <3>. QED
            BY <2>1, <2>3, <3>1, <3>2, AskStreamGood DEF WriteBuffer, OfTheCrate
    <2>. QED
        BY <2>2, <2>3
<1>. QED
    BY <1>2, <1>3, <1>4 DEF BufferFunction

\* What the embedder is told.
Telling(request) == [Outcome EXCEPT !.told = request]

LEMMA TellingGood ==
    ASSUME NEW f, NEW request
    PROVE  GoodAnswer(Telling(request), f)
    BY OutcomeFields DEF Telling, GoodAnswer, IsOutcome, Careful

LEMMA PropertyGood ==
    ASSUME NEW f \in PropertyFunction, NEW a, a.id \notin OfTheCrate,
           NEW o \in PropertyOutcomes(f, a)
    PROVE  GoodOutcome(o, f, a.id)
<1> DEFINE path == DecodePath(Read(memory, a.spans["path"]))
<1>1. CASE f = "proxy_get_property" /\ ServedProperty(path)
    <2>1. PropertyOutcomes(f, a) =
              {IF WellKnownValue(path[1]) = Absent THEN Fails("NotFound")
               ELSE Returns(WellKnownValue(path[1]))}
        BY <1>1 DEF PropertyOutcomes
    <2>2. o = Fails("NotFound") \/ o = Returns(WellKnownValue(path[1]))
        BY <2>1
    <2>. QED
        BY <2>2, FailsGood, ReturnsGood
<1>2. CASE f = "proxy_get_property" /\ ~ServedProperty(path)
    <2>1. o \in AskStream("property", {Returns(v) : v \in Values})
        BY <1>2 DEF PropertyOutcomes
    <2>. QED
        BY <2>1, AskStreamGood, ReturnsGood
<1>3. CASE f = "proxy_set_property" /\ ServedProperty(path)
    BY <1>3, FailsGood DEF PropertyOutcomes
<1>4. CASE f = "proxy_set_property" /\ ~ServedProperty(path)
    <2> DEFINE request == Request(f, Append(path, Read(memory, a.spans["value"])), <<>>)
    <2>1. o \in AskStream("set_property", {Telling(request)})
        BY <1>4 DEF PropertyOutcomes, Telling
    <2>. QED
        BY <2>1, AskStreamGood, TellingGood
<1>. QED
    BY <1>1, <1>2, <1>3, <1>4 DEF PropertyFunction

LEMMA ForeignGood ==
    ASSUME NEW a, a.id \notin OfTheCrate, NEW o \in ForeignOutcomes(Foreign, a)
    PROVE  GoodOutcome(o, Foreign, a.id)
<1> DEFINE request == Request(Foreign, <<Read(memory, a.spans["name"]),
                                         Read(memory, a.spans["arguments"])>>, <<>>)
           served(v) == [Returns(v) EXCEPT !.told = request]
           asked0 == AskStream("call_foreign_function", {served(v) : v \in Values})
<1>1. PICK p \in asked0 : o = IF p.ask /\ p.status # "Ok" THEN [p EXCEPT !.value = <<>>] ELSE p
    BY DEF ForeignOutcomes
<1>2. ASSUME NEW v \in Values
      PROVE  GoodAnswer(served(v), Foreign)
    BY OutcomeFields DEF Returns, GoodAnswer, IsOutcome, Careful
<1> HIDE DEF served
<1>3. GoodOutcome(p, Foreign, a.id)
    BY <1>2, AskStreamGood
<1> HIDE DEF asked0
<1>4. GoodOutcome(p, Foreign, a.id) =>
          (p.ask /\ p.status # "Ok" => GoodOutcome([p EXCEPT !.value = <<>>], Foreign, a.id))
    BY OutcomeFields DEF GoodOutcome, IsOutcome, Careful
<1>5. CASE p.ask /\ p.status # "Ok"
    BY <1>1, <1>3, <1>4, <1>5
<1>6. CASE ~(p.ask /\ p.status # "Ok")
    BY <1>1, <1>3, <1>6
<1>. QED
    BY <1>5, <1>6

LEMMA StreamGood ==
    ASSUME NEW f \in StreamFunction, NEW a, a.id \notin OfTheCrate,
           NEW o \in StreamOutcomes(f, a)
    PROVE  GoodOutcome(o, f, a.id)
<1>1. \E method : o \in AskStream(method, {Telling(RequestOf(f, a))})
    BY DEF StreamOutcomes, Telling
<1>. QED
    BY <1>1, AskStreamGood, TellingGood

LEMMA OpenGood ==
    ASSUME NEW f \in Opening, NEW a, a.id \notin OfTheCrate,
           NEW o \in OpenOutcomes(f, a)
    PROVE  GoodOutcome(o, f, a.id)
<1>1. CASE ~Accepted
    BY <1>1, FailsGood DEF OpenOutcomes
<1>2. CASE Accepted
    <2> DEFINE opens == [Outcome EXCEPT !.opens = TRUE, !.told = RequestOf(f, a),
                                        !.writes = <<WordAt(a.ptrs["call"], opened + 1)>>]
    <2>0. MayAsk(f, a.id)
        BY <1>2 DEF MayAsk
    <2>1. GoodAnswer(opens, f)
        BY OutcomeFields DEF GoodAnswer, IsOutcome, Careful
    <2>2. CASE \E s \in CalloutRefusal(f) : o = Asks(Fails(s))
        <3>1. PICK s \in CalloutRefusal(f) : o = Asks(Fails(s))
            BY <2>2
        <3>2. s # "InvalidMemoryAccess"
            BY DEF CalloutRefusal
        <3>. QED
            BY <2>0, <3>1, <3>2, FailsGood, AskedGood
    <2>3. CASE o = Asks(opens)
        BY <2>0, <2>1, <2>3, AskedGood
    <2>. QED
        BY <1>2, <2>2, <2>3 DEF OpenOutcomes
<1>. QED
    BY <1>1, <1>2

LEMMA StatusGood ==
    ASSUME NEW f, NEW a, NEW o \in StatusOutcomes(a)
    PROVE  GoodOutcome(o, f, a.id)
<1>1. CASE o = Fails("NotFound")
    BY <1>1, FailsGood
<1>2. CASE \E value, after : o = [Returns(value) EXCEPT !.after = after]
    BY <1>2, OutcomeFields DEF Returns, GoodOutcome, IsOutcome, Careful
<1>. QED
    BY <1>1, <1>2 DEF StatusOutcomes

LEMMA LogGood ==
    ASSUME NEW f, NEW a, NEW o \in LogOutcomes(a)
    PROVE  GoodOutcome(o, f, a.id)
<1>1. \E message : o = [Outcome EXCEPT !.message = message]
    BY DEF LogOutcomes
<1>. QED
    BY <1>1, OutcomeFields DEF GoodOutcome, IsOutcome, Careful

Crate == {"proxy_get_status", "proxy_log", "proxy_get_log_level", "proxy_get_current_time_nanoseconds"}

LEMMA Families ==
    HostFunction = MapFunction \cup BufferFunction \cup PropertyFunction \cup {Foreign}
                       \cup StreamFunction \cup Opening \cup Crate
    BY DEF HostFunction, Body, MapFunction, BufferFunction, PropertyFunction, Foreign,
           StreamFunction, Opening, Crate

\* Every outcome of every body.
LEMMA OutcomesGood ==
    ASSUME NEW f \in HostFunction, NEW a \in Args[f], NEW o \in Outcomes(f, a)
    PROVE  GoodOutcome(o, f, a.id)
<1>0. a.id \in IdsOf(f)
    BY ArgsId
<1>1. CASE \E status : o = Fails(status)
    BY <1>1, FailsGood
<1>2. CASE o \in OutcomesOf(f, a)
    <2>1. CASE f \in MapFunction
        <3>1. o \in HeaderMapOutcomes(f, a)
            BY <1>2, <2>1 DEF OutcomesOf, MapFunction
        <3>. QED
            BY <1>0, <2>1, <3>1, HeaderMapGood, MapIds
    <2>2. CASE f \in BufferFunction
        <3>1. o \in BufferOutcomes(f, a)
            BY <1>2, <2>2 DEF OutcomesOf, BufferFunction
        <3>. QED
            BY <1>0, <2>2, <3>1, BufferGood, BufferIds
    <2>3. CASE f \in PropertyFunction
        <3>1. o \in PropertyOutcomes(f, a)
            BY <1>2, <2>3 DEF OutcomesOf, PropertyFunction
        <3>2. a.id \notin OfTheCrate
            BY <1>0, <2>3, NoIds DEF OfTheCrate, DeliveredMap, CrateBuffer, DeliveredBuffer
        <3>. QED
            BY <2>3, <3>1, <3>2, PropertyGood
    <2>4. CASE f = Foreign
        <3>1. o \in ForeignOutcomes(f, a)
            BY <1>2, <2>4 DEF OutcomesOf, Foreign
        <3>2. a.id \notin OfTheCrate
            BY <1>0, <2>4, NoIds DEF OfTheCrate, DeliveredMap, CrateBuffer, DeliveredBuffer
        <3>. QED
            BY <2>4, <3>1, <3>2, ForeignGood
    <2>5. CASE f \in StreamFunction
        <3>1. o \in StreamOutcomes(f, a)
            BY <1>2, <2>5 DEF OutcomesOf, StreamFunction
        <3>. QED
            BY <1>0, <2>5, <3>1, StreamGood, StreamIds
    <2>6. CASE f \in Opening
        <3>1. o \in OpenOutcomes(f, a)
            BY <1>2, <2>6 DEF OutcomesOf, Opening
        <3>2. a.id \notin OfTheCrate
            BY <1>0, <2>6, NoIds DEF OfTheCrate, DeliveredMap, CrateBuffer, DeliveredBuffer
        <3>. QED
            BY <2>6, <3>1, <3>2, OpenGood
    <2>7. CASE f \in Crate
        <3>1. o \in StatusOutcomes(a) \/ o \in LogOutcomes(a) \/ \E writes : o = Writing(writes)
            BY <1>2, <2>7 DEF OutcomesOf, Crate, Writing
        <3>. QED
            BY <3>1, StatusGood, LogGood, WritesGood
    <2>. QED
        BY <2>1, <2>2, <2>3, <2>4, <2>5, <2>6, <2>7, Families
<1>. QED
    BY <1>1, <1>2 DEF Outcomes

-----------------------------------------------------------------------------
(***************************************************************************)
(* Steps                                                                   *)
(***************************************************************************)
\* What a step of a host function does, by the outcome of its body.
CallStep(f, a, o) ==
    /\ GoodOutcome(o, f, a.id)
    /\ held' = o.held
    /\ told' = o.told
    /\ opened' = IF o.opens THEN opened + 1 ELSE opened
    /\ asked' = IF o.ask THEN [fn |-> f, id |-> a.id] ELSE Nobody
    /\ UNCHANGED <<here, made, poisoned>>
    /\ last = NoAnswer
    /\ \/ /\ o.value = Absent
          /\ o.status # "Ok" => UNCHANGED memory
          /\ last' = Answer(f, o.status)
          /\ UNCHANGED calls
       \/ /\ o.value # Absent
          /\ BeginReturn(Frame(f, a, o))

LEMMA CallSteps ==
    ASSUME NEW f \in HostFunction, MayCall(f), NEW a \in Args[f], Call(f, a)
    PROVE  \E o \in Outcomes(f, a) : CallStep(f, a, o)
<1>1. PICK o \in Outcomes(f, a) :
          /\ held' = o.held
          /\ told' = o.told
          /\ opened' = IF o.opens THEN opened + 1 ELSE opened
          /\ asked' = IF o.ask THEN [fn |-> f, id |-> a.id] ELSE Nobody
          /\ IF o.value = Absent
             THEN /\ memory' = IF o.status = "Ok" THEN WriteAll(memory, o.writes) ELSE memory
                  /\ last' = Answer(f, o.status)
                  /\ UNCHANGED calls
             ELSE BeginReturn(Frame(f, a, o))
          /\ UNCHANGED <<here, made, poisoned>>
    BY DEF Call
<1>2. GoodOutcome(o, f, a.id)
    BY OutcomesGood
<1>3. last = NoAnswer
    BY DEF MayCall
<1>4. CallStep(f, a, o)
    BY <1>1, <1>2, <1>3 DEF CallStep
<1>. QED
    BY <1>4

\* A call of WASI answers, or ends the callback.
WasiStep ==
    /\ last = NoAnswer
    /\ UNCHANGED <<held, opened, here, made>>
    /\ \/ /\ last'.fn # "None" /\ last'.status \in WasiFailing \cup {"Ok"}
          /\ told' = Nothing /\ asked' = Nobody
          /\ UNCHANGED <<calls, poisoned>>
          /\ last'.status \in WasiFailing /\ last'.fn \notin Partial => UNCHANGED memory
       \/ /\ calls' = <<>>
          /\ UNCHANGED <<memory, last, told, asked, logged>>

LEMMA AnswerFields ==
    ASSUME NEW f, NEW status
    PROVE  Answer(f, status).fn = f /\ Answer(f, status).status = status
    BY DEF Answer, NoAnswer

Replied(f) ==
    \E status, m :
        /\ Replies(Answer(f, status), m)
        /\ status \in WasiFailing \cup {"Ok"}
        /\ status \in WasiFailing /\ f \notin Partial => m = memory

LEMMA WasiSteps ==
    ASSUME WasiNext
    PROVE  WasiStep
<1>0. last = NoAnswer
    BY DEF WasiNext, MayCall
<1>1. ASSUME NEW f, f # "None", Replied(f)
      PROVE  WasiStep
    <2>1. PICK status, m :
              /\ Replies(Answer(f, status), m)
              /\ status \in WasiFailing \cup {"Ok"}
              /\ status \in WasiFailing /\ f \notin Partial => m = memory
        BY <1>1 DEF Replied
    <2>. QED
        BY <1>0, <1>1, <2>1, AnswerFields DEF Replies, WasiStep
<1>2. ASSUME NEW fd, NEW iovs, NEW count, NEW nwritten, FdWrite(fd, iovs, count, nwritten)
      PROVE  WasiStep
    <2> DEFINE status == FdWriteErrno(fd, iovs, count, nwritten)
               sent == Sent(Entries(memory, iovs, count))
               ok == [Answer("fd_write", "Ok") EXCEPT !.size = nwritten, !.value = sent]
    <2>1. CASE status # "Success"
        <3>1. Replies(Answer("fd_write", status), memory)
            BY <1>2, <2>1 DEF FdWrite
        <3>2. status \in WasiFailing
            BY <2>1 DEF FdWriteErrno, WasiFailing
        <3>. QED
            BY <1>1, <3>1, <3>2 DEF Replied
    <2>2. CASE status = "Success"
        <3>1. Replies(ok, WriteWord(memory, nwritten, Least(Len(sent), WordMax)))
            BY <1>2, <2>2 DEF FdWrite
        <3>2. ok.fn = "fd_write" /\ ok.status = "Ok"
            BY DEF Answer, NoAnswer
        <3> HIDE DEF ok
        <3>. QED
            BY <1>0, <3>1, <3>2 DEF Replies, WasiStep, WasiFailing
    <2>. QED
        BY <2>1, <2>2
<1>3. ASSUME NEW id, NEW time, ClockTimeGet(id, time)
      PROVE  WasiStep
    <2>1. Replied("clock_time_get")
        BY <1>3 DEF ClockTimeGet, Replied, Fault, WasiFailing
    <2>. QED
        BY <1>1, <2>1
<1>4. ASSUME NEW slice, RandomGet(slice)
      PROVE  WasiStep
    <2>1. Replied("random_get")
        BY <1>4 DEF RandomGet, Replied, Fault, Partial, WasiFailing
    <2>. QED
        BY <1>1, <2>1
<1>5. ASSUME NEW f \in {"environ_sizes_get", "args_sizes_get"},
             NEW first, NEW count, NEW second, NEW size,
             TwoWords(f, first, count, second, size)
      PROVE  WasiStep
    <2>1. Replied(f)
        BY <1>5 DEF TwoWords, Replied, Fault, Partial, WasiFailing
    <2>. QED
        BY <1>1, <2>1
<1>6. ASSUME NEW array, NEW buffer, EnvironGet(array, buffer)
      PROVE  WasiStep
    <2> DEFINE pointers == FlattenSeq([i \in DOMAIN Configuration.environment |->
                                          LittleEndian(Offsets(buffer)[i], WordBytes)])
               ok == [Answer("environ_get", "Ok") EXCEPT
                          !.data = IF pointers = <<>> THEN Absent ELSE array,
                          !.value = EnvironmentBlock, !.address = buffer,
                          !.others = OtherPointers(array, buffer)]
    <2>1. \E m : Replies(Fault("environ_get"), m) \/ Replies(ok, m)
        <3> HIDE DEF ok
        <3>. QED
            BY <1>6 DEF EnvironGet, ok
    <2>2. /\ ok.fn = "environ_get" /\ Fault("environ_get").fn = "environ_get"
          /\ ok.status = "Ok" /\ Fault("environ_get").status = "Fault"
        BY AnswerFields DEF Fault, Answer, NoAnswer
    <2> HIDE DEF ok
    <2>. QED
        BY <1>0, <2>1, <2>2 DEF Replies, WasiStep, Partial, WasiFailing
<1>7. CASE ArgsGet
    <2>1. Replied("args_get")
        BY <1>7 DEF ArgsGet, Replied
    <2>. QED
        BY <1>1, <2>1
<1>8. CASE ProcExit
    BY <1>0, <1>8 DEF ProcExit, WasiStep
<1>. QED
    BY <1>2, <1>3, <1>4, <1>5, <1>6, <1>7, <1>8 DEF WasiNext, EnvironSizesGet, ArgsSizesGet

-----------------------------------------------------------------------------
(***************************************************************************)
(* The embedder is asked last                                              *)
(***************************************************************************)
LEMMA BeginReturnLast ==
    ASSUME NEW frame, BeginReturn(frame)
    PROVE  \/ last' = last
           \/ last'.status \in {frame.status, "InternalFailure"} /\ last'.fn = frame.fn
<1>1. CASE \E address : last' = Delivered(frame, address)
    BY <1>1 DEF Delivered
<1>. QED
    BY <1>1, AnswerFields DEF BeginReturn, Complete

LEMMA AskedByCall ==
    ASSUME NEW f \in HostFunction, NEW a, NEW o, CallStep(f, a, o)
    PROVE  EmbedderAskedLast'
<1>1. CASE ~o.ask
    BY <1>1 DEF CallStep, EmbedderAskedLast, Nobody
<1>2. CASE o.ask
    <2>1. MayAsk(f, a.id) /\ o.status # "InvalidMemoryAccess"
        BY <1>2 DEF CallStep, GoodOutcome
    <2>2. asked' = [fn |-> f, id |-> a.id] /\ here' = here
        BY <1>2 DEF CallStep
    <2>3. last'.status # "InvalidMemoryAccess"
        <3>1. CASE last' = Answer(f, o.status)
            BY <2>1, <3>1, AnswerFields
        <3>2. CASE BeginReturn(Frame(f, a, o))
            <4>1. Frame(f, a, o).status = o.status
                BY DEF Frame
            <4>2. last.status # "InvalidMemoryAccess"
                BY DEF CallStep, NoAnswer
            <4>. QED
                BY <2>1, <3>2, <4>1, <4>2, BeginReturnLast
        <3>. QED
            BY <3>1, <3>2 DEF CallStep
    <2>. QED
        BY <2>1, <2>2, <2>3 DEF MayAsk, EmbedderAskedLast, Accepted, Opening, OfTheCrate
<1>. QED
    BY <1>1, <1>2

\* The embedder is asked only for an accepted root, through a stream that is
\* lent, for nothing the crate itself holds, and never by a call whose addresses
\* are bad: whatever functions the guest calls, nested in its allocator or not,
\* with whatever arguments (served.rs, call.rs).
THEOREM AskedLast == CallsSpec => []EmbedderAskedLast
<1>1. Init => EmbedderAskedLast
    BY DEF Init, EmbedderAskedLast, Nobody
<1>2. EmbedderAskedLast /\ [CallsNext]_vars => EmbedderAskedLast'
    <2> SUFFICES ASSUME EmbedderAskedLast, [CallsNext]_vars
                 PROVE  EmbedderAskedLast'
        OBVIOUS
    <2>1. ASSUME NEW f \in HostFunction, MayCall(f), NEW a \in Args[f], Call(f, a)
          PROVE  EmbedderAskedLast'
        BY <2>1, CallSteps, AskedByCall
    <2>2. CASE asked' = Nobody
        BY <2>2 DEF EmbedderAskedLast, Nobody
    <2>3. CASE UNCHANGED <<asked, last, here>>
        BY <2>3 DEF EmbedderAskedLast, Accepted
    <2>4. CASE WasiNext
        BY <2>2, <2>3, <2>4, WasiSteps DEF WasiStep
    <2>5. CASE \E address \in Allocations : AllocatorReturns(address)
        BY <2>2, <2>5 DEF AllocatorReturns
    <2>6. CASE AllocatorTraps \/ Grow
        BY <2>3, <2>6 DEF AllocatorTraps, Grow
    <2>7. CASE Resume \/ NextGuest
        BY <2>2, <2>7 DEF Resume, NextGuest
    <2>8. CASE UNCHANGED vars
        BY <2>3, <2>8 DEF vars
    <2>. QED
        BY <2>1, <2>4, <2>5, <2>6, <2>7, <2>8 DEF CallsNext, Next
<1>. QED
    BY <1>1, <1>2, PTL DEF CallsSpec

-----------------------------------------------------------------------------
(***************************************************************************)
(* A call that fails has no effect                                         *)
(***************************************************************************)
\* A frame that waits is of a function that goes on to say OK, but for the
\* foreign function; and while the guest runs in its allocator, what the
\* embedder was told last was told by that function alone.
Waiting == {calls[i] : i \in DOMAIN calls}
FrameKept(frame) ==
    /\ frame.fn \in HostFunction
    /\ frame.fn # Foreign => frame.status = "Ok"

CallsInv ==
    /\ calls \in Seq(Waiting)
    /\ \A i \in DOMAIN calls : FrameKept(calls[i])
    /\ last = NoAnswer /\ calls # <<>> => told = Nothing \/ Last(calls).fn = Foreign

LEMMA AppendKept ==
    ASSUME CallsInv, NEW frame, FrameKept(frame), calls' = Append(calls, frame),
           told' = Nothing \/ frame.fn = Foreign
    PROVE  CallsInv'
<1>1. calls \in Seq(Waiting \cup {frame})
    BY DEF CallsInv
<1>2. /\ calls' \in Seq(Waiting \cup {frame})
      /\ Len(calls') = Len(calls) + 1
      /\ DOMAIN calls' = 1 .. Len(calls) + 1
      /\ \A i \in 1 .. Len(calls) : calls'[i] = calls[i]
      /\ calls'[Len(calls) + 1] = frame
    BY <1>1
<1>3. Len(calls) \in Nat /\ DOMAIN calls = 1 .. Len(calls)
    BY <1>1
<1>4. \A i \in DOMAIN calls' : FrameKept(calls'[i])
    BY <1>2, <1>3 DEF CallsInv
<1>5. calls' \in Seq({calls'[i] : i \in DOMAIN calls'})
    BY <1>2
<1>6. Last(calls') = frame
    BY <1>2, <1>3 DEF Last
<1>. QED
    BY <1>4, <1>5, <1>6 DEF CallsInv, Waiting, FrameKept

LEMMA EmptyKept ==
    ASSUME calls' = <<>>
    PROVE  CallsInv'
    BY DEF CallsInv, Waiting

LEMMA FrontFacts ==
    ASSUME NEW S, NEW s \in Seq(S), s # <<>>
    PROVE  /\ Len(s) \in Nat \ {0} /\ DOMAIN s = 1 .. Len(s) /\ Len(s) \in DOMAIN s
           /\ Last(s) \in S
           /\ Front(s) \in Seq(S)
           /\ Len(Front(s)) = Len(s) - 1
           /\ DOMAIN Front(s) = 1 .. Len(s) - 1
           /\ \A i \in 1 .. Len(s) - 1 : Front(s)[i] = s[i]
<1>1. Len(s) \in Nat \ {0} /\ DOMAIN s = 1 .. Len(s)
    OBVIOUS
<1>2. /\ Front(s) \in Seq(S)
      /\ Len(Front(s)) = Len(s) - 1
      /\ \A i \in 1 .. Len(s) - 1 : Front(s)[i] = s[i]
    BY <1>1 DEF Front
<1>. QED
    BY <1>1, <1>2 DEF Last

LEMMA FrontKept ==
    ASSUME CallsInv, calls # <<>>, calls' = Front(calls), last' # NoAnswer
    PROVE  CallsInv'
<1>1. calls \in Seq(Waiting) /\ Len(calls) \in Nat \ {0} /\ DOMAIN calls = 1 .. Len(calls)
    BY DEF CallsInv
<1>2. /\ calls' \in Seq(Waiting)
      /\ Len(calls') = Len(calls) - 1
      /\ DOMAIN calls' = 1 .. Len(calls) - 1
      /\ \A i \in 1 .. Len(calls) - 1 : calls'[i] = calls[i]
    BY <1>1, FrontFacts
<1>3. \A i \in DOMAIN calls' : FrameKept(calls'[i])
    BY <1>1, <1>2 DEF CallsInv
<1>4. calls' \in Seq({calls'[i] : i \in DOMAIN calls'})
    BY <1>2
<1>. QED
    BY <1>3, <1>4 DEF CallsInv, Waiting, FrameKept

LEMMA SameKept ==
    ASSUME CallsInv, UNCHANGED calls,
           \/ last' # NoAnswer
           \/ told' = Nothing
           \/ UNCHANGED <<last, told>>
    PROVE  CallsInv'
    BY DEF CallsInv, Waiting, FrameKept

LEMMA FrameOf ==
    ASSUME NEW f \in HostFunction, NEW a, NEW o, GoodOutcome(o, f, a.id), o.value # Absent
    PROVE  /\ Frame(f, a, o).fn = f /\ Frame(f, a, o).status = o.status
           /\ FrameKept(Frame(f, a, o))
           /\ f = Foreign \/ o.told = Nothing
    BY DEF Frame, FrameKept, GoodOutcome, Careful

LEMMA NoneIsNoFunction == "None" \notin HostFunction
    BY DEF HostFunction, Body

LEMMA AnswerIsNoNone ==
    ASSUME last'.fn # "None"
    PROVE  last' # NoAnswer
    BY DEF NoAnswer

LEMMA CallKept ==
    ASSUME CallsInv, NEW f \in HostFunction, NEW a, NEW o, CallStep(f, a, o)
    PROVE  CallsInv'
<1>1. CASE last' = Answer(f, o.status) /\ UNCHANGED calls
    BY <1>1, AnswerFields, NoneIsNoFunction, AnswerIsNoNone, SameKept
<1>2. CASE o.value # Absent /\ BeginReturn(Frame(f, a, o))
    <2> DEFINE frame == Frame(f, a, o)
    <2>1. /\ frame.fn = f /\ FrameKept(frame)
          /\ f = Foreign \/ told' = Nothing
        BY <1>2, FrameOf DEF CallStep
    <2> HIDE DEF frame
    <2>2. CASE calls' = Append(calls, frame)
        BY <2>1, <2>2, AppendKept
    <2>3. CASE last'.fn = f /\ UNCHANGED calls
        BY <2>3, NoneIsNoFunction, AnswerIsNoNone, SameKept
    <2>4. ASSUME NEW address, Complete(frame, address)
          PROVE  last'.fn = f
        BY <2>1, <2>4 DEF Complete, Delivered
    <2>. QED
        BY <1>2, <2>1, <2>2, <2>3, <2>4, AnswerFields DEF BeginReturn, frame
<1>. QED
    BY <1>1, <1>2 DEF CallStep

LEMMA CallsInvInit == Init => CallsInv
    BY DEF Init, CallsInv, Waiting

LEMMA ReturnFields ==
    ASSUME NEW address, AllocatorReturns(address)
    PROVE  /\ last'.fn = Last(calls).fn
           /\ \/ last'.status # "Ok" /\ UNCHANGED memory
              \/ last'.status = Last(calls).status
<1> DEFINE frame == Last(calls)
<1>1. CASE Complete(frame, address)
    BY <1>1 DEF Complete, Delivered
<1>2. CASE last' = Answer(frame.fn, Allocated(frame, address)) /\ UNCHANGED memory
           /\ Allocated(frame, address) # "Ok"
    BY <1>2, AnswerFields
<1>. QED
    BY <1>1, <1>2 DEF AllocatorReturns

LEMMA CallsInvStep ==
    ASSUME CallsInv, [CallsNext]_vars
    PROVE  CallsInv'
<1>1. ASSUME NEW f \in HostFunction, MayCall(f), NEW a \in Args[f], Call(f, a)
      PROVE  CallsInv'
    BY <1>1, CallSteps, CallKept
<1>2. CASE WasiNext
    <2>1. CASE calls' = <<>>
        BY <2>1, EmptyKept
    <2>2. CASE UNCHANGED calls /\ told' = Nothing
        BY <2>2, SameKept
    <2>. QED
        BY <1>2, <2>1, <2>2, WasiSteps DEF WasiStep
<1>3. ASSUME NEW address \in Allocations, AllocatorReturns(address)
      PROVE  CallsInv'
    <2>1. calls # <<>> /\ calls' = Front(calls)
        BY <1>3 DEF AllocatorReturns
    <2>2. Last(calls).fn \in HostFunction
        <3>1. Len(calls) \in DOMAIN calls
            BY <2>1 DEF CallsInv
        <3>. QED
            BY <3>1 DEF CallsInv, FrameKept, Last
    <2>3. last' # NoAnswer
        BY <1>3, <2>2, ReturnFields, NoneIsNoFunction, AnswerIsNoNone
    <2>. QED
        BY <2>1, <2>3, FrontKept
<1>4. CASE AllocatorTraps \/ NextGuest
    BY <1>4, EmptyKept DEF AllocatorTraps, NextGuest
<1>5. CASE Grow \/ Resume \/ UNCHANGED vars
    BY <1>5, SameKept DEF Grow, Resume, vars
<1>. QED
    BY <1>1, <1>2, <1>3, <1>4, <1>5 DEF CallsNext, Next

\* The step of FailedCallHasNoEffect.
NoEffect ==
    /\ last' # last /\ last'.status \in Failing \cup WasiFailing
           /\ last'.fn \notin Partial
           => /\ memory' = memory /\ held' = held /\ opened' = opened
              /\ told'.fn = "None"
    /\ Len(calls') > Len(calls) => memory' = memory

LEMMA OkFails == "Ok" \notin Failing \cup WasiFailing /\ "None" \notin Failing \cup WasiFailing
    BY DEF Failing, WasiFailing

LEMMA NothingToNone == Nothing.fn = "None" /\ Foreign \in Partial
    BY DEF Nothing, Request, Foreign, Partial

LEMMA CallHasNoEffect ==
    ASSUME CallsInv, NEW f \in HostFunction, NEW a, NEW o, CallStep(f, a, o)
    PROVE  NoEffect
<1>0. Len(calls) \in Nat
    BY DEF CallsInv
<1>1. CASE o.value = Absent /\ last' = Answer(f, o.status) /\ UNCHANGED calls
           /\ (o.status # "Ok" => UNCHANGED memory)
    <2>1. ~(Len(calls') > Len(calls))
        BY <1>0, <1>1
    <2>2. CASE o.status = "Ok"
        BY <1>1, <2>1, <2>2, AnswerFields, OkFails DEF NoEffect
    <2>3. CASE o.status # "Ok"
        BY <1>1, <2>1, <2>3, NothingToNone DEF NoEffect, CallStep, GoodOutcome, Careful
    <2>. QED
        BY <2>2, <2>3
<1>2. CASE o.value # Absent /\ BeginReturn(Frame(f, a, o))
    <2> DEFINE frame == Frame(f, a, o)
    <2>1. /\ frame.fn = f /\ frame.status = o.status /\ FrameKept(frame)
          /\ f = Foreign \/ told' = Nothing
          /\ held' = held /\ opened' = opened
        BY <1>2, FrameOf DEF CallStep, GoodOutcome, Careful
    <2> HIDE DEF frame
    <2>2. CASE calls' = Append(calls, frame) /\ UNCHANGED <<memory, last>>
        BY <2>2 DEF NoEffect
    <2>3. CASE last' = Answer(frame.fn, "InternalFailure") /\ UNCHANGED <<calls, memory>>
        BY <2>1, <2>3, AnswerFields, NothingToNone DEF NoEffect
    <2>4. CASE Complete(frame, 0) /\ UNCHANGED calls
        <3>1. last'.fn = f /\ last'.status = o.status
            BY <2>1, <2>4 DEF Complete, Delivered
        <3>2. f = Foreign \/ o.status = "Ok"
            BY <2>1 DEF FrameKept
        <3>3. ~(Len(calls') > Len(calls))
            BY <1>0, <2>4
        <3>. QED
            BY <3>1, <3>2, <3>3, OkFails, NothingToNone DEF NoEffect
    <2>. QED
        BY <1>2, <2>2, <2>3, <2>4 DEF BeginReturn, frame
<1>. QED
    BY <1>1, <1>2 DEF CallStep

LEMMA StepHasNoEffect ==
    ASSUME CallsInv, CallsNext
    PROVE  NoEffect
<1>0. calls \in Seq(Waiting) /\ Len(calls) \in Nat /\ ~(Len(calls) > Len(calls))
    BY DEF CallsInv
<1>00. ~(0 > Len(calls))
    BY <1>0
<1>1. ASSUME NEW f \in HostFunction, MayCall(f), NEW a \in Args[f], Call(f, a)
      PROVE  NoEffect
    BY <1>1, CallSteps, CallHasNoEffect
<1>2. CASE WasiNext
    <2>1. CASE calls' = <<>> /\ UNCHANGED last
        BY <1>00, <2>1 DEF NoEffect
    <2>2. CASE /\ UNCHANGED calls /\ told' = Nothing
               /\ UNCHANGED <<held, opened>>
               /\ last'.status \in WasiFailing \cup {"Ok"}
               /\ last'.status \in WasiFailing /\ last'.fn \notin Partial => UNCHANGED memory
        <3>1. CASE last'.status \in WasiFailing
            BY <1>0, <2>2, <3>1, NothingToNone DEF NoEffect
        <3>2. CASE last'.status = "Ok"
            BY <1>0, <2>2, <3>2, OkFails DEF NoEffect
        <3>. QED
            BY <2>2, <3>1, <3>2
    <2>. QED
        BY <1>2, <2>1, <2>2, WasiSteps DEF WasiStep
<1>3. ASSUME NEW address \in Allocations, AllocatorReturns(address)
      PROVE  NoEffect
    <2>0. /\ calls # <<>> /\ calls' = Front(calls) /\ last = NoAnswer
          /\ UNCHANGED <<held, told, opened>>
        BY <1>3 DEF AllocatorReturns
    <2>1. Len(calls) \in DOMAIN calls /\ Len(calls') = Len(calls) - 1
        BY <1>0, <2>0, FrontFacts
    <2>2. FrameKept(Last(calls)) /\ (told = Nothing \/ Last(calls).fn = Foreign)
        BY <2>0, <2>1 DEF CallsInv, Last
    <2>3. ~(Len(calls') > Len(calls))
        BY <1>0, <2>1
    <2>4. CASE last'.status = Last(calls).status
        BY <1>3, <2>2, <2>3, <2>4, ReturnFields, OkFails, NothingToNone DEF FrameKept, NoEffect
    <2>5. CASE UNCHANGED memory
        BY <1>3, <2>0, <2>2, <2>3, <2>5, ReturnFields, NothingToNone DEF NoEffect
    <2>. QED
        BY <1>3, <2>4, <2>5, ReturnFields
<1>4. CASE AllocatorTraps
    BY <1>00, <1>4 DEF AllocatorTraps, NoEffect
<1>5. CASE NextGuest
    BY <1>00, <1>5, OkFails DEF NextGuest, NoEffect, NoAnswer
<1>6. CASE Grow
    BY <1>0, <1>6 DEF Grow, NoEffect
<1>7. CASE Resume
    BY <1>0, <1>7, OkFails DEF Resume, NoEffect, NoAnswer
<1>. QED
    BY <1>1, <1>2, <1>3, <1>4, <1>5, <1>6, <1>7 DEF CallsNext, Next

\* A call that fails leaves the memory, what the embedder holds and the callouts
\* as they were, and tells the embedder nothing; and nothing is written before the
\* allocator has returned: for every function and outcome, nested or not, but for
\* the functions that Partial names (callout.rs, alloc.rs).
THEOREM FailureIsClean == CallsSpec => FailedCallHasNoEffect
<1>1. CallsInv /\ [CallsNext]_vars => CallsInv'
    BY CallsInvStep
<1>2. CallsInv /\ [CallsNext]_vars => [NoEffect]_vars
    BY StepHasNoEffect
<1>. QED
    BY <1>1, <1>2, CallsInvInit, PTL DEF CallsSpec, FailedCallHasNoEffect, NoEffect

-----------------------------------------------------------------------------
(***************************************************************************)
(* The writes of a call                                                    *)
(***************************************************************************)
\* The writes of a call, one after the other.
Writes == Seq(Nat \X Seq(Byte))
WritesChain(h, n, m, writes) ==
    /\ h \in [0 .. Len(writes) -> MemoryOf(n)]
    /\ h[0] = m
    /\ \A i \in 1 .. Len(writes) : h[i] = Write(h[i - 1], writes[i][1], writes[i][2])

WriteNext(g, m, writes, places) ==
    [s \in SUBSET places |->
        IF s = {} THEN m
        ELSE Write(g[s \ {Max(s)}], writes[Max(s)][1], writes[Max(s)][2])]

LEMMA WriteAllChain ==
    ASSUME NEW n \in Nat, NEW m \in MemoryOf(n), NEW writes \in Writes
    PROVE  \E h : WritesChain(h, n, m, writes) /\ WriteAll(m, writes) = h[Len(writes)]
<1> DEFINE k == Len(writes)
           S == MemoryOf(n)
           step == [p \in Nat \X S |->
                       IF p[1] \in 1 .. k THEN Write(p[2], writes[p[1]][1], writes[p[1]][2])
                       ELSE p[2]]
           g == CHOOSE h : h = WriteNext(h, m, writes, 1 .. k)
<1>0. k \in Nat /\ \A i \in 1 .. k : writes[i] \in Nat \X Seq(Byte)
    BY DEF Writes
<1>1. WriteAll(m, writes) = g[1 .. k]
    <2>1. WriteAll(m, writes)
              = (CHOOSE h : h = WriteNext(h, m, writes, DOMAIN writes))[DOMAIN writes]
        BY DEF WriteAll, FoldLeft, MapThenFoldSet, WriteNext
    <2>2. DOMAIN writes = 1 .. k
        BY DEF Writes
    <2>. QED
        BY <2>1, <2>2, Zenon
<1>2. ASSUME NEW i \in 1 .. k, NEW x \in S
      PROVE  Write(x, writes[i][1], writes[i][2]) \in S
    BY <1>0, WriteFacts
<1> HIDE DEF k, S
<1>3. ASSUME NEW p \in Nat \X S
      PROVE  (IF p[1] \in 1 .. k THEN Write(p[2], writes[p[1]][1], writes[p[1]][2]) ELSE p[2]) \in S
    <2>1. p[2] \in S
        OBVIOUS
    <2>. QED
        BY <1>2, <2>1
<1>4. step \in [Nat \X S -> S]
    BY <1>3
<1>5. ASSUME NEW i \in 1 .. k, NEW x \in S
      PROVE  step[<<i, x>>] = Write(x, writes[i][1], writes[i][2])
    <2>1. <<i, x>> \in Nat \X S
        BY <1>0
    <2>. QED
        BY <2>1
<1> HIDE DEF step, g
<1>6. m \in S
    BY DEF S
<1>7. PICK f \in [SUBSET (1 .. k) -> S] : FoldsBy(f, k, m, step)
    BY <1>0, <1>4, <1>6, FoldExists
<1>8. ASSUME NEW s \in SUBSET (1 .. k), s # {}
      PROVE  Max(s) \in 1 .. k /\ s \ {Max(s)} \in SUBSET (1 .. k)
    BY <1>0, <1>8, MaxIn
<1>9. f = WriteNext(f, m, writes, 1 .. k)
    <2>1. ASSUME NEW s \in SUBSET (1 .. k)
          PROVE  f[s] = IF s = {} THEN m
                        ELSE Write(f[s \ {Max(s)}], writes[Max(s)][1], writes[Max(s)][2])
        <3>1. CASE s = {}
            BY <1>7, <3>1 DEF FoldsBy
        <3>2. CASE s # {}
            <4>1. f[s] = step[<<Max(s), f[s \ {Max(s)}]>>]
                BY <1>7, <3>2 DEF FoldsBy
            <4>2. Max(s) \in 1 .. k /\ f[s \ {Max(s)}] \in S
                BY <1>7, <1>8, <3>2
            <4>3. step[<<Max(s), f[s \ {Max(s)}]>>]
                      = Write(f[s \ {Max(s)}], writes[Max(s)][1], writes[Max(s)][2])
                BY <1>5, <4>2
            <4>. QED
                BY <3>2, <4>1, <4>3, Zenon
        <3>. QED
            BY <3>1, <3>2
    <2>. QED
        BY <2>1 DEF WriteNext
<1>10. g = WriteNext(g, m, writes, 1 .. k)
    BY <1>9 DEF g
<1>11. g[{}] = m
    <2>1. {} \in SUBSET (1 .. k)
        OBVIOUS
    <2>. QED
        BY <1>10, <2>1 DEF WriteNext
<1>12. ASSUME NEW i \in 1 .. k, g[1 .. i - 1] \in S
       PROVE  g[1 .. i] = step[<<i, g[1 .. i - 1]>>]
    <2>1. /\ Max(1 .. i) = i /\ (1 .. i) \ {Max(1 .. i)} = 1 .. i - 1
          /\ 1 .. i # {} /\ 1 .. i \in SUBSET (1 .. k)
        BY <1>0, FirstNumbers
    <2>2. g[1 .. i] = Write(g[(1 .. i) \ {Max(1 .. i)}], writes[Max(1 .. i)][1], writes[Max(1 .. i)][2])
        BY <1>10, <2>1 DEF WriteNext
    <2>3. g[1 .. i] = Write(g[1 .. i - 1], writes[i][1], writes[i][2])
        BY <2>1, <2>2, Zenon
    <2>4. step[<<i, g[1 .. i - 1]>>] = Write(g[1 .. i - 1], writes[i][1], writes[i][2])
        BY <1>5, <1>12
    <2>. QED
        BY <2>3, <2>4, Zenon
<1>13. PICK h \in [0 .. k -> S] : Iterates(h, k, m, step) /\ h[k] = g[1 .. k]
    <2>1. FoldsFirst(g, k, S, m, step)
        BY <1>11, <1>12 DEF FoldsFirst
    <2>2. Chained(g, k, S, m, step)
        BY <1>0, <1>4, <1>6, <2>1, FoldChain
    <2>. QED
        BY <2>2 DEF Chained
<1>14. ASSUME NEW i \in 1 .. k
       PROVE  h[i] = Write(h[i - 1], writes[i][1], writes[i][2])
    <2>1. i - 1 \in 0 .. k
        BY <1>0
    <2>2. h[i - 1] \in S
        BY <1>13, <2>1
    <2>3. h[i] = step[<<i, h[i - 1]>>]
        BY <1>13 DEF Iterates
    <2>4. step[<<i, h[i - 1]>>] = Write(h[i - 1], writes[i][1], writes[i][2])
        BY <1>5, <2>2, Zenon
    <2>. QED
        BY <2>3, <2>4, Zenon
<1>15. h[0] = m
    BY <1>13 DEF Iterates
<1>16. WritesChain(h, n, m, writes)
    BY <1>13, <1>14, <1>15 DEF WritesChain, k, S
<1>. QED
    BY <1>1, <1>13, <1>16 DEF k

LEMMA WriteAllTyped ==
    ASSUME NEW n \in Nat, NEW m \in MemoryOf(n), NEW writes \in Writes
    PROVE  WriteAll(m, writes) \in MemoryOf(n)
<1>1. PICK h : WritesChain(h, n, m, writes) /\ WriteAll(m, writes) = h[Len(writes)]
    BY WriteAllChain
<1>2. Len(writes) \in 0 .. Len(writes)
    BY DEF Writes
<1>. QED
    BY <1>1, <1>2 DEF WritesChain

\* The addresses of a write.
Reach(w) == w[1] .. w[1] + Len(w[2]) - 1

\* Writes that do not overlap are all found in the memory.
LEMMA WriteAllLands ==
    ASSUME NEW n \in Nat, NEW m \in MemoryOf(n), NEW writes \in Writes,
           \A i, j \in 1 .. Len(writes) : i # j => Reach(writes[i]) \cap Reach(writes[j]) = {},
           NEW k \in 1 .. Len(writes), Reach(writes[k]) \subseteq 0 .. n - 1
    PROVE  Has(WriteAll(m, writes), writes[k][1], writes[k][2])
<1> DEFINE last0 == Len(writes)
<1>0. last0 \in Nat /\ \A i \in 1 .. last0 : writes[i] \in Nat \X Seq(Byte)
    BY DEF Writes
<1>1. PICK h : WritesChain(h, n, m, writes) /\ WriteAll(m, writes) = h[last0]
    BY WriteAllChain
<1> HIDE DEF last0
<1>2. /\ h \in [0 .. last0 -> MemoryOf(n)]
      /\ \A i \in 1 .. last0 : h[i] = Write(h[i - 1], writes[i][1], writes[i][2])
    BY <1>1 DEF WritesChain, last0
<1> DEFINE ptr == writes[k][1]
           bytes == writes[k][2]
           P == {i \in 0 .. last0 : i >= k => Has(h[i], ptr, bytes)}
<1>3. /\ k \in 1 .. last0 /\ ptr \in Nat /\ bytes \in Seq(Byte) /\ Len(bytes) \in Nat
      /\ Reach(writes[k]) = ptr .. ptr + Len(bytes) - 1
    BY <1>0 DEF last0, Reach
<1>4. 0 \in P
    BY <1>0, <1>3
<1> HIDE DEF ptr, bytes
<1>5. \A i \in 1 .. Len(bytes) : ptr + i - 1 \in 0 .. n - 1 /\ ptr + i - 1 \in Reach(writes[k])
    <2>1. \A i \in 1 .. Len(bytes) : ptr + i - 1 \in ptr .. ptr + Len(bytes) - 1
        BY <1>3
    <2>. QED
        BY <1>3, <2>1
<1>6. ASSUME NEW i \in 1 .. last0, i - 1 \in P
      PROVE  i \in P
    <2>0. h[i - 1] \in MemoryOf(n) /\ writes[i] \in Nat \X Seq(Byte)
        <3>1. i - 1 \in 0 .. last0
            BY <1>0
        <3>. QED
            BY <1>0, <1>2, <3>1
    <2> DEFINE q == writes[i][1]
               b == writes[i][2]
    <2>00. q \in Nat /\ b \in Seq(Byte) /\ h[i] = Write(h[i - 1], q, b)
        BY <1>2, <2>0
    <2> HIDE DEF q, b
    <2>01. /\ \A j \in 1 .. Len(b) : q + j - 1 \in 0 .. n - 1 => h[i][q + j - 1] = b[j]
           /\ \A c \in 0 .. n - 1 : c \notin q .. q + Len(b) - 1 => h[i][c] = h[i - 1][c]
        <3> DEFINE x == h[i - 1]
                   y == Write(x, q, b)
        <3>1. x \in MemoryOf(n) /\ h[i] = y
            BY <2>0, <2>00
        <3> HIDE DEF x
        <3>11. Overwritten(y, x, n, q, b)
            BY <2>00, <3>1, WriteIs
        <3> HIDE DEF y
        <3>2. /\ \A j \in 1 .. Len(b) : q + j - 1 \in 0 .. n - 1 => y[q + j - 1] = b[j]
              /\ \A c \in 0 .. n - 1 : c \notin q .. q + Len(b) - 1 => y[c] = x[c]
            BY <3>11 DEF Overwritten
        <3>. QED
            BY <3>1, <3>2 DEF x
    <2>1. CASE i < k
        BY <1>3, <2>1
    <2>2. CASE i = k
        <3>1. q = ptr /\ b = bytes
            BY <2>2 DEF ptr, bytes, q, b
        <3>2. Has(h[i], ptr, bytes)
            BY <1>5, <2>01, <3>1 DEF Has
        <3>. QED
            BY <3>2
    <2>3. CASE i > k
        <3>1. Has(h[i - 1], ptr, bytes)
            BY <1>3, <1>6, <2>3
        <3>2. Reach(writes[i]) \cap Reach(writes[k]) = {} /\ Reach(writes[i]) = q .. q + Len(b) - 1
            BY <1>3, <2>3 DEF Reach, last0, q, b
        <3>3. \A j \in 1 .. Len(bytes) : ptr + j - 1 \notin q .. q + Len(b) - 1
            BY <1>5, <3>2
        <3>4. Has(h[i], ptr, bytes)
            BY <1>5, <2>01, <3>1, <3>3 DEF Has
        <3>. QED
            BY <3>4
    <2>. QED
        BY <1>3, <2>1, <2>2, <2>3
<1>7. \A i \in 0 .. last0 : i \in P
    <2> HIDE DEF P
    <2>. QED
        BY <1>0, <1>4, <1>6, UpTo
<1>8. Has(h[last0], ptr, bytes)
    BY <1>0, <1>3, <1>7
<1>. QED
    BY <1>1, <1>8 DEF ptr, bytes

-----------------------------------------------------------------------------
(***************************************************************************)
(* The checks of a body                                                    *)
(***************************************************************************)
HoldsNext(g, checks, args, m) ==
    [i \in 0 .. Len(checks) |-> i = 0 \/ (g[i - 1] /\ Holds(checks[i], args, m))]

LEMMA HoldsExists ==
    ASSUME NEW checks, Len(checks) \in Nat, NEW args, NEW m
    PROVE  \E g : g = HoldsNext(g, checks, args, m)
<1> DEFINE n == Len(checks)
           S == BOOLEAN
           step == [p \in Nat \X S |-> p[2] /\ Holds(checks[p[1]], args, m)]
<1>1. step \in [Nat \X S -> S]
    OBVIOUS
<1>2. ASSUME NEW i \in Nat, NEW b \in S
      PROVE  step[<<i, b>>] = (b /\ Holds(checks[i], args, m))
    <2>1. <<i, b>> \in Nat \X S
        OBVIOUS
    <2>. QED
        BY <2>1
<1> HIDE DEF step, n
<1>3. n \in Nat /\ TRUE \in S
    BY DEF n
<1>4. PICK g \in [0 .. n -> S] : Iterates(g, n, TRUE, step)
    BY <1>1, <1>3, IterationExists
<1>5. ASSUME NEW i \in 0 .. n
      PROVE  g[i] = (i = 0 \/ (g[i - 1] /\ Holds(checks[i], args, m)))
    <2>1. CASE i = 0
        BY <1>4, <2>1 DEF Iterates
    <2>2. CASE i # 0
        <3>1. i \in 1 .. n /\ i \in Nat /\ i - 1 \in 0 .. n
            BY <1>3, <2>2
        <3>2. g[i - 1] \in S /\ g[i] = step[<<i, g[i - 1]>>]
            BY <1>4, <3>1 DEF Iterates
        <3>3. g[i] = (g[i - 1] /\ Holds(checks[i], args, m))
            BY <1>2, <3>1, <3>2
        <3>. QED
            BY <2>2, <3>3, Zenon
    <2>. QED
        BY <2>1, <2>2
<1>6. g = HoldsNext(g, checks, args, m)
    BY <1>4, <1>5 DEF HoldsNext, n
<1>. QED
    BY <1>6

LEMMA FirstFailureFacts ==
    ASSUME NEW T, NEW checks \in Seq(T), \A c \in T : c.status # "Ok", NEW args, NEW m
    PROVE  \/ FirstFailure(checks, args, m) \in {c.status : c \in T}
           \/ /\ FirstFailure(checks, args, m) = "Ok"
              /\ \A i \in 1 .. Len(checks) : Holds(checks[i], args, m)
<1> DEFINE n == Len(checks)
           g == CHOOSE h : h = HoldsNext(h, checks, args, m)
           passed == {i \in DOMAIN checks : g[i]}
<1>0. n \in Nat /\ DOMAIN checks = 1 .. n
    OBVIOUS
<1>1. FirstFailure(checks, args, m)
          = IF Cardinality(passed) = n THEN "Ok" ELSE checks[Cardinality(passed) + 1].status
    BY DEF FirstFailure, HoldsNext
<1>2. g = HoldsNext(g, checks, args, m)
    BY <1>0, HoldsExists
<1> HIDE DEF g, n
<1>3. IsFiniteSet(1 .. n) /\ Cardinality(1 .. n) = n
    BY <1>0, FS_Interval
<1>4. passed \subseteq 1 .. n
    BY <1>0
<1>5. IsFiniteSet(passed) /\ Cardinality(passed) \in Nat /\ Cardinality(passed) <= n
    BY <1>3, <1>4, FS_Subset, FS_CardinalityType
<1>6. CASE Cardinality(passed) = n
    <2>1. passed = 1 .. n
        BY <1>3, <1>4, <1>6, FS_Subset
    <2>2. ASSUME NEW i \in 1 .. n
          PROVE  Holds(checks[i], args, m)
        <3>1. g[i]
            BY <2>1
        <3>2. i \in 0 .. n /\ i # 0
            BY <1>0
        <3>3. g[i] = (i = 0 \/ (g[i - 1] /\ Holds(checks[i], args, m)))
            BY <1>2, <3>2 DEF HoldsNext, n
        <3>. QED
            BY <3>1, <3>2, <3>3, Zenon
    <2>. QED
        BY <1>1, <1>6, <2>2 DEF n
<1>7. CASE Cardinality(passed) # n
    <2> DEFINE k == Cardinality(passed) + 1
    <2>1. k \in 1 .. n
        BY <1>0, <1>5, <1>7
    <2> HIDE DEF k
    <2>2. checks[k] \in T
        BY <1>0, <2>1 DEF n
    <2>3. FirstFailure(checks, args, m) = checks[k].status
        BY <1>1, <1>7 DEF k
    <2>. QED
        BY <2>2, <2>3
<1>. QED
    BY <1>6, <1>7

\* Every check of every body, by its test and its status.
Tests == {"Known", "Span", "Bytes", "Word", "Long", "Wanted", "Name", "Pairs", "Required"}
ArgNames ==
    {"id", "size", "data", "pairs", "key", "value", "unused", "path", "name", "arguments",
     "details", "body", "upstream", "headers", "trailers", "call", "service", "method",
     "message", "code", "level", "time"}
Checks == [test : Tests, arg : ArgNames, status : Failing]

LEMMA CheckTyped ==
    /\ Known \in Checks
    /\ \A arg \in ArgNames :
          /\ Span(arg) \in Checks /\ Bytes(arg) \in Checks /\ Word(arg) \in Checks
          /\ Long(arg) \in Checks /\ Wanted(arg) \in Checks /\ Required(arg) \in Checks
          /\ \A status \in Failing : Name(arg, status) \in Checks /\ Pairs(arg, status) \in Checks
<1>1. ASSUME NEW test \in Tests, NEW arg \in ArgNames, NEW status \in Failing
      PROVE  Check(test, arg, status) \in Checks
    BY DEF Check, Checks
<1>2. /\ {"Known", "Span", "Bytes", "Word", "Long", "Wanted", "Name", "Pairs", "Required"} \subseteq Tests
      /\ {"BadArgument", "InvalidMemoryAccess"} \subseteq Failing /\ "id" \in ArgNames
    BY DEF Tests, Failing, ArgNames
<1>. QED
    BY <1>1, <1>2 DEF Known, Span, Bytes, Word, Long, Wanted, Required, Name, Pairs

LEMMA ArgNamesAre ==
    /\ "id" \in ArgNames /\ "size" \in ArgNames /\ "data" \in ArgNames /\ "pairs" \in ArgNames
    /\ "key" \in ArgNames /\ "value" \in ArgNames /\ "unused" \in ArgNames /\ "path" \in ArgNames
    /\ "name" \in ArgNames /\ "arguments" \in ArgNames /\ "details" \in ArgNames
    /\ "body" \in ArgNames /\ "upstream" \in ArgNames /\ "headers" \in ArgNames
    /\ "trailers" \in ArgNames /\ "call" \in ArgNames /\ "service" \in ArgNames
    /\ "method" \in ArgNames /\ "message" \in ArgNames /\ "code" \in ArgNames
    /\ "level" \in ArgNames /\ "time" \in ArgNames
    BY DEF ArgNames

LEMMA StatusesTyped == {"BadArgument", "NotFound", "ParseFailure"} \subseteq Failing
    BY DEF Failing

LEMMA BodyTyped ==
    ASSUME NEW f \in HostFunction
    PROVE  Body[f] \in Seq(Checks)
<1>1. CASE f \in MapFunction
    <2>1. proxy_get_header_map_size \in Seq(Checks)
        BY CheckTyped, ArgNamesAre, StatusesTyped DEF proxy_get_header_map_size
    <2>2. proxy_get_header_map_pairs \in Seq(Checks)
        BY CheckTyped, ArgNamesAre, StatusesTyped DEF proxy_get_header_map_pairs
    <2>3. proxy_set_header_map_pairs \in Seq(Checks)
        BY CheckTyped, ArgNamesAre, StatusesTyped DEF proxy_set_header_map_pairs
    <2>4. proxy_get_header_map_value \in Seq(Checks)
        BY CheckTyped, ArgNamesAre, StatusesTyped DEF proxy_get_header_map_value
    <2>5. proxy_add_header_map_value \in Seq(Checks)
        BY CheckTyped, ArgNamesAre, StatusesTyped DEF proxy_add_header_map_value, KeyAndValue
    <2>6. proxy_replace_header_map_value \in Seq(Checks)
        BY CheckTyped, ArgNamesAre, StatusesTyped DEF proxy_replace_header_map_value, KeyAndValue
    <2>7. proxy_remove_header_map_value \in Seq(Checks)
        BY CheckTyped, ArgNamesAre, StatusesTyped DEF proxy_remove_header_map_value
    <2>8. Body[f] \in {proxy_get_header_map_size, proxy_get_header_map_pairs,
                      proxy_set_header_map_pairs, proxy_get_header_map_value,
                      proxy_add_header_map_value, proxy_replace_header_map_value,
                      proxy_remove_header_map_value}
        BY <1>1 DEF MapFunction, Body
    <2>. QED
        BY <2>1, <2>2, <2>3, <2>4, <2>5, <2>6, <2>7, <2>8
<1>2. CASE f \in BufferFunction
    <2>1. proxy_get_buffer_bytes \in Seq(Checks)
        BY CheckTyped, ArgNamesAre, StatusesTyped DEF proxy_get_buffer_bytes
    <2>2. proxy_set_buffer_bytes \in Seq(Checks)
        BY CheckTyped, ArgNamesAre, StatusesTyped DEF proxy_set_buffer_bytes
    <2>3. proxy_get_buffer_status \in Seq(Checks)
        BY CheckTyped, ArgNamesAre, StatusesTyped DEF proxy_get_buffer_status
    <2>4. Body[f] \in {proxy_get_buffer_bytes, proxy_set_buffer_bytes,
                      proxy_get_buffer_status}
        BY <1>2 DEF BufferFunction, Body
    <2>. QED
        BY <2>1, <2>2, <2>3, <2>4
<1>3. CASE f \in PropertyFunction
    <2>1. proxy_get_property \in Seq(Checks)
        BY CheckTyped, ArgNamesAre, StatusesTyped DEF proxy_get_property
    <2>2. proxy_set_property \in Seq(Checks)
        BY CheckTyped, ArgNamesAre, StatusesTyped DEF proxy_set_property
    <2>3. Body[f] \in {proxy_get_property, proxy_set_property}
        BY <1>3 DEF PropertyFunction, Body
    <2>. QED
        BY <2>1, <2>2, <2>3
<1>4. CASE f = Foreign
    BY <1>4, CheckTyped, ArgNamesAre DEF Foreign, Body, proxy_call_foreign_function
<1>5. CASE f \in StreamFunction
    <2>1. proxy_send_local_response \in Seq(Checks)
        BY CheckTyped, ArgNamesAre, StatusesTyped DEF proxy_send_local_response
    <2>2. proxy_continue_stream \in Seq(Checks)
        BY CheckTyped, ArgNamesAre, StatusesTyped DEF proxy_continue_stream
    <2>3. proxy_close_stream \in Seq(Checks)
        BY CheckTyped, ArgNamesAre, StatusesTyped DEF proxy_close_stream
    <2>4. Body[f] \in {proxy_send_local_response, proxy_continue_stream, proxy_close_stream}
        BY <1>5 DEF StreamFunction, Body
    <2>. QED
        BY <2>1, <2>2, <2>3, <2>4
<1>6. CASE f \in Crate
    <2>1. proxy_get_status \in Seq(Checks)
        BY CheckTyped, ArgNamesAre, StatusesTyped DEF proxy_get_status
    <2>2. proxy_log \in Seq(Checks)
        BY CheckTyped, ArgNamesAre, StatusesTyped DEF proxy_log
    <2>3. proxy_get_log_level \in Seq(Checks)
        BY CheckTyped, ArgNamesAre, StatusesTyped DEF proxy_get_log_level
    <2>4. proxy_get_current_time_nanoseconds \in Seq(Checks)
        BY CheckTyped, ArgNamesAre, StatusesTyped DEF proxy_get_current_time_nanoseconds
    <2>5. Body[f] \in {proxy_get_status, proxy_log, proxy_get_log_level,
                      proxy_get_current_time_nanoseconds}
        BY <1>6 DEF Crate, Body
    <2>. QED
        BY <2>1, <2>2, <2>3, <2>4, <2>5
<1>7. CASE f = "proxy_http_call"
    BY <1>7, CheckTyped, ArgNamesAre, StatusesTyped DEF Body, proxy_http_call
<1>8. NamesAndMetadata \in Seq(Checks)
    BY CheckTyped, ArgNamesAre, StatusesTyped DEF NamesAndMetadata
<1>9. CASE f = "proxy_grpc_call"
    <2> DEFINE head == <<Span("upstream"), Span("service"), Span("method"), Span("pairs"), Span("message")>>
               tail == <<Bytes("message")>>
    <2>1. head \in Seq(Checks) /\ tail \in Seq(Checks)
        BY CheckTyped, ArgNamesAre
    <2>2. Body[f] = head \o NamesAndMetadata \o tail
        BY <1>9 DEF Body, proxy_grpc_call
    <2> HIDE DEF head, tail
    <2>3. head \o NamesAndMetadata \in Seq(Checks)
        BY <1>8, <2>1, ConcatProperties
    <2>4. (head \o NamesAndMetadata) \o tail \in Seq(Checks)
        BY <2>1, <2>3, ConcatProperties
    <2>. QED
        BY <2>2, <2>4
<1>10. CASE f = "proxy_grpc_stream"
    <2> DEFINE head == <<Span("upstream"), Span("service"), Span("method"), Span("pairs")>>
    <2>1. head \in Seq(Checks)
        BY CheckTyped, ArgNamesAre
    <2>2. Body[f] = head \o NamesAndMetadata
        BY <1>10 DEF Body, proxy_grpc_stream
    <2> HIDE DEF head
    <2>3. head \o NamesAndMetadata \in Seq(Checks)
        BY <1>8, <2>1, ConcatProperties
    <2>. QED
        BY <2>2, <2>3
<1>. QED
    BY <1>1, <1>2, <1>3, <1>4, <1>5, <1>6, <1>7, <1>9, <1>10, Families DEF Opening

\* The body of a function has a check, and the call passed every check.
Makes(f, check) == \E i \in 1 .. Len(Body[f]) : Body[f][i] = check
Passed(f, a) == \A i \in 1 .. Len(Body[f]) : Holds(Body[f][i], a, memory)

LEMMA MapChecks ==
    /\ Makes("proxy_get_header_map_size", Word("size"))
    /\ Makes("proxy_get_header_map_pairs", Word("data"))
    /\ Makes("proxy_get_header_map_pairs", Word("size"))
    /\ Makes("proxy_set_header_map_pairs", Bytes("pairs"))
    /\ Makes("proxy_get_header_map_value", Word("data"))
    /\ Makes("proxy_get_header_map_value", Word("size"))
    /\ Makes("proxy_get_header_map_value", Bytes("key"))
    /\ Makes("proxy_add_header_map_value", Bytes("key"))
    /\ Makes("proxy_add_header_map_value", Bytes("value"))
    /\ Makes("proxy_replace_header_map_value", Bytes("key"))
    /\ Makes("proxy_replace_header_map_value", Bytes("value"))
    /\ Makes("proxy_remove_header_map_value", Bytes("key"))
<1>1. 2 \in 1 .. 2 /\ 2 \in 1 .. 3 /\ 3 \in 1 .. 3 /\ 3 \in 1 .. 4 /\ 3 \in 1 .. 5 /\ 4 \in 1 .. 5 /\ 5 \in 1 .. 5
    OBVIOUS
<1>2. Makes("proxy_get_header_map_size", Word("size"))
    BY <1>1 DEF Makes, Body, proxy_get_header_map_size
<1>3. /\ Makes("proxy_get_header_map_pairs", Word("data"))
      /\ Makes("proxy_get_header_map_pairs", Word("size"))
    BY <1>1 DEF Makes, Body, proxy_get_header_map_pairs
<1>4. Makes("proxy_set_header_map_pairs", Bytes("pairs"))
    BY <1>1 DEF Makes, Body, proxy_set_header_map_pairs
<1>5. /\ Makes("proxy_get_header_map_value", Word("data"))
      /\ Makes("proxy_get_header_map_value", Word("size"))
      /\ Makes("proxy_get_header_map_value", Bytes("key"))
    BY <1>1 DEF Makes, Body, proxy_get_header_map_value
<1>6. /\ Makes("proxy_add_header_map_value", Bytes("key"))
      /\ Makes("proxy_add_header_map_value", Bytes("value"))
      /\ Makes("proxy_replace_header_map_value", Bytes("key"))
      /\ Makes("proxy_replace_header_map_value", Bytes("value"))
    BY <1>1 DEF Makes, Body, proxy_add_header_map_value, proxy_replace_header_map_value, KeyAndValue
<1>7. Makes("proxy_remove_header_map_value", Bytes("key"))
    BY <1>1 DEF Makes, Body, proxy_remove_header_map_value
<1>. QED
    BY <1>2, <1>3, <1>4, <1>5, <1>6, <1>7

LEMMA OtherChecks ==
    /\ Makes("proxy_get_buffer_bytes", Word("data"))
    /\ Makes("proxy_get_buffer_bytes", Word("size"))
    /\ Makes("proxy_set_buffer_bytes", Bytes("value"))
    /\ Makes("proxy_get_buffer_status", Word("size"))
    /\ Makes("proxy_get_buffer_status", Word("unused"))
    /\ Makes("proxy_get_property", Word("data"))
    /\ Makes("proxy_get_property", Word("size"))
    /\ Makes(Foreign, Wanted("data"))
    /\ Makes(Foreign, Wanted("size"))
    /\ Makes("proxy_get_status", Word("code"))
    /\ Makes("proxy_get_status", Word("data"))
    /\ Makes("proxy_get_status", Word("size"))
    /\ Makes("proxy_log", Bytes("message"))
    /\ Makes("proxy_get_log_level", Word("level"))
    /\ Makes("proxy_get_current_time_nanoseconds", Long("time"))
<1>1. 2 \in 1 .. 3 /\ 3 \in 1 .. 3 /\ 2 \in 1 .. 5 /\ 3 \in 1 .. 5 /\ 3 \in 1 .. 6 /\ 4 \in 1 .. 6 /\ 1 \in 1 .. 3 /\ 1 \in 1 .. 1
    OBVIOUS
<1>2. /\ Makes("proxy_get_buffer_bytes", Word("data"))
      /\ Makes("proxy_get_buffer_bytes", Word("size"))
    BY <1>1 DEF Makes, Body, proxy_get_buffer_bytes
<1>3. Makes("proxy_set_buffer_bytes", Bytes("value"))
    BY <1>1 DEF Makes, Body, proxy_set_buffer_bytes
<1>4. /\ Makes("proxy_get_buffer_status", Word("size"))
      /\ Makes("proxy_get_buffer_status", Word("unused"))
    BY <1>1 DEF Makes, Body, proxy_get_buffer_status
<1>5. /\ Makes("proxy_get_property", Word("data"))
      /\ Makes("proxy_get_property", Word("size"))
    BY <1>1 DEF Makes, Body, proxy_get_property
<1>6. Makes(Foreign, Wanted("data")) /\ Makes(Foreign, Wanted("size"))
    BY <1>1 DEF Makes, Body, Foreign, proxy_call_foreign_function
<1>7. /\ Makes("proxy_get_status", Word("code"))
      /\ Makes("proxy_get_status", Word("data"))
      /\ Makes("proxy_get_status", Word("size"))
    BY <1>1 DEF Makes, Body, proxy_get_status
<1>8. Makes("proxy_log", Bytes("message"))
    BY <1>1 DEF Makes, Body, proxy_log
<1>9. /\ Makes("proxy_get_log_level", Word("level"))
      /\ Makes("proxy_get_current_time_nanoseconds", Long("time"))
    BY <1>1 DEF Makes, Body, proxy_get_log_level, proxy_get_current_time_nanoseconds
<1>. QED
    BY <1>2, <1>3, <1>4, <1>5, <1>6, <1>7, <1>8, <1>9

LEMMA OpeningChecks ==
    ASSUME NEW f \in Opening
    PROVE  Makes(f, Word("call"))
<1>1. CASE f = "proxy_http_call"
    <2>1. 5 \in 1 .. 12
        OBVIOUS
    <2>. QED
        BY <1>1, <2>1 DEF Makes, Body, proxy_http_call
<1>2. CASE f = "proxy_grpc_call"
    <2> DEFINE head == <<Span("upstream"), Span("service"), Span("method"), Span("pairs"), Span("message")>>
                           \o NamesAndMetadata
               tail == <<Bytes("message")>>
    <2>1. head \in Seq(Checks) /\ tail \in Seq(Checks)
        <3>1. <<Span("upstream"), Span("service"), Span("method"), Span("pairs"), Span("message")>> \in Seq(Checks)
            BY CheckTyped, ArgNamesAre
        <3>2. NamesAndMetadata \in Seq(Checks)
            BY CheckTyped, ArgNamesAre, StatusesTyped DEF NamesAndMetadata
        <3>. QED
            BY <3>1, <3>2, CheckTyped, ArgNamesAre, ConcatProperties
    <2>2. Len(head) = 11 /\ head[6] = Word("call") /\ Len(tail) = 1
        BY DEF NamesAndMetadata
    <2>3. Body[f] = head \o tail
        BY <1>2 DEF Body, proxy_grpc_call
    <2> HIDE DEF head, tail
    <2>4. Len(head \o tail) = 12 /\ (head \o tail)[6] = Word("call") /\ 6 \in 1 .. 12
        <3>1. Len(head \o tail) = Len(head) + Len(tail)
              /\ \A i \in 1 .. Len(head) : (head \o tail)[i] = head[i]
            BY <2>1, ConcatProperties
        <3>2. 6 \in 1 .. 11 /\ 6 \in 1 .. 12 /\ 11 + 1 = 12
            OBVIOUS
        <3>. QED
            BY <2>2, <3>1, <3>2
    <2>. QED
        BY <2>3, <2>4 DEF Makes
<1>3. CASE f = "proxy_grpc_stream"
    <2>1. 5 \in 1 .. 10
        OBVIOUS
    <2>. QED
        BY <1>3, <2>1 DEF Makes, Body, proxy_grpc_stream, NamesAndMetadata
<1>. QED
    BY <1>1, <1>2, <1>3 DEF Opening

\* What a passed check says of an argument.
LEMMA ArgsTyped ==
    ASSUME NEW f \in HostFunction, NEW a \in Args[f]
    PROVE  /\ \A name \in SpanNames(f) : a.spans[name] \in GuestSlice
           /\ \A name \in PtrNames(f) : a.ptrs[name] \in GuestPtr
           /\ a.start \in Nat /\ a.size \in Nat
<1>1. /\ \A name \in SpanNames(f) : a.spans[name] \in SpansOf(name)
      /\ \A name \in PtrNames(f) : a.ptrs[name] \in PtrsOf(name)
      /\ a.start \in NumbersOf(f) /\ a.size \in NumbersOf(f)
    BY DEF Args
<1>2. NumbersOf(f) \subseteq Nat
    BY ArgumentsAssumption, WordMaxFacts DEF NumbersOf
<1>. QED
    BY <1>1, <1>2, ArgumentsAssumption

LEMMA MakesNames ==
    ASSUME NEW f \in HostFunction, NEW name
    PROVE  /\ Makes(f, Bytes(name)) => name \in SpanNames(f)
           /\ Makes(f, Word(name)) \/ Makes(f, Wanted(name)) \/ Makes(f, Long(name)) => name \in PtrNames(f)
<1>1. DOMAIN Body[f] = 1 .. Len(Body[f])
    BY BodyTyped
<1>2. ASSUME Makes(f, Bytes(name))
      PROVE  name \in SpanNames(f)
    <2>1. PICK i \in DOMAIN Body[f] : Body[f][i] = Bytes(name)
        BY <1>1, <1>2 DEF Makes
    <2>2. Body[f][i].test = "Bytes" /\ Body[f][i].arg = name
        BY <2>1 DEF Bytes, Check
    <2>. QED
        BY <2>2 DEF SpanNames
<1>3. ASSUME Makes(f, Word(name)) \/ Makes(f, Wanted(name)) \/ Makes(f, Long(name))
      PROVE  name \in PtrNames(f)
    <2>1. PICK i \in DOMAIN Body[f] : Body[f][i] \in {Word(name), Wanted(name), Long(name)}
        BY <1>1, <1>3 DEF Makes
    <2>2. Body[f][i].test \in {"Word", "Long", "Wanted"} /\ Body[f][i].arg = name
        BY <2>1 DEF Word, Wanted, Long, Check
    <2>. QED
        BY <2>2 DEF PtrNames
<1>. QED
    BY <1>2, <1>3

\* A place in the memory where a word may go.
HasSlot(ptr) == ptr \in GuestPtr /\ HasWord(memory, ptr)

LEMMA PassedFacts ==
    ASSUME NEW f \in HostFunction, NEW a \in Args[f], Passed(f, a), NEW name, Memories(memory)
    PROVE  /\ Makes(f, Bytes(name)) => Read(memory, a.spans[name]) \in Seq(Byte)
           /\ Makes(f, Word(name)) => HasSlot(a.ptrs[name])
           /\ Makes(f, Wanted(name)) => a.ptrs[name] = 0 \/ HasSlot(a.ptrs[name])
           /\ Makes(f, Long(name)) => a.ptrs[name] \in GuestPtr
<1>1. ASSUME Makes(f, Bytes(name))
      PROVE  Read(memory, a.spans[name]) \in Seq(Byte)
    <2>1. a.spans[name] \in GuestSlice
        BY <1>1, ArgsTyped, MakesNames
    <2>2. Holds(Bytes(name), a, memory)
        BY <1>1 DEF Makes, Passed
    <2>3. Inside(memory, a.spans[name])
        BY <2>2 DEF Holds, Bytes, Check
    <2>4. PICK n \in 0 .. WordMax + 1 : memory \in MemoryOf(n)
        BY DEF Memories, MemoryOf
    <2>5. n \in Nat
        BY WordMaxFacts
    <2>. QED
        BY <2>1, <2>3, <2>4, <2>5, ReadableIn
<1>2. ASSUME Makes(f, Word(name))
      PROVE  HasSlot(a.ptrs[name])
    <2>1. a.ptrs[name] \in GuestPtr
        BY <1>2, ArgsTyped, MakesNames
    <2>2. Holds(Word(name), a, memory)
        BY <1>2 DEF Makes, Passed
    <2>3. HasWord(memory, a.ptrs[name])
        BY <2>2 DEF Holds, Word, Check
    <2>. QED
        BY <2>1, <2>3 DEF HasSlot
<1>3. ASSUME Makes(f, Wanted(name))
      PROVE  a.ptrs[name] = 0 \/ HasSlot(a.ptrs[name])
    <2>1. a.ptrs[name] \in GuestPtr
        BY <1>3, ArgsTyped, MakesNames
    <2>2. Holds(Wanted(name), a, memory)
        BY <1>3 DEF Makes, Passed
    <2>3. a.ptrs[name] = 0 \/ HasWord(memory, a.ptrs[name])
        BY <2>2 DEF Holds, Wanted, Check
    <2>. QED
        BY <2>1, <2>3 DEF HasSlot
<1>4. ASSUME Makes(f, Long(name))
      PROVE  a.ptrs[name] \in GuestPtr
    BY <1>4, ArgsTyped, MakesNames
<1>. QED
    BY <1>1, <1>2, <1>3, <1>4

-----------------------------------------------------------------------------
(***************************************************************************)
(* What a body gives: bytes, places that were checked, the right status    *)
(***************************************************************************)
HeldType == [map : Seq(Pair), buffer : Seq(Byte)]

\* The words that follow a value: none, or one at a place that was checked.
HasAfter(after) ==
    \/ after = <<>>
    \/ \E p \in GuestPtr, v \in GuestPtr : HasWord(memory, p) /\ after = <<WordAt(p, v)>>

\* The three parts of LogIsPrefix.
GoodLog(log) ==
    /\ IsPrefix(log.message, log.sent)
    /\ ~Exceeds(Len(log.message), MaxLogBytes)
    /\ log.plugin => log.call /\ here.context # "None"

SlotOf(f, a, name) ==
    IF f = "proxy_call_foreign_function" /\ a.ptrs[name] = 0 THEN Absent ELSE a.ptrs[name]
Slotted(ptr) == ptr = Absent \/ HasSlot(ptr)
MayReturn(f, a) ==
    f \notin Effects /\ Slotted(SlotOf(f, a, "data")) /\ Slotted(SlotOf(f, a, "size"))

TypedOutcome(o, f, a) ==
    /\ IsOutcome(o)
    /\ o.status \in Failing \cup {"Ok"}
    /\ o.writes \in Writes /\ HasAfter(o.after) /\ o.held \in HeldType
    /\ o.value = Absent \/ (o.value \in Seq(Byte) /\ MayReturn(f, a))
    /\ o.message = Absent \/ GoodLog(o.message)
    /\ o.status = "Ok" /\ f \in Effects => o.told.fn = f

LEMMA OutcomeRest == Outcome.writes = <<>> /\ Outcome.after = <<>> /\ <<>> \in Writes /\ HasAfter(<<>>)
    BY DEF Outcome, Writes, HasAfter

LEMMA FailsTyped ==
    ASSUME held \in HeldType, NEW f, NEW a, NEW status \in Failing
    PROVE  TypedOutcome(Fails(status), f, a)
<1>1. status # "Ok"
    BY OkFails
<1>. QED
    BY <1>1, OutcomeFields, OutcomeRest DEF TypedOutcome, Fails, IsOutcome

LEMMA AsksTyped ==
    ASSUME NEW o, NEW f, NEW a, TypedOutcome(o, f, a)
    PROVE  TypedOutcome(Asks(o), f, a)
    BY OutcomeFields DEF TypedOutcome, Asks, IsOutcome

LEMMA ReturnsTyped ==
    ASSUME held \in HeldType, NEW f, NEW a, MayReturn(f, a), NEW value \in Seq(Byte)
    PROVE  TypedOutcome(Returns(value), f, a)
<1>1. f \notin Effects
    BY DEF MayReturn
<1>. QED
    BY <1>1, OutcomeFields, OutcomeRest DEF TypedOutcome, Returns, IsOutcome

LEMMA WritingTyped ==
    ASSUME held \in HeldType, NEW f, f \notin Effects, NEW a, NEW writes \in Writes
    PROVE  TypedOutcome(Writing(writes), f, a)
    BY OutcomeFields, OutcomeRest DEF TypedOutcome, Writing, IsOutcome

LEMMA TellingTyped ==
    ASSUME held \in HeldType, NEW f, NEW a, NEW request, request.fn = f
    PROVE  TypedOutcome(Telling(request), f, a)
    BY OutcomeFields, OutcomeRest DEF TypedOutcome, Telling, IsOutcome

LEMMA HoldingTyped ==
    ASSUME NEW f, f \notin Effects, NEW a, NEW new \in HeldType
    PROVE  TypedOutcome([Outcome EXCEPT !.held = new], f, a)
    BY OutcomeFields, OutcomeRest DEF TypedOutcome, IsOutcome

LEMMA EitherTyped ==
    ASSUME held \in HeldType, NEW f, NEW a, NEW status \in Failing, NEW good,
           TypedOutcome(good, f, a), NEW o \in {Fails(status), good}
    PROVE  TypedOutcome(o, f, a)
    BY FailsTyped

LEMMA AskStreamTyped ==
    ASSUME held \in HeldType, NEW method, NEW answers, NEW f, NEW a,
           \A p \in answers : TypedOutcome(p, f, a),
           NEW o \in AskStream(method, answers)
    PROVE  TypedOutcome(o, f, a)
<1>0. Unserved(method) \in Failing /\ {"NotFound", "InternalFailure"} \subseteq Failing
    BY DEF Unserved, Failing
<1>1. CASE ~WithStream
    BY <1>0, <1>1, FailsTyped DEF AskStream
<1>2. CASE WithStream
    <2>1. CASE o \in Refusals(method)
        <3>1. PICK status \in {"Ok", "NotFound", Unserved(method)} : o = FromEmbedder(status)
            BY <2>1 DEF Refusals
        <3>2. DEFINE s == IF status = "Ok" THEN "InternalFailure" ELSE status
        <3>3. s \in Failing
            BY <1>0
        <3>4. o = Asks(Fails(s))
            BY <3>1 DEF FromEmbedder
        <3> HIDE DEF s
        <3>. QED
            BY <3>3, <3>4, FailsTyped, AsksTyped
    <2>2. CASE \E p \in answers : o = Asks(p)
        BY <2>2, AsksTyped
    <2>. QED
        BY <1>2, <2>1, <2>2 DEF AskStream
<1>. QED
    BY <1>1, <1>2

LEMMA WordWrite ==
    ASSUME NEW ptr \in GuestPtr, NEW v \in Nat
    PROVE  WordAt(ptr, v) \in Nat \X Seq(Byte) /\ LongAt(ptr, v) \in Nat \X Seq(Byte)
<1>1. ptr \in Nat /\ WordBytes \in 1 .. 2 * WordBytes /\ 2 * WordBytes \in 1 .. 2 * WordBytes
    BY WordMaxFacts, Widths
<1>2. LittleEndian(v, WordBytes) \in Seq(Byte) /\ LittleEndian(v, 2 * WordBytes) \in Seq(Byte)
    BY <1>1, LittleEndianBytes
<1>. QED
    BY <1>1, <1>2 DEF WordAt, LongAt

\* A function that is not the foreign one, and whose two pointers were checked.
LEMMA MayReturnIf ==
    ASSUME NEW f, NEW a, f \notin Effects, f # Foreign,
           HasSlot(a.ptrs["data"]), HasSlot(a.ptrs["size"])
    PROVE  MayReturn(f, a)
    BY DEF MayReturn, SlotOf, Slotted, Foreign

\* The map and the buffer that a call reads.
LEMMA MapReadTyped ==
    ASSUME held \in HeldType, NEW id
    PROVE  /\ MapOf(id) \in Seq(Pair) \cup {Absent}
           /\ MapRead(id) \in Seq(Pair) \cup {Absent}
<1>1. Payloads.map \in Seq(Pair) /\ Payloads.trailers \in Seq(Pair) /\ held.map \in Seq(Pair)
    BY EmbedderAssumption DEF HeldType
<1>2. MapOf(id) \in Seq(Pair) \cup {Absent}
    BY <1>1 DEF MapOf
<1>. QED
    BY <1>1, <1>2 DEF MapRead

LEMMA SourceTyped ==
    ASSUME held \in HeldType, NEW id
    PROVE  /\ CrateBytes(id) \in Seq(Byte) \cup {Absent}
           /\ Source(id) \in Seq(Byte) \cup {Absent}
<1>1. Payloads.bytes \in Seq(Byte) /\ held.buffer \in Seq(Byte)
    BY EmbedderAssumption DEF HeldType
<1>2. Configuration.vm \in Seq(Byte) /\ Configuration.plugin \in Seq(Byte)
    BY ConfigurationAssumption DEF VmServices, PluginConfig
<1>3. BufferOf(id) \in Seq(Byte) \cup {Absent} /\ PluginOf(Configuration.plugin) \in Seq(Byte) \cup {Absent}
    BY <1>1, <1>2 DEF BufferOf, PluginOf
<1>4. CrateBytes(id) \in Seq(Byte) \cup {Absent}
    BY <1>2, <1>3 DEF CrateBytes
<1>. QED
    BY <1>1, <1>4 DEF Source

LEMMA ReadMapTyped ==
    ASSUME held \in HeldType, NEW f, NEW a, NEW id, NEW answer,
           MapRead(id) # Absent => TypedOutcome(answer, f, a),
           NEW o \in ReadMap(id, answer)
    PROVE  TypedOutcome(o, f, a)
<1>0. "BadArgument" \in Failing
    BY DEF Failing
<1>1. CASE id \in DeliveredMap
    <2>1. CASE MapOf(id) = Absent
        BY <1>0, <1>1, <2>1, FailsTyped DEF ReadMap
    <2>2. CASE MapOf(id) # Absent
        BY <1>1, <2>2 DEF ReadMap, MapRead
    <2>. QED
        BY <2>1, <2>2
<1>2. CASE id \notin DeliveredMap
    <2>1. MapRead(id) # Absent
        BY <1>2, AbsentAssumption DEF MapRead, HeldType
    <2>. QED
        BY <1>2, <2>1, AskStreamTyped DEF ReadMap
<1>. QED
    BY <1>1, <1>2

LEMMA ReadBufferTyped ==
    ASSUME held \in HeldType, NEW f, NEW a, NEW id, NEW answer,
           Source(id) # Absent => TypedOutcome(answer, f, a),
           NEW o \in ReadBuffer(id, answer)
    PROVE  TypedOutcome(o, f, a)
<1>0. "NotFound" \in Failing
    BY DEF Failing
<1>1. CASE id \in CrateBuffer
    <2>1. CASE CrateBytes(id) = Absent
        BY <1>0, <1>1, <2>1, FailsTyped DEF ReadBuffer
    <2>2. CASE CrateBytes(id) # Absent
        BY <1>1, <2>2 DEF ReadBuffer, Source
    <2>. QED
        BY <2>1, <2>2
<1>2. CASE id \notin CrateBuffer
    <2>1. Source(id) # Absent
        BY <1>2, AbsentAssumption DEF Source, HeldType
    <2>. QED
        BY <1>2, <2>1, AskStreamTyped DEF ReadBuffer
<1>. QED
    BY <1>1, <1>2

LEMMA WriteMapTyped ==
    ASSUME held \in HeldType, NEW f, f \notin Effects, NEW a, NEW id, NEW written \in Seq(Pair),
           NEW o \in WriteMap(id, written)
    PROVE  TypedOutcome(o, f, a)
<1>0. "BadArgument" \in Failing
    BY DEF Failing
<1>1. CASE id \in DeliveredMap
    BY <1>0, <1>1, FailsTyped DEF WriteMap
<1>2. CASE id \notin DeliveredMap
    <2> DEFINE new == [held EXCEPT !.map = written]
    <2>1. new \in HeldType
        BY DEF HeldType
    <2>2. [Outcome EXCEPT !.held.map = written] = [Outcome EXCEPT !.held = new]
        BY OutcomeFields
    <2> HIDE DEF new
    <2>3. TypedOutcome([Outcome EXCEPT !.held.map = written], f, a)
        BY <2>1, <2>2, HoldingTyped
    <2>4. TypedOutcome(Fails("BadArgument"), f, a)
        BY <1>0, FailsTyped
    <2>. QED
        BY <1>2, <2>3, <2>4, AskStreamTyped DEF WriteMap
<1>. QED
    BY <1>1, <1>2

LEMMA WriteBufferTyped ==
    ASSUME held \in HeldType, NEW f, f \notin Effects, NEW a, NEW id, NEW written \in Seq(Byte),
           NEW o \in WriteBuffer(id, written)
    PROVE  TypedOutcome(o, f, a)
<1>0. "NotFound" \in Failing
    BY DEF Failing
<1>1. CASE id \in CrateBuffer
    BY <1>0, <1>1, FailsTyped DEF WriteBuffer
<1>2. CASE id \notin CrateBuffer
    <2> DEFINE new == [held EXCEPT !.buffer = written]
    <2>1. new \in HeldType
        BY DEF HeldType
    <2>2. [Outcome EXCEPT !.held.buffer = written] = [Outcome EXCEPT !.held = new]
        BY OutcomeFields
    <2> HIDE DEF new
    <2>3. TypedOutcome([Outcome EXCEPT !.held.buffer = written], f, a)
        BY <2>1, <2>2, HoldingTyped
    <2>4. TypedOutcome(Fails("NotFound"), f, a)
        BY <1>0, FailsTyped
    <2>. QED
        BY <1>2, <2>3, <2>4, AskStreamTyped DEF WriteBuffer
<1>. QED
    BY <1>1, <1>2

-----------------------------------------------------------------------------
(***************************************************************************)
(* The bodies, one family at a time                                        *)
(***************************************************************************)
\* The state in which a body runs.
Served(f, a) == Passed(f, a) /\ held \in HeldType /\ Memories(memory)

LEMMA FunctionsAre ==
    /\ MapFunction \subseteq HostFunction /\ BufferFunction \subseteq HostFunction
    /\ PropertyFunction \subseteq HostFunction /\ Foreign \in HostFunction
    /\ StreamFunction \subseteq HostFunction /\ Opening \subseteq HostFunction
    /\ Crate \subseteq HostFunction
    BY Families

LEMMA HeaderMapTyped ==
    ASSUME NEW f \in MapFunction, NEW a \in Args[f], Served(f, a), NEW o \in HeaderMapOutcomes(f, a)
    PROVE  TypedOutcome(o, f, a)
<1> DEFINE bytes(arg) == Read(memory, a.spans[arg])
           map == MapRead(a.id)
<1>0. f \in HostFunction /\ f \notin Effects /\ f # Foreign
    BY FunctionsAre DEF MapFunction, Effects, Foreign
<1>00. held \in HeldType /\ held.map \in Seq(Pair) /\ Passed(f, a) /\ Memories(memory)
    BY DEF Served, HeldType
<1>1. ASSUME NEW name
      PROVE  /\ Makes(f, Bytes(name)) => bytes(name) \in Seq(Byte)
             /\ Makes(f, Word(name)) => HasSlot(a.ptrs[name])
    BY <1>0, <1>00, PassedFacts
<1>2. map \in Seq(Pair) \cup {Absent}
    BY <1>00, MapReadTyped
<1>3. {"InternalFailure", "SerializationFailure", "NotFound"} \subseteq Failing
    BY DEF Failing
<1> HIDE DEF bytes, map
<1>4. CASE f = "proxy_get_header_map_size"
    <2> DEFINE writes == <<WordAt(a.ptrs["size"], EncodedSizeOf(map))>>
               sized == IF EncodedSizeOf(map) > WordMax THEN Fails("InternalFailure")
                        ELSE [Outcome EXCEPT !.writes = writes]
    <2>1. ASSUME map # Absent
          PROVE  writes \in Writes
        <3>1. EncodedSizeOf(map) \in Nat
            BY <1>2, <2>1, TotalSizeNat DEF EncodedSizeOf
        <3>2. a.ptrs["size"] \in GuestPtr
            BY <1>1, <1>4, MapChecks DEF HasSlot
        <3>3. WordAt(a.ptrs["size"], EncodedSizeOf(map)) \in Nat \X Seq(Byte)
            BY <3>1, <3>2, WordWrite
        <3>. QED
            BY <3>3 DEF Writes
    <2>2. sized \in {Fails("InternalFailure"), Writing(writes)}
        BY DEF Writing
    <2>3. o \in ReadMap(a.id, sized)
        BY <1>4 DEF HeaderMapOutcomes, map
    <2> HIDE DEF writes, sized
    <2>4. map # Absent => TypedOutcome(sized, f, a)
        BY <1>0, <1>00, <1>3, <2>1, <2>2, EitherTyped, WritingTyped
    <2>. QED
        BY <1>00, <2>3, <2>4, ReadMapTyped DEF map
<1>5. CASE f = "proxy_get_header_map_pairs"
    <2> DEFINE value == EncodeMap(map).value
    <2>0. MayReturn(f, a)
        BY <1>0, <1>1, <1>5, MapChecks, MayReturnIf
    <2>1. ReturnsMap(map) \in {Fails("SerializationFailure"), Returns(value)}
        BY DEF ReturnsMap
    <2>2. map # Absent => value \in Seq(Byte)
        BY <1>2, EncodeTyped
    <2>3. o \in ReadMap(a.id, ReturnsMap(map))
        BY <1>5 DEF HeaderMapOutcomes, map
    <2> HIDE DEF value
    <2>4. map # Absent => TypedOutcome(ReturnsMap(map), f, a)
        BY <1>00, <1>3, <2>0, <2>1, <2>2, EitherTyped, ReturnsTyped
    <2>. QED
        BY <1>00, <2>3, <2>4, ReadMapTyped DEF map
<1>6. CASE f = "proxy_get_header_map_value"
    <2> DEFINE found == Get(map, bytes("key"))
               valued == IF found = Absent THEN Fails("NotFound") ELSE Returns(found)
    <2>0. MayReturn(f, a)
        BY <1>0, <1>1, <1>6, MapChecks, MayReturnIf
    <2>1. map # Absent => found \in Seq(Byte) \cup {Absent}
        BY <1>2, GetTyped
    <2>2. o \in ReadMap(a.id, valued)
        BY <1>6 DEF HeaderMapOutcomes, map, bytes
    <2>3. valued \in {Fails("NotFound"), Returns(found)} /\ (found = Absent => valued = Fails("NotFound"))
        OBVIOUS
    <2> HIDE DEF found, valued
    <2>4. map # Absent => TypedOutcome(valued, f, a)
        BY <1>00, <1>3, <2>0, <2>1, <2>3, EitherTyped, ReturnsTyped, FailsTyped
    <2>. QED
        BY <1>00, <2>2, <2>4, ReadMapTyped DEF map
<1>7. CASE f = "proxy_set_header_map_pairs"
    <2> DEFINE written == ReplacePairs(held.map, GuestPairs(bytes("pairs")).value)
    <2>1. written \in Seq(Pair)
        BY <1>1, <1>7, MapChecks, DecodeTyped DEF ReplacePairs, GuestPairs
    <2>2. o \in WriteMap(a.id, written)
        BY <1>7 DEF HeaderMapOutcomes, bytes
    <2> HIDE DEF written
    <2>. QED
        BY <1>0, <1>00, <2>1, <2>2, WriteMapTyped
<1>8. CASE f = "proxy_add_header_map_value"
    <2> DEFINE written == Add(held.map, bytes("key"), bytes("value"))
    <2>0. <<bytes("key"), bytes("value")>> \in Pair
        BY <1>1, <1>8, MapChecks DEF Pair
    <2>1. written \in Seq(Pair)
        BY <1>00, <2>0 DEF Add
    <2>2. o \in WriteMap(a.id, written)
        BY <1>8 DEF HeaderMapOutcomes, bytes
    <2> HIDE DEF written
    <2>. QED
        BY <1>0, <1>00, <2>1, <2>2, WriteMapTyped
<1>9. CASE f = "proxy_replace_header_map_value"
    <2> DEFINE written == Set(held.map, bytes("key"), bytes("value"))
    <2>1. written \in Seq(Pair)
        BY <1>00, <1>1, <1>9, MapChecks, SetTyped
    <2>2. o \in WriteMap(a.id, written)
        BY <1>9 DEF HeaderMapOutcomes, bytes
    <2> HIDE DEF written
    <2>. QED
        BY <1>0, <1>00, <2>1, <2>2, WriteMapTyped
<1>10. CASE f = "proxy_remove_header_map_value"
    <2> DEFINE written == Delete(held.map, bytes("key"))
    <2>1. written \in Seq(Pair)
        BY <1>00, DeleteTyped
    <2>2. o \in WriteMap(a.id, written)
        BY <1>10 DEF HeaderMapOutcomes, bytes
    <2> HIDE DEF written
    <2>. QED
        BY <1>0, <1>00, <2>1, <2>2, WriteMapTyped
<1>. QED
    BY <1>4, <1>5, <1>6, <1>7, <1>8, <1>9, <1>10 DEF MapFunction

LEMMA BufferTyped ==
    ASSUME NEW f \in BufferFunction, NEW a \in Args[f], Served(f, a), NEW o \in BufferOutcomes(f, a)
    PROVE  TypedOutcome(o, f, a)
<1> DEFINE value == Read(memory, a.spans["value"])
           source == Source(a.id)
<1>0. f \in HostFunction /\ f \notin Effects /\ f # Foreign
    BY FunctionsAre DEF BufferFunction, Effects, Foreign
<1>00. held \in HeldType /\ held.buffer \in Seq(Byte) /\ Passed(f, a) /\ Memories(memory)
    BY DEF Served, HeldType
<1>1. /\ Makes(f, Bytes("value")) => value \in Seq(Byte)
      /\ \A name : Makes(f, Word(name)) => HasSlot(a.ptrs[name])
    BY <1>0, <1>00, PassedFacts
<1>2. source \in Seq(Byte) \cup {Absent} /\ a.start \in Nat /\ a.size \in Nat
    BY <1>0, <1>00, SourceTyped, ArgsTyped
<1>3. {"InternalFailure", "BadArgument"} \subseteq Failing
    BY DEF Failing
<1> HIDE DEF value, source
<1>4. CASE f = "proxy_get_buffer_bytes"
    <2> DEFINE range == CopyRange(source, a.start, a.size)
               copied == IF a.start > Len(source) THEN Fails("BadArgument") ELSE Returns(range)
    <2>0. MayReturn(f, a)
        BY <1>0, <1>1, <1>4, OtherChecks, MayReturnIf
    <2>1. source # Absent => range \in Seq(Byte)
        BY <1>2, CopyTyped
    <2>2. o \in ReadBuffer(a.id, copied)
        BY <1>4 DEF BufferOutcomes, source
    <2>3. copied \in {Fails("BadArgument"), Returns(range)}
        OBVIOUS
    <2> HIDE DEF range, copied
    <2>4. source # Absent => TypedOutcome(copied, f, a)
        BY <1>00, <1>3, <2>0, <2>1, <2>3, EitherTyped, ReturnsTyped
    <2>. QED
        BY <1>00, <2>2, <2>4, ReadBufferTyped DEF source
<1>5. CASE f = "proxy_get_buffer_status"
    <2> DEFINE writes == <<WordAt(a.ptrs["size"], Len(source)), WordAt(a.ptrs["unused"], 0)>>
               sized == IF Len(source) > WordMax THEN Fails("InternalFailure")
                        ELSE [Outcome EXCEPT !.writes = writes]
    <2>1. ASSUME source # Absent
          PROVE  writes \in Writes
        <3>1. Len(source) \in Nat
            BY <1>2, <2>1
        <3>2. a.ptrs["size"] \in GuestPtr /\ a.ptrs["unused"] \in GuestPtr
            BY <1>1, <1>5, OtherChecks DEF HasSlot
        <3>3. /\ WordAt(a.ptrs["size"], Len(source)) \in Nat \X Seq(Byte)
              /\ WordAt(a.ptrs["unused"], 0) \in Nat \X Seq(Byte)
            BY <3>1, <3>2, WordWrite
        <3>. QED
            BY <3>3 DEF Writes
    <2>2. sized \in {Fails("InternalFailure"), Writing(writes)}
        BY DEF Writing
    <2>3. o \in ReadBuffer(a.id, sized)
        BY <1>5 DEF BufferOutcomes, source
    <2> HIDE DEF writes, sized
    <2>4. source # Absent => TypedOutcome(sized, f, a)
        BY <1>0, <1>00, <1>3, <2>1, <2>2, EitherTyped, WritingTyped
    <2>. QED
        BY <1>00, <2>3, <2>4, ReadBufferTyped DEF source
<1>6. CASE f = "proxy_set_buffer_bytes"
    <2> DEFINE written == Replace(held.buffer, a.start, a.size, value)
    <2>1. written \in Seq(Byte)
        BY <1>00, <1>1, <1>2, <1>6, OtherChecks, ReplaceTyped
    <2>2. o \in WriteBuffer(a.id, written)
        BY <1>6 DEF BufferOutcomes, value
    <2> HIDE DEF written
    <2>. QED
        BY <1>0, <1>00, <2>1, <2>2, WriteBufferTyped
<1>. QED
    BY <1>4, <1>5, <1>6 DEF BufferFunction

LEMMA PropertyTyped ==
    ASSUME NEW f \in PropertyFunction, NEW a \in Args[f], Served(f, a), NEW o \in PropertyOutcomes(f, a)
    PROVE  TypedOutcome(o, f, a)
<1> DEFINE path == DecodePath(Read(memory, a.spans["path"]))
<1>0. f \in HostFunction /\ f # Foreign /\ (f = "proxy_get_property" => f \notin Effects)
    BY FunctionsAre DEF PropertyFunction, Effects, Foreign
<1>00. held \in HeldType /\ Passed(f, a) /\ Memories(memory) /\ "NotFound" \in Failing
    BY DEF Served, Failing
<1>1. f = "proxy_get_property" => MayReturn(f, a)
    BY <1>0, <1>00, OtherChecks, PassedFacts, MayReturnIf
<1> HIDE DEF path
<1>2. CASE f = "proxy_get_property" /\ ServedProperty(path)
    <2> DEFINE found == WellKnownValue(path[1])
    <2>1. Configuration.vm_id \in Seq(Byte) /\ Configuration.name \in Seq(Byte) /\ Configuration.root_id \in Seq(Byte)
        BY ConfigurationAssumption DEF VmServices, PluginConfig
    <2>2. path[1] \in {Configuration.names["name"], Configuration.names["root_id"], Configuration.names["vm_id"]}
        BY <1>2 DEF ServedProperty, WellKnown
    <2>3. PluginOf(Configuration.name) \in Seq(Byte) \cup {Absent} /\ PluginOf(Configuration.root_id) \in Seq(Byte) \cup {Absent}
        BY <2>1 DEF PluginOf
    <2>4. found \in Seq(Byte) \cup {Absent}
        BY <2>1, <2>2, <2>3 DEF WellKnownValue
    <2>5. PropertyOutcomes(f, a) = {IF found = Absent THEN Fails("NotFound") ELSE Returns(found)}
        BY <1>2 DEF PropertyOutcomes, path
    <2> HIDE DEF found
    <2>6. CASE found = Absent
        BY <1>00, <2>5, <2>6, FailsTyped
    <2>7. CASE found # Absent
        BY <1>00, <1>1, <1>2, <2>4, <2>5, <2>7, ReturnsTyped
    <2>. QED
        BY <2>6, <2>7
<1>3. CASE f = "proxy_get_property" /\ ~ServedProperty(path)
    <2>1. o \in AskStream("property", {Returns(v) : v \in Values})
        BY <1>3 DEF PropertyOutcomes, path
    <2>2. \A v \in Values : TypedOutcome(Returns(v), f, a)
        BY <1>00, <1>1, <1>3, EmbedderAssumption, ReturnsTyped
    <2>. QED
        BY <1>00, <2>1, <2>2, AskStreamTyped
<1>4. CASE f = "proxy_set_property" /\ ServedProperty(path)
    BY <1>00, <1>4, FailsTyped DEF PropertyOutcomes, path
<1>5. CASE f = "proxy_set_property" /\ ~ServedProperty(path)
    <2> DEFINE request == Request(f, Append(path, Read(memory, a.spans["value"])), <<>>)
    <2>1. o \in AskStream("set_property", {Telling(request)})
        BY <1>5 DEF PropertyOutcomes, Telling, path
    <2>2. request.fn = f
        BY DEF Request
    <2> HIDE DEF request
    <2>. QED
        BY <1>00, <2>1, <2>2, AskStreamTyped, TellingTyped
<1>. QED
    BY <1>2, <1>3, <1>4, <1>5 DEF PropertyFunction

LEMMA ForeignTyped ==
    ASSUME NEW a \in Args[Foreign], Served(Foreign, a), NEW o \in ForeignOutcomes(Foreign, a)
    PROVE  TypedOutcome(o, Foreign, a)
<1> DEFINE request == Request(Foreign, <<Read(memory, a.spans["name"]),
                                         Read(memory, a.spans["arguments"])>>, <<>>)
           served(v) == [Returns(v) EXCEPT !.told = request]
           asked0 == AskStream("call_foreign_function", {served(v) : v \in Values})
<1>0. held \in HeldType /\ Passed(Foreign, a) /\ Memories(memory) /\ Foreign \in HostFunction
    BY FunctionsAre DEF Served
<1>1. PICK p \in asked0 : o = IF p.ask /\ p.status # "Ok" THEN [p EXCEPT !.value = <<>>] ELSE p
    BY DEF ForeignOutcomes
<1>2. MayReturn(Foreign, a)
    <2>1. \A name \in {"data", "size"} : a.ptrs[name] = 0 \/ HasSlot(a.ptrs[name])
        BY <1>0, OtherChecks, PassedFacts
    <2>2. Foreign \notin Effects
        BY DEF Foreign, Effects
    <2>. QED
        BY <2>1, <2>2 DEF MayReturn, SlotOf, Slotted, Foreign
<1>3. ASSUME NEW v \in Values
      PROVE  TypedOutcome(served(v), Foreign, a)
    <2>1. v \in Seq(Byte)
        BY EmbedderAssumption
    <2>2. Foreign \notin Effects
        BY DEF Foreign, Effects
    <2> HIDE DEF request
    <2>. QED
        BY <1>0, <1>2, <2>1, <2>2, OutcomeFields, OutcomeRest DEF TypedOutcome, Returns, IsOutcome
<1> HIDE DEF served
<1>4. TypedOutcome(p, Foreign, a)
    BY <1>0, <1>3, AskStreamTyped
<1> HIDE DEF asked0
<1>5. TypedOutcome([p EXCEPT !.value = <<>>], Foreign, a)
    <2>1. <<>> \in Seq(Byte)
        OBVIOUS
    <2>. QED
        BY <1>2, <1>4, <2>1, OutcomeFields DEF TypedOutcome, IsOutcome
<1>6. CASE p.ask /\ p.status # "Ok"
    BY <1>1, <1>5, <1>6
<1>7. CASE ~(p.ask /\ p.status # "Ok")
    BY <1>1, <1>4, <1>7
<1>. QED
    BY <1>6, <1>7

LEMMA StreamTyped ==
    ASSUME NEW f \in StreamFunction, NEW a \in Args[f], Served(f, a), NEW o \in StreamOutcomes(f, a)
    PROVE  TypedOutcome(o, f, a)
<1>1. \E method : o \in AskStream(method, {Telling(RequestOf(f, a))})
    BY DEF StreamOutcomes, Telling
<1>2. RequestOf(f, a).fn = f
    BY DEF RequestOf, Request
<1>3. held \in HeldType
    BY DEF Served
<1>. QED
    BY <1>1, <1>2, <1>3, AskStreamTyped, TellingTyped

LEMMA OpenTyped ==
    ASSUME NEW f \in Opening, NEW a \in Args[f], Served(f, a), opened \in Nat, NEW o \in OpenOutcomes(f, a)
    PROVE  TypedOutcome(o, f, a)
<1>0. /\ held \in HeldType /\ Passed(f, a) /\ Memories(memory) /\ f \in HostFunction
      /\ {"InternalFailure", "BadArgument", "ParseFailure"} \subseteq Failing
    BY FunctionsAre DEF Served, Failing
<1>1. CASE ~Accepted
    BY <1>0, <1>1, FailsTyped DEF OpenOutcomes
<1>2. CASE Accepted
    <2> DEFINE writes == <<WordAt(a.ptrs["call"], opened + 1)>>
               opens == [Outcome EXCEPT !.opens = TRUE, !.told = RequestOf(f, a), !.writes = writes]
    <2>1. writes \in Writes
        <3>1. a.ptrs["call"] \in GuestPtr /\ opened + 1 \in Nat
            BY <1>0, OpeningChecks, PassedFacts DEF HasSlot
        <3>2. WordAt(a.ptrs["call"], opened + 1) \in Nat \X Seq(Byte)
            BY <3>1, WordWrite
        <3>. QED
            BY <3>2 DEF Writes
    <2>2. RequestOf(f, a).fn = f
        BY DEF RequestOf, Request
    <2>3. CASE \E s \in CalloutRefusal(f) : o = Asks(Fails(s))
        <3>1. CalloutRefusal(f) \subseteq Failing
            BY <1>0 DEF CalloutRefusal
        <3>. QED
            BY <1>0, <2>3, <3>1, FailsTyped, AsksTyped
    <2>4. CASE o = Asks(opens)
        <3> HIDE DEF writes
        <3>1. TypedOutcome(opens, f, a)
            BY <1>0, <2>1, <2>2, OutcomeFields, OutcomeRest DEF TypedOutcome, IsOutcome
        <3> HIDE DEF opens
        <3>. QED
            BY <2>4, <3>1, AsksTyped
    <2>. QED
        BY <1>2, <2>3, <2>4 DEF OpenOutcomes
<1>. QED
    BY <1>1, <1>2

LEMMA StatusTyped ==
    ASSUME NEW a \in Args["proxy_get_status"], Served("proxy_get_status", a), NEW o \in StatusOutcomes(a)
    PROVE  TypedOutcome(o, "proxy_get_status", a)
<1> DEFINE f == "proxy_get_status"
           answer(v, code) == [Returns(v) EXCEPT !.after = <<WordAt(a.ptrs["code"], code)>>]
<1>0. /\ held \in HeldType /\ Passed(f, a) /\ Memories(memory) /\ f \in HostFunction
      /\ f \notin Effects /\ f # Foreign /\ "NotFound" \in Failing
    BY FunctionsAre DEF Served, Crate, Effects, Foreign, Failing
<1>1. HasSlot(a.ptrs["code"]) /\ HasSlot(a.ptrs["data"]) /\ HasSlot(a.ptrs["size"])
    BY <1>0, OtherChecks, PassedFacts
<1>2. MayReturn(f, a)
    BY <1>0, <1>1, MayReturnIf
<1>3. ASSUME NEW v \in Seq(Byte), NEW code \in GuestPtr
      PROVE  TypedOutcome(answer(v, code), f, a)
    <2> DEFINE after == <<WordAt(a.ptrs["code"], code)>>
    <2>1. HasAfter(after)
        BY <1>1 DEF HasAfter, HasSlot
    <2> HIDE DEF after
    <2>2. TypedOutcome([Returns(v) EXCEPT !.after = after], f, a)
        BY <1>0, <1>2, <2>1, OutcomeFields, OutcomeRest DEF TypedOutcome, Returns, IsOutcome
    <2>. QED
        BY <2>2 DEF after
<1>4. Payloads.bytes \in Seq(Byte) /\ Payloads.code \in GuestPtr /\ <<>> \in Seq(Byte) /\ 0 \in GuestPtr
    BY EmbedderAssumption, WordMaxFacts
<1>5. o = Fails("NotFound") \/ o = answer(Payloads.bytes, Payloads.code) \/ o = answer(<<>>, 0)
    BY DEF StatusOutcomes
<1> HIDE DEF answer
<1>6. CASE o = Fails("NotFound")
    BY <1>0, <1>6, FailsTyped
<1>. QED
    BY <1>3, <1>4, <1>5, <1>6

-----------------------------------------------------------------------------
(***************************************************************************)
(* Log lines                                                               *)
(***************************************************************************)
LEMMA PrefixIf ==
    ASSUME NEW s \in Seq(Byte), NEW t \in Seq(Byte), Len(s) <= Len(t),
           \A i \in 1 .. Len(s) : s[i] = t[i]
    PROVE  IsPrefix(s, t)
<1> DEFINE n == Len(s)
<1>0. n \in Nat /\ Len(t) \in Nat /\ n <= Len(t)
    OBVIOUS
<1> DEFINE ss == SubSeq(s, 1, n)  tt == SubSeq(t, 1, n)
<1>1. /\ ss \in Seq(Byte) /\ Len(ss) = IF 1 <= n THEN n - 1 + 1 ELSE 0
      /\ \A k \in 1 .. n - 1 + 1 : ss[k] = s[1 + k - 1]
    BY <1>0, PieceTyped
<1>2. /\ tt \in Seq(Byte) /\ Len(tt) = IF 1 <= n THEN n - 1 + 1 ELSE 0
      /\ \A k \in 1 .. n - 1 + 1 : tt[k] = t[1 + k - 1]
    BY <1>0, PieceTyped
<1> HIDE DEF n, ss, tt
<1>3. /\ n - 1 + 1 = n /\ \A k \in 1 .. n : 1 + k - 1 = k
      /\ (IF 1 <= n THEN n - 1 + 1 ELSE 0) = n
    BY <1>0
<1>4. Len(ss) = n /\ Len(tt) = n /\ \A k \in 1 .. n : ss[k] = tt[k]
    BY <1>1, <1>2, <1>3 DEF n
<1>5. ss = tt
    BY <1>0, <1>1, <1>2, <1>4
<1>. QED
    BY <1>0, <1>5 DEF IsPrefix, n, ss, tt

\* A cut keeps the beginning, and no more than the limit.
LEMMA CutFacts ==
    ASSUME NEW sent \in Seq(Byte), NEW max \in Nat \cup {NoLimit}
    PROVE  LET cut == CutTo(sent, max)
           IN  /\ cut \in Seq(Byte) /\ Len(cut) <= Len(sent)
               /\ \A i \in 1 .. Len(cut) : cut[i] = sent[i]
               /\ ~Exceeds(Len(cut), max)
<1>1. CASE Exceeds(Len(sent), max)
    <2> DEFINE cut == SubSeq(sent, 1, max)
    <2>0. max \in Nat /\ max < Len(sent) /\ Len(sent) \in Nat
        BY <1>1 DEF Exceeds
    <2>1. /\ cut \in Seq(Byte)
          /\ Len(cut) = IF 1 <= max THEN max - 1 + 1 ELSE 0
          /\ \A k \in 1 .. max - 1 + 1 : cut[k] = sent[1 + k - 1]
        BY <2>0, PieceTyped
    <2>2. CutTo(sent, max) = cut
        BY <1>1 DEF CutTo
    <2> HIDE DEF cut
    <2>3. Len(cut) = max
        BY <2>0, <2>1
    <2>4. \A k \in 1 .. max : k \in 1 .. max - 1 + 1 /\ 1 + k - 1 = k
        BY <2>0
    <2>5. \A k \in 1 .. max : cut[k] = sent[k]
        BY <2>1, <2>4
    <2>. QED
        BY <2>0, <2>1, <2>2, <2>3, <2>5 DEF Exceeds
<1>2. CASE ~Exceeds(Len(sent), max)
    BY <1>2 DEF CutTo
<1>. QED
    BY <1>1, <1>2

LEMMA LogContextGood ==
    ASSUME NEW level, NEW message, NEW sent, IsPrefix(message, sent),
           ~Exceeds(Len(message), MaxLogBytes)
    PROVE  GoodLog(LogContext(level, message, sent))
    BY DEF GoodLog, LogContext

LEMMA LogTyped ==
    ASSUME NEW a \in Args["proxy_log"], Served("proxy_log", a), NEW o \in LogOutcomes(a)
    PROVE  TypedOutcome(o, "proxy_log", a)
<1> DEFINE f == "proxy_log"
           sent == Read(memory, a.spans["message"])
           cut == CutTo(sent, MaxLogBytes)
           log == LogContext(a.id, cut, sent)
<1>0. /\ held \in HeldType /\ Passed(f, a) /\ Memories(memory) /\ f \in HostFunction /\ f \notin Effects
    BY FunctionsAre DEF Served, Crate, Effects
<1>1. sent \in Seq(Byte)
    BY <1>0, OtherChecks, PassedFacts
<1>2. MaxLogBytes \in Nat \cup {NoLimit}
    BY BoundsAssumption
<1>3. o = [Outcome EXCEPT !.message = log]
    BY DEF LogOutcomes
<1> HIDE DEF sent
<1>4. /\ cut \in Seq(Byte) /\ Len(cut) <= Len(sent)
      /\ \A i \in 1 .. Len(cut) : cut[i] = sent[i]
      /\ ~Exceeds(Len(cut), MaxLogBytes)
    BY <1>1, <1>2, CutFacts
<1> HIDE DEF cut
<1>5. GoodLog(log)
    BY <1>1, <1>4, PrefixIf, LogContextGood
<1> HIDE DEF log
<1>. QED
    BY <1>0, <1>3, <1>5, OutcomeFields, OutcomeRest DEF TypedOutcome, IsOutcome

LEMMA NumbersTyped ==
    ASSUME NEW f \in {"proxy_get_log_level", "proxy_get_current_time_nanoseconds"},
           NEW a \in Args[f], Served(f, a), NEW o \in OutcomesOf(f, a)
    PROVE  TypedOutcome(o, f, a)
<1>0. /\ held \in HeldType /\ Passed(f, a) /\ Memories(memory) /\ f \in HostFunction /\ f \notin Effects
    BY FunctionsAre DEF Served, Crate, Effects
<1>1. CASE f = "proxy_get_log_level"
    <2> DEFINE writes == <<WordAt(a.ptrs["level"], Configuration.level)>>
    <2>1. a.ptrs["level"] \in GuestPtr /\ Configuration.level \in Nat
        BY <1>0, <1>1, OtherChecks, PassedFacts, ConfigurationAssumption DEF HasSlot, VmServices
    <2>2. WordAt(a.ptrs["level"], Configuration.level) \in Nat \X Seq(Byte)
        BY <2>1, WordWrite
    <2>3. writes \in Writes
        BY <2>2 DEF Writes
    <2>4. o = Writing(writes)
        BY <1>1 DEF OutcomesOf, Writing
    <2> HIDE DEF writes
    <2>. QED
        BY <1>0, <2>3, <2>4, WritingTyped
<1>2. CASE f = "proxy_get_current_time_nanoseconds"
    <2> DEFINE time == Configuration.time["Realtime"]
               writes == <<LongAt(a.ptrs["time"], time)>>
    <2>0. time \in Nat
        <3>1. time \in 0 .. Power[2 * WordBytes] - 1
            BY ConfigurationAssumption DEF VmServices
        <3>2. Power[2 * WordBytes] \in Nat
            BY PowerFacts, Widths
        <3>. QED
            BY <3>1, <3>2
    <2>1. a.ptrs["time"] \in GuestPtr
        BY <1>0, <1>2, OtherChecks, PassedFacts
    <2>2. LongAt(a.ptrs["time"], time) \in Nat \X Seq(Byte)
        BY <2>0, <2>1, WordWrite
    <2>3. writes \in Writes
        BY <2>2 DEF Writes
    <2>4. o = Writing(writes)
        BY <1>2 DEF OutcomesOf, Writing
    <2> HIDE DEF writes
    <2>. QED
        BY <1>0, <2>3, <2>4, WritingTyped
<1>. QED
    BY <1>1, <1>2

\* Every outcome of every body.
LEMMA OutcomesTyped ==
    ASSUME NEW f \in HostFunction, NEW a \in Args[f], held \in HeldType, Memories(memory), opened \in Nat,
           NEW o \in Outcomes(f, a)
    PROVE  TypedOutcome(o, f, a)
<1> DEFINE failure == FirstFailure(Body[f], a, memory)
<1>0. \A c \in Checks : c.status \in Failing /\ c.status # "Ok"
    BY OkFails DEF Checks
<1>1. \/ failure \in {c.status : c \in Checks}
      \/ failure = "Ok" /\ Passed(f, a)
    BY <1>0, BodyTyped, FirstFailureFacts DEF Passed
<1> HIDE DEF failure
<1>2. CASE failure \in {c.status : c \in Checks}
    <2>1. failure \in Failing /\ failure # "Ok"
        BY <1>0, <1>2
    <2>2. o = Fails(failure)
        BY <2>1 DEF Outcomes, failure
    <2>. QED
        BY <2>1, <2>2, FailsTyped
<1>3. CASE failure = "Ok" /\ Passed(f, a)
    <2>0. o \in OutcomesOf(f, a) /\ Served(f, a)
        BY <1>3 DEF Outcomes, failure, Served
    <2>1. CASE f \in MapFunction
        <3>1. o \in HeaderMapOutcomes(f, a)
            BY <2>0, <2>1 DEF OutcomesOf, MapFunction
        <3>. QED
            BY <2>0, <2>1, <3>1, HeaderMapTyped
    <2>2. CASE f \in BufferFunction
        <3>1. o \in BufferOutcomes(f, a)
            BY <2>0, <2>2 DEF OutcomesOf, BufferFunction
        <3>. QED
            BY <2>0, <2>2, <3>1, BufferTyped
    <2>3. CASE f \in PropertyFunction
        <3>1. o \in PropertyOutcomes(f, a)
            BY <2>0, <2>3 DEF OutcomesOf, PropertyFunction
        <3>. QED
            BY <2>0, <2>3, <3>1, PropertyTyped
    <2>4. CASE f = Foreign
        <3>1. o \in ForeignOutcomes(f, a)
            BY <2>0, <2>4 DEF OutcomesOf, Foreign
        <3>. QED
            BY <2>0, <2>4, <3>1, ForeignTyped
    <2>5. CASE f \in StreamFunction
        <3>1. o \in StreamOutcomes(f, a)
            BY <2>0, <2>5 DEF OutcomesOf, StreamFunction
        <3>. QED
            BY <2>0, <2>5, <3>1, StreamTyped
    <2>6. CASE f \in Opening
        <3>1. o \in OpenOutcomes(f, a)
            BY <2>0, <2>6 DEF OutcomesOf, Opening
        <3>. QED
            BY <2>0, <2>6, <3>1, OpenTyped
    <2>7. CASE f = "proxy_get_status"
        <3>1. o \in StatusOutcomes(a)
            BY <2>0, <2>7 DEF OutcomesOf
        <3>. QED
            BY <2>0, <2>7, <3>1, StatusTyped
    <2>8. CASE f = "proxy_log"
        <3>1. o \in LogOutcomes(a)
            BY <2>0, <2>8 DEF OutcomesOf
        <3>. QED
            BY <2>0, <2>8, <3>1, LogTyped
    <2>9. CASE f \in {"proxy_get_log_level", "proxy_get_current_time_nanoseconds"}
        BY <2>0, <2>9, NumbersTyped
    <2>. QED
        BY <2>1, <2>2, <2>3, <2>4, <2>5, <2>6, <2>7, <2>8, <2>9, Families DEF Crate
<1>. QED
    BY <1>1, <1>2, <1>3
=============================================================================
