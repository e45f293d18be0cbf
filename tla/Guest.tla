------------------------------- MODULE Guest --------------------------------
(***************************************************************************)
(* One guest as its embedder drives it (abi/v0_2_1/guest, call_scope and   *)
(* the context and callout functions of host_functions).                   *)
(*                                                                         *)
(* The embedder calls one method at a time, because every method borrows   *)
(* the guest mutably.  A method that runs the guest is split where the     *)
(* guest runs: the part before the call is an action that pushes `frame',  *)
(* the host functions the guest calls are actions enabled while the frame  *)
(* is there, and the part after the call is the action that pops it, one   *)
(* for a return, one for a trap, one for a panic that unwinds through it.  *)
(* `deletion' and `starting' hold the local variables of on_delete and of  *)
(* start, which call the guest several times.                              *)
(*                                                                         *)
(* A call that fails and changes nothing is a stuttering step, so its      *)
(* failure conditions are the guards of the action.                        *)
(***************************************************************************)
EXTENDS CalloutTable

VARIABLES
    entries,            \* ContextTable.entries
    next_context,       \* ContextTable.next
    effective,          \* ContextTable.effective
    vm_rejected,        \* ContextTable.vm_rejected
    vm_started,         \* AbiState.vm_started
    open,               \* CalloutTable.open
    next_callout,       \* CalloutTable.next, up to its first wrap
    poisoned,           \* HostState.poisoned
    current_callback,   \* AbiState.current_callback
    delivery,           \* AbiState.delivery
    announced,          \* AbiState.announced is set
    deleting,           \* AbiState.deleting
    stream_state,       \* AbiState.stream_state, by its type
    detached,           \* Guest.detached is set
    scope,              \* the live CallScope, by the type it was entered with
    served,             \* CallScope.served
    frame,              \* the callback that runs the guest
    deletion,           \* the locals of on_delete
    starting,           \* the locals of start
    requests            \* the embedder's record of the requests it sent

contextVars == <<entries, next_context, effective, vm_rejected, vm_started>>
calloutVars == <<open, next_callout, requests>>
servingVars == <<delivery, announced>>
scopeVars   == <<stream_state, detached, scope, served>>
stackVars   == <<frame, deletion, deleting, starting>>
vars == <<contextVars, calloutVars, servingVars, scopeVars, stackVars,
          poisoned, current_callback>>

-----------------------------------------------------------------------------
(***************************************************************************)
(* Values                                                                  *)
(***************************************************************************)
\* The callbacks that answer a callout, and the foreign function callback.
GrpcCallback ==
    {"GrpcReceiveInitialMetadata", "GrpcReceive", "GrpcReceiveTrailingMetadata",
     "GrpcClose"}
DeliveryCallback == GrpcCallback \cup {"HttpCallResponse", "ForeignFunction"}

\* The eleven stream callbacks, by what the host does around them: the six of
\* HTTP and the five of TCP, with or without an announced body or data size.
HttpCallback == {"HttpHeaders", "HttpBody"}
TcpCallback == {"TcpConnection", "TcpData", "TcpClose"}
ActionCallback == HttpCallback \cup (TcpCallback \ {"TcpClose"})
BodyCallback == {"HttpBody", "TcpData"}
KindOf(callback) == IF callback \in HttpCallback THEN "Http" ELSE "Tcp"

Callback ==
    {"ContextCreate", "VmStart", "Configure", "Done", "Log", "Delete", "Tick"}
    \cup DeliveryCallback \cup HttpCallback \cup TcpCallback
NoCallback == "NoCallback"

Delivery == [callback : DeliveryCallback, callout : CalloutId \cup {NoCalloutId}]
NoDelivery == [callback |-> NoCallback, callout |-> NoCalloutId]

\* `saved' is the entry that `deliver' took out of the table.
Frame ==
    [callback : Callback, context : ContextId,
     callout : CalloutId \cup {NoCalloutId}, saved : Callout \cup {NoCallout}]
NoFrame ==
    [callback |-> NoCallback, context |-> NoContext,
     callout |-> NoCalloutId, saved |-> NoCallout]

\* `left' is what the loop of fail_open_callouts has before it, `ended' the
\* answer so far, `removed' whether proxy_on_delete returned.
Deletion ==
    [context : ContextId, root : ContextId \cup {NoContext},
     left : SUBSET CalloutId, ended : SUBSET CalloutId, removed : BOOLEAN]
NoDeletion ==
    [context |-> NoContext, root |-> NoContext, left |-> {}, ended |-> {},
     removed |-> FALSE]

Starting ==
    [root : ContextId, plugin : RootIds,
     step : {"ContextCreate", "VmStart", "Configure"}]
NoStart == [root |-> NoContext, plugin |-> NoPlugin, step |-> NoCallback]

\* The embedder's record of its requests: whether the guest closed its side.
RequestTables(r) == DOMAIN r \subseteq CalloutId /\ r \in [DOMAIN r -> BOOLEAN]

\* The type a scope lends: NoStream of enter_root, or a type that holds state.
StreamType == {"NoStream", "Stream"}
NoScope == "NoScope"

TypeOK ==
    /\ ContextTables(entries)
    /\ next_context \in 1 .. MaxContextId + 1
    /\ effective \in ContextId \cup {NoContext}
    /\ vm_rejected \in ContextId \cup {NoContext}
    /\ vm_started \in BOOLEAN
    /\ CalloutTables(open)
    /\ next_callout \in 1 .. MaxCalloutId + 1
    /\ poisoned \in BOOLEAN
    /\ current_callback \in Callback \cup {NoCallback}
    /\ delivery \in Delivery \cup {NoDelivery}
    /\ announced \in BOOLEAN
    /\ deleting \in ContextId \cup {NoContext}
    /\ stream_state \in StreamType \cup {NoScope}
    /\ detached \in BOOLEAN
    /\ scope \in StreamType \cup {NoScope}
    /\ served \in ContextId \cup {NoContext}
    /\ frame \in Frame \cup {NoFrame}
    /\ deletion \in Deletion \cup {NoDeletion}
    /\ starting \in Starting \cup {NoStart}
    /\ RequestTables(requests)

Init ==
    /\ entries = EmptyTable
    /\ next_context = 1
    /\ effective = NoContext
    /\ vm_rejected = NoContext
    /\ vm_started = FALSE
    /\ open = EmptyTable
    /\ next_callout = 1
    /\ poisoned = FALSE
    /\ current_callback = NoCallback
    /\ delivery = NoDelivery
    /\ announced = FALSE
    /\ deleting = NoContext
    /\ stream_state = NoScope
    /\ detached = FALSE
    /\ scope = NoScope
    /\ served = NoContext
    /\ frame = NoFrame
    /\ deletion = NoDeletion
    /\ starting = NoStart
    /\ requests = EmptyTable

-----------------------------------------------------------------------------
(***************************************************************************)
(* Guards the handlers share                                               *)
(***************************************************************************)
Running == frame # NoFrame

\* No method of the guest is in progress.
Idle == ~Running /\ deletion = NoDeletion /\ starting = NoStart

\* Mutants: a panic that cut a callback short goes unnoticed; a poisoned guest
\* is called again.
LiveAfterCut == ~poisoned
LiveAfterPoison == current_callback = NoCallback

\* `require_live' answers Ok.
Live == ~poisoned /\ current_callback = NoCallback

\* A method of CallScope that passes require_live.
Called == Idle /\ scope # NoScope /\ Live

\* `rejection_of' answers a callback.
Refused(c) == vm_rejected # NoContext \/ IsRejected(entries, c)

\* Mutant: a refused root passes.
RootAcceptedAlways(c) == IsRoot(entries, c)

\* `require_root' and then `accepted'.
RootAccepted(c) == IsRoot(entries, c) /\ ~Refused(c)

\* `context' of host_functions/call.rs: the effective context, unless refused.
Acting == effective # NoContext /\ ~Refused(effective)

\* `require_served' passes, and then records the context.
Servable(c) == served \in {NoContext, c}

\* Mutant: a callback of the other family passes.
KindAllowsAny(c, kind) == TRUE

\* `require_stream_kind': no family is recorded yet, or this one is.
KindAllows(c, kind) == entries[c].stream_kind \in {NoKind, kind}

-----------------------------------------------------------------------------
(***************************************************************************)
(* The scope (guest/scope.rs, call_scope.rs, guest/recovery.rs)            *)
(***************************************************************************)
\* The check of a callback that did not return, which `finish', the drop of a
\* scope and `require_live' make.
PoisonIfCut == poisoned' = (poisoned \/ current_callback # NoCallback)

\* Mutant: the state that a forgotten scope left installed is not replaced.
EnterForgotten(h) ==
    /\ Idle /\ scope = NoScope
    /\ detached' = FALSE
    /\ stream_state' = IF stream_state = NoScope THEN h ELSE stream_state
    /\ scope' = h
    /\ served' = NoContext
    /\ UNCHANGED <<contextVars, calloutVars, servingVars, stackVars, poisoned,
                   current_callback>>

\* `enter', and `enter_root' for NoStream.
Enter(h) ==
    /\ Idle /\ scope = NoScope
    /\ detached' = FALSE
    /\ stream_state' = h
    /\ scope' = h
    /\ served' = NoContext
    /\ UNCHANGED <<contextVars, calloutVars, servingVars, stackVars, poisoned,
                   current_callback>>

\* What every end of a scope does: the poison check of its drop, and the
\* stream state taken off the guest.
EndScope ==
    /\ PoisonIfCut
    /\ current_callback' = NoCallback
    /\ stream_state' = NoScope
    /\ scope' = NoScope
    /\ served' = NoContext

\* `finish' gives the stream state back to the caller.
Finish ==
    /\ Idle /\ scope # NoScope
    /\ EndScope
    /\ UNCHANGED <<contextVars, calloutVars, servingVars, stackVars, detached>>

\* A stream state that holds something is kept for take_stream.
Detach == detached' = (detached \/ stream_state = "Stream")

\* A scope that drops, also while a panic unwinds, detaches its stream state.
DropScope ==
    /\ Idle /\ scope # NoScope
    /\ EndScope
    /\ Detach
    /\ UNCHANGED <<contextVars, calloutVars, servingVars, stackVars>>

\* mem::forget of a scope: nothing of its drop runs.
ForgetScope ==
    /\ Idle /\ scope # NoScope
    /\ scope' = NoScope
    /\ served' = NoContext
    /\ UNCHANGED <<contextVars, calloutVars, servingVars, stackVars, poisoned,
                   current_callback, stream_state, detached>>

\* `take_stream' of the detached type, and `take_stream_any'.
TakeStream ==
    /\ Idle /\ scope = NoScope /\ detached
    /\ detached' = FALSE
    /\ UNCHANGED <<contextVars, calloutVars, servingVars, stackVars, poisoned,
                   current_callback, stream_state, scope, served>>

\* Any callback method, and expect_stream_kind, on a guest whose last callback
\* did not return: require_live poisons it and answers Poisoned.
RefuseCutGuest ==
    /\ Idle /\ current_callback # NoCallback
    /\ PoisonIfCut
    /\ UNCHANGED <<contextVars, calloutVars, servingVars, scopeVars, stackVars,
                   current_callback>>

-----------------------------------------------------------------------------
(***************************************************************************)
(* Running the guest (call_scope/prologue.rs, call_scope/delivery.rs)      *)
(***************************************************************************)
\* The part of `run' before the guest is called.
Run(callback, c, callout, saved) ==
    /\ effective' = IF c \in DOMAIN entries' THEN c ELSE effective
    /\ current_callback' = callback
    /\ frame' = [callback |-> callback, context |-> c, callout |-> callout,
                 saved |-> saved]

\* `run' of a callback that carries no callout.
RunPlain(callback, c) == Run(callback, c, NoCalloutId, NoCallout)

\* `deliver': an entry that the delivery ends leaves the table before the
\* guest runs.
Deliver(callback, c, callout, ends) ==
    LET found == ends /\ callout \in DOMAIN open
    IN  /\ open' = IF ends THEN RemoveCallouts(open, {callout}) ELSE open
        /\ delivery' = [callback |-> callback, callout |-> callout]
        /\ Run(callback, c, callout, IF found THEN open[callout] ELSE NoCallout)

-----------------------------------------------------------------------------
(***************************************************************************)
(* The callbacks of the embedder (call_scope/lifecycle.rs, finalize.rs,    *)
(* stream.rs, tcp.rs, delivery.rs, grpc.rs, foreign.rs)                    *)
(***************************************************************************)
\* Mutant: the counter runs past its last identifier.
CreatableAlways(parent) ==
    IF parent = NoContext THEN vm_rejected = NoContext ELSE RootAccepted(parent)

\* on_context_create passes its checks; `create' fails when the counter is out.
Creatable(parent) ==
    /\ IF parent = NoContext
       THEN vm_rejected = NoContext
       ELSE RootAccepted(parent)
    /\ next_context <= MaxContextId

CreateAndRun(parent) ==
    /\ entries' = CreateContext(entries, next_context, parent)
    /\ next_context' = next_context + 1
    /\ RunPlain("ContextCreate", next_context)

OnContextCreate(parent) ==
    /\ Called /\ Creatable(parent)
    /\ CreateAndRun(parent)
    /\ UNCHANGED <<vm_rejected, vm_started, calloutVars, servingVars, scopeVars,
                   deletion, deleting, starting, poisoned>>

\* on_vm_start and on_configure, by hand and inside start.
VmStart(root) ==
    /\ UNCHANGED entries
    /\ RunPlain("VmStart", root)

Configure(root, plugin) ==
    /\ entries' = SetPlugin(entries, root, plugin)
    /\ RunPlain("Configure", root)

OnVmStart(root) ==
    /\ Called /\ RootAccepted(root)
    /\ VmStart(root)
    /\ UNCHANGED <<next_context, vm_rejected, vm_started, calloutVars, servingVars,
                   scopeVars, deletion, deleting, starting, poisoned>>

OnConfigure(root, plugin) ==
    /\ Called /\ RootAccepted(root)
    /\ Configure(root, plugin)
    /\ UNCHANGED <<next_context, vm_rejected, vm_started, calloutVars, servingVars,
                   scopeVars, deletion, deleting, starting, poisoned>>

OnTick(root) ==
    /\ Called /\ RootAccepted(root)
    /\ UNCHANGED entries
    /\ RunPlain("Tick", root)
    /\ UNCHANGED <<next_context, vm_rejected, vm_started, calloutVars, servingVars,
                   scopeVars, deletion, deleting, starting, poisoned>>

\* require_served_stream of the three callbacks that end a context: a root
\* context needs no stream state.
ServeIfStream(c) ==
    /\ IsStream(entries, c) => Servable(c)
    /\ served' = IF IsStream(entries, c) THEN c ELSE served

OnDone(c) ==
    /\ Called /\ c \in DOMAIN entries
    /\ ServeIfStream(c)
    /\ UNCHANGED entries
    /\ RunPlain("Done", c)
    /\ UNCHANGED <<next_context, vm_rejected, vm_started, calloutVars, servingVars,
                   stream_state, detached, scope, deletion, deleting, starting,
                   poisoned>>

\* on_log of a context that is not done fails after the scope recorded it.
OnLog(c) ==
    /\ Called /\ c \in DOMAIN entries
    /\ ServeIfStream(c)
    /\ UNCHANGED entries
    /\ IF entries[c].state = "Done"
       THEN RunPlain("Log", c)
       ELSE UNCHANGED <<effective, current_callback, frame>>
    /\ UNCHANGED <<next_context, vm_rejected, vm_started, calloutVars, servingVars,
                   stream_state, detached, scope, deletion, deleting, starting,
                   poisoned>>

\* stream_action and stream_event, for the eleven stream callbacks.
OnStream(c, callback) ==
    /\ Called /\ IsStream(entries, c) /\ ~Refused(c)
    /\ KindAllows(c, KindOf(callback))
    /\ Servable(c)
    /\ served' = c
    /\ entries' = SetStreamKind(entries, c, KindOf(callback))
    /\ announced' = IF callback \in ActionCallback
                    THEN callback \in BodyCallback
                    ELSE announced
    /\ RunPlain(callback, c)
    /\ UNCHANGED <<next_context, vm_rejected, vm_started, calloutVars, delivery,
                   stream_state, detached, scope, deletion, deleting, starting,
                   poisoned>>

\* A declaration of the embedder, from the guest or from a scope.
ExpectStreamKind(c, kind) ==
    /\ Idle /\ Live /\ IsStream(entries, c)
    /\ KindAllows(c, kind)
    /\ entries' = SetStreamKind(entries, c, kind)
    /\ UNCHANGED <<next_context, effective, vm_rejected, vm_started, calloutVars,
                   servingVars, scopeVars, stackVars, poisoned, current_callback>>

\* The checks of a delivery on an open callout.
Deliverable(callout, kinds) ==
    /\ Called
    /\ callout \in DOMAIN open /\ open[callout].kind \in kinds
    /\ RootAccepted(open[callout].root)

OnHttpCallResponse(callout) ==
    /\ Deliverable(callout, {"HttpCall"})
    /\ UNCHANGED entries
    /\ Deliver("HttpCallResponse", open[callout].root, callout, TRUE)
    /\ UNCHANGED <<next_context, vm_rejected, vm_started, next_callout, requests,
                   announced, scopeVars, deletion, deleting, starting, poisoned>>

\* The four gRPC deliveries.  A message ends a call and leaves a stream open.
EndsCallout(callback, kind) ==
    callback = "GrpcClose" \/ (callback = "GrpcReceive" /\ kind = "GrpcCall")

OnGrpc(callout, callback) ==
    /\ Deliverable(callout, {"GrpcCall", "GrpcStream"})
    /\ UNCHANGED entries
    /\ Deliver(callback, open[callout].root, callout,
               EndsCallout(callback, open[callout].kind))
    /\ UNCHANGED <<next_context, vm_rejected, vm_started, next_callout, requests,
                   announced, scopeVars, deletion, deleting, starting, poisoned>>

OnForeignFunction(c) ==
    /\ Called /\ c \in DOMAIN entries /\ ~Refused(c)
    /\ UNCHANGED entries
    /\ Deliver("ForeignFunction", c, NoCalloutId, FALSE)
    /\ UNCHANGED <<next_context, vm_rejected, vm_started, next_callout, requests,
                   announced, scopeVars, deletion, deleting, starting, poisoned>>

-----------------------------------------------------------------------------
(***************************************************************************)
(* on_delete, one guest call at a time (call_scope/finalize.rs)            *)
(***************************************************************************)
\* The entry of fail_open_callouts, on `root' for the callouts of `c': the
\* callouts to fail one by one, or for a refused root those dropped at once.
FailFirst(c, root) == IF Refused(root) THEN {} ELSE MadeBy(open, c)
DropFirst(c, root) == IF Refused(root) THEN MadeBy(open, c) ELSE {}

\* Mutant: a root with stream contexts is deletable.
DeletableParent(c) == entries[c].state = "Done"

\* require_deletable.
Deletable(c) == entries[c].state = "Done" /\ ~HasChildren(entries, c)

OnDelete(c) ==
    /\ Called /\ c \in DOMAIN entries
    /\ ServeIfStream(c)
    /\ IF Deletable(c)
       THEN LET left    == IF IsRoot(entries, c) THEN FailFirst(c, c) ELSE {}
                dropped == IF IsRoot(entries, c) THEN DropFirst(c, c) ELSE {}
            IN  /\ deleting' = c
                /\ deletion' = [context |-> c, root |-> entries[c].parent,
                                left |-> left, ended |-> dropped,
                                removed |-> FALSE]
                /\ open' = RemoveCallouts(open, dropped)
       ELSE UNCHANGED <<deleting, deletion, open>>
    /\ UNCHANGED <<contextVars, next_callout, requests, servingVars, stream_state,
                   detached, scope, frame, starting, poisoned, current_callback>>

\* Mutant: `continue' before the loop advances.
RestStuck(left) == IF First(left) \in DOMAIN open THEN left \ {First(left)} ELSE left

\* What the loop of fail_open_callouts has left after its first callout.
Rest(left) == left \ {First(left)}

\* One turn of the loop of fail_open_callouts, in identifier order.  A callout
\* that the guest ended meanwhile is passed over.
FailNext ==
    LET callout == First(deletion.left)
        root    == IF deletion.root = NoContext THEN deletion.context
                                                ELSE deletion.root
    IN  /\ ~Running /\ deletion.left # {}
        /\ deletion' = [deletion EXCEPT !.left = Rest(@)]
        /\ UNCHANGED entries
        /\ IF callout \in DOMAIN open
           THEN Deliver(IF open[callout].kind = "HttpCall" THEN "HttpCallResponse"
                                                           ELSE "GrpcClose",
                        root, callout, TRUE)
           ELSE UNCHANGED <<open, delivery, effective, current_callback, frame>>
        /\ UNCHANGED <<next_context, vm_rejected, vm_started, next_callout, requests,
                       announced, scopeVars, deleting, starting, poisoned>>

CallDelete ==
    /\ ~Running /\ deletion # NoDeletion /\ deletion.left = {} /\ ~deletion.removed
    /\ UNCHANGED entries
    /\ RunPlain("Delete", deletion.context)
    /\ UNCHANGED <<next_context, vm_rejected, vm_started, calloutVars, servingVars,
                   scopeVars, deletion, deleting, starting, poisoned>>

\* proxy_on_delete returned: the context goes, and the callouts of a stream
\* context are failed on its root.
ReturnDelete ==
    /\ frame.callback = "Delete"
    /\ entries' = RemoveContext(entries, frame.context)
    /\ effective' = IF effective = frame.context THEN NoContext ELSE effective
    /\ current_callback' = NoCallback
    /\ frame' = NoFrame
    /\ LET c       == deletion.context
           left    == IF deletion.root = NoContext THEN {}
                                                   ELSE FailFirst(c, deletion.root)
           dropped == IF deletion.root = NoContext THEN {}
                                                   ELSE DropFirst(c, deletion.root)
       IN  /\ deletion' = [deletion EXCEPT !.left = left, !.ended = @ \cup dropped,
                                           !.removed = TRUE]
           /\ open' = RemoveCallouts(open, dropped)
    /\ UNCHANGED <<next_context, vm_rejected, vm_started, next_callout, requests,
                   servingVars, scopeVars, deleting, starting, poisoned>>

\* The last drop_open_callouts and the answer.  The embedder ends its record of
\* every callout the answer names.
EndDelete ==
    /\ ~Running /\ deletion.removed /\ deletion.left = {}
    /\ LET dropped == MadeBy(open, deletion.context)
       IN  /\ open' = RemoveCallouts(open, dropped)
           /\ requests' = RemoveCallouts(requests, deletion.ended \cup dropped)
    /\ deleting' = NoContext
    /\ deletion' = NoDeletion
    /\ UNCHANGED <<contextVars, next_callout, servingVars, scopeVars, frame, starting,
                   poisoned, current_callback>>

-----------------------------------------------------------------------------
(***************************************************************************)
(* start (guest/start.rs): a scope of its own, and up to three callbacks   *)
(***************************************************************************)
Start(plugin) ==
    /\ Idle /\ scope = NoScope /\ Live
    /\ ~HoldsRootId(entries, plugin)
    /\ Creatable(NoContext)
    /\ detached' = FALSE
    /\ stream_state' = "NoStream"
    /\ scope' = "NoStream"
    /\ served' = NoContext
    /\ starting' = [root |-> next_context, plugin |-> plugin,
                    step |-> "ContextCreate"]
    /\ CreateAndRun(NoContext)
    /\ UNCHANGED <<vm_rejected, vm_started, calloutVars, servingVars, deletion,
                   deleting, poisoned>>

\* on_context_create refuses: the scope was entered, and it drops.
StartRefused(plugin) ==
    /\ Idle /\ scope = NoScope
    /\ ~HoldsRootId(entries, plugin)
    /\ ~(Live /\ Creatable(NoContext))
    /\ detached' = FALSE
    /\ EndScope
    /\ UNCHANGED <<contextVars, calloutVars, servingVars, stackVars>>

\* The scope of start drops, and start answers.
EndStart ==
    /\ starting' = NoStart
    /\ stream_state' = "NoScope"
    /\ scope' = NoScope
    /\ served' = NoContext

\* A failed VM start refuses the guest, a failed configuration the root.
RefuseStart(step, root) ==
    /\ vm_rejected' = IF step = "VmStart" THEN root ELSE vm_rejected
    /\ entries' = IF step = "Configure" THEN Reject(entries, root) ELSE entries

StartVm ==
    /\ ~Running /\ starting.step = "VmStart"
    /\ VmStart(starting.root)
    /\ UNCHANGED <<next_context, vm_rejected, vm_started, calloutVars, servingVars,
                   scopeVars, deletion, deleting, starting, poisoned>>

StartRoot ==
    /\ ~Running /\ starting.step = "Configure"
    /\ Configure(starting.root, starting.plugin)
    /\ UNCHANGED <<next_context, vm_rejected, vm_started, calloutVars, servingVars,
                   scopeVars, deletion, deleting, starting, poisoned>>

\* The configuration is too large for the ABI, so the guest is not called.
StartTooLarge ==
    /\ ~Running /\ starting.step \in {"VmStart", "Configure"}
    /\ RefuseStart(starting.step, starting.root)
    /\ EndStart
    /\ UNCHANGED <<next_context, effective, vm_started, calloutVars, servingVars,
                   detached, frame, deletion, deleting, poisoned, current_callback>>

-----------------------------------------------------------------------------
(***************************************************************************)
(* The host functions the running guest calls (host_functions/callout.rs,  *)
(* grpc.rs, context.rs, and buffer.rs for the announced size)              *)
(***************************************************************************)
\* Mutants: one callout too many; a context that is being deleted opens one.
MayOpenOneMore ==
    deleting # effective /\ Cardinality(DOMAIN open) <= MaxOpenCallouts
MayOpenWhileDeleting == Cardinality(DOMAIN open) < MaxOpenCallouts

\* The two refusals of open_callout.
MayOpen == deleting # effective /\ Cardinality(DOMAIN open) < MaxOpenCallouts

\* open_callout, for proxy_http_call, proxy_grpc_call and proxy_grpc_stream.
\* The service takes the request or refuses it; the identifier is spent either
\* way.
OpenCallout(kind, taken) ==
    /\ Running /\ Acting
    /\ MayOpen
    /\ next_callout <= MaxCalloutId
    /\ next_callout' = next_callout + 1
    /\ IF taken
       THEN /\ open' = EnterCallout(open, next_callout,
                           NewCallout(kind, effective, RootOf(entries, effective)))
            /\ requests' = EnterCallout(requests, next_callout, FALSE)
       ELSE UNCHANGED <<open, requests>>
    /\ UNCHANGED <<contextVars, servingVars, scopeVars, stackVars, poisoned,
                   current_callback>>

\* `find' answers Open: the callout is open, and the acting context made it.
FindOpen(callout) ==
    /\ Running /\ Acting
    /\ callout \in DOMAIN open /\ open[callout].caller = effective

\* The guest ends its side of a stream, with proxy_grpc_close or with the last
\* message of proxy_grpc_send.  The service hears it once.
CloseStream(callout) ==
    /\ FindOpen(callout)
    /\ open[callout].kind = "GrpcStream" /\ ~open[callout].closed_by_guest
    /\ open' = CloseByGuest(open, callout)
    /\ requests' = [requests EXCEPT ![callout] = TRUE]
    /\ UNCHANGED <<contextVars, next_callout, servingVars, scopeVars, stackVars,
                   poisoned, current_callback>>

\* proxy_grpc_cancel, and proxy_grpc_close of a call: the entry goes and the
\* service hears grpc_cancel.
CancelCallout(callout) ==
    /\ FindOpen(callout)
    /\ open[callout].kind \in {"GrpcCall", "GrpcStream"}
    /\ open' = RemoveCallouts(open, {callout})
    /\ requests' = RemoveCallouts(requests, {callout})
    /\ UNCHANGED <<contextVars, next_callout, servingVars, scopeVars, stackVars,
                   poisoned, current_callback>>

\* The first read of the announced buffer (proxy_get_buffer_bytes and every
\* other reader of it) takes the announced size, whatever it answers.
ReadAnnounced ==
    /\ Running /\ announced
    /\ announced' = FALSE
    /\ UNCHANGED <<contextVars, calloutVars, delivery, scopeVars, stackVars, poisoned,
                   current_callback>>

ProxyDone ==
    /\ Running /\ MayDone(entries, effective)
    /\ entries' = SetState(entries, effective, "Done")
    /\ UNCHANGED <<next_context, effective, vm_rejected, vm_started, calloutVars,
                   servingVars, scopeVars, stackVars, poisoned, current_callback>>

\* Mutant: any context of the guest is in reach.
SameRootAlways(c) == c \in DOMAIN entries

\* A guest moves between the contexts of one root.
SameRoot(c) == RootOf(entries, c) = RootOf(entries, effective)

ProxySetEffectiveContext(c) ==
    /\ Running /\ effective # NoContext
    /\ SameRoot(c)
    /\ ~IsRejected(entries, c) /\ c \in DOMAIN entries
    /\ effective' = c
    /\ UNCHANGED <<entries, next_context, vm_rejected, vm_started, calloutVars,
                   servingVars, scopeVars, stackVars, poisoned, current_callback>>

-----------------------------------------------------------------------------
(***************************************************************************)
(* The guest returns                                                       *)
(***************************************************************************)
\* The end of `run': the frame is popped and the current callback cleared.
PopFrame ==
    /\ frame' = NoFrame
    /\ current_callback' = NoCallback

\* Mutant: stream_action leaves the announced size behind.
ClearServingDelivery ==
    /\ delivery' = IF frame.callback \in DeliveryCallback THEN NoDelivery ELSE delivery
    /\ UNCHANGED announced

\* What `deliver' and `stream_action' clear once the call is over.
ClearServing ==
    /\ delivery' = IF frame.callback \in DeliveryCallback THEN NoDelivery ELSE delivery
    /\ announced' = IF frame.callback \in ActionCallback THEN FALSE ELSE announced

\* A callback whose answer changes no state of the host.  start goes on to the
\* VM start of the first root, or to the configuration.
ReturnPlain ==
    /\ frame.callback \in {"ContextCreate", "Log", "Tick"} \cup HttpCallback
                          \cup TcpCallback
    /\ PopFrame
    /\ ClearServing
    /\ starting' = IF starting = NoStart
                   THEN NoStart
                   ELSE [starting EXCEPT !.step = IF vm_started THEN "Configure"
                                                                ELSE "VmStart"]
    /\ UNCHANGED <<contextVars, calloutVars, scopeVars, deletion, deleting, poisoned>>

\* proxy_on_done answers a state, or a value that is not a boolean.
ReturnDone(state) ==
    /\ frame.callback = "Done"
    /\ PopFrame
    /\ entries' = IF state \in ContextState THEN SetState(entries, frame.context, state)
                                            ELSE entries
    /\ UNCHANGED <<next_context, effective, vm_rejected, vm_started, calloutVars,
                   servingVars, scopeVars, deletion, deleting, starting, poisoned>>

\* proxy_on_vm_start and proxy_on_configure answer true.
ReturnAccept ==
    /\ frame.callback \in {"VmStart", "Configure"}
    /\ PopFrame
    /\ IF starting = NoStart
       THEN UNCHANGED <<vm_started, starting, stream_state, scope, served>>
       ELSE IF frame.callback = "VmStart"
            THEN /\ vm_started' = TRUE
                 /\ starting' = [starting EXCEPT !.step = "Configure"]
                 /\ UNCHANGED <<stream_state, scope, served>>
            ELSE EndStart /\ UNCHANGED vm_started
    /\ UNCHANGED <<entries, next_context, effective, vm_rejected, calloutVars,
                   servingVars, detached, deletion, deleting, poisoned>>

\* They answer false, which refuses; or a value that is not a boolean, which
\* refuses inside start and changes nothing by hand.
ReturnRefuse(boolean) ==
    /\ frame.callback \in {"VmStart", "Configure"}
    /\ PopFrame
    /\ IF boolean \/ starting # NoStart
       THEN RefuseStart(frame.callback, frame.context)
       ELSE UNCHANGED <<vm_rejected, entries>>
    /\ IF starting = NoStart
       THEN UNCHANGED <<starting, stream_state, scope, served>>
       ELSE EndStart
    /\ UNCHANGED <<next_context, effective, vm_started, calloutVars, servingVars,
                   detached, deletion, deleting, poisoned>>

\* `deliver' returns.  A failure delivery adds the callout to the answer of
\* on_delete; for a delivery of its own the embedder ends its record.
ReturnDelivery ==
    LET ended == IF frame.saved = NoCallout THEN {} ELSE {frame.callout}
    IN  /\ frame.callback \in DeliveryCallback
        /\ PopFrame
        /\ ClearServing
        /\ IF deletion = NoDeletion
           THEN /\ requests' = RemoveCallouts(requests, ended)
                /\ UNCHANGED deletion
           ELSE /\ deletion' = [deletion EXCEPT !.ended = @ \cup ended]
                /\ UNCHANGED requests
        /\ UNCHANGED <<contextVars, open, next_callout, scopeVars, deleting, starting,
                       poisoned>>

-----------------------------------------------------------------------------
(***************************************************************************)
(* The guest does not return                                               *)
(***************************************************************************)
\* Mutant: the entry of a delivery that trapped is lost.
RestoreNothing == UNCHANGED open

\* `deliver' puts the entry it took back when the guest is poisoned.
RestoreSaved ==
    open' = IF frame.saved = NoCallout
            THEN open
            ELSE EnterCallout(open, frame.callout, frame.saved)

\* A trap or a limit: the call fails and poisons the guest, and the error
\* passes up through deliver, on_delete and start, each of which tidies up.
Trap ==
    /\ Running
    /\ PopFrame
    /\ ClearServing
    /\ poisoned' = TRUE
    /\ RestoreSaved
    /\ deletion' = NoDeletion
    /\ deleting' = IF deletion = NoDeletion THEN deleting ELSE NoContext
    /\ IF starting = NoStart
       THEN UNCHANGED <<vm_rejected, entries, starting, stream_state, scope, served>>
       ELSE RefuseStart(starting.step, starting.root) /\ EndStart
    /\ UNCHANGED <<next_context, effective, vm_started, next_callout, requests,
                   detached>>

\* A panic of the stream state or of a service unwinds through the guest and
\* every function of the host, and nothing after the call runs.  The scope of
\* start drops on the way; any other scope is still there, for the embedder to
\* drop or to go on with.
Panic ==
    /\ Running
    /\ frame' = NoFrame
    /\ deletion' = NoDeletion
    /\ IF starting = NoStart
       THEN UNCHANGED <<scopeVars, poisoned, current_callback, starting>>
       ELSE EndScope /\ starting' = NoStart /\ UNCHANGED detached
    /\ UNCHANGED <<contextVars, calloutVars, servingVars, deleting>>

-----------------------------------------------------------------------------
EmbedderNext ==
    \/ \E h \in StreamType : Enter(h)
    \/ Finish \/ DropScope \/ ForgetScope \/ TakeStream \/ RefuseCutGuest
    \/ \E c \in ContextId \cup {NoContext} : OnContextCreate(c)
    \/ \E c \in ContextId :
          \/ OnVmStart(c) \/ OnTick(c) \/ OnDone(c) \/ OnLog(c) \/ OnDelete(c)
          \/ OnForeignFunction(c)
          \/ \E p \in RootIds : OnConfigure(c, p)
          \/ \E cb \in HttpCallback \cup TcpCallback : OnStream(c, cb)
          \/ \E k \in StreamKind : ExpectStreamKind(c, k)
    \/ \E id \in CalloutId :
          OnHttpCallResponse(id) \/ \E cb \in GrpcCallback : OnGrpc(id, cb)
    \/ \E p \in RootIds : Start(p) \/ StartRefused(p)

HostNext ==
    \/ FailNext \/ CallDelete \/ EndDelete
    \/ StartVm \/ StartRoot \/ StartTooLarge

GuestNext ==
    \/ \E kind \in CalloutKind, taken \in BOOLEAN : OpenCallout(kind, taken)
    \/ \E id \in CalloutId : CloseStream(id) \/ CancelCallout(id)
    \/ ReadAnnounced \/ ProxyDone
    \/ \E c \in ContextId : ProxySetEffectiveContext(c)

ReturnNext ==
    \/ ReturnPlain \/ ReturnAccept \/ ReturnDelivery \/ ReturnDelete
    \/ \E s \in {"Done", "Pending", "NotBoolean"} : ReturnDone(s)
    \/ \E boolean \in BOOLEAN : ReturnRefuse(boolean)
    \/ Trap \/ Panic

Next == EmbedderNext \/ HostNext \/ GuestNext \/ ReturnNext

Spec == Init /\ [][Next]_vars

-----------------------------------------------------------------------------
(***************************************************************************)
(* Safety properties                                                       *)
(***************************************************************************)
\* No callback was cut short by a panic that the guest does not know of yet,
\* and the guest can still run.
Sound == ~poisoned /\ (Running \/ current_callback = NoCallback)

\* A stream context's parent is a live root: on_delete checks for children
\* before the guest runs and removes the root after it ran, several callbacks
\* later.
ContextTree ==
    \A c \in DOMAIN entries :
        /\ c < next_context
        /\ entries[c].parent # NoContext => IsRoot(entries, entries[c].parent)

\* While the guest runs, the effective context is live and belongs to the root
\* of the callback, so what the guest does through proxy_set_effective_context
\* never reaches a context of another root.
RootIsolation ==
    /\ effective # NoContext => effective \in DOMAIN entries
    /\ Running => /\ effective # NoContext
                  /\ RootOf(entries, effective) = RootOf(entries, frame.context)

\* Every open callout hangs on a live root, on which its answer is delivered,
\* and on a sound guest the context that made it is alive under that root,
\* except for the stream context whose on_delete is failing its callouts now.
CalloutsOwned ==
    \A id \in DOMAIN open :
        /\ IsRoot(entries, open[id].root)
        /\ Sound => \/ RootOf(entries, open[id].caller) = open[id].root
                    \/ deletion.removed /\ open[id].caller = deletion.context

\* The callouts whose answer the guest is being given or has been given by a
\* deletion that has not answered yet.
InFlight ==
    deletion.ended \cup (IF frame.saved = NoCallout THEN {} ELSE {frame.callout})

\* On a sound guest the embedder's record of requests and the callout table
\* name the same callouts, apart from those in flight, and agree on which
\* streams the guest closed: no request is left waiting for an answer nobody
\* will deliver, and no callout waits for a request that is gone.
LedgerAgrees ==
    Sound =>
        /\ DOMAIN requests = DOMAIN open \cup InFlight
        /\ DOMAIN open \cap InFlight = {}
        /\ \A id \in DOMAIN open : requests[id] = open[id].closed_by_guest

\* A callback sees the payload of its own delivery and at most the size
\* announced for its own body, never one that an earlier callback left behind.
PayloadOfItsCallback ==
    Running =>
        /\ delivery = IF frame.callback \in DeliveryCallback
                      THEN [callback |-> frame.callback, callout |-> frame.callout]
                      ELSE NoDelivery
        /\ announced => frame.callback \in BodyCallback

\* A guest holds at most its limit of callouts, and one more only when a trap
\* put the entry of a delivery back next to one that the guest opened meanwhile.
OpenCalloutsBounded ==
    /\ Sound => Cardinality(DOMAIN open) <= MaxOpenCallouts
    /\ Cardinality(DOMAIN open) <= MaxOpenCallouts + 1

\* A scope finds its own stream state installed, which finish and stream_mut take
\* for granted, and the state that an earlier scope left behind is gone, so that
\* take_stream never hands out the state of another request.
LentStateKept == scope # NoScope => stream_state = scope /\ ~detached

\* A refused root, and every root of a refused guest, gets none of the callbacks
\* that serve traffic: only the ones that end it run.
RefusedRootServesNothing ==
    Running /\ Refused(frame.context) => frame.callback \in {"Done", "Log", "Delete"}

-----------------------------------------------------------------------------
(***************************************************************************)
(* The inductive invariant: what the properties above need to know of the  *)
(* call stack                                                              *)
(***************************************************************************)
\* A method in progress runs on a sound guest, whose callback on record is the
\* one that runs; start and on_delete do not call each other; between callbacks
\* nothing is left of a payload.
StackInv ==
    /\ ~Idle => ~poisoned
    /\ Running => current_callback = frame.callback
    /\ ~Running /\ ~Idle => current_callback = NoCallback
    /\ Running => frame.context \in DOMAIN entries
    /\ starting # NoStart => deletion = NoDeletion
    /\ ~Running /\ Sound => delivery = NoDelivery /\ ~announced

\* start works on a live root.
StartInv ==
    starting # NoStart => /\ IsRoot(entries, starting.root)
                          /\ starting.step = "ContextCreate" => Running
                          /\ Running => /\ frame.context = starting.root
                                        /\ frame.callback = starting.step

\* The entry of a delivery in progress is out of the table.
SavedInv ==
    frame.saved # NoCallout =>
        /\ frame.callback \in DeliveryCallback
        /\ frame.callout \in CalloutId \ DOMAIN open
        /\ frame.callout \notin deletion.ended
        /\ frame.callout < next_callout
        /\ IsRoot(entries, frame.saved.root)

\* A deletion in progress has a childless context that is alive until
\* proxy_on_delete returned.  A stream's root is alive throughout.  A root's own
\* callouts all wait for their failure delivery: it opens no new ones.
DeletionInv ==
    /\ frame.callback = "Delete" =>
          /\ deletion # NoDeletion /\ ~deletion.removed /\ deletion.left = {}
          /\ frame.context = deletion.context
    /\ deletion # NoDeletion =>
          /\ deleting = deletion.context
          /\ \A d \in DOMAIN entries : entries[d].parent # deletion.context
          /\ deletion.removed <=> deletion.context \notin DOMAIN entries
          /\ ~deletion.removed => entries[deletion.context].parent = deletion.root
          /\ deletion.root # NoContext => IsRoot(entries, deletion.root)
          /\ deletion.root = NoContext =>
                /\ MadeBy(open, deletion.context) \subseteq deletion.left
                /\ deletion.removed => deletion.left = {}
          /\ frame.callback \in {NoCallback, "Delete"} \cup DeliveryCallback
          /\ Running /\ deletion.removed => frame.context = deletion.root

\* Callout identifiers in use were given out.
IdsInv ==
    /\ \A id \in DOMAIN open : id < next_callout
    /\ Sound => \A id \in DOMAIN requests : id < next_callout

IInv ==
    /\ TypeOK /\ StackInv /\ StartInv /\ SavedInv /\ DeletionInv /\ IdsInv
    /\ ContextTree /\ RootIsolation /\ CalloutsOwned /\ LedgerAgrees
    /\ PayloadOfItsCallback

-----------------------------------------------------------------------------
(***************************************************************************)
(* Action properties                                                       *)
(***************************************************************************)
\* The guest is not called once it is poisoned, nor after a callback that a panic
\* cut short and whose host state is half updated: not by a method of the
\* embedder, and not by start or on_delete between two of their calls.
NeverRunsCut ==
    [][~Running /\ frame' # NoFrame => ~poisoned /\ current_callback = NoCallback]_vars

\* A poisoned guest stays poisoned, and its tables stay as the failure left
\* them, so the embedder reads from open_callouts what did not end.
PoisonFreezes ==
    [][poisoned => poisoned' /\ UNCHANGED <<entries, open, requests, next_callout>>]_vars

\* A refusal is final: the VM's is never taken back nor blamed on another root,
\* a root's lasts as long as the root, and no callout is opened after either.
RefusalIsFinal ==
    [][/\ vm_rejected # NoContext => vm_rejected' = vm_rejected
       /\ \A c \in DOMAIN entries \cap DOMAIN entries' :
             entries[c].rejected => entries'[c].rejected
       /\ \A id \in DOMAIN open' \ DOMAIN open :
             poisoned' \/ ~Refused(open'[id].root)]_vars

\* No callout ends in silence: one that leaves the table is being delivered to
\* the guest, or the guest ended it itself and the service heard of it, or its
\* root was refused and gets no more callbacks.
GuestHearsEveryEnd ==
    [][\A id \in DOMAIN open \ DOMAIN open' :
          \/ frame'.callout = id /\ frame'.saved = open[id]
          \/ Running /\ id \notin DOMAIN requests'
          \/ Refused(open[id].root)]_vars

\* A trap loses no request: the entry of the delivery that trapped is back in
\* the table, so open_callouts names every request of the embedder but those
\* that the failed deletion had ended.
TrapAccounts ==
    [][Running /\ ~poisoned /\ poisoned' =>
          DOMAIN requests' = DOMAIN open' \cup deletion.ended]_vars

\* A stream context sees one family of stream callbacks in its life, whether a
\* callback or a declaration came first, and across scopes.
OneFamilyPerStream ==
    [][/\ \A c \in DOMAIN entries \cap DOMAIN entries' :
             entries[c].stream_kind \in {NoKind, entries'[c].stream_kind}
       /\ frame'.callback \in HttpCallback \cup TcpCallback =>
             entries'[frame'.context].stream_kind = KindOf(frame'.callback)]_vars

-----------------------------------------------------------------------------
(***************************************************************************)
(* What the documentation of the crate says and the code does not do       *)
(***************************************************************************)
\* The answer of on_delete is the one signal of the callouts it ended, and
\* after a failure open_callouts names those that did not end: together they
\* name every request of the embedder.
FailedDeletionAccounts ==
    [][Running /\ deletion # NoDeletion /\ ~poisoned /\ poisoned' =>
          DOMAIN requests' \subseteq DOMAIN open']_vars

\* After a refused VM start every later callback answers GuestRejected, so the
\* guest does not run.
RefusedGuestNeverRuns == vm_rejected # NoContext => ~Running

-----------------------------------------------------------------------------
(***************************************************************************)
(* Liveness.  Every guest call ends, because it runs against a budget of   *)
(* fuel or of epochs, and the host's own code between two calls is         *)
(* sequential.  Which way a call ends is open.                             *)
(***************************************************************************)
Fairness == WF_vars(HostNext) /\ WF_vars(ReturnNext)
FairSpec == Spec /\ Fairness

\* Every method of the embedder returns: the loop of on_delete ends although
\* the guest opens and cancels callouts from inside it.
MethodsReturn == ~Idle ~> Idle
=============================================================================
