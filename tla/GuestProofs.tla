---------------------------- MODULE GuestProofs -----------------------------
(***************************************************************************)
(* Proofs about Guest, for every number of contexts, callouts and root ids *)
(* and every limit of open callouts.                                       *)
(***************************************************************************)
EXTENDS Guest, WellFoundedInduction, FiniteSetTheorems, TLAPS

(***************************************************************************)
(* The tables: what each operator leaves of a table.                       *)
(***************************************************************************)

\* A created context is in the table with no mark on it, and the others are as
\* they were (ContextTable::create).
LEMMA CreateContextFacts ==
    ASSUME NEW t, ContextTables(t), NEW c \in ContextId,
           NEW parent \in ContextId \cup {NoContext}
    PROVE  LET u == CreateContext(t, c, parent)
           IN  /\ ContextTables(u)
               /\ DOMAIN u = DOMAIN t \cup {c}
               /\ u[c].parent = parent
               /\ ~u[c].rejected
               /\ u[c].stream_kind = NoKind
               /\ \A d \in DOMAIN t : d # c => u[d] = t[d]
    BY DEF CreateContext, ContextTables, ContextEntry, ContextState, Plugin,
         NoPlugin

\* A removed context is gone, and the others are as they were
\* (ContextTable::remove).
LEMMA RemoveContextFacts ==
    ASSUME NEW t, ContextTables(t), NEW c
    PROVE  LET u == RemoveContext(t, c)
           IN  /\ ContextTables(u)
               /\ DOMAIN u = DOMAIN t \ {c}
               /\ \A d \in DOMAIN u : u[d] = t[d]
    BY DEF RemoveContext, Restrict, ContextTables

\* Two tables with the same contexts under the same parents.
SameTree(t, u) ==
    /\ DOMAIN u = DOMAIN t
    /\ \A d \in DOMAIN t : u[d].parent = t[d].parent

\* The operators that mark a context keep the tree and touch no other context
\* (set_state, reject, set_plugin, set_stream_kind).
LEMMA SetStateFacts ==
    ASSUME NEW t, ContextTables(t), NEW c, NEW s \in ContextState
    PROVE  LET u == SetState(t, c, s)
           IN  /\ ContextTables(u)
               /\ SameTree(t, u)
               /\ \A d \in DOMAIN t : u[d].rejected = t[d].rejected
               /\ \A d \in DOMAIN t : u[d].stream_kind = t[d].stream_kind
    BY DEF SetState, ContextTables, ContextEntry, SameTree

LEMMA RejectFacts ==
    ASSUME NEW t, ContextTables(t), NEW c
    PROVE  LET u == Reject(t, c)
           IN  /\ ContextTables(u)
               /\ SameTree(t, u)
               /\ \A d \in DOMAIN t : t[d].rejected => u[d].rejected
               /\ \A d \in DOMAIN t : u[d].stream_kind = t[d].stream_kind
    BY DEF Reject, ContextTables, ContextEntry, SameTree

LEMMA SetPluginFacts ==
    ASSUME NEW t, ContextTables(t), NEW c, NEW p \in RootIds
    PROVE  LET u == SetPlugin(t, c, p)
           IN  /\ ContextTables(u)
               /\ SameTree(t, u)
               /\ \A d \in DOMAIN t : u[d].rejected = t[d].rejected
               /\ \A d \in DOMAIN t : u[d].stream_kind = t[d].stream_kind
    BY DEF SetPlugin, IsRoot, ContextTables, ContextEntry, SameTree, Plugin

LEMMA SetStreamKindFacts ==
    ASSUME NEW t, ContextTables(t), NEW c, NEW k \in StreamKind
    PROVE  LET u == SetStreamKind(t, c, k)
           IN  /\ ContextTables(u)
               /\ SameTree(t, u)
               /\ \A d \in DOMAIN t : u[d].rejected = t[d].rejected
    BY DEF SetStreamKind, ContextTables, ContextEntry, SameTree

\* An entered callout is in the table, and the others are as they were
\* (CalloutTable::enter).
LEMMA EnterCalloutFacts ==
    ASSUME NEW o, CalloutTables(o), NEW id \in CalloutId, NEW x \in Callout
    PROVE  LET p == EnterCallout(o, id, x)
           IN  /\ CalloutTables(p)
               /\ DOMAIN p = DOMAIN o \cup {id}
               /\ p[id] = x
               /\ \A i \in DOMAIN o : i # id => p[i] = o[i]
    BY DEF EnterCallout, CalloutTables

\* Removed callouts are gone, and the others are as they were
\* (CalloutTable::remove, drop_open_callouts).
LEMMA RemoveCalloutsFacts ==
    ASSUME NEW o, CalloutTables(o), NEW ids
    PROVE  LET p == RemoveCallouts(o, ids)
           IN  /\ CalloutTables(p)
               /\ DOMAIN p = DOMAIN o \ ids
               /\ \A i \in DOMAIN p : p[i] = o[i]
    BY DEF RemoveCallouts, Restrict, CalloutTables

\* The same of the embedder's record of its requests.
LEMMA EnterRequestFacts ==
    ASSUME NEW r, RequestTables(r), NEW id \in CalloutId
    PROVE  LET p == EnterCallout(r, id, FALSE)
           IN  /\ RequestTables(p)
               /\ DOMAIN p = DOMAIN r \cup {id}
               /\ p[id] = FALSE
               /\ \A i \in DOMAIN r : i # id => p[i] = r[i]
    BY DEF EnterCallout, RequestTables

LEMMA RemoveRequestsFacts ==
    ASSUME NEW r, RequestTables(r), NEW ids
    PROVE  LET p == RemoveCallouts(r, ids)
           IN  /\ RequestTables(p)
               /\ DOMAIN p = DOMAIN r \ ids
               /\ \A i \in DOMAIN p : p[i] = r[i]
    BY DEF RemoveCallouts, Restrict, RequestTables

\* A close of the guest's side marks one callout (close_by_guest).
LEMMA CloseByGuestFacts ==
    ASSUME NEW o, CalloutTables(o), NEW id \in DOMAIN o
    PROVE  LET p == CloseByGuest(o, id)
           IN  /\ CalloutTables(p)
               /\ DOMAIN p = DOMAIN o
               /\ p[id].closed_by_guest
               /\ \A i \in DOMAIN o : /\ p[i].kind = o[i].kind
                                      /\ p[i].caller = o[i].caller
                                      /\ p[i].root = o[i].root
                                      /\ i # id => p[i] = o[i]
    BY DEF CloseByGuest, CalloutTables, Callout

\* The first of a set of callout identifiers is one of them (the order of the
\* BTreeMap that `made_by' walks).
LEMMA FirstIsIn ==
    ASSUME NEW ids \in SUBSET CalloutId, ids # {}
    PROVE  First(ids) \in ids
<1>1. PICK id \in ids : \A other \in ids : id <= other
  <2> DEFINE less == OpToRel(<, Nat)
  <2>1. ids \subseteq Nat
    BY CalloutTableAssumption DEF CalloutId
  <2>2. \E id \in ids : \A other \in ids : <<other, id>> \notin less
    <3> HIDE DEF less
    <3>1. IsWellFoundedOn(less, Nat)
      BY NatLessThanWellFounded DEF less
    <3> QED
      BY <2>1, <3>1, WFMin
  <2>3. PICK id \in ids : \A other \in ids : <<other, id>> \notin less
    BY <2>2
  <2>4. \A other \in ids : ~(other < id)
    BY <2>1, <2>3 DEF OpToRel
  <2> QED
    BY <2>1, <2>4
<1> QED
  BY <1>1 DEF First

\* A membership test is a Boolean: what `announced' is set to in stream_action.
LEMMA IsMemberBoolean ==
    ASSUME NEW x, NEW S
    PROVE  (x \in S) \in BOOLEAN
    OBVIOUS

-----------------------------------------------------------------------------
(***************************************************************************)
(* The types.  TypeOK alone is not inductive: the root that open_callout   *)
(* writes into an entry has a type because the effective context is live,  *)
(* and the answer of on_delete because the frame's callout is one, so the  *)
(* step is taken from the whole inductive invariant.                       *)
(***************************************************************************)

\* The variables start with values of their types (ContextTable::new,
\* CalloutTable::new, AbiState::new).
LEMMA TypeInit == Init => TypeOK
<1> SUFFICES ASSUME Init PROVE TypeOK
  OBVIOUS
<1>1. ContextTables(entries)
  BY DEF Init, EmptyTable, ContextTables
<1>2. CalloutTables(open)
  BY DEF Init, EmptyTable, CalloutTables
<1>3. RequestTables(requests)
  BY DEF Init, EmptyTable, RequestTables
<1>4. next_context \in 1 .. MaxContextId + 1 /\ next_callout \in 1 .. MaxCalloutId + 1
  BY ContextTableAssumption, CalloutTableAssumption DEF Init
<1> QED
  BY <1>1, <1>2, <1>3, <1>4 DEF Init, TypeOK

\* Every operation leaves the variables in their types: the counters stop at
\* their last identifier, and no entry holds a context or a callout that is not
\* one.
LEMMA TypeStep == IInv /\ [Next]_vars => TypeOK'
<1> SUFFICES ASSUME IInv, [Next]_vars PROVE TypeOK'
  OBVIOUS
<1>0. TypeOK
  BY DEF IInv
<1> USE <1>0, ContextTableAssumption, CalloutTableAssumption
  DEF vars, contextVars, calloutVars, servingVars, scopeVars, stackVars, TypeOK,
      Run, RunPlain, Deliver, CreateAndRun, VmStart, Configure, EndScope,
      PoisonIfCut, PopFrame, ClearServing, EndStart, RefuseStart, Detach,
      RestoreSaved, Frame, NoFrame, Deletion, NoDeletion, Starting, NoStart,
      Delivery, NoDelivery, Callback, DeliveryCallback, GrpcCallback,
      HttpCallback, TcpCallback, ActionCallback, BodyCallback, NoCallback,
      StreamType, NoScope, NoContext, NoCalloutId, NoCallout, ContextId,
      CalloutId
<1>1. ASSUME NEW h \in StreamType, Enter(h) PROVE TypeOK'
  <2>1. detached' \in BOOLEAN
    BY <1>1 DEF Enter
  <2> QED
    BY <1>1, <2>1 DEF Enter
<1>2. ASSUME Finish PROVE TypeOK'
  BY <1>2 DEF Finish
<1>3. ASSUME DropScope PROVE TypeOK'
  BY <1>3 DEF DropScope
<1>4. ASSUME ForgetScope PROVE TypeOK'
  BY <1>4 DEF ForgetScope
<1>5. ASSUME TakeStream PROVE TypeOK'
  <2>1. detached' \in BOOLEAN
    BY <1>5 DEF TakeStream
  <2> QED
    BY <1>5, <2>1 DEF TakeStream
<1>6. ASSUME RefuseCutGuest PROVE TypeOK'
  BY <1>6 DEF RefuseCutGuest
<1>7. ASSUME NEW c \in ContextId \cup {NoContext}, OnContextCreate(c) PROVE TypeOK'
  <2>1. next_context \in ContextId
    BY <1>7 DEF OnContextCreate, Creatable
  <2>2. ContextTables(entries')
    BY <1>7, <2>1, CreateContextFacts DEF OnContextCreate
  <2>3. next_context' \in 1 .. MaxContextId + 1
    BY <1>7, <2>1 DEF OnContextCreate
  <2> QED
    BY <1>7, <2>1, <2>2, <2>3 DEF OnContextCreate
<1>8. ASSUME NEW c \in ContextId, OnVmStart(c) PROVE TypeOK'
  BY <1>8 DEF OnVmStart
<1>9. ASSUME NEW c \in ContextId, OnTick(c) PROVE TypeOK'
  BY <1>9 DEF OnTick
<1>10. ASSUME NEW c \in ContextId, OnDone(c) PROVE TypeOK'
  <2>1. served' \in ContextId \cup {NoContext}
    BY <1>10 DEF OnDone, ServeIfStream
  <2> QED
    BY <1>10, <2>1 DEF OnDone
<1>11. ASSUME NEW c \in ContextId, OnLog(c) PROVE TypeOK'
  <2>1. served' \in ContextId \cup {NoContext}
    BY <1>11 DEF OnLog, ServeIfStream
  <2> QED
    BY <1>11, <2>1 DEF OnLog
<1>12. ASSUME NEW c \in ContextId, OnDelete(c) PROVE TypeOK'
  <2> DEFINE left    == IF IsRoot(entries, c) THEN FailFirst(c, c) ELSE {}
             dropped == IF IsRoot(entries, c) THEN DropFirst(c, c) ELSE {}
             started == [context |-> c, root |-> entries[c].parent, left |-> left,
                         ended |-> dropped, removed |-> FALSE]
  <2>1. served' \in ContextId \cup {NoContext}
    BY <1>12 DEF OnDelete, ServeIfStream
  <2>2. open' = open \/ open' = RemoveCallouts(open, dropped)
    BY <1>12 DEF OnDelete
  <2>3. CalloutTables(open')
    <3>1. CASE open' = open
      BY <3>1
    <3>2. CASE open' = RemoveCallouts(open, dropped)
      BY <3>2, RemoveCalloutsFacts
    <3> QED
      BY <2>2, <3>1, <3>2
  <2>4. deletion' = deletion \/ deletion' = started
    BY <1>12 DEF OnDelete
  <2>5. started \in Deletion
    <3>1. entries[c].parent \in ContextId \cup {NoContext}
      BY <1>12 DEF OnDelete, ContextTables, ContextEntry
    <3>2. left \in SUBSET CalloutId /\ dropped \in SUBSET CalloutId
      BY DEF FailFirst, DropFirst, MadeBy, CalloutTables
    <3> QED
      BY <3>1, <3>2
  <2>6. deleting' \in ContextId \cup {NoContext}
    BY <1>12 DEF OnDelete
  <2>7. UNCHANGED <<contextVars, next_callout, requests, servingVars, stream_state,
                    detached, scope, frame, starting, poisoned, current_callback>>
    BY <1>12 DEF OnDelete
  <2> HIDE DEF started
  <2> QED
    BY <2>1, <2>3, <2>4, <2>5, <2>6, <2>7
<1>13. ASSUME NEW c \in ContextId, OnForeignFunction(c) PROVE TypeOK'
  BY <1>13 DEF OnForeignFunction
<1>14. ASSUME NEW c \in ContextId, NEW p \in RootIds, OnConfigure(c, p)
      PROVE TypeOK'
  <2>1. ContextTables(entries')
    BY <1>14, SetPluginFacts DEF OnConfigure
  <2> QED
    BY <1>14, <2>1 DEF OnConfigure
<1>15. ASSUME NEW c \in ContextId, NEW cb \in HttpCallback \cup TcpCallback, OnStream(c, cb)
      PROVE TypeOK'
  <2>1. ContextTables(entries')
    BY <1>15, SetStreamKindFacts DEF OnStream, KindOf, StreamKind
  <2>2. announced' \in BOOLEAN
    BY <1>15, IsMemberBoolean DEF OnStream
  <2> QED
    BY <1>15, <2>1, <2>2 DEF OnStream
<1>16. ASSUME NEW c \in ContextId, NEW k \in StreamKind, ExpectStreamKind(c, k)
      PROVE TypeOK'
  <2>1. ContextTables(entries')
    BY <1>16, SetStreamKindFacts DEF ExpectStreamKind
  <2> QED
    BY <1>16, <2>1 DEF ExpectStreamKind
<1>17. ASSUME NEW id \in CalloutId, OnHttpCallResponse(id) PROVE TypeOK'
  <2>1. CalloutTables(open')
    BY <1>17, RemoveCalloutsFacts DEF OnHttpCallResponse
  <2>2. open[id] \in Callout
    BY <1>17 DEF OnHttpCallResponse, Deliverable, CalloutTables
  <2>3. open[id].root \in ContextId
    BY <2>2 DEF Callout
  <2> QED
    BY <1>17, <2>1, <2>2, <2>3 DEF OnHttpCallResponse
<1>18. ASSUME NEW id \in CalloutId, NEW cb \in GrpcCallback, OnGrpc(id, cb)
      PROVE TypeOK'
  <2>1. CalloutTables(open')
    BY <1>18, RemoveCalloutsFacts DEF OnGrpc
  <2>2. open[id] \in Callout
    BY <1>18 DEF OnGrpc, Deliverable, CalloutTables
  <2>3. open[id].root \in ContextId
    BY <2>2 DEF Callout
  <2> QED
    BY <1>18, <2>1, <2>2, <2>3 DEF OnGrpc
<1>19. ASSUME NEW p \in RootIds, Start(p) PROVE TypeOK'
  <2>1. next_context \in ContextId
    BY <1>19 DEF Start, Creatable
  <2>2. ContextTables(entries')
    BY <1>19, <2>1, CreateContextFacts DEF Start
  <2>3. next_context' \in 1 .. MaxContextId + 1
    BY <1>19, <2>1 DEF Start
  <2>4. detached' \in BOOLEAN
    BY <1>19 DEF Start
  <2> QED
    BY <1>19, <2>1, <2>2, <2>3, <2>4 DEF Start
<1>20. ASSUME NEW p \in RootIds, StartRefused(p) PROVE TypeOK'
  <2>1. detached' \in BOOLEAN
    BY <1>20 DEF StartRefused
  <2>2. poisoned' \in BOOLEAN
    BY <1>20 DEF StartRefused
  <2> QED
    BY <1>20, <2>1, <2>2 DEF StartRefused
<1>21. ASSUME FailNext PROVE TypeOK'
  <2> DEFINE callout == First(deletion.left)
  <2>1. deletion \in Deletion
    BY <1>21 DEF FailNext
  <2>2. deletion' \in Deletion
    BY <1>21, <2>1 DEF FailNext, Rest
  <2>3. open' = open \/ open' = RemoveCallouts(open, {callout})
    BY <1>21 DEF FailNext
  <2>4. CalloutTables(open')
    <3>1. CASE open' = open
      BY <3>1
    <3>2. CASE open' = RemoveCallouts(open, {callout})
      BY <3>2, RemoveCalloutsFacts
    <3> QED
      BY <2>3, <3>1, <3>2
  <2>5. callout \in CalloutId
    BY <1>21, <2>1, FirstIsIn DEF FailNext
  <2>6. callout \in DOMAIN open => open[callout] \in Callout
    BY DEF CalloutTables
  <2>7. frame' \in Frame \cup {NoFrame}
    BY <1>21, <2>1, <2>5, <2>6 DEF FailNext
  <2>8. delivery' \in Delivery \cup {NoDelivery}
    BY <1>21, <2>5 DEF FailNext
  <2>9. effective' \in ContextId \cup {NoContext}
    BY <1>21, <2>1 DEF FailNext
  <2>10. current_callback' \in Callback \cup {NoCallback}
    BY <1>21 DEF FailNext
  <2> QED
    BY <1>21, <2>2, <2>4, <2>7, <2>8, <2>9, <2>10 DEF FailNext
<1>22. ASSUME CallDelete PROVE TypeOK'
  BY <1>22 DEF CallDelete
<1>23. ASSUME EndDelete PROVE TypeOK'
  <2>1. CalloutTables(open')
    BY <1>23, RemoveCalloutsFacts DEF EndDelete
  <2>2. RequestTables(requests')
    BY <1>23, RemoveRequestsFacts DEF EndDelete
  <2> QED
    BY <1>23, <2>1, <2>2 DEF EndDelete
<1>24. ASSUME StartVm PROVE TypeOK'
  BY <1>24 DEF StartVm
<1>25. ASSUME StartRoot PROVE TypeOK'
  <2>1. starting \in Starting
    BY <1>25 DEF StartRoot
  <2>2. ContextTables(entries')
    BY <1>25, <2>1, SetPluginFacts DEF StartRoot
  <2> QED
    BY <1>25, <2>1, <2>2 DEF StartRoot
<1>26. ASSUME StartTooLarge PROVE TypeOK'
  <2>1. starting \in Starting
    BY <1>26 DEF StartTooLarge
  <2>2. ContextTables(entries')
    BY <1>26, <2>1, RejectFacts DEF StartTooLarge
  <2> QED
    BY <1>26, <2>1, <2>2 DEF StartTooLarge
<1>27. ASSUME NEW kind \in CalloutKind, NEW taken \in BOOLEAN, OpenCallout(kind, taken)
      PROVE TypeOK'
  <2>1. next_callout \in CalloutId
    BY <1>27 DEF OpenCallout
  <2>2. effective \in DOMAIN entries
    BY <1>27 DEF OpenCallout, Acting, IInv, RootIsolation
  <2>3. RootOf(entries, effective) \in ContextId
    BY <2>2 DEF RootOf, IsRoot, IsStream, ContextTables, ContextEntry
  <2>4. NewCallout(kind, effective, RootOf(entries, effective)) \in Callout
    BY <2>2, <2>3 DEF NewCallout, Callout, ContextTables
  <2>5. CASE taken
    <3>1. open' = EnterCallout(open, next_callout,
                       NewCallout(kind, effective, RootOf(entries, effective)))
      BY <1>27, <2>5 DEF OpenCallout
    <3>2. requests' = EnterCallout(requests, next_callout, FALSE)
      BY <1>27, <2>5 DEF OpenCallout
    <3>3. CalloutTables(open') /\ RequestTables(requests')
      BY <2>1, <2>4, <3>1, <3>2, EnterCalloutFacts, EnterRequestFacts
    <3> QED
      BY <1>27, <2>1, <3>3 DEF OpenCallout
  <2>6. CASE ~taken
    BY <1>27, <2>1, <2>6 DEF OpenCallout
  <2> QED
    BY <2>5, <2>6
<1>28. ASSUME NEW id \in CalloutId, CloseStream(id) PROVE TypeOK'
  <2>1. CalloutTables(open')
    BY <1>28, CloseByGuestFacts DEF CloseStream, FindOpen
  <2>2. RequestTables(requests')
    BY <1>28 DEF CloseStream, RequestTables
  <2> QED
    BY <1>28, <2>1, <2>2 DEF CloseStream
<1>29. ASSUME NEW id \in CalloutId, CancelCallout(id) PROVE TypeOK'
  <2>1. CalloutTables(open')
    BY <1>29, RemoveCalloutsFacts DEF CancelCallout
  <2>2. RequestTables(requests')
    BY <1>29, RemoveRequestsFacts DEF CancelCallout
  <2> QED
    BY <1>29, <2>1, <2>2 DEF CancelCallout
<1>30. ASSUME ProxyDone PROVE TypeOK'
  <2>1. ContextTables(entries')
    BY <1>30, SetStateFacts DEF ProxyDone, ContextState
  <2> QED
    BY <1>30, <2>1 DEF ProxyDone
<1>31. ASSUME NEW c \in ContextId, ProxySetEffectiveContext(c) PROVE TypeOK'
  BY <1>31 DEF ProxySetEffectiveContext
<1>32. ASSUME ReturnPlain PROVE TypeOK'
  <2>1. starting' \in Starting \cup {NoStart}
    BY <1>32 DEF ReturnPlain
  <2>2. announced' \in BOOLEAN
    BY <1>32 DEF ReturnPlain
  <2>3. delivery' \in Delivery \cup {NoDelivery}
    BY <1>32 DEF ReturnPlain
  <2>4. frame' = NoFrame /\ current_callback' = NoCallback
    BY <1>32 DEF ReturnPlain
  <2>5. UNCHANGED <<contextVars, calloutVars, scopeVars, deletion, deleting, poisoned>>
    BY <1>32 DEF ReturnPlain
  <2> QED
    BY <2>1, <2>2, <2>3, <2>4, <2>5
<1>33. ASSUME ReturnAccept PROVE TypeOK'
  <2>1. starting' \in Starting \cup {NoStart}
    BY <1>33 DEF ReturnAccept
  <2>2. vm_started' \in BOOLEAN
    BY <1>33 DEF ReturnAccept
  <2> QED
    BY <1>33, <2>1, <2>2 DEF ReturnAccept
<1>34. ASSUME ReturnDelivery PROVE TypeOK'
  <2> DEFINE ended == IF frame.saved = NoCallout THEN {} ELSE {frame.callout}
  <2>1. announced' \in BOOLEAN
    BY <1>34 DEF ReturnDelivery
  <2>2. requests' = requests \/ requests' = RemoveCallouts(requests, ended)
    BY <1>34 DEF ReturnDelivery
  <2>3. RequestTables(requests')
    <3>1. CASE requests' = requests
      BY <3>1
    <3>2. CASE requests' = RemoveCallouts(requests, ended)
      BY <3>2, RemoveRequestsFacts
    <3> QED
      BY <2>2, <3>1, <3>2
  <2>4. ended \in SUBSET CalloutId
    BY DEF IInv, SavedInv
  <2>5. deletion' \in Deletion \cup {NoDeletion}
    BY <1>34, <2>4 DEF ReturnDelivery
  <2>6. delivery' \in Delivery \cup {NoDelivery}
    BY <1>34 DEF ReturnDelivery
  <2>7. frame' = NoFrame /\ current_callback' = NoCallback
    BY <1>34 DEF ReturnDelivery
  <2>8. UNCHANGED <<contextVars, open, next_callout, scopeVars, deleting, starting,
                    poisoned>>
    BY <1>34 DEF ReturnDelivery
  <2> QED
    BY <2>1, <2>3, <2>5, <2>6, <2>7, <2>8
<1>35. ASSUME ReturnDelete PROVE TypeOK'
  <2>1. ContextTables(entries')
    BY <1>35, RemoveContextFacts DEF ReturnDelete
  <2>2. CalloutTables(open')
    BY <1>35, RemoveCalloutsFacts DEF ReturnDelete
  <2>3. deletion \in Deletion
    BY <1>35 DEF ReturnDelete, IInv, DeletionInv
  <2>4. deletion' \in Deletion
    BY <1>35, <2>3 DEF ReturnDelete, FailFirst, DropFirst, MadeBy, CalloutTables
  <2> QED
    BY <1>35, <2>1, <2>2, <2>3, <2>4 DEF ReturnDelete
<1>36. ASSUME NEW s \in {"Done", "Pending", "NotBoolean"}, ReturnDone(s)
      PROVE TypeOK'
  <2>1. ContextTables(entries')
    BY <1>36, SetStateFacts DEF ReturnDone
  <2> QED
    BY <1>36, <2>1 DEF ReturnDone
<1>37. ASSUME NEW b \in BOOLEAN, ReturnRefuse(b) PROVE TypeOK'
  <2>1. frame \in Frame
    BY <1>37 DEF ReturnRefuse
  <2>2. ContextTables(entries')
    BY <1>37, RejectFacts DEF ReturnRefuse
  <2> QED
    BY <1>37, <2>1, <2>2 DEF ReturnRefuse
<1>38. ASSUME Trap PROVE TypeOK'
  <2>1. announced' \in BOOLEAN
    BY <1>38 DEF Trap
  <2>2. poisoned' \in BOOLEAN
    BY <1>38 DEF Trap
  <2>3. frame \in Frame
    BY <1>38 DEF Trap, Running
  <2>4. starting # NoStart => starting \in Starting
    OBVIOUS
  <2>5. ContextTables(entries')
    BY <1>38, RejectFacts DEF Trap
  <2>6. frame.saved # NoCallout => frame.callout \in CalloutId
    BY  DEF IInv, SavedInv
  <2>7. CalloutTables(open')
    BY <1>38, <2>3, <2>6, EnterCalloutFacts DEF Trap
  <2>8. delivery' \in Delivery \cup {NoDelivery}
    BY <1>38 DEF Trap
  <2>9. vm_rejected' \in ContextId \cup {NoContext}
    BY <1>38, <2>4 DEF Trap
  <2>10. deleting' \in ContextId \cup {NoContext}
    BY <1>38 DEF Trap
  <2>11. starting' \in Starting \cup {NoStart}
    BY <1>38 DEF Trap
  <2>12. /\ scope' \in StreamType \cup {NoScope}
        /\ stream_state' \in StreamType \cup {NoScope}
        /\ served' \in ContextId \cup {NoContext}
    BY <1>38 DEF Trap
  <2> QED
    BY <1>38, <2>1, <2>2, <2>3, <2>4, <2>5, <2>6, <2>7, <2>8, <2>9, <2>10,
       <2>11, <2>12
      DEF Trap
<1>39. ASSUME Panic PROVE TypeOK'
  <2>1. poisoned' \in BOOLEAN
    BY <1>39 DEF Panic
  <2> QED
    BY <1>39, <2>1 DEF Panic
<1>40. ASSUME ReadAnnounced PROVE TypeOK'
  <2>1. announced' \in BOOLEAN
    BY <1>40 DEF ReadAnnounced
  <2>2. UNCHANGED <<contextVars, calloutVars, scopeVars, stackVars>>
    BY <1>40 DEF ReadAnnounced
  <2>3. UNCHANGED <<delivery, poisoned, current_callback>>
    BY <1>40 DEF ReadAnnounced
  <2> QED
    BY <2>1, <2>2, <2>3 DEF ContextTables, CalloutTables
<1>90. CASE UNCHANGED vars
  BY <1>90 DEF ContextTables, CalloutTables
<1>91. QED
  BY <1>1, <1>2, <1>3, <1>4, <1>5, <1>6, <1>7, <1>8, <1>9, <1>10, <1>11, <1>12,
     <1>13, <1>14, <1>15, <1>16, <1>17, <1>18, <1>19, <1>20, <1>21, <1>22,
     <1>23, <1>24, <1>25, <1>26, <1>27, <1>28, <1>29, <1>30, <1>31, <1>32,
     <1>33, <1>34, <1>35, <1>36, <1>37, <1>38, <1>39, <1>40, <1>90
    DEF Next, EmbedderNext, HostNext, GuestNext, ReturnNext

-----------------------------------------------------------------------------
(***************************************************************************)
(* What the types say of the records that stand for the call stack, so     *)
(* that the proofs below need not expand them.                             *)
(***************************************************************************)
Shapes ==
    /\ DOMAIN entries \subseteq ContextId
    /\ DOMAIN open \subseteq CalloutId
    /\ \A id \in DOMAIN open : open[id] \in Callout /\ open[id] # NoCallout
    /\ next_context \in Nat /\ next_callout \in Nat
    /\ frame = NoFrame => /\ frame.callback = NoCallback
                          /\ frame.saved = NoCallout
    /\ frame # NoFrame => /\ frame.callback \in Callback
                          /\ frame.callback # NoCallback
                          /\ frame.context \in ContextId
    /\ frame.saved # NoCallout => frame.saved \in Callout
    /\ deletion = NoDeletion => /\ deletion.context = NoContext
                                /\ deletion.root = NoContext
                                /\ deletion.left = {}
                                /\ deletion.ended = {}
                                /\ ~deletion.removed
    /\ deletion # NoDeletion => /\ deletion.context \in ContextId
                                /\ deletion.root \in ContextId \cup {NoContext}
                                /\ deletion.removed \in BOOLEAN
    /\ deletion.left \subseteq CalloutId
    /\ deletion.ended \subseteq CalloutId
    /\ starting = NoStart => starting.step = NoCallback
    /\ starting # NoStart => /\ starting.step \in {"ContextCreate", "VmStart", "Configure"}
                             /\ starting.root \in ContextId

\* The fields of a record and the record itself tell the same of whether a
\* callback, a deletion or a start is in progress.
LEMMA TypeShapes == TypeOK => Shapes
<1> SUFFICES ASSUME TypeOK PROVE Shapes
  OBVIOUS
<1>1. /\ DOMAIN entries \subseteq ContextId
      /\ DOMAIN open \subseteq CalloutId
      /\ \A id \in DOMAIN open : open[id] \in Callout
      /\ next_context \in Nat /\ next_callout \in Nat
  BY ContextTableAssumption, CalloutTableAssumption
     DEF TypeOK, ContextTables, CalloutTables
<1>2. NoCallout \notin Callout
  BY DEF NoCallout, Callout, CalloutKind
<1> QED
  BY <1>1, <1>2
     DEF TypeOK, Shapes, Callback, DeliveryCallback, GrpcCallback, HttpCallback,
         TcpCallback, NoCallback, Frame, NoFrame, Deletion, NoDeletion, Starting,
         NoStart

-----------------------------------------------------------------------------
(***************************************************************************)
(* The inductive invariant of a guest, and the safety properties that      *)
(* follow from it, for every value of the constants.                       *)
(*                                                                         *)
(* A step lemma covers the actions with one effect on the call stack:      *)
(* those that run no guest code (QuietStep), that run a callback (RunStep, *)
(* DeliverStep, CreateStep), that return from one (ReturnStep); the turns  *)
(* of on_delete and start, the host functions, the trap and the panic have *)
(* a lemma each.  InvStep puts them together.                              *)
(*                                                                         *)
(* The action properties follow, each from a lemma on the steps that can   *)
(* touch what it speaks of.  Two need more than IInv: ServeInv, that start *)
(* and on_delete go on only on a root that is not refused, and EndsInv,    *)
(* that on_delete has every callout of its context before it.              *)
(***************************************************************************)

\* An operation that neither runs the guest nor moves a callout, and marks at
\* most a context, keeps everything: the scope's operations, expect_stream_kind,
\* proxy_done.  A scope that ends can only make a guest less sound.
LEMMA QuietStep ==
    ASSUME IInv, TypeOK',
           SameTree(entries, entries'),
           UNCHANGED <<next_context, effective, calloutVars, servingVars, stackVars>>,
           \/ UNCHANGED <<poisoned, current_callback>>
           \/ Idle /\ (Sound' => Sound)
    PROVE  IInv'
<1>1. TypeOK /\ Shapes /\ Shapes'
  BY TypeShapes, PTL DEF IInv
<1> USE DEF contextVars, calloutVars, servingVars, stackVars, NoCallback
<1>2. (Sound' => Sound) /\ (Running' <=> Running) /\ (Idle' <=> Idle) /\ InFlight' = InFlight
  BY DEF Sound, Running, Idle, InFlight
<1>3. StackInv' /\ StartInv'
  BY <1>1, <1>2 DEF Shapes, IInv, StackInv, StartInv, Sound, Idle, Running,
       SameTree, IsRoot
<1>4. SavedInv' /\ DeletionInv'
  BY <1>1, <1>2 DEF Shapes, IInv, SavedInv, DeletionInv, SameTree, IsRoot, Running
<1>5. IdsInv' /\ LedgerAgrees' /\ PayloadOfItsCallback'
  BY <1>2 DEF IInv, IdsInv, LedgerAgrees, PayloadOfItsCallback
<1>6. ContextTree' /\ RootIsolation'
  BY <1>1, <1>2 DEF Shapes, IInv, ContextTree, RootIsolation, StackInv, SameTree,
       IsRoot, RootOf, IsStream
<1>7. CalloutsOwned'
  BY <1>1, <1>2 DEF Shapes, IInv, CalloutsOwned, SameTree, IsRoot, RootOf, IsStream
<1> QED
  BY <1>3, <1>4, <1>5, <1>6, <1>7 DEF IInv

\* A callback without a callout begins on a sound guest, with nothing in flight:
\* the callbacks of the embedder, and the last two of start.
LEMMA RunStep ==
    ASSUME IInv, TypeOK',
           ~Running, deletion = NoDeletion, Live,
           SameTree(entries, entries'),
           NEW callback \in Callback \ (DeliveryCallback \cup {"Delete"}),
           NEW c \in DOMAIN entries,
           starting # NoStart => c = starting.root /\ callback = starting.step,
           RunPlain(callback, c),
           announced' <=> callback \in BodyCallback,
           UNCHANGED <<next_context, calloutVars, delivery, deletion, deleting,
                       starting, poisoned>>
    PROVE  IInv'
<1>1. TypeOK /\ Shapes /\ Shapes'
  BY TypeShapes, PTL DEF IInv
<1> USE DEF calloutVars, NoCallback
<1>2. /\ effective' = c /\ current_callback' = callback
      /\ frame'.callback = callback /\ frame'.context = c
      /\ frame'.callout = NoCalloutId /\ frame'.saved = NoCallout
      /\ callback # NoCallback /\ frame' # NoFrame
  BY <1>1 DEF Shapes, RunPlain, Run, SameTree, Callback, DeliveryCallback,
       GrpcCallback,
              HttpCallback, TcpCallback, NoFrame
<1>3. Sound /\ Sound' /\ InFlight = {} /\ InFlight' = {} /\ delivery = NoDelivery
  BY <1>1, <1>2 DEF Shapes, Sound, Live, Running, InFlight, IInv, StackInv
<1>4. StackInv' /\ StartInv'
  BY <1>1, <1>2, <1>3 DEF Shapes, IInv, StackInv, StartInv, Idle, Running, Live,
       SameTree, IsRoot
<1>5. SavedInv' /\ DeletionInv'
  BY <1>1, <1>2 DEF Shapes, SavedInv, DeletionInv
<1>6. IdsInv' /\ LedgerAgrees'
  BY <1>3 DEF IInv, IdsInv, LedgerAgrees
<1>7. ContextTree' /\ RootIsolation'
  BY <1>1, <1>2 DEF Shapes, IInv, ContextTree, RootIsolation, SameTree, IsRoot,
       ContextId, NoContext
<1>8. CalloutsOwned'
  BY <1>1, <1>2, <1>3 DEF Shapes, IInv, CalloutsOwned, SameTree, IsRoot, RootOf,
       IsStream
<1>9. PayloadOfItsCallback'
  BY <1>2, <1>3 DEF PayloadOfItsCallback
<1> QED
  BY <1>4, <1>5, <1>6, <1>7, <1>8, <1>9 DEF IInv

\* A delivery of the embedder begins: the callout that it ends leaves the table
\* and is in flight (`deliver').
LEMMA DeliverStep ==
    ASSUME IInv, TypeOK',
           Called,
           NEW callback \in DeliveryCallback,
           NEW c \in DOMAIN entries,
           NEW callout, NEW ends \in BOOLEAN,
           ends => callout \in DOMAIN open,
           Deliver(callback, c, callout, ends),
           UNCHANGED <<entries, next_context, next_callout, requests, announced,
                       deletion, deleting, starting, poisoned>>
    PROVE  IInv'
<1> DEFINE gone == IF ends THEN {callout} ELSE {}
<1>1. TypeOK /\ Shapes /\ Shapes'
  BY TypeShapes, PTL DEF IInv
<1> USE DEF NoCallback
<1>2. /\ DOMAIN open' = DOMAIN open \ gone
      /\ \A id \in DOMAIN open' : open'[id] = open[id]
  <2>1. CASE ends
    BY <2>1 DEF Deliver, RemoveCallouts, Restrict
  <2>2. CASE ~ends
    BY <2>2 DEF Deliver
  <2> QED
    BY <2>1, <2>2
<1>3. /\ effective' = c /\ current_callback' = callback
      /\ frame'.callback = callback /\ frame'.context = c /\ frame'.callout = callout
      /\ frame'.saved = IF ends THEN open[callout] ELSE NoCallout
      /\ delivery' = [callback |-> callback, callout |-> callout]
      /\ callback # NoCallback /\ frame' # NoFrame
  BY <1>1 DEF Shapes, Deliver, Run, DeliveryCallback, GrpcCallback, NoFrame
<1>4. ~Running /\ deletion = NoDeletion /\ starting = NoStart /\ Sound /\ Sound'
  BY <1>3 DEF Called, Idle, Live, Sound, Running
<1>5. InFlight = {} /\ InFlight' = gone
  BY <1>1, <1>3, <1>4 DEF Shapes, InFlight, Running
<1>6. StackInv' /\ StartInv'
  BY <1>1, <1>3, <1>4 DEF Shapes, IInv, StackInv, StartInv, Idle, Running, Sound
<1>7. SavedInv'
  BY <1>1, <1>2, <1>3, <1>4 DEF Shapes, IInv, SavedInv, IdsInv, CalloutsOwned
<1>8. DeletionInv'
  BY <1>1, <1>3, <1>4 DEF Shapes, DeletionInv, DeliveryCallback, GrpcCallback
<1>9. IdsInv' /\ ContextTree'
  BY <1>2, <1>4 DEF IInv, IdsInv, ContextTree
<1>10. RootIsolation'
  BY <1>1, <1>3 DEF Shapes, RootIsolation, ContextId, NoContext
<1>11. CalloutsOwned'
  BY <1>2, <1>4 DEF IInv, CalloutsOwned
<1>12. LedgerAgrees'
  BY <1>2, <1>4, <1>5 DEF IInv, LedgerAgrees
<1>13. PayloadOfItsCallback'
  BY <1>3, <1>4 DEF IInv, PayloadOfItsCallback, StackInv, DeliveryCallback,
       GrpcCallback, BodyCallback
<1> QED
  BY <1>6, <1>7, <1>8, <1>9, <1>10, <1>11, <1>12, <1>13 DEF IInv

\* A callback without a callout returns: nothing was in flight.  start is over
\* or goes on with its root.
LEMMA ReturnStep ==
    ASSUME IInv, TypeOK',
           frame.callback \in Callback \ (DeliveryCallback \cup {"Delete"}),
           PopFrame, ClearServing,
           SameTree(entries, entries'),
           \/ starting' = NoStart
           \/ /\ starting # NoStart /\ starting'.root = starting.root
              /\ starting'.step \in {"VmStart", "Configure"},
           UNCHANGED <<next_context, effective, calloutVars, deletion, deleting,
                       poisoned>>
    PROVE  IInv'
<1>1. TypeOK /\ Shapes /\ Shapes'
  BY TypeShapes, PTL DEF IInv
<1> USE DEF calloutVars, NoCallback
<1>2. /\ frame # NoFrame /\ frame' = NoFrame /\ current_callback' = NoCallback
      /\ frame.callback # NoCallback
      /\ frame.callback \notin DeliveryCallback /\ frame.callback # "Delete"
  BY <1>1 DEF Shapes, PopFrame, Callback, DeliveryCallback, GrpcCallback,
       HttpCallback, TcpCallback
<1>3. Running /\ ~Running' /\ Sound /\ Sound'
  BY <1>1, <1>2 DEF Shapes, Sound, Running, IInv, StackInv, Idle
<1>4. frame.saved = NoCallout /\ frame'.saved = NoCallout
  BY <1>1, <1>2 DEF Shapes, IInv, SavedInv
<1>5. InFlight' = InFlight
  BY <1>4 DEF InFlight
<1>6. delivery' = NoDelivery /\ ~announced'
  BY <1>2, <1>3 DEF IInv, PayloadOfItsCallback, ClearServing, ActionCallback,
       BodyCallback, HttpCallback, TcpCallback
<1>7. StackInv'
  BY <1>1, <1>2, <1>3, <1>6 DEF Shapes, IInv, StackInv, Idle, Sound
<1>8. StartInv'
  BY <1>1, <1>2, <1>3 DEF Shapes, IInv, StartInv, SameTree, IsRoot
<1>9. SavedInv' /\ PayloadOfItsCallback'
  BY <1>3, <1>4 DEF SavedInv, PayloadOfItsCallback
<1>10. DeletionInv'
  BY <1>1, <1>2, <1>3 DEF Shapes, IInv, DeletionInv, SameTree, IsRoot
<1>11. IdsInv' /\ LedgerAgrees'
  BY <1>3, <1>5 DEF IInv, IdsInv, LedgerAgrees
<1>12. ContextTree' /\ RootIsolation'
  BY <1>1, <1>3 DEF Shapes, IInv, ContextTree, RootIsolation, SameTree, IsRoot
<1>13. CalloutsOwned'
  BY <1>1, <1>3 DEF Shapes, IInv, CalloutsOwned, SameTree, IsRoot, RootOf, IsStream
<1> QED
  BY <1>7, <1>8, <1>9, <1>10, <1>11, <1>12, <1>13 DEF IInv

\* A created context is a leaf of the tree, and its first callback runs: a root
\* of start, or any context of on_context_create.
LEMMA CreateStep ==
    ASSUME IInv, TypeOK',
           Idle, Live,
           NEW parent \in ContextId \cup {NoContext},
           parent # NoContext => IsRoot(entries, parent),
           next_context <= MaxContextId,
           CreateAndRun(parent),
           \/ starting' = NoStart
           \/ starting'.root = next_context /\ starting'.step = "ContextCreate" /\ parent = NoContext,
           UNCHANGED <<calloutVars, servingVars, deletion, deleting, poisoned>>
    PROVE  IInv'
<1>1. TypeOK /\ Shapes /\ Shapes'
  BY TypeShapes, PTL DEF IInv
<1> USE DEF calloutVars, servingVars, NoCallback
<1>2. next_context \in ContextId /\ next_context \notin DOMAIN entries
  BY <1>1 DEF TypeOK, ContextId, IInv, ContextTree
<1>3. /\ DOMAIN entries' = DOMAIN entries \cup {next_context}
      /\ entries'[next_context].parent = parent
      /\ \A d \in DOMAIN entries : entries'[d] = entries[d]
  BY <1>2 DEF CreateAndRun, CreateContext
<1>4. /\ effective' = next_context /\ current_callback' = "ContextCreate"
      /\ frame'.callback = "ContextCreate" /\ frame'.context = next_context
      /\ frame'.saved = NoCallout /\ frame' # NoFrame
      /\ next_context' = next_context + 1
  BY <1>3 DEF CreateAndRun, RunPlain, Run, NoFrame
<1>5. /\ ~Running /\ deletion = NoDeletion /\ Sound /\ Sound'
      /\ delivery = NoDelivery /\ ~announced
  BY <1>4 DEF Idle, Live, Sound, Running, IInv, StackInv
<1>6. InFlight = {} /\ InFlight' = {}
  BY <1>1, <1>4, <1>5 DEF Shapes, InFlight, Running
<1>7. StackInv' /\ StartInv'
  BY <1>1, <1>3, <1>4, <1>5 DEF Shapes, StackInv, StartInv, Idle, Running, Sound,
       IsRoot
<1>8. SavedInv' /\ DeletionInv'
  BY <1>1, <1>4, <1>5 DEF Shapes, SavedInv, DeletionInv
<1>9. IdsInv' /\ LedgerAgrees'
  BY <1>5, <1>6 DEF IInv, IdsInv, LedgerAgrees
<1>10. ContextTree'
  BY <1>1, <1>2, <1>3, <1>4 DEF Shapes, IInv, ContextTree, IsRoot, ContextId,
       NoContext
<1>11. RootIsolation'
  BY <1>2, <1>3, <1>4 DEF RootIsolation, ContextId, NoContext
<1>12. CalloutsOwned'
  BY <1>1, <1>2, <1>3, <1>5 DEF Shapes, IInv, CalloutsOwned, IsRoot, RootOf,
       IsStream, ContextId, NoContext
<1>13. PayloadOfItsCallback'
  BY <1>4, <1>5 DEF PayloadOfItsCallback, DeliveryCallback, GrpcCallback,
       BodyCallback
<1> QED
  BY <1>7, <1>8, <1>9, <1>10, <1>11, <1>12, <1>13 DEF IInv

\* A deletion begins on a childless context, with every callout of a root left
\* to fail or dropped (on_delete up to its first guest call).
LEMMA OnDeleteStep ==
    ASSUME IInv, TypeOK', NEW c \in ContextId, OnDelete(c), Deletable(c)
    PROVE  IInv'
<1>1. TypeOK /\ Shapes /\ Shapes'
  BY TypeShapes, PTL DEF IInv
<1> USE DEF contextVars, servingVars, NoCallback
<1>2. /\ c \in DOMAIN entries /\ deleting' = c
      /\ deletion'.context = c /\ deletion'.root = entries[c].parent
      /\ ~deletion'.removed /\ deletion' # NoDeletion
      /\ IsRoot(entries, c) => /\ deletion'.left = FailFirst(c, c)
                               /\ deletion'.ended = DropFirst(c, c)
      /\ ~IsRoot(entries, c) => deletion'.left = {} /\ deletion'.ended = {}
      /\ open' = RemoveCallouts(open, deletion'.ended)
      /\ UNCHANGED <<contextVars, requests, next_callout, servingVars, frame, starting,
                     poisoned, current_callback>>
  BY ContextTableAssumption DEF OnDelete, NoDeletion, NoContext, ContextId
<1>3. deletion'.ended \subseteq DOMAIN open
  BY <1>2 DEF DropFirst, MadeBy
<1>4. /\ DOMAIN open' = DOMAIN open \ deletion'.ended
      /\ \A id \in DOMAIN open' : open'[id] = open[id]
  BY <1>2 DEF RemoveCallouts, Restrict
<1>5. /\ ~Running /\ deletion = NoDeletion /\ starting = NoStart /\ Live
      /\ frame.callback = NoCallback /\ frame.saved = NoCallout
  BY <1>1 DEF Shapes, OnDelete, Called, Idle, Running
<1>6. Sound /\ Sound' /\ InFlight = {} /\ InFlight' = deletion'.ended
  BY <1>1, <1>2, <1>5 DEF Shapes, Sound, Live, InFlight
<1>7. StackInv' /\ StartInv' /\ SavedInv'
  BY <1>2, <1>5, <1>6 DEF IInv, StackInv, StartInv, SavedInv, Idle, Running, Live,
       Sound
<1>8. DeletionInv'
  <2>1. \A d \in DOMAIN entries : entries[d].parent # c
    BY <1>1, <1>2 DEF Shapes, Deletable, HasChildren, IInv, ContextTree, IsRoot,
                      ContextId, NoContext
  <2>2. entries[c].parent # NoContext => IsRoot(entries, entries[c].parent)
    BY <1>2 DEF IInv, ContextTree
  <2>3. entries[c].parent = NoContext => MadeBy(open', c) \subseteq deletion'.left
    BY <1>2, <1>4 DEF FailFirst, DropFirst, MadeBy, IsRoot
  <2> QED
    BY <1>2, <1>5, <2>1, <2>2, <2>3 DEF DeletionInv, Running
<1>9. IdsInv' /\ ContextTree' /\ RootIsolation'
  BY <1>2, <1>4, <1>5, <1>6 DEF IInv, IdsInv, ContextTree, RootIsolation, Running
<1>10. CalloutsOwned'
  BY <1>1, <1>2, <1>4, <1>5, <1>6 DEF Shapes, IInv, CalloutsOwned
<1>11. LedgerAgrees'
  BY <1>2, <1>3, <1>4, <1>6 DEF IInv, LedgerAgrees
<1>12. PayloadOfItsCallback'
  BY <1>2, <1>5 DEF PayloadOfItsCallback, Running
<1> QED
  BY <1>7, <1>8, <1>9, <1>10, <1>11, <1>12 DEF IInv

\* A failure delivery of a deletion puts one callout in flight, on a live root
\* (a turn of fail_open_callouts that finds its callout open).
LEMMA FailNextStep ==
    ASSUME IInv, TypeOK', FailNext, First(deletion.left) \in DOMAIN open
    PROVE  IInv'
<1> DEFINE callout == First(deletion.left)
           root == IF deletion.root = NoContext THEN deletion.context ELSE deletion.root
<1>1. TypeOK /\ Shapes /\ Shapes'
  BY TypeShapes, PTL DEF IInv
<1> USE DEF scopeVars, NoCallback
<1>2. ~Running /\ deletion # NoDeletion /\ callout \in deletion.left
  BY <1>1, FirstIsIn DEF Shapes, FailNext
<1>3. Sound /\ starting = NoStart /\ delivery = NoDelivery /\ ~announced
      /\ root \in DOMAIN entries
  <2>1. Sound /\ starting = NoStart
    BY <1>2 DEF IInv, StackInv, Sound, Idle
  <2>2. root \in DOMAIN entries
    BY <1>2 DEF IInv, DeletionInv, IsRoot
  <2> QED
    BY <1>2, <2>1, <2>2 DEF IInv, StackInv
<1>4. /\ DOMAIN open' = DOMAIN open \ {callout}
      /\ \A id \in DOMAIN open' : open'[id] = open[id]
  BY DEF FailNext, Deliver, RemoveCallouts, Restrict
<1>5. /\ effective' = root /\ current_callback' = frame'.callback
      /\ frame'.callback \in {"HttpCallResponse", "GrpcClose"}
      /\ frame'.context = root /\ frame'.callout = callout
      /\ frame'.saved = open[callout] /\ frame' # NoFrame
      /\ delivery' = [callback |-> frame'.callback, callout |-> callout]
      /\ UNCHANGED <<entries, next_context, next_callout, requests, announced, deleting,
                     starting, poisoned>>
  BY <1>3 DEF FailNext, Deliver, Run, NoFrame
<1>6. /\ deletion'.context = deletion.context /\ deletion'.root = deletion.root
      /\ deletion'.ended = deletion.ended /\ (deletion'.removed <=> deletion.removed)
      /\ deletion'.left = deletion.left \ {callout} /\ deletion' # NoDeletion
  BY <1>1, <1>2 DEF FailNext, Rest, TypeOK, Deletion, NoDeletion, NoContext,
       ContextId
<1>7. Sound' /\ InFlight = deletion.ended /\ InFlight' = deletion.ended \cup {callout}
  BY <1>1, <1>2, <1>3, <1>5, <1>6 DEF Shapes, Sound, InFlight, Running
<1>8. StackInv' /\ StartInv'
  BY <1>3, <1>5, <1>6 DEF StackInv, StartInv, Running, Idle, Sound
<1>9. SavedInv'
  BY <1>1, <1>3, <1>4, <1>5, <1>6, <1>7
     DEF Shapes, IInv, SavedInv, IdsInv, CalloutsOwned, LedgerAgrees,
          DeliveryCallback,
         GrpcCallback
<1>10. DeletionInv'
  BY <1>2, <1>4, <1>5, <1>6
     DEF IInv, DeletionInv, MadeBy, Running, DeliveryCallback, GrpcCallback
<1>11. IdsInv' /\ ContextTree'
  BY <1>3, <1>4, <1>5 DEF IInv, IdsInv, ContextTree
<1>12. RootIsolation'
  BY <1>1, <1>3, <1>5 DEF Shapes, RootIsolation, ContextId, NoContext
<1>13. CalloutsOwned'
  BY <1>3, <1>4, <1>5, <1>6 DEF IInv, CalloutsOwned
<1>14. LedgerAgrees'
  BY <1>3, <1>4, <1>5, <1>7 DEF IInv, LedgerAgrees
<1>15. PayloadOfItsCallback'
  BY <1>3, <1>5 DEF PayloadOfItsCallback, DeliveryCallback, GrpcCallback,
       BodyCallback
<1> QED
  BY <1>8, <1>9, <1>10, <1>11, <1>12, <1>13, <1>14, <1>15 DEF IInv

\* A callout that the guest ended meanwhile is passed over.
LEMMA PassNextStep ==
    ASSUME IInv, TypeOK', FailNext, First(deletion.left) \notin DOMAIN open
    PROVE  IInv'
<1>1. TypeOK /\ Shapes /\ Shapes'
  BY TypeShapes, PTL DEF IInv
<1> USE DEF NoCallback
<1>2. ~Running /\ deletion # NoDeletion
  BY <1>1 DEF Shapes, FailNext
<1>3. /\ deletion'.context = deletion.context /\ deletion'.root = deletion.root
      /\ deletion'.ended = deletion.ended /\ (deletion'.removed <=> deletion.removed)
      /\ deletion'.left = deletion.left \ {First(deletion.left)} /\ deletion' # NoDeletion
  BY <1>1, <1>2 DEF FailNext, Rest, TypeOK, Deletion, NoDeletion, NoContext,
       ContextId
<1>4. UNCHANGED <<entries, next_context, effective, open, next_callout, requests,
                  delivery, announced, deleting, starting, poisoned,
                  current_callback,
                  frame>>
  BY DEF FailNext
<1>5. (Sound' <=> Sound) /\ (Running' <=> Running) /\ ~Idle /\ ~Idle' /\ InFlight' = InFlight
  BY <1>2, <1>3, <1>4 DEF Sound, Running, Idle, InFlight
<1>6. StackInv' /\ StartInv' /\ SavedInv'
  BY <1>2, <1>3, <1>4, <1>5 DEF IInv, StackInv, StartInv, SavedInv
<1>7. DeletionInv'
  BY <1>2, <1>3, <1>4, <1>5 DEF IInv, DeletionInv, MadeBy
<1>8. IdsInv' /\ ContextTree' /\ RootIsolation' /\ PayloadOfItsCallback'
  BY <1>4, <1>5 DEF IInv, IdsInv, ContextTree, RootIsolation, PayloadOfItsCallback
<1>9. CalloutsOwned' /\ LedgerAgrees'
  BY <1>3, <1>4, <1>5 DEF IInv, CalloutsOwned, LedgerAgrees
<1> QED
  BY <1>6, <1>7, <1>8, <1>9 DEF IInv

\* proxy_on_delete runs on the context that is being deleted, which is alive.
LEMMA CallDeleteStep ==
    ASSUME IInv, TypeOK', CallDelete
    PROVE  IInv'
<1>1. TypeOK /\ Shapes /\ Shapes'
  BY TypeShapes, PTL DEF IInv
<1> USE DEF calloutVars, servingVars, NoCallback
<1>2. /\ ~Running /\ deletion # NoDeletion /\ deletion.left = {} /\ ~deletion.removed
      /\ deletion.context \in DOMAIN entries
  BY DEF CallDelete, IInv, DeletionInv
<1>3. Sound /\ starting = NoStart /\ delivery = NoDelivery /\ ~announced
  BY <1>2 DEF IInv, StackInv, Sound, Idle
<1>4. /\ effective' = deletion.context /\ current_callback' = "Delete"
      /\ frame'.callback = "Delete" /\ frame'.context = deletion.context
      /\ frame'.saved = NoCallout /\ frame' # NoFrame
      /\ UNCHANGED <<entries, next_context, calloutVars, servingVars, deletion, deleting,
                     starting, poisoned>>
  BY <1>2 DEF CallDelete, RunPlain, Run, NoFrame
<1>5. Sound' /\ InFlight' = InFlight
  BY <1>1, <1>2, <1>3, <1>4 DEF Shapes, Sound, InFlight, Running
<1>6. StackInv' /\ StartInv' /\ SavedInv'
  BY <1>2, <1>3, <1>4 DEF StackInv, StartInv, SavedInv, Running, Idle, Sound
<1>7. DeletionInv'
  BY <1>2, <1>4 DEF IInv, DeletionInv
<1>8. IdsInv' /\ ContextTree' /\ CalloutsOwned' /\ LedgerAgrees'
  BY <1>3, <1>4, <1>5 DEF IInv, IdsInv, ContextTree, CalloutsOwned, LedgerAgrees
<1>9. RootIsolation'
  BY <1>1, <1>2, <1>4 DEF Shapes, RootIsolation, ContextId, NoContext
<1>10. PayloadOfItsCallback'
  BY <1>3, <1>4 DEF PayloadOfItsCallback, DeliveryCallback, GrpcCallback,
       BodyCallback
<1> QED
  BY <1>6, <1>7, <1>8, <1>9, <1>10 DEF IInv

\* Nothing hangs on the context that a deletion removes: it has no children, and
\* a root has no callouts left, its own or of a stream (`delete' after
\* proxy_on_delete returned).
LEMMA ReturnDeleteStep ==
    ASSUME IInv, TypeOK', ReturnDelete
    PROVE  IInv'
<1> DEFINE c == deletion.context
           dropped == IF deletion.root = NoContext THEN {}
                                                   ELSE DropFirst(c, deletion.root)
<1>1. TypeOK /\ Shapes /\ Shapes'
  BY TypeShapes, PTL DEF IInv
<1> USE DEF servingVars, scopeVars, NoCallback
<1>2. /\ frame.callback = "Delete" /\ frame.context = c
      /\ deletion # NoDeletion /\ ~deletion.removed /\ deletion.left = {}
      /\ deleting = c /\ c \in DOMAIN entries /\ entries[c].parent = deletion.root
      /\ \A d \in DOMAIN entries : entries[d].parent # c
      /\ deletion.root # NoContext => IsRoot(entries, deletion.root)
      /\ deletion.root = NoContext => MadeBy(open, c) = {}
  BY DEF ReturnDelete, IInv, DeletionInv
<1>3. /\ Running /\ Sound /\ starting = NoStart /\ frame.saved = NoCallout
      /\ delivery = NoDelivery /\ ~announced
  BY <1>1, <1>2
     DEF Shapes, Running, Sound, Idle, IInv, StackInv, StartInv, SavedInv,
         PayloadOfItsCallback, DeliveryCallback, GrpcCallback, BodyCallback
<1>4. /\ DOMAIN entries' = DOMAIN entries \ {c}
      /\ \A d \in DOMAIN entries' : entries'[d] = entries[d]
  BY <1>2 DEF ReturnDelete, RemoveContext, Restrict
<1>5. /\ DOMAIN open' = DOMAIN open \ dropped
      /\ \A id \in DOMAIN open' : open'[id] = open[id]
  BY DEF ReturnDelete, RemoveCallouts, Restrict
<1>6. /\ deletion'.context = c /\ deletion'.root = deletion.root /\ deletion'.removed
      /\ deletion'.ended = deletion.ended \cup dropped
      /\ deletion.root = NoContext => deletion'.left = {}
      /\ deletion' # NoDeletion
  BY <1>1, <1>2 DEF ReturnDelete, TypeOK, Deletion, NoDeletion, NoContext, ContextId
<1>7. /\ frame' = NoFrame /\ current_callback' = NoCallback
      /\ effective' = IF effective = c THEN NoContext ELSE effective
      /\ UNCHANGED <<next_context, next_callout, requests, servingVars, deleting, starting,
                     poisoned>>
  BY <1>2 DEF ReturnDelete
<1>8. Sound' /\ ~Running' /\ InFlight = deletion.ended /\ InFlight' = deletion.ended \cup dropped
  BY <1>1, <1>3, <1>6, <1>7 DEF Shapes, Sound, Running, InFlight
<1>9. StackInv' /\ StartInv' /\ SavedInv' /\ PayloadOfItsCallback'
  BY <1>1, <1>3, <1>6, <1>7, <1>8
     DEF Shapes, StackInv, StartInv, SavedInv, PayloadOfItsCallback, Sound, Idle
<1>10. DeletionInv'
  <2>1. deletion.root # NoContext => IsRoot(entries', deletion.root)
    BY <1>2, <1>4 DEF IsRoot
  <2>2. deletion.root = NoContext => MadeBy(open', c) = {}
    BY <1>2, <1>5 DEF MadeBy
  <2> QED
    BY <1>1, <1>2, <1>4, <1>6, <1>7, <1>8, <2>1, <2>2 DEF Shapes, DeletionInv
<1>11. IdsInv' /\ ContextTree' /\ RootIsolation'
  BY <1>2, <1>3, <1>4, <1>5, <1>7, <1>8 DEF IInv, IdsInv, ContextTree,
       RootIsolation, IsRoot
<1>12. CalloutsOwned'
  <2>1. \A id \in DOMAIN open : /\ IsRoot(entries, open[id].root)
                                /\ RootOf(entries, open[id].caller) = open[id].root
    BY <1>2, <1>3 DEF IInv, CalloutsOwned
  <2>2. \A id \in DOMAIN open : open[id].root # c
    <3>1. \A id \in DOMAIN open : open[id].root = c => open[id].caller = c
      BY <1>1, <1>2, <2>1 DEF Shapes, RootOf, IsRoot, IsStream, NoContext, ContextId
    <3> QED
      BY <1>2, <2>1, <3>1 DEF MadeBy, IsRoot
  <2>3. \A id \in DOMAIN open : /\ IsRoot(entries', open[id].root)
                                /\ open[id].caller # c =>
                                      RootOf(entries', open[id].caller) = open[id].root
    BY <1>2, <1>4, <2>1, <2>2 DEF RootOf, IsRoot, IsStream
  <2> QED
    BY <1>5, <1>6, <2>3 DEF CalloutsOwned
<1>13. LedgerAgrees'
  <2>1. dropped \subseteq DOMAIN open
    BY DEF DropFirst, MadeBy
  <2> QED
    BY <1>3, <1>5, <1>7, <1>8, <2>1 DEF IInv, LedgerAgrees
<1> QED
  BY <1>9, <1>10, <1>11, <1>12, <1>13 DEF IInv

\* The last callouts of a deletion leave the table together with the record of
\* their requests (the end of `delete').
LEMMA EndDeleteStep ==
    ASSUME IInv, TypeOK', EndDelete
    PROVE  IInv'
<1> DEFINE dropped == MadeBy(open, deletion.context)
<1>1. TypeOK /\ Shapes /\ Shapes'
  BY TypeShapes, PTL DEF IInv
<1> USE DEF contextVars, servingVars, NoCallback
<1>2. /\ DOMAIN open' = DOMAIN open \ dropped
      /\ \A id \in DOMAIN open' : open'[id] = open[id]
      /\ DOMAIN requests' = DOMAIN requests \ (deletion.ended \cup dropped)
      /\ \A id \in DOMAIN requests' : requests'[id] = requests[id]
  BY DEF EndDelete, RemoveCallouts, Restrict
<1>3. /\ ~Running /\ deletion # NoDeletion /\ deletion' = NoDeletion
      /\ UNCHANGED <<contextVars, next_callout, servingVars, frame, starting, poisoned,
                     current_callback>>
  BY <1>1 DEF Shapes, EndDelete
<1>4. Sound /\ Sound' /\ starting = NoStart /\ delivery = NoDelivery /\ ~announced
  BY <1>3 DEF IInv, StackInv, Sound, Idle, Running
<1>5. InFlight = deletion.ended /\ InFlight' = {}
  BY <1>1, <1>3 DEF Shapes, InFlight, Running
<1>6. StackInv' /\ StartInv' /\ SavedInv' /\ DeletionInv' /\ PayloadOfItsCallback'
  BY <1>1, <1>3, <1>4
     DEF Shapes, StackInv, StartInv, SavedInv, DeletionInv, PayloadOfItsCallback,
          Idle,
         Running
<1>7. IdsInv' /\ ContextTree' /\ RootIsolation'
  BY <1>2, <1>3, <1>4 DEF IInv, IdsInv, ContextTree, RootIsolation, Running
<1>8. CalloutsOwned'
  BY <1>2, <1>3, <1>4 DEF IInv, CalloutsOwned, MadeBy
<1>9. LedgerAgrees'
  BY <1>2, <1>4, <1>5 DEF IInv, LedgerAgrees, MadeBy
<1> QED
  BY <1>6, <1>7, <1>8, <1>9 DEF IInv

\* start ends without a call, and refuses.
LEMMA StartTooLargeStep ==
    ASSUME IInv, TypeOK', StartTooLarge
    PROVE  IInv'
<1>1. TypeOK /\ Shapes /\ Shapes'
  BY TypeShapes, PTL DEF IInv
<1> USE DEF calloutVars, servingVars, NoCallback
<1>2. SameTree(entries, entries')
  BY <1>1, RejectFacts DEF StartTooLarge, RefuseStart, TypeOK, SameTree
<1>3. /\ ~Running /\ starting # NoStart /\ starting' = NoStart
      /\ UNCHANGED <<next_context, effective, calloutVars, servingVars, frame, deletion,
                     deleting, poisoned, current_callback>>
  BY <1>1 DEF Shapes, StartTooLarge, EndStart
<1>4. /\ Sound /\ Sound' /\ deletion = NoDeletion /\ delivery = NoDelivery /\ ~announced
      /\ InFlight' = InFlight
  BY <1>3 DEF IInv, StackInv, Sound, Idle, Running, InFlight
<1>5. StackInv' /\ StartInv' /\ SavedInv' /\ DeletionInv' /\ PayloadOfItsCallback'
  BY <1>1, <1>3, <1>4
     DEF Shapes, StackInv, StartInv, SavedInv, DeletionInv, PayloadOfItsCallback,
          Idle,
         Running
<1>6. IdsInv' /\ LedgerAgrees'
  BY <1>3, <1>4 DEF IInv, IdsInv, LedgerAgrees
<1>7. ContextTree' /\ RootIsolation'
  BY <1>1, <1>2, <1>3 DEF Shapes, IInv, ContextTree, RootIsolation, Running,
       SameTree, IsRoot
<1>8. CalloutsOwned'
  BY <1>1, <1>2, <1>3, <1>4
     DEF Shapes, IInv, CalloutsOwned, SameTree, IsRoot, RootOf, IsStream
<1> QED
  BY <1>5, <1>6, <1>7, <1>8 DEF IInv

\* A new callout belongs to the effective context, which is not being deleted,
\* and hangs on its live root (open_callout whose service takes the request).
LEMMA OpenCalloutStep ==
    ASSUME IInv, TypeOK', NEW kind \in CalloutKind, OpenCallout(kind, TRUE)
    PROVE  IInv'
<1> DEFINE root == RootOf(entries, effective)
<1>1. TypeOK /\ Shapes /\ Shapes'
  BY TypeShapes, PTL DEF IInv
<1> USE DEF contextVars, servingVars, stackVars, NoCallback
<1>2. /\ Running /\ effective \in DOMAIN entries /\ deleting # effective
      /\ next_callout' = next_callout + 1
      /\ UNCHANGED <<contextVars, servingVars, stackVars, poisoned, current_callback>>
  BY DEF OpenCallout, Acting, MayOpen, IInv, RootIsolation
<1>3. IsRoot(entries, root)
  BY <1>2 DEF IInv, ContextTree, RootOf, IsRoot, IsStream, NoContext
<1>4. /\ DOMAIN open' = DOMAIN open \cup {next_callout}
      /\ open'[next_callout].caller = effective /\ open'[next_callout].root = root
      /\ open'[next_callout].closed_by_guest = FALSE
      /\ \A id \in DOMAIN open : id # next_callout => open'[id] = open[id]
  BY DEF OpenCallout, EnterCallout, NewCallout
<1>5. /\ DOMAIN requests' = DOMAIN requests \cup {next_callout}
      /\ requests'[next_callout] = FALSE
      /\ \A id \in DOMAIN requests : id # next_callout => requests'[id] = requests[id]
  BY DEF OpenCallout, EnterCallout
<1>6. (Sound' <=> Sound) /\ (Running' <=> Running) /\ (Idle' <=> Idle) /\ InFlight' = InFlight
  BY <1>2 DEF Sound, Running, Idle, InFlight
<1>7. Sound => next_callout \notin DOMAIN open \cup InFlight \cup DOMAIN requests
  BY <1>1 DEF Shapes, IInv, IdsInv, LedgerAgrees
<1>8. StackInv' /\ StartInv' /\ ContextTree' /\ RootIsolation' /\ PayloadOfItsCallback'
  BY <1>2, <1>6 DEF IInv, StackInv, StartInv, ContextTree, RootIsolation,
       PayloadOfItsCallback
<1>9. SavedInv'
  BY <1>1, <1>2, <1>4 DEF Shapes, IInv, SavedInv, CalloutId
<1>10. DeletionInv'
  BY <1>1, <1>2, <1>4, <1>6 DEF Shapes, IInv, DeletionInv, MadeBy
<1>11. IdsInv'
  <2>1. DOMAIN requests \subseteq CalloutId
    BY <1>1 DEF TypeOK, RequestTables
  <2> QED
    BY <1>1, <1>2, <1>4, <1>5, <1>6, <2>1 DEF Shapes, IInv, IdsInv, CalloutId
<1>12. CalloutsOwned'
  BY <1>2, <1>3, <1>4, <1>6 DEF IInv, CalloutsOwned
<1>13. LedgerAgrees'
  <2>1. SUFFICES ASSUME Sound PROVE LedgerAgrees'
    BY <1>6 DEF LedgerAgrees
  <2>2. /\ DOMAIN requests' = DOMAIN open' \cup InFlight'
        /\ DOMAIN open' \cap InFlight' = {}
    BY <1>4, <1>5, <1>6, <1>7, <2>1 DEF IInv, LedgerAgrees
  <2>3. \A id \in DOMAIN open' : requests'[id] = open'[id].closed_by_guest
    BY <1>4, <1>5, <1>7, <2>1 DEF IInv, LedgerAgrees
  <2> QED
    BY <2>2, <2>3 DEF LedgerAgrees
<1> QED
  BY <1>8, <1>9, <1>10, <1>11, <1>12, <1>13 DEF IInv

\* A request that the service refuses spends its identifier and nothing else.
LEMMA RefusedCalloutStep ==
    ASSUME IInv, TypeOK', NEW kind \in CalloutKind, OpenCallout(kind, FALSE)
    PROVE  IInv'
<1>1. TypeOK /\ Shapes /\ Shapes'
  BY TypeShapes, PTL DEF IInv
<1> USE DEF contextVars, servingVars, stackVars
<1>2. /\ next_callout' = next_callout + 1
      /\ UNCHANGED <<contextVars, open, requests, servingVars, stackVars, poisoned,
                     current_callback>>
  BY DEF OpenCallout
<1>3. (Sound' <=> Sound) /\ (Running' <=> Running) /\ (Idle' <=> Idle) /\ InFlight' = InFlight
  BY <1>2 DEF Sound, Running, Idle, InFlight
<1>4. StackInv' /\ StartInv' /\ DeletionInv' /\ PayloadOfItsCallback'
  BY <1>2, <1>3 DEF IInv, StackInv, StartInv, DeletionInv, PayloadOfItsCallback
<1>5. ContextTree' /\ RootIsolation' /\ CalloutsOwned' /\ LedgerAgrees'
  BY <1>2, <1>3 DEF IInv, ContextTree, RootIsolation, CalloutsOwned, LedgerAgrees
<1>6. SavedInv'
  BY <1>1, <1>2 DEF Shapes, IInv, SavedInv, CalloutId
<1>7. IdsInv'
  <2>1. DOMAIN requests \subseteq CalloutId
    BY <1>1 DEF TypeOK, RequestTables
  <2> QED
    BY <1>1, <1>2, <1>3, <2>1 DEF Shapes, IInv, IdsInv, CalloutId
<1> QED
  BY <1>4, <1>5, <1>6, <1>7 DEF IInv

\* A half-close marks the entry and the request alike (proxy_grpc_close, and the
\* last message of proxy_grpc_send).
LEMMA CloseStreamStep ==
    ASSUME IInv, TypeOK', NEW id \in CalloutId, CloseStream(id)
    PROVE  IInv'
<1>1. TypeOK /\ Shapes /\ Shapes'
  BY TypeShapes, PTL DEF IInv
<1> USE DEF contextVars, servingVars, stackVars
<1>2. /\ id \in DOMAIN open
      /\ UNCHANGED <<contextVars, next_callout, servingVars, stackVars, poisoned,
                     current_callback>>
  BY DEF CloseStream, FindOpen
<1>3. /\ DOMAIN open' = DOMAIN open /\ open'[id].closed_by_guest = TRUE
      /\ \A i \in DOMAIN open : /\ open'[i].caller = open[i].caller
                                /\ open'[i].root = open[i].root
                                /\ i # id => open'[i] = open[i]
  BY <1>1, <1>2 DEF CloseStream, CloseByGuest, Shapes, Callout, TypeOK,
       CalloutTables
<1>4. /\ DOMAIN requests' = DOMAIN requests
      /\ id \in DOMAIN requests => requests'[id] = TRUE
      /\ \A i \in DOMAIN requests : i # id => requests'[i] = requests[i]
  BY <1>1 DEF CloseStream, TypeOK, RequestTables
<1>5. (Sound' <=> Sound) /\ (Running' <=> Running) /\ (Idle' <=> Idle) /\ InFlight' = InFlight
  BY <1>2 DEF Sound, Running, Idle, InFlight
<1>6. StackInv' /\ StartInv' /\ ContextTree' /\ RootIsolation' /\ PayloadOfItsCallback'
  BY <1>2, <1>5 DEF IInv, StackInv, StartInv, ContextTree, RootIsolation,
       PayloadOfItsCallback
<1>7. SavedInv' /\ IdsInv'
  BY <1>2, <1>3, <1>4, <1>5 DEF IInv, SavedInv, IdsInv
<1>8. DeletionInv'
  BY <1>2, <1>3, <1>5 DEF IInv, DeletionInv, MadeBy
<1>9. CalloutsOwned'
  BY <1>2, <1>3, <1>5 DEF IInv, CalloutsOwned
<1>10. LedgerAgrees'
  BY <1>2, <1>3, <1>4, <1>5 DEF IInv, LedgerAgrees
<1> QED
  BY <1>6, <1>7, <1>8, <1>9, <1>10 DEF IInv

\* A cancelled callout leaves the table and the record (proxy_grpc_cancel).
LEMMA CancelCalloutStep ==
    ASSUME IInv, TypeOK', NEW id \in CalloutId, CancelCallout(id)
    PROVE  IInv'
<1> USE DEF contextVars, servingVars, stackVars
<1>1. /\ id \in DOMAIN open
      /\ UNCHANGED <<contextVars, next_callout, servingVars, stackVars, poisoned,
                     current_callback>>
  BY DEF CancelCallout, FindOpen
<1>2. /\ DOMAIN open' = DOMAIN open \ {id}
      /\ \A i \in DOMAIN open' : open'[i] = open[i]
      /\ DOMAIN requests' = DOMAIN requests \ {id}
      /\ \A i \in DOMAIN requests' : requests'[i] = requests[i]
  BY DEF CancelCallout, RemoveCallouts, Restrict
<1>3. (Sound' <=> Sound) /\ (Running' <=> Running) /\ (Idle' <=> Idle) /\ InFlight' = InFlight
  BY <1>1 DEF Sound, Running, Idle, InFlight
<1>4. StackInv' /\ StartInv' /\ ContextTree' /\ RootIsolation' /\ PayloadOfItsCallback'
  BY <1>1, <1>3 DEF IInv, StackInv, StartInv, ContextTree, RootIsolation,
       PayloadOfItsCallback
<1>5. SavedInv' /\ IdsInv'
  BY <1>1, <1>2, <1>3 DEF IInv, SavedInv, IdsInv
<1>6. DeletionInv'
  BY <1>1, <1>2, <1>3 DEF IInv, DeletionInv, MadeBy
<1>7. CalloutsOwned'
  BY <1>1, <1>2, <1>3 DEF IInv, CalloutsOwned
<1>8. LedgerAgrees'
  BY <1>1, <1>2, <1>3 DEF IInv, LedgerAgrees
<1> QED
  BY <1>4, <1>5, <1>6, <1>7, <1>8 DEF IInv

\* The effective context moves inside its root (proxy_set_effective_context).
LEMMA SetEffectiveStep ==
    ASSUME IInv, TypeOK', NEW c \in ContextId, ProxySetEffectiveContext(c)
    PROVE  IInv'
<1> USE DEF calloutVars, servingVars, stackVars
<1>1. /\ effective' = c /\ c \in DOMAIN entries
      /\ RootOf(entries, c) = RootOf(entries, effective)
      /\ UNCHANGED <<entries, next_context, calloutVars, servingVars, stackVars, poisoned,
                     current_callback>>
  BY DEF ProxySetEffectiveContext, SameRoot
<1>2. (Sound' <=> Sound) /\ (Running' <=> Running) /\ (Idle' <=> Idle) /\ InFlight' = InFlight
  BY <1>1 DEF Sound, Running, Idle, InFlight
<1>3. StackInv' /\ StartInv' /\ SavedInv' /\ DeletionInv' /\ IdsInv' /\ ContextTree'
  BY <1>1, <1>2 DEF IInv, StackInv, StartInv, SavedInv, DeletionInv, IdsInv,
       ContextTree
<1>4. CalloutsOwned' /\ LedgerAgrees' /\ PayloadOfItsCallback'
  BY <1>1, <1>2 DEF IInv, CalloutsOwned, LedgerAgrees, PayloadOfItsCallback
<1>5. RootIsolation'
  BY <1>1, <1>2 DEF IInv, RootIsolation, ContextId, NoContext
<1> QED
  BY <1>3, <1>4, <1>5 DEF IInv

\* A delivery that returned is no longer in flight: its request is over, or the
\* deletion will answer it (`deliver' and fail_open_callouts).
LEMMA ReturnDeliveryStep ==
    ASSUME IInv, TypeOK', ReturnDelivery
    PROVE  IInv'
<1> DEFINE ended == IF frame.saved = NoCallout THEN {} ELSE {frame.callout}
<1>1. TypeOK /\ Shapes /\ Shapes'
  BY TypeShapes, PTL DEF IInv
<1> USE DEF contextVars, scopeVars, NoCallback
<1>2. /\ frame.callback \in DeliveryCallback /\ frame.callback # NoCallback
      /\ frame' = NoFrame /\ current_callback' = NoCallback
      /\ UNCHANGED <<contextVars, open, next_callout, deleting, starting, poisoned>>
  BY DEF ReturnDelivery, PopFrame, DeliveryCallback, GrpcCallback
<1>3. Running /\ ~Running' /\ Sound /\ Sound'
  BY <1>1, <1>2 DEF Shapes, Running, Sound, Idle, IInv, StackInv
<1>4. starting = NoStart
  BY <1>1, <1>2, <1>3 DEF Shapes, IInv, StartInv, DeliveryCallback, GrpcCallback
<1>5. delivery' = NoDelivery /\ ~announced'
  BY <1>2, <1>3
     DEF ReturnDelivery, ClearServing, IInv, PayloadOfItsCallback, DeliveryCallback,
         GrpcCallback, BodyCallback, ActionCallback, HttpCallback, TcpCallback
<1>6. InFlight = deletion.ended \cup ended /\ InFlight' = deletion'.ended
  BY <1>1, <1>2 DEF Shapes, InFlight
<1>7. StackInv' /\ StartInv' /\ SavedInv' /\ PayloadOfItsCallback'
  BY <1>1, <1>2, <1>3, <1>4, <1>5
     DEF Shapes, IInv, StackInv, StartInv, SavedInv, PayloadOfItsCallback, Sound,
          Idle
<1>8. ContextTree' /\ RootIsolation'
  BY <1>2, <1>3 DEF IInv, ContextTree, RootIsolation
<1>9. CASE deletion = NoDeletion
  <2>1. /\ deletion' = NoDeletion
        /\ DOMAIN requests' = DOMAIN requests \ ended
        /\ \A id \in DOMAIN requests' : requests'[id] = requests[id]
    BY <1>9 DEF ReturnDelivery, RemoveCallouts, Restrict
  <2>2. DeletionInv'
    BY <1>1, <1>2, <2>1 DEF Shapes, DeletionInv
  <2>3. IdsInv' /\ CalloutsOwned'
    BY <1>2, <1>3, <1>9, <2>1 DEF IInv, IdsInv, CalloutsOwned
  <2>4. LedgerAgrees'
    BY <1>1, <1>2, <1>3, <1>6, <1>9, <2>1 DEF Shapes, IInv, LedgerAgrees
  <2> QED
    BY <1>7, <1>8, <2>2, <2>3, <2>4 DEF IInv
<1>10. CASE deletion # NoDeletion
  <2>1. /\ deletion'.context = deletion.context /\ deletion'.root = deletion.root
        /\ deletion'.left = deletion.left /\ (deletion'.removed <=> deletion.removed)
        /\ deletion'.ended = deletion.ended \cup ended
        /\ deletion' # NoDeletion /\ requests' = requests
    BY <1>1, <1>10
       DEF ReturnDelivery, TypeOK, Deletion, NoDeletion, NoContext, ContextId
  <2>2. DeletionInv'
    BY <1>1, <1>2, <1>3, <1>10, <2>1 DEF Shapes, IInv, DeletionInv
  <2>3. IdsInv' /\ CalloutsOwned'
    BY <1>2, <1>3, <2>1 DEF IInv, IdsInv, CalloutsOwned
  <2>4. LedgerAgrees'
    BY <1>2, <1>3, <1>6, <2>1 DEF IInv, LedgerAgrees
  <2> QED
    BY <1>7, <1>8, <2>2, <2>3, <2>4 DEF IInv
<1> QED
  BY <1>9, <1>10

\* A trap poisons the guest and puts the entry in flight back in the table
\* (`deliver' and on_delete on an error, start on a refusal).
LEMMA TrapStep ==
    ASSUME IInv, TypeOK', Trap
    PROVE  IInv'
<1>1. TypeOK /\ Shapes /\ Shapes'
  BY TypeShapes, PTL DEF IInv
<1> USE DEF NoCallback
<1>2. SameTree(entries, entries')
  BY <1>1, RejectFacts DEF Trap, RefuseStart, TypeOK, SameTree
<1>3. /\ frame' = NoFrame /\ deletion' = NoDeletion /\ starting' = NoStart
      /\ poisoned' /\ UNCHANGED <<next_context, effective, next_callout>>
  BY DEF Trap, PopFrame, EndStart
<1>4. ~Running' /\ ~Sound' /\ Idle'
  BY <1>3 DEF Running, Sound, Idle
<1>5. /\ DOMAIN open' \subseteq DOMAIN open \cup {frame.callout}
      /\ frame.callout \notin DOMAIN open /\ frame.callout \in DOMAIN open' =>
            open'[frame.callout] = frame.saved /\ frame.saved # NoCallout
      /\ \A id \in DOMAIN open : id # frame.callout => open'[id] = open[id]
      /\ frame.saved = NoCallout => open' = open
  BY DEF Trap, RestoreSaved, EnterCallout
<1>6. frame.saved # NoCallout => /\ frame.callout \notin DOMAIN open
                                 /\ frame.callout < next_callout
                                 /\ IsRoot(entries, frame.saved.root)
  BY DEF IInv, SavedInv
<1>7. StackInv' /\ StartInv' /\ SavedInv' /\ DeletionInv' /\ PayloadOfItsCallback'
  BY <1>1, <1>3, <1>4
     DEF Shapes, StackInv, StartInv, SavedInv, DeletionInv, PayloadOfItsCallback
<1>8. IdsInv' /\ LedgerAgrees'
  BY <1>3, <1>4, <1>5, <1>6 DEF IInv, IdsInv, LedgerAgrees
<1>9. ContextTree' /\ RootIsolation'
  BY <1>1, <1>2, <1>3, <1>4
     DEF Shapes, IInv, ContextTree, RootIsolation, SameTree, IsRoot
<1>10. CalloutsOwned'
  BY <1>1, <1>2, <1>4, <1>5, <1>6 DEF Shapes, IInv, CalloutsOwned, SameTree, IsRoot
<1> QED
  BY <1>7, <1>8, <1>9, <1>10 DEF IInv

\* A panic leaves a guest that is not sound: the callback on record did not
\* return, or the scope of start poisoned the guest as it dropped.
LEMMA PanicStep ==
    ASSUME IInv, TypeOK', Panic
    PROVE  IInv'
<1>1. TypeOK /\ Shapes /\ Shapes'
  BY TypeShapes, PTL DEF IInv
<1> USE DEF contextVars, calloutVars, servingVars, scopeVars, NoCallback
<1>2. /\ Running /\ frame' = NoFrame /\ deletion' = NoDeletion /\ starting' = NoStart
      /\ UNCHANGED <<contextVars, calloutVars, servingVars>>
  BY DEF Panic
<1>3. current_callback # NoCallback
  BY <1>1, <1>2 DEF Shapes, Running, IInv, StackInv
<1>4. ~Running' /\ ~Sound' /\ Idle'
  BY <1>2, <1>3 DEF Panic, EndScope, PoisonIfCut, Running, Sound, Idle
<1>5. StackInv' /\ StartInv' /\ SavedInv' /\ DeletionInv' /\ PayloadOfItsCallback'
  BY <1>1, <1>2, <1>4
     DEF Shapes, StackInv, StartInv, SavedInv, DeletionInv, PayloadOfItsCallback
<1>6. IdsInv' /\ LedgerAgrees' /\ ContextTree' /\ RootIsolation' /\ CalloutsOwned'
  BY <1>2, <1>4 DEF IInv, IdsInv, LedgerAgrees, ContextTree, RootIsolation,
       CalloutsOwned
<1> QED
  BY <1>5, <1>6 DEF IInv

\* The first read of the announced buffer only takes the size away
\* (read_buffer).
LEMMA ReadAnnouncedStep ==
    ASSUME IInv, TypeOK', ReadAnnounced
    PROVE  IInv'
<1> USE DEF contextVars, calloutVars, stackVars
<1>1. /\ (Sound' <=> Sound) /\ (Running' <=> Running) /\ (Idle' <=> Idle)
      /\ InFlight' = InFlight
  BY DEF ReadAnnounced, Sound, Running, Idle, InFlight
<1>2. StackInv' /\ StartInv' /\ SavedInv' /\ DeletionInv' /\ IdsInv'
  BY <1>1 DEF ReadAnnounced, IInv, StackInv, StartInv, SavedInv, DeletionInv, IdsInv
<1>3. ContextTree' /\ RootIsolation' /\ CalloutsOwned' /\ LedgerAgrees'
  BY <1>1 DEF ReadAnnounced, IInv, ContextTree, RootIsolation, CalloutsOwned,
              LedgerAgrees
<1>4. PayloadOfItsCallback'
  BY <1>1 DEF ReadAnnounced, IInv, PayloadOfItsCallback
<1> QED
  BY <1>2, <1>3, <1>4 DEF IInv

-----------------------------------------------------------------------------
(***************************************************************************)
(* The invariant                                                           *)
(***************************************************************************)
\* A new guest satisfies the invariant (Init, the state that instantiation
\* leaves).
LEMMA InvInit == Init => IInv
<1> SUFFICES ASSUME Init PROVE IInv
  OBVIOUS
<1>1. TypeOK /\ Shapes
  BY TypeInit, TypeShapes
<1>2. /\ ~Running /\ Idle /\ InFlight = {}
      /\ frame.callback = NoCallback /\ frame.saved = NoCallout
      /\ DOMAIN entries = {} /\ DOMAIN open = {} /\ DOMAIN requests = {}
  BY DEF Init, Running, Idle, InFlight, NoFrame, NoDeletion, EmptyTable
<1>3. StackInv /\ StartInv /\ SavedInv /\ DeletionInv /\ IdsInv
  BY <1>2 DEF Init, StackInv, StartInv, SavedInv, DeletionInv, IdsInv, NoCallback
<1>4. /\ ContextTree /\ RootIsolation /\ CalloutsOwned /\ LedgerAgrees
      /\ PayloadOfItsCallback
  BY <1>2 DEF Init, ContextTree, RootIsolation, CalloutsOwned, LedgerAgrees,
              PayloadOfItsCallback
<1> QED
  BY <1>1, <1>3, <1>4 DEF IInv

\* Every step of the embedder, of the host, of the guest and of its returns
\* keeps the invariant (every method of CallScope and Guest, every host
\* function modelled).
LEMMA InvStep == IInv /\ [Next]_vars => IInv'
<1> SUFFICES ASSUME IInv, [Next]_vars PROVE IInv'
  OBVIOUS
<1>0. /\ TypeOK /\ TypeOK' /\ Shapes
      /\ ContextTables(entries) /\ SameTree(entries, entries)
  BY TypeStep, TypeShapes DEF IInv, TypeOK, SameTree
<1> USE <1>0 DEF contextVars, calloutVars, servingVars, stackVars, scopeVars
<1>1. ASSUME NEW h \in StreamType, Enter(h) PROVE IInv'
  BY <1>1, QuietStep DEF Enter
<1>2. ASSUME PoisonIfCut, current_callback' = NoCallback, Idle, frame' = frame
      PROVE  Sound' => Sound
  BY <1>2 DEF PoisonIfCut, Sound, Running, Idle
<1>3. CASE Finish
  BY <1>3, <1>2, QuietStep DEF Finish, EndScope
<1>4. CASE DropScope
  BY <1>4, <1>2, QuietStep DEF DropScope, EndScope
<1>5. CASE ForgetScope
  BY <1>5, QuietStep DEF ForgetScope
<1>6. CASE TakeStream
  BY <1>6, QuietStep DEF TakeStream
<1>7. CASE RefuseCutGuest
  <2>1. Sound' => Sound
    BY <1>7 DEF RefuseCutGuest, PoisonIfCut, Sound, Running, Idle
  <2> QED
    BY <1>7, <2>1, QuietStep DEF RefuseCutGuest
<1>8. ASSUME NEW c \in ContextId \cup {NoContext}, OnContextCreate(c) PROVE IInv'
  BY <1>8, CreateStep DEF OnContextCreate, Called, Creatable, RootAccepted, Idle
<1>9. Called => ~Running /\ deletion = NoDeletion /\ Live /\ starting = NoStart
  BY DEF Called, Idle
<1>10. ~Running /\ Live => ~announced
  BY DEF Live, Sound, IInv, StackInv
<1>11. ASSUME NEW c \in ContextId, OnVmStart(c) PROVE IInv'
  <2>1. "VmStart" \in Callback \ (DeliveryCallback \cup {"Delete"} \cup BodyCallback)
    BY DEF Callback, DeliveryCallback, GrpcCallback, BodyCallback
  <2> QED
    BY <1>11, <1>9, <1>10, <2>1, RunStep DEF OnVmStart, VmStart, RootAccepted,
         IsRoot
<1>12. ASSUME NEW c \in ContextId, OnTick(c) PROVE IInv'
  <2>1. "Tick" \in Callback \ (DeliveryCallback \cup {"Delete"} \cup BodyCallback)
    BY DEF Callback, DeliveryCallback, GrpcCallback, BodyCallback
  <2> QED
    BY <1>12, <1>9, <1>10, <2>1, RunStep DEF OnTick, RootAccepted, IsRoot
<1>13. ASSUME NEW c \in ContextId, OnDone(c) PROVE IInv'
  <2>1. "Done" \in Callback \ (DeliveryCallback \cup {"Delete"} \cup BodyCallback)
    BY DEF Callback, DeliveryCallback, GrpcCallback, BodyCallback
  <2> QED
    BY <1>13, <1>9, <1>10, <2>1, RunStep DEF OnDone
<1>14. ASSUME NEW c \in ContextId, OnLog(c) PROVE IInv'
  <2>1. "Log" \in Callback \ (DeliveryCallback \cup {"Delete"} \cup BodyCallback)
    BY DEF Callback, DeliveryCallback, GrpcCallback, BodyCallback
  <2>2. CASE entries[c].state = "Done"
    BY <1>14, <1>9, <1>10, <2>1, <2>2, RunStep DEF OnLog
  <2>3. CASE entries[c].state # "Done"
    BY <1>14, <2>3, QuietStep DEF OnLog
  <2> QED
    BY <2>2, <2>3
<1>15. ASSUME NEW c \in ContextId, OnDelete(c) PROVE IInv'
  <2>1. CASE Deletable(c)
    BY <1>15, <2>1, OnDeleteStep
  <2>2. CASE ~Deletable(c)
    BY <1>15, <2>2, QuietStep DEF OnDelete
  <2> QED
    BY <2>1, <2>2
<1>16. ASSUME NEW c \in ContextId, NEW p \in RootIds, OnConfigure(c, p) PROVE IInv'
  <2>1. "Configure" \in Callback \ (DeliveryCallback \cup {"Delete"} \cup BodyCallback)
    BY DEF Callback, DeliveryCallback, GrpcCallback, BodyCallback
  <2>2. SameTree(entries, entries')
    BY <1>16, SetPluginFacts DEF OnConfigure, Configure
  <2> QED
    BY <1>16, <1>9, <1>10, <2>1, <2>2, RunStep
       DEF OnConfigure, Configure, RootAccepted, IsRoot
<1>17. ASSUME NEW c \in ContextId, NEW cb \in HttpCallback \cup TcpCallback,
              OnStream(c, cb)
       PROVE  IInv'
  <2>1. cb \in Callback \ (DeliveryCallback \cup {"Delete"})
    BY DEF Callback, DeliveryCallback, GrpcCallback, HttpCallback, TcpCallback
  <2>2. SameTree(entries, entries')
    BY <1>17, SetStreamKindFacts DEF OnStream, KindOf, StreamKind
  <2>3. BodyCallback \subseteq ActionCallback
    BY DEF BodyCallback, ActionCallback, HttpCallback, TcpCallback
  <2>4. announced' <=> cb \in BodyCallback
    BY <1>17, <1>9, <1>10, <2>3 DEF OnStream
  <2> QED
    BY <1>17, <1>9, <2>1, <2>2, <2>4, RunStep DEF OnStream, IsStream
<1>18. ASSUME NEW c \in ContextId, NEW k \in StreamKind, ExpectStreamKind(c, k)
       PROVE  IInv'
  <2>1. SameTree(entries, entries')
    BY <1>18, SetStreamKindFacts DEF ExpectStreamKind
  <2> QED
    BY <1>18, <2>1, QuietStep DEF ExpectStreamKind
<1>19. ASSUME NEW id \in CalloutId, OnHttpCallResponse(id) PROVE IInv'
  BY <1>19, DeliverStep
     DEF OnHttpCallResponse, Deliverable, RootAccepted, IsRoot, DeliveryCallback
<1>20. ASSUME NEW id \in CalloutId, NEW cb \in GrpcCallback, OnGrpc(id, cb)
       PROVE  IInv'
  <2>1. EndsCallout(cb, open[id].kind) \in BOOLEAN /\ cb \in DeliveryCallback
    BY DEF EndsCallout, DeliveryCallback
  <2> QED
    BY <1>20, <2>1, DeliverStep DEF OnGrpc, Deliverable, RootAccepted, IsRoot
<1>21. ASSUME NEW c \in ContextId, OnForeignFunction(c) PROVE IInv'
  BY <1>21, DeliverStep DEF OnForeignFunction, DeliveryCallback
<1>22. ASSUME NEW p \in RootIds, Start(p) PROVE IInv'
  BY <1>22, CreateStep DEF Start, Creatable, Idle
<1>23. ASSUME NEW p \in RootIds, StartRefused(p) PROVE IInv'
  BY <1>23, <1>2, QuietStep DEF StartRefused, EndScope
<1>24. CASE FailNext
  BY <1>24, FailNextStep, PassNextStep
<1>25. CASE CallDelete
  BY <1>25, CallDeleteStep
<1>26. CASE EndDelete
  BY <1>26, EndDeleteStep
<1>27. starting # NoStart /\ ~Running =>
          Live /\ deletion = NoDeletion /\ starting.root \in DOMAIN entries
  BY DEF IInv, StackInv, StartInv, Idle, Live, IsRoot
<1>28. starting.step \in {"VmStart", "Configure"} => starting # NoStart
  BY DEF NoStart, NoCallback
<1>29. CASE StartVm
  <2>1. "VmStart" \in Callback \ (DeliveryCallback \cup {"Delete"} \cup BodyCallback)
    BY DEF Callback, DeliveryCallback, GrpcCallback, BodyCallback
  <2> QED
    BY <1>29, <1>27, <1>28, <1>10, <2>1, RunStep DEF StartVm, VmStart
<1>30. CASE StartRoot
  <2>1. "Configure" \in Callback \ (DeliveryCallback \cup {"Delete"} \cup BodyCallback)
    BY DEF Callback, DeliveryCallback, GrpcCallback, BodyCallback
  <2>2. starting.plugin \in RootIds
    BY <1>30, <1>28 DEF StartRoot, TypeOK, Starting
  <2>3. SameTree(entries, entries')
    BY <1>30, <2>2, SetPluginFacts DEF StartRoot, Configure
  <2> QED
    BY <1>30, <1>27, <1>28, <1>10, <2>1, <2>3, RunStep DEF StartRoot, Configure
<1>31. CASE StartTooLarge
  BY <1>31, StartTooLargeStep
<1>32. ASSUME NEW kind \in CalloutKind, NEW taken \in BOOLEAN, OpenCallout(kind, taken)
       PROVE  IInv'
  BY <1>32, OpenCalloutStep, RefusedCalloutStep
<1>33. ASSUME NEW id \in CalloutId, CloseStream(id) \/ CancelCallout(id) PROVE IInv'
  BY <1>33, CloseStreamStep, CancelCalloutStep
<1>34. CASE ProxyDone
  <2>1. SameTree(entries, entries')
    BY <1>34, SetStateFacts DEF ProxyDone, ContextState
  <2> QED
    BY <1>34, <2>1, QuietStep DEF ProxyDone
<1>35. ASSUME NEW c \in ContextId, ProxySetEffectiveContext(c) PROVE IInv'
  BY <1>35, SetEffectiveStep
<1>36. starting # NoStart => starting \in Starting
  BY DEF TypeOK
<1>37. CASE ReturnPlain
  <2>1. frame.callback \in Callback \ (DeliveryCallback \cup {"Delete"})
    BY <1>37 DEF ReturnPlain, Callback, DeliveryCallback, GrpcCallback,
         HttpCallback,
                 TcpCallback
  <2>2. \/ starting' = NoStart
        \/ /\ starting # NoStart /\ starting'.root = starting.root
           /\ starting'.step \in {"VmStart", "Configure"}
    BY <1>37, <1>36 DEF ReturnPlain, Starting
  <2> QED
    BY <1>37, <2>1, <2>2, ReturnStep DEF ReturnPlain
<1>38. ASSUME frame.callback \in {"Done", "VmStart", "Configure"}, UNCHANGED servingVars
       PROVE  /\ ClearServing
              /\ frame.callback \in Callback \ (DeliveryCallback \cup {"Delete"})
  BY <1>38 DEF ClearServing, Callback, DeliveryCallback, GrpcCallback,
       ActionCallback,
               HttpCallback, TcpCallback
<1>39. CASE ReturnAccept
  <2>1. \/ starting' = NoStart
        \/ /\ starting # NoStart /\ starting'.root = starting.root
           /\ starting'.step \in {"VmStart", "Configure"}
    BY <1>39, <1>36 DEF ReturnAccept, Starting, EndStart
  <2> QED
    BY <1>39, <1>38, <2>1, ReturnStep DEF ReturnAccept
<1>40. CASE ReturnDelivery
  BY <1>40, ReturnDeliveryStep
<1>41. CASE ReturnDelete
  BY <1>41, ReturnDeleteStep
<1>42. ASSUME NEW s \in {"Done", "Pending", "NotBoolean"}, ReturnDone(s) PROVE IInv'
  <2>1. SameTree(entries, entries')
    BY <1>42, SetStateFacts DEF ReturnDone
  <2>2. starting = NoStart
    BY <1>42 DEF ReturnDone, IInv, StartInv, Running, NoFrame, NoCallback, TypeOK,
         Starting
  <2> QED
    BY <1>42, <1>38, <2>1, <2>2, ReturnStep DEF ReturnDone
<1>43. ASSUME NEW b \in BOOLEAN, ReturnRefuse(b) PROVE IInv'
  <2>1. SameTree(entries, entries')
    BY <1>43, RejectFacts DEF ReturnRefuse, RefuseStart
  <2>2. starting' = NoStart
    BY <1>43 DEF ReturnRefuse, EndStart
  <2> QED
    BY <1>43, <1>38, <2>1, <2>2, ReturnStep DEF ReturnRefuse
<1>44. CASE Trap
  BY <1>44, TrapStep
<1>45. CASE Panic
  BY <1>45, PanicStep
<1>46. CASE ReadAnnounced
  BY <1>46, ReadAnnouncedStep
<1>47. CASE UNCHANGED vars
  BY <1>47, QuietStep DEF vars
<1> QED
  BY <1>1, <1>3, <1>4, <1>5, <1>6, <1>7, <1>8, <1>11, <1>12, <1>13, <1>14, <1>15,
     <1>16, <1>17, <1>18, <1>19, <1>20, <1>21, <1>22, <1>23, <1>24, <1>25, <1>26,
     <1>29, <1>30, <1>31, <1>32, <1>33, <1>34, <1>35, <1>37, <1>39, <1>40, <1>41,
     <1>42, <1>43, <1>44, <1>45, <1>46, <1>47
     DEF Next, EmbedderNext, HostNext, GuestNext, ReturnNext

-----------------------------------------------------------------------------
(***************************************************************************)
(* The theorems                                                            *)
(***************************************************************************)
\* The inductive invariant holds in every state a guest reaches, for any number
\* of contexts, callouts and plugins and any limit of open callouts.
THEOREM GuestInvariant == Spec => []IInv
  BY InvInit, InvStep, PTL DEF Spec

\* The state of a guest keeps its types: every table holds identifiers that its
\* counter gave out, every entry a root that exists (AbiState, CallScope).
THEOREM GuestTypes == Spec => []TypeOK
<1>1. IInv => TypeOK
  BY DEF IInv
<1> QED
  BY <1>1, GuestInvariant, PTL

\* The parent of a live stream context is a live root, although on_delete tests
\* for children before the guest runs and removes the root afterwards.
THEOREM GuestContextTree == Spec => []ContextTree
<1>1. IInv => ContextTree
  BY DEF IInv
<1> QED
  BY <1>1, GuestInvariant, PTL

\* proxy_set_effective_context takes a running guest to no context of a root
\* other than that of the callback it runs.
THEOREM GuestRootIsolation == Spec => []RootIsolation
<1>1. IInv => RootIsolation
  BY DEF IInv
<1> QED
  BY <1>1, GuestInvariant, PTL

\* Every open callout hangs on a live root, which is why a delivery finds its
\* context (CalloutTable and the on_delete that empties it).
THEOREM GuestCalloutsOwned == Spec => []CalloutsOwned
<1>1. IInv => CalloutsOwned
  BY DEF IInv
<1> QED
  BY <1>1, GuestInvariant, PTL

\* The embedder's requests and the callout table name the same callouts on a
\* sound guest, apart from those in flight.
THEOREM GuestLedger == Spec => []LedgerAgrees
<1>1. IInv => LedgerAgrees
  BY DEF IInv
<1> QED
  BY <1>1, GuestInvariant, PTL

\* A callback sees its own delivery and its own announced size, also after
\* callbacks that trapped or panicked (deliver, stream_action).
THEOREM GuestPayload == Spec => []PayloadOfItsCallback
<1>1. IInv => PayloadOfItsCallback
  BY DEF IInv
<1> QED
  BY <1>1, GuestInvariant, PTL

\* A step that calls the guest finds it live: the methods of the embedder test
\* it (require_live), and start and on_delete go on only after a call returned.
LEMMA CallsLive ==
    ASSUME IInv, [Next]_vars, ~Running, frame' # NoFrame
    PROVE  Live
<1>1. Shapes
  BY TypeShapes DEF IInv
<1>2. CASE ~Idle
  BY <1>2 DEF IInv, StackInv, Live
<1>3. CASE Idle
  <2> USE <1>3 DEF stackVars
  <2>1. deletion = NoDeletion /\ starting = NoStart /\ frame = NoFrame
    BY DEF Idle, Running
  <2>2. CASE EmbedderNext
    BY <2>1, <2>2 DEF EmbedderNext, Enter, Finish, DropScope, ForgetScope, TakeStream,
       RefuseCutGuest, OnContextCreate, OnVmStart, OnTick, OnDone, OnLog, OnDelete,
       OnForeignFunction, OnConfigure, OnStream, ExpectStreamKind, OnHttpCallResponse,
       OnGrpc, Deliverable, Start, StartRefused, Called
  <2>3. CASE HostNext
    BY <2>1, <2>3 DEF HostNext, FailNext, CallDelete, EndDelete, StartVm, StartRoot,
       StartTooLarge, NoDeletion, NoStart, NoCallback
  <2>4. CASE GuestNext
    BY <2>4 DEF GuestNext, OpenCallout, CloseStream, CancelCallout, FindOpen,
       ReadAnnounced, ProxyDone, ProxySetEffectiveContext
  <2>5. CASE ReturnNext
    BY <2>1, <2>5 DEF ReturnNext, ReturnPlain, ReturnAccept, ReturnDelivery,
       ReturnDelete, ReturnDone, ReturnRefuse, Trap, Panic, PopFrame
  <2>6. CASE UNCHANGED vars
    BY <2>1, <2>6 DEF vars
  <2> QED
    BY <2>2, <2>3, <2>4, <2>5, <2>6 DEF Next
<1> QED
  BY <1>2, <1>3

\* A poisoned guest, or one whose callback a panic cut short, is never called
\* again (require_live, and the calls of start and on_delete).
THEOREM GuestNeverRunsCut == Spec => NeverRunsCut
<1>1. IInv /\ [Next]_vars =>
        [~Running /\ frame' # NoFrame => ~poisoned /\ current_callback = NoCallback]_vars
  BY CallsLive DEF Live
<1> QED
  BY <1>1, GuestInvariant, PTL DEF Spec, NeverRunsCut

\* A scope's own stream state is installed for as long as the scope lives, so the
\* unreachable arms of stream_mut and finish are never reached.
THEOREM GuestLentState == Spec => []LentStateKept
<1>1. Init => LentStateKept
  BY DEF Init, LentStateKept
<1>2. LentStateKept /\ [Next]_vars => LentStateKept'
  <2> SUFFICES ASSUME LentStateKept, [Next]_vars PROVE LentStateKept'
    OBVIOUS
  <2> USE DEF LentStateKept, scopeVars
  <2>1. CASE EmbedderNext
    <3>1. ASSUME NEW h \in StreamType, Enter(h) PROVE LentStateKept'
      BY <3>1 DEF Enter
    <3>2. CASE Finish \/ DropScope \/ ForgetScope
      BY <3>2 DEF Finish, DropScope, ForgetScope, EndScope
    <3>3. CASE TakeStream \/ RefuseCutGuest
      BY <3>3 DEF TakeStream, RefuseCutGuest
    <3>4. ASSUME NEW c \in ContextId \cup {NoContext}, OnContextCreate(c)
          PROVE  UNCHANGED <<stream_state, detached, scope>>
      BY <3>4 DEF OnContextCreate
    <3>5. ASSUME NEW c \in ContextId,
                 \/ OnVmStart(c) \/ OnTick(c) \/ OnDone(c) \/ OnLog(c) \/ OnDelete(c)
                 \/ OnForeignFunction(c)
                 \/ \E p \in RootIds : OnConfigure(c, p)
                 \/ \E cb \in HttpCallback \cup TcpCallback : OnStream(c, cb)
                 \/ \E k \in StreamKind : ExpectStreamKind(c, k)
          PROVE  UNCHANGED <<stream_state, detached, scope>>
      <4>1. CASE OnVmStart(c) \/ OnTick(c) \/ OnForeignFunction(c)
        BY <4>1 DEF OnVmStart, OnTick, OnForeignFunction
      <4>2. CASE OnDone(c) \/ OnLog(c)
        BY <4>2 DEF OnDone, OnLog
      <4>3. CASE OnDelete(c)
        BY <4>3 DEF OnDelete
      <4>4. ASSUME NEW p \in RootIds, OnConfigure(c, p)
            PROVE  UNCHANGED <<stream_state, detached, scope>>
        BY <4>4 DEF OnConfigure
      <4>5. ASSUME NEW cb \in HttpCallback \cup TcpCallback, OnStream(c, cb)
            PROVE  UNCHANGED <<stream_state, detached, scope>>
        BY <4>5 DEF OnStream
      <4>6. ASSUME NEW k \in StreamKind, ExpectStreamKind(c, k)
            PROVE  UNCHANGED <<stream_state, detached, scope>>
        BY <4>6 DEF ExpectStreamKind
      <4> QED
        BY <3>5, <4>1, <4>2, <4>3, <4>4, <4>5, <4>6
    <3>6. ASSUME NEW id \in CalloutId,
                 OnHttpCallResponse(id) \/ \E cb \in GrpcCallback : OnGrpc(id, cb)
          PROVE  UNCHANGED <<stream_state, detached, scope>>
      BY <3>6 DEF OnHttpCallResponse, OnGrpc
    <3>7. ASSUME NEW p \in RootIds, Start(p) \/ StartRefused(p)
          PROVE  LentStateKept'
      BY <3>7 DEF Start, StartRefused, EndScope
    <3> QED
      BY <2>1, <3>1, <3>2, <3>3, <3>4, <3>5, <3>6, <3>7 DEF EmbedderNext
  <2>2. CASE HostNext
    BY <2>2 DEF HostNext, FailNext, CallDelete, EndDelete, StartVm, StartRoot,
       StartTooLarge, EndStart
  <2>3. CASE GuestNext
    BY <2>3 DEF GuestNext, OpenCallout, CloseStream, CancelCallout, ReadAnnounced,
       ProxyDone, ProxySetEffectiveContext
  <2>4. CASE ReturnNext
    BY <2>4 DEF ReturnNext, ReturnPlain, ReturnAccept, ReturnDelivery, ReturnDelete,
       ReturnDone, ReturnRefuse, Trap, Panic, EndStart, EndScope
  <2>5. CASE UNCHANGED vars
    BY <2>5 DEF vars
  <2> QED
    BY <2>1, <2>2, <2>3, <2>4, <2>5 DEF Next
<1> QED
  BY <1>1, <1>2, PTL DEF Spec

-----------------------------------------------------------------------------
(***************************************************************************)
(* What a step may never do                                                *)
(***************************************************************************)
\* A poisoned guest is idle, and no method that passes require_live touches it.
LEMMA PoisonedStep ==
    ASSUME IInv, [Next]_vars, poisoned
    PROVE  poisoned' /\ UNCHANGED <<entries, open, requests, next_callout>>
<1>0. ~Live
  BY DEF Live
<1>1. deletion = NoDeletion /\ starting = NoStart /\ frame = NoFrame
  BY DEF IInv, StackInv, Idle, Running
<1>2. /\ deletion.left = {} /\ ~deletion.removed /\ starting.step = NoCallback
      /\ frame.callback = NoCallback
  BY <1>1, TypeShapes DEF IInv, Shapes
<1> USE DEF contextVars, calloutVars
<1>3. CASE EmbedderNext
  BY <1>0, <1>3 DEF EmbedderNext, Enter, Finish, DropScope, ForgetScope, TakeStream,
     RefuseCutGuest, OnContextCreate, OnVmStart, OnTick, OnDone, OnLog, OnDelete,
     OnForeignFunction, OnConfigure, OnStream, ExpectStreamKind, OnHttpCallResponse,
     OnGrpc, Deliverable, Start, StartRefused, Called, EndScope, PoisonIfCut
<1>4. CASE HostNext
  BY <1>1, <1>2, <1>4 DEF HostNext, FailNext, CallDelete, EndDelete, StartVm, StartRoot,
     StartTooLarge, NoCallback
<1>5. CASE GuestNext
  BY <1>1, <1>5 DEF GuestNext, OpenCallout, CloseStream, CancelCallout, FindOpen,
     ReadAnnounced, ProxyDone, ProxySetEffectiveContext, Running
<1>6. CASE ReturnNext
  BY <1>1, <1>2, <1>6 DEF ReturnNext, ReturnPlain, ReturnAccept, ReturnDelivery,
     ReturnDelete, ReturnDone, ReturnRefuse, Trap, Panic, Running, NoCallback,
     DeliveryCallback, GrpcCallback, HttpCallback, TcpCallback
<1>7. CASE UNCHANGED vars
  BY <1>7 DEF vars
<1> QED
  BY <1>3, <1>4, <1>5, <1>6, <1>7 DEF Next

\* Once a trap, a limit or a panic poisoned the guest, nothing brings it back, and
\* open_callouts answers what the failure left open (HostState.poisoned).
THEOREM GuestPoisonFreezes == Spec => PoisonFreezes
<1>1. IInv /\ [Next]_vars =>
        [poisoned => poisoned' /\ UNCHANGED <<entries, open, requests, next_callout>>]_vars
  BY PoisonedStep
<1> QED
  BY <1>1, GuestInvariant, PTL DEF Spec, PoisonFreezes

\* The steps that may poison a running guest: a trap, and a panic in start, whose
\* scope drops while the panic unwinds.
LEMMA PoisoningStep ==
    ASSUME IInv, [Next]_vars, Running, ~poisoned, poisoned'
    PROVE  Trap \/ Panic
<1>1. ~Idle
  BY DEF Idle
<1>3. CASE EmbedderNext
  BY <1>1, <1>3 DEF EmbedderNext, Enter, Finish, DropScope, ForgetScope, TakeStream,
     RefuseCutGuest, OnContextCreate, OnVmStart, OnTick, OnDone, OnLog, OnDelete,
     OnForeignFunction, OnConfigure, OnStream, ExpectStreamKind, OnHttpCallResponse,
     OnGrpc, Deliverable, Start, StartRefused, Called
<1>4. CASE HostNext
  BY <1>4 DEF HostNext, FailNext, CallDelete, EndDelete, StartVm, StartRoot, StartTooLarge
<1>5. CASE GuestNext
  BY <1>5 DEF GuestNext, OpenCallout, CloseStream, CancelCallout, ReadAnnounced, ProxyDone,
     ProxySetEffectiveContext
<1>6. CASE ReturnNext
  BY <1>6 DEF ReturnNext, ReturnPlain, ReturnAccept, ReturnDelivery, ReturnDelete, ReturnDone,
     ReturnRefuse
<1>7. CASE UNCHANGED vars
  BY <1>7 DEF vars
<1> QED
  BY <1>3, <1>4, <1>5, <1>6, <1>7 DEF Next

\* A trap puts the entry of its delivery back (deliver), so that what the embedder
\* asked for and open_callouts differ only by what a failed deletion had ended.
THEOREM GuestTrapAccounts == Spec => TrapAccounts
<1>1. ASSUME IInv, [Next]_vars, Running, ~poisoned, poisoned'
      PROVE  DOMAIN requests' = DOMAIN open' \cup deletion.ended
  <2>0. TypeOK /\ Shapes
    BY <1>1, TypeShapes DEF IInv
  <2>1. DOMAIN requests = DOMAIN open \cup InFlight
    BY <1>1 DEF IInv, LedgerAgrees, Sound
  <2>2. CASE Trap
    <3>1. /\ UNCHANGED requests
          /\ open' = IF frame.saved = NoCallout THEN open
                     ELSE EnterCallout(open, frame.callout, frame.saved)
      BY <2>2 DEF Trap, RestoreSaved
    <3>2. DOMAIN open' = DOMAIN open \cup (IF frame.saved = NoCallout THEN {} ELSE {frame.callout})
      BY <3>1 DEF EnterCallout
    <3> QED
      BY <2>1, <3>1, <3>2 DEF InFlight
  <2>3. CASE Panic
    <3>1. starting # NoStart /\ UNCHANGED <<open, requests>>
      BY <1>1, <2>3 DEF Panic, calloutVars
    <3>2. frame.callback \in {"ContextCreate", "VmStart", "Configure"} /\ deletion = NoDeletion
      BY <1>1, <2>0, <3>1 DEF IInv, StartInv, StackInv, Shapes
    <3>3. frame.saved = NoCallout
      BY <1>1, <3>2 DEF IInv, SavedInv, DeliveryCallback, GrpcCallback
    <3> QED
      BY <2>1, <3>1, <3>3 DEF InFlight
  <2> QED
    BY <1>1, <2>2, <2>3, PoisoningStep
<1>2. IInv /\ [Next]_vars =>
        [Running /\ ~poisoned /\ poisoned' =>
            DOMAIN requests' = DOMAIN open' \cup deletion.ended]_vars
  BY <1>1
<1> QED
  BY <1>2, GuestInvariant, PTL DEF Spec, TrapAccounts

\* Soundness is not regained: a guest whose callback a panic cut short is touched
\* only by what poisons it.
LEMMA UnsoundStep ==
    ASSUME IInv, [Next]_vars, ~Sound
    PROVE  ~Sound' /\ UNCHANGED open
<1>1. CASE poisoned
  BY <1>1, PoisonedStep DEF Sound
<1>2. CASE ~poisoned
  <2>0. ~Running /\ current_callback # NoCallback /\ ~Live
    BY <1>2 DEF Sound, Live
  <2>1. deletion = NoDeletion /\ starting = NoStart /\ frame = NoFrame
    BY <2>0 DEF IInv, StackInv, Idle, Running
  <2>2. /\ deletion.left = {} /\ ~deletion.removed /\ starting.step = NoCallback
        /\ frame.callback = NoCallback
    BY <2>1, TypeShapes DEF IInv, Shapes
  <2> USE DEF contextVars, calloutVars, stackVars
  <2>3. CASE EmbedderNext
    BY <2>0, <2>1, <2>3 DEF EmbedderNext, Enter, Finish, DropScope, ForgetScope, TakeStream,
       RefuseCutGuest, OnContextCreate, OnVmStart, OnTick, OnDone, OnLog, OnDelete,
       OnForeignFunction, OnConfigure, OnStream, ExpectStreamKind, OnHttpCallResponse,
       OnGrpc, Deliverable, Start, StartRefused, Called, EndScope, PoisonIfCut, Sound, Running
  <2>4. CASE HostNext
    BY <2>1, <2>2, <2>4 DEF HostNext, FailNext, CallDelete, EndDelete, StartVm, StartRoot,
       StartTooLarge, NoCallback
  <2>5. CASE GuestNext
    BY <2>0, <2>5 DEF GuestNext, OpenCallout, CloseStream, CancelCallout, FindOpen,
       ReadAnnounced, ProxyDone, ProxySetEffectiveContext
  <2>6. CASE ReturnNext
    BY <2>0, <2>2, <2>6 DEF ReturnNext, ReturnPlain, ReturnAccept, ReturnDelivery,
       ReturnDelete, ReturnDone, ReturnRefuse, Trap, Panic, NoCallback,
       DeliveryCallback, GrpcCallback, HttpCallback, TcpCallback
  <2>7. CASE UNCHANGED vars
    BY <2>0, <2>7 DEF vars, Sound, Running
  <2> QED
    BY <2>3, <2>4, <2>5, <2>6, <2>7 DEF Next
<1> QED
  BY <1>1, <1>2

\* The table of callouts loses entries, or marks one as closed.
Shrinks ==
    /\ DOMAIN open' \subseteq DOMAIN open
    /\ \A id \in DOMAIN open' : /\ open'[id].caller = open[id].caller
                                /\ open'[id].root = open[id].root

LEMMA RemovedShrinks ==
    ASSUME NEW ids, open' = RemoveCallouts(open, ids)
    PROVE  Shrinks
<1>1. DOMAIN open' = DOMAIN open \ ids /\ \A i \in DOMAIN open' : open'[i] = open[i]
  BY DEF RemoveCallouts, Restrict
<1> QED
  BY <1>1 DEF Shrinks

\* The table of callouts grows only by open_callout and by what deliver puts back.
LEMMA OpenForms ==
    ASSUME IInv, [Next]_vars
    PROVE  \/ Shrinks \/ Trap
           \/ \E kind \in CalloutKind : OpenCallout(kind, TRUE)
<1>0. TypeOK /\ (UNCHANGED open => Shrinks)
  BY DEF IInv, Shrinks
<1>1. ASSUME NEW callback, NEW c, NEW callout, NEW ends, Deliver(callback, c, callout, ends)
      PROVE  Shrinks
  <2>1. open' = RemoveCallouts(open, {callout}) \/ UNCHANGED open
    BY <1>1 DEF Deliver
  <2> QED
    BY <1>0, <2>1, RemovedShrinks
<1> USE DEF calloutVars
<1>3. CASE EmbedderNext
  <2>1. ASSUME NEW c \in ContextId, OnDelete(c) PROVE Shrinks
    <3>1. UNCHANGED open \/ \E ids : open' = RemoveCallouts(open, ids)
      BY <2>1 DEF OnDelete
    <3> QED
      BY <1>0, <3>1, RemovedShrinks
  <2>2. ASSUME NEW c \in ContextId, OnForeignFunction(c) PROVE Shrinks
    BY <1>1, <2>2 DEF OnForeignFunction
  <2>3. ASSUME NEW id \in CalloutId,
               OnHttpCallResponse(id) \/ \E cb \in GrpcCallback : OnGrpc(id, cb)
        PROVE  Shrinks
    BY <1>1, <2>3 DEF OnHttpCallResponse, OnGrpc
  <2> QED
    BY <1>0, <1>3, <2>1, <2>2, <2>3
       DEF EmbedderNext, Enter, Finish, DropScope, ForgetScope, TakeStream, RefuseCutGuest,
           OnContextCreate, OnVmStart, OnTick, OnDone, OnLog, OnConfigure, OnStream,
           ExpectStreamKind, Start, StartRefused
<1>4. CASE HostNext
  <2>1. CASE FailNext
    BY <1>0, <1>1, <2>1 DEF FailNext
  <2>2. CASE EndDelete
    BY <1>0, <2>2, RemovedShrinks DEF EndDelete
  <2> QED
    BY <1>0, <1>4, <2>1, <2>2 DEF HostNext, CallDelete, StartVm, StartRoot, StartTooLarge
<1>5. CASE GuestNext
  <2>1. ASSUME NEW id \in CalloutId, CloseStream(id) PROVE Shrinks
    <3>1. id \in DOMAIN open /\ open' = CloseByGuest(open, id)
      BY <2>1 DEF CloseStream, FindOpen
    <3> QED
      BY <1>0, <3>1, CloseByGuestFacts DEF Shrinks, TypeOK
  <2>2. ASSUME NEW id \in CalloutId, CancelCallout(id) PROVE Shrinks
    BY <1>0, <2>2, RemovedShrinks DEF CancelCallout
  <2>3. ASSUME NEW kind \in CalloutKind, OpenCallout(kind, FALSE) PROVE Shrinks
    BY <1>0, <2>3 DEF OpenCallout
  <2> QED
    BY <1>0, <1>5, <2>1, <2>2, <2>3 DEF GuestNext, ReadAnnounced, ProxyDone,
       ProxySetEffectiveContext
<1>6. CASE ReturnNext
  <2>1. CASE ReturnDelete
    <3>1. \E ids : open' = RemoveCallouts(open, ids)
      BY <2>1 DEF ReturnDelete
    <3> QED
      BY <1>0, <3>1, RemovedShrinks
  <2> QED
    BY <1>0, <1>6, <2>1 DEF ReturnNext, ReturnPlain, ReturnAccept, ReturnDelivery, ReturnDone,
       ReturnRefuse, Panic
<1>7. CASE UNCHANGED vars
  BY <1>0, <1>7 DEF vars
<1> QED
  BY <1>3, <1>4, <1>5, <1>6, <1>7 DEF Next

\* For any limit: a sound guest holds no more callouts than max_open_callouts, and
\* one that a trap or a panic ended at most one more, the entry that deliver put
\* back next to a callout the guest opened while it was out (open_callout).
THEOREM GuestCalloutsBounded == Spec => []OpenCalloutsBounded
<1>1. Init => OpenCalloutsBounded
  BY FS_EmptySet, CalloutTableAssumption DEF Init, OpenCalloutsBounded, EmptyTable
<1>2. IInv /\ OpenCalloutsBounded /\ [Next]_vars => OpenCalloutsBounded'
  <2> SUFFICES ASSUME IInv, OpenCalloutsBounded, [Next]_vars
               PROVE  OpenCalloutsBounded'
    OBVIOUS
  <2>0. /\ TypeOK /\ Shapes /\ MaxOpenCallouts \in Nat
        /\ IsFiniteSet(DOMAIN open) /\ Cardinality(DOMAIN open) \in Nat
    <3>1. TypeOK /\ Shapes /\ MaxOpenCallouts \in Nat /\ MaxCalloutId \in Int
      BY TypeShapes, CalloutTableAssumption DEF IInv
    <3>2. IsFiniteSet(1 .. MaxCalloutId)
      BY <3>1, FS_Interval
    <3> QED
      BY <3>1, <3>2, FS_Subset, FS_CardinalityType DEF Shapes, CalloutId
  <2>1. CASE ~Sound
    BY <2>1, UnsoundStep DEF OpenCalloutsBounded
  <2>2. CASE Sound /\ Shrinks
    <3>1. Cardinality(DOMAIN open') <= Cardinality(DOMAIN open) /\ Cardinality(DOMAIN open') \in Nat
      BY <2>0, <2>2, FS_Subset, FS_CardinalityType DEF Shrinks
    <3> QED
      BY <2>0, <2>2, <3>1 DEF OpenCalloutsBounded
  <2>3. ASSUME NEW id PROVE /\ Cardinality(DOMAIN open \cup {id}) <= Cardinality(DOMAIN open) + 1
                            /\ Cardinality(DOMAIN open \cup {id}) \in Nat
    <3>1. /\ IsFiniteSet(DOMAIN open \cup {id})
          /\ \/ Cardinality(DOMAIN open \cup {id}) = Cardinality(DOMAIN open)
             \/ Cardinality(DOMAIN open \cup {id}) = Cardinality(DOMAIN open) + 1
      BY <2>0, FS_AddElement
    <3> QED
      BY <2>0, <3>1
  <2>4. CASE Sound /\ Trap
    <3>1. ~Sound' /\ (DOMAIN open' = DOMAIN open \/ DOMAIN open' = DOMAIN open \cup {frame.callout})
      BY <2>4 DEF Trap, Sound, RestoreSaved, EnterCallout
    <3>2. Cardinality(DOMAIN open) <= MaxOpenCallouts
      BY <2>4 DEF OpenCalloutsBounded
    <3>3. Cardinality(DOMAIN open') <= MaxOpenCallouts + 1
      <4>1. CASE DOMAIN open' = DOMAIN open
        BY <2>0, <3>2, <4>1
      <4>2. CASE DOMAIN open' = DOMAIN open \cup {frame.callout}
        <5>1. /\ Cardinality(DOMAIN open') <= Cardinality(DOMAIN open) + 1
              /\ Cardinality(DOMAIN open') \in Nat
          BY <2>3, <4>2
        <5> QED
          BY <2>0, <3>2, <5>1
      <4> QED
        BY <3>1, <4>1, <4>2
    <3> QED
      BY <3>1, <3>3 DEF OpenCalloutsBounded
  <2>5. ASSUME NEW kind \in CalloutKind, OpenCallout(kind, TRUE)
        PROVE  OpenCalloutsBounded'
    <3>1. /\ DOMAIN open' = DOMAIN open \cup {next_callout}
          /\ Cardinality(DOMAIN open) < MaxOpenCallouts
      BY <2>5 DEF OpenCallout, MayOpen, EnterCallout
    <3> QED
      BY <2>0, <2>3, <3>1 DEF OpenCalloutsBounded
  <2> QED
    BY <2>1, <2>2, <2>4, <2>5, OpenForms
<1> QED
  BY <1>1, <1>2, GuestInvariant, PTL DEF Spec

-----------------------------------------------------------------------------
(***************************************************************************)
(* Refused roots, families of streams, and the ends of callouts            *)
(***************************************************************************)
\* The root on which on_delete fails callouts.
DeletionRoot == IF deletion.root = NoContext THEN deletion.context ELSE deletion.root

\* start goes on, and on_delete has callouts to fail, only for a root that is not
\* refused; a stream callback runs on a stream that has its family on record.
ServeInv ==
    /\ RefusedRootServesNothing
    /\ starting # NoStart => ~Refused(starting.root)
    /\ deletion.left # {} => ~Refused(DeletionRoot)
    /\ frame.callback \in HttpCallback \cup TcpCallback =>
          entries[frame.context].stream_kind = KindOf(frame.callback)

\* Once proxy_on_delete returned, the callouts of the context all wait to be failed.
EndsInv == deletion.removed => MadeBy(open, deletion.context) \subseteq deletion.left

\* `rejection_of' on the two fields it reads.
RefusedBy(vm, t, c) == vm # NoContext \/ IsRejected(t, c)

\* A step that refuses nothing, and at most gives a stream its family.
KeptEntries(t, u) ==
    /\ SameTree(t, u)
    /\ \A d \in DOMAIN t : /\ u[d].rejected = t[d].rejected
                           /\ t[d].stream_kind \in {NoKind, u[d].stream_kind}

LEMMA KeptRefused ==
    ASSUME KeptEntries(entries, entries'), UNCHANGED vm_rejected
    PROVE  \A c : RefusedBy(vm_rejected', entries', c) <=> RefusedBy(vm_rejected, entries, c)
<1>1. \A c : IsRoot(entries', c) <=> IsRoot(entries, c)
  BY DEF KeptEntries, SameTree, IsRoot
<1>2. \A c : IsStream(entries', c) <=> IsStream(entries, c)
  BY DEF KeptEntries, SameTree, IsStream
<1>3. \A c : IsStream(entries, c) => entries'[c].parent = entries[c].parent
  BY DEF KeptEntries, SameTree, IsStream
<1>4. \A c : RootOf(entries', c) = RootOf(entries, c)
  BY <1>1, <1>2, <1>3 DEF RootOf
<1>5. \A c : IsRejected(entries', c) <=> IsRejected(entries, c)
  BY <1>4 DEF IsRejected, KeptEntries, SameTree
<1> QED
  BY <1>5 DEF RefusedBy

\* A step that leaves the stack alone, calls a root that is not refused, returns
\* from a callback, or goes on with a deletion.
LEMMA ServeKept ==
    ASSUME ServeInv, IInv, KeptEntries(entries, entries'), UNCHANGED vm_rejected,
           \/ frame' = frame \/ frame' = NoFrame
           \/ /\ ~Refused(frame'.context) \/ frame'.callback \in {"Done", "Log", "Delete"}
              /\ frame'.callback \in HttpCallback \cup TcpCallback =>
                    entries'[frame'.context].stream_kind = KindOf(frame'.callback),
           starting' # NoStart => starting # NoStart /\ starting'.root = starting.root,
           deletion'.left # {} => /\ deletion.left # {} /\ deletion'.context = deletion.context
                                  /\ deletion'.root = deletion.root
    PROVE  ServeInv'
<1>0. \A c : RefusedBy(vm_rejected', entries', c) <=> RefusedBy(vm_rejected, entries, c)
  BY KeptRefused
<1>1. RefusedRootServesNothing'
  BY <1>0 DEF ServeInv, RefusedRootServesNothing, Running, Refused, RefusedBy
<1>2. (starting # NoStart => ~Refused(starting.root))'
  BY <1>0 DEF ServeInv, Refused, RefusedBy
<1>3. (deletion.left # {} => ~Refused(DeletionRoot))'
  BY <1>0 DEF ServeInv, DeletionRoot, Refused, RefusedBy
<1>4. frame'.callback \in HttpCallback \cup TcpCallback =>
          entries'[frame'.context].stream_kind = KindOf(frame'.callback)
  <2>1. CASE frame' = frame
    <3> SUFFICES ASSUME frame.callback \in HttpCallback \cup TcpCallback
                 PROVE  entries'[frame.context].stream_kind = KindOf(frame.callback)
      BY <2>1
    <3>1. frame # NoFrame
      BY DEF NoFrame, NoCallback, HttpCallback, TcpCallback
    <3>2. frame.context \in DOMAIN entries
      BY <3>1 DEF IInv, StackInv, Running
    <3>3. entries[frame.context].stream_kind = KindOf(frame.callback) /\ KindOf(frame.callback) # NoKind
      BY DEF ServeInv, KindOf, NoKind
    <3> QED
      BY <3>2, <3>3 DEF KeptEntries
  <2>2. CASE frame' = NoFrame
    BY <2>2 DEF NoFrame, NoCallback, HttpCallback, TcpCallback
  <2> QED
    BY <2>1, <2>2
<1> QED
  BY <1>1, <1>2, <1>3, <1>4 DEF ServeInv

\* A step that ends every method in progress.
LEMMA ServeEnded ==
    ASSUME frame' = NoFrame, starting' = NoStart, deletion'.left = {}
    PROVE  ServeInv'
  BY DEF ServeInv, RefusedRootServesNothing, Running, NoFrame, NoCallback, HttpCallback,
     TcpCallback

\* A new context is refused no more than its parent.
LEMMA ServeCreated ==
    ASSUME IInv, Idle, NEW parent \in ContextId \cup {NoContext}, Creatable(parent),
           CreateAndRun(parent), UNCHANGED <<vm_rejected, deletion>>,
           starting' = NoStart \/ starting'.root = next_context
    PROVE  ServeInv'
<1>0. TypeOK /\ Shapes /\ deletion = NoDeletion /\ deletion.left = {}
  BY TypeShapes DEF IInv, Idle, Shapes
<1>1. /\ vm_rejected = NoContext /\ next_context <= MaxContextId
      /\ parent # NoContext => IsRoot(entries, parent) /\ ~IsRejected(entries, parent)
  BY DEF Creatable, RootAccepted, Refused
<1>2. next_context \in ContextId /\ ContextTables(entries)
  BY <1>1, ContextTableAssumption DEF TypeOK, IInv, ContextId
<1> DEFINE t == CreateContext(entries, next_context, parent)
<1>3. /\ DOMAIN t = DOMAIN entries \cup {next_context} /\ t[next_context].parent = parent
      /\ ~t[next_context].rejected
      /\ \A d \in DOMAIN entries : d # next_context => t[d] = entries[d]
  BY DEF CreateContext
<1>4. entries' = t /\ frame'.context = next_context /\ frame'.callback = "ContextCreate"
  BY DEF CreateAndRun, RunPlain, Run
<1> HIDE DEF t
<1>5. parent # NoContext => parent \in DOMAIN entries /\ parent # next_context /\ ~entries[parent].rejected
  <2> SUFFICES ASSUME parent # NoContext
               PROVE  parent \in DOMAIN entries /\ parent # next_context /\ ~entries[parent].rejected
    OBVIOUS
  <2>1. IsRoot(entries, parent) /\ ~IsRejected(entries, parent)
    BY <1>1
  <2>2. parent \in DOMAIN entries /\ RootOf(entries, parent) = parent
    BY <2>1 DEF IsRoot, IsStream, RootOf
  <2>3. parent < next_context
    BY <2>2 DEF IInv, ContextTree
  <2> QED
    BY <1>0, <2>1, <2>2, <2>3 DEF IsRejected, Shapes
<1>6. ~IsRejected(t, next_context)
  <2>1. CASE parent = NoContext
    BY <1>3, <2>1 DEF IsRejected, RootOf, IsRoot, IsStream
  <2>2. CASE parent # NoContext
    <3>1. RootOf(t, next_context) = parent
      BY <1>3, <2>2 DEF RootOf, IsRoot, IsStream
    <3> QED
      BY <1>3, <1>5, <2>2, <3>1 DEF IsRejected
  <2> QED
    BY <2>1, <2>2
<1>7. vm_rejected' = NoContext /\ ~IsRejected(entries', next_context)
  BY <1>1, <1>4, <1>6
<1>8. RefusedRootServesNothing'
  BY <1>4, <1>7 DEF RefusedRootServesNothing, Refused
<1>9. (starting # NoStart => ~Refused(starting.root))'
  BY <1>7 DEF Refused
<1>10. "ContextCreate" \notin HttpCallback \cup TcpCallback
  BY DEF HttpCallback, TcpCallback
<1> QED
  BY <1>0, <1>4, <1>8, <1>9, <1>10 DEF ServeInv

LEMMA MarksKept ==
    ASSUME NEW t, ContextTables(t), NEW c, NEW s \in ContextState, NEW p \in RootIds
    PROVE  KeptEntries(t, t) /\ KeptEntries(t, SetState(t, c, s)) /\ KeptEntries(t, SetPlugin(t, c, p))
  BY SetStateFacts, SetPluginFacts DEF KeptEntries, SameTree

LEMMA KindKept ==
    ASSUME NEW t, ContextTables(t), NEW c \in DOMAIN t, NEW k \in StreamKind,
           t[c].stream_kind \in {NoKind, k}
    PROVE  KeptEntries(t, SetStreamKind(t, c, k)) /\ SetStreamKind(t, c, k)[c].stream_kind = k
<1> DEFINE u == SetStreamKind(t, c, k)
<1>1. u[c].stream_kind = k /\ \A d \in DOMAIN t : d # c => u[d] = t[d]
  BY DEF SetStreamKind, ContextTables, ContextEntry
<1>2. SameTree(t, u) /\ \A d \in DOMAIN t : u[d].rejected = t[d].rejected
  BY SetStreamKindFacts
<1> HIDE DEF u
<1>3. KeptEntries(t, u)
  BY <1>1, <1>2 DEF KeptEntries
<1> QED
  BY <1>1, <1>3 DEF u

\* on_delete begins, or goes on after proxy_on_delete: it fails callouts only on a
\* root that is not refused.
LEMMA ServeOnDelete ==
    ASSUME ServeInv, IInv, NEW c \in ContextId, OnDelete(c)
    PROVE  ServeInv'
<1>0. TypeOK /\ Shapes
  BY TypeShapes DEF IInv
<1>1. UNCHANGED <<entries, vm_rejected, frame, starting>> /\ c \in DOMAIN entries
  BY DEF OnDelete, contextVars
<1>2. deletion'.left # {} => ~Refused(DeletionRoot')
  <2>1. CASE Deletable(c)
    <3>1. /\ deletion'.context = c /\ deletion'.root = entries[c].parent
          /\ deletion'.left = IF IsRoot(entries, c) THEN FailFirst(c, c) ELSE {}
      BY <2>1 DEF OnDelete
    <3>2. deletion'.left # {} => IsRoot(entries, c) /\ ~Refused(c)
      BY <3>1 DEF FailFirst
    <3> QED
      BY <3>1, <3>2 DEF DeletionRoot, IsRoot
  <2>2. CASE ~Deletable(c)
    BY <2>2 DEF OnDelete, ServeInv, DeletionRoot
  <2> QED
    BY <2>1, <2>2
<1> QED
  BY <1>1, <1>2 DEF ServeInv, RefusedRootServesNothing, Running, Refused, DeletionRoot

LEMMA ServeReturnDelete ==
    ASSUME ServeInv, IInv, ReturnDelete
    PROVE  ServeInv'
<1>0. TypeOK /\ Shapes
  BY TypeShapes DEF IInv
<1>1. /\ frame.callback = "Delete" /\ frame # NoFrame /\ frame' = NoFrame
      /\ UNCHANGED <<vm_rejected, starting>>
      /\ entries' = RemoveContext(entries, frame.context)
  BY DEF ReturnDelete, NoFrame, NoCallback
<1>2. starting = NoStart
  BY <1>0, <1>1 DEF IInv, StartInv, Running, Shapes
<1>3. deletion # NoDeletion /\ deletion \in Deletion /\ frame.context = deletion.context
  BY <1>0, <1>1 DEF IInv, DeletionInv, TypeOK
<1>4. /\ deletion'.context = deletion.context /\ deletion'.root = deletion.root
      /\ deletion'.left = IF deletion.root = NoContext THEN {}
                          ELSE FailFirst(deletion.context, deletion.root)
  BY <1>3 DEF ReturnDelete, Deletion
<1>5. ASSUME deletion'.left # {} PROVE ~Refused(DeletionRoot)'
  <2> DEFINE r == deletion.root
  <2>1. r # NoContext /\ ~Refused(r) /\ IsRoot(entries, r)
    BY <1>3, <1>4, <1>5 DEF FailFirst, IInv, DeletionInv
  <2>2. entries[deletion.context].parent = r /\ deletion.context \in DOMAIN entries
    BY <1>0, <1>1, <1>3 DEF IInv, DeletionInv, Shapes
  <2>3. r # frame.context
    BY <1>3, <2>1, <2>2 DEF IsRoot
  <2>4. r \in DOMAIN entries' /\ entries'[r] = entries[r]
    <3>1. ContextTables(entries)
      BY <1>0 DEF TypeOK
    <3>2. /\ DOMAIN entries' = DOMAIN entries \ {frame.context}
          /\ \A d \in DOMAIN entries' : entries'[d] = entries[d]
      BY <1>1, <3>1, RemoveContextFacts
    <3> QED
      BY <2>1, <2>3, <3>2 DEF IsRoot
  <2>5. RootOf(entries, r) = r /\ RootOf(entries', r) = r
    BY <2>1, <2>4 DEF RootOf, IsRoot, IsStream
  <2>6. vm_rejected' = NoContext /\ ~IsRejected(entries', r)
    BY <1>1, <2>1, <2>4, <2>5 DEF Refused, IsRejected, IsRoot
  <2>7. DeletionRoot' = r
    BY <1>4, <2>1 DEF DeletionRoot
  <2> QED
    BY <2>6, <2>7 DEF Refused
<1> QED
  BY <1>1, <1>2, <1>5 DEF ServeInv, RefusedRootServesNothing, Running, NoFrame, NoCallback,
     HttpCallback, TcpCallback

LEMMA ServeEmbedder ==
    ASSUME ServeInv, IInv, EmbedderNext
    PROVE  ServeInv'
<1>0. TypeOK /\ ContextTables(entries) /\ KeptEntries(entries, entries)
  BY DEF IInv, TypeOK, KeptEntries, SameTree
<1>1. ASSUME UNCHANGED <<entries, vm_rejected, frame, starting, deletion>> PROVE ServeInv'
  BY <1>0, <1>1, ServeKept
<1>2. ASSUME KeptEntries(entries, entries'), UNCHANGED <<vm_rejected, starting, deletion>>,
             ~Refused(frame'.context) \/ frame'.callback \in {"Done", "Log"},
             frame'.callback \notin HttpCallback \cup TcpCallback
      PROVE  ServeInv'
  BY <1>2, ServeKept
<1>3. ASSUME NEW c \in ContextId \cup {NoContext}, OnContextCreate(c) PROVE ServeInv'
  <2>1. /\ Idle /\ Creatable(c) /\ CreateAndRun(c)
        /\ UNCHANGED <<vm_rejected, deletion, starting>>
    BY <1>3 DEF OnContextCreate, Called
  <2> QED
    BY <2>1, ServeCreated DEF Idle
<1>4. ASSUME NEW p \in RootIds, Start(p) PROVE ServeInv'
  <2>1. /\ Idle /\ Creatable(NoContext) /\ CreateAndRun(NoContext)
        /\ UNCHANGED <<vm_rejected, deletion>> /\ starting'.root = next_context
    BY <1>4 DEF Start
  <2> QED
    BY <2>1, ServeCreated
<1> USE DEF contextVars, stackVars
<1>5. ASSUME NEW c \in ContextId, OnVmStart(c) \/ OnTick(c) PROVE ServeInv'
  <2>1. /\ UNCHANGED <<entries, vm_rejected, starting, deletion>> /\ ~Refused(frame'.context)
        /\ frame'.callback \in {"VmStart", "Tick"}
    BY <1>5 DEF OnVmStart, OnTick, RootAccepted, VmStart, RunPlain, Run
  <2> QED
    BY <1>0, <1>2, <2>1 DEF HttpCallback, TcpCallback
<1>6. ASSUME NEW c \in ContextId, NEW p \in RootIds, OnConfigure(c, p) PROVE ServeInv'
  <2>1. /\ entries' = SetPlugin(entries, c, p) /\ UNCHANGED <<vm_rejected, starting, deletion>>
        /\ ~Refused(frame'.context) /\ frame'.callback = "Configure"
    BY <1>6 DEF OnConfigure, RootAccepted, Configure, RunPlain, Run
  <2>2. KeptEntries(entries, entries')
    BY <1>0, <2>1, MarksKept DEF ContextState
  <2> QED
    BY <1>2, <2>1, <2>2 DEF HttpCallback, TcpCallback
<1>7. ASSUME NEW c \in ContextId, OnDone(c) \/ OnLog(c) PROVE ServeInv'
  <2>1. /\ UNCHANGED <<entries, vm_rejected, starting, deletion>>
        /\ UNCHANGED frame \/ frame'.callback \in {"Done", "Log"}
    BY <1>7 DEF OnDone, OnLog, RunPlain, Run
  <2> QED
    BY <1>0, <1>1, <1>2, <2>1 DEF HttpCallback, TcpCallback
<1>8. ASSUME NEW c \in ContextId, OnForeignFunction(c) PROVE ServeInv'
  <2>1. /\ UNCHANGED <<entries, vm_rejected, starting, deletion>> /\ ~Refused(frame'.context)
        /\ frame'.callback = "ForeignFunction"
    BY <1>8 DEF OnForeignFunction, Deliver, Run
  <2> QED
    BY <1>0, <1>2, <2>1 DEF HttpCallback, TcpCallback
<1>9. ASSUME NEW c \in ContextId, NEW cb \in HttpCallback \cup TcpCallback, OnStream(c, cb)
      PROVE  ServeInv'
  <2> DEFINE k == KindOf(cb)
  <2>1. /\ c \in DOMAIN entries /\ entries[c].stream_kind \in {NoKind, k} /\ ~Refused(c)
        /\ entries' = SetStreamKind(entries, c, k)
        /\ UNCHANGED <<vm_rejected, starting, deletion>>
        /\ frame'.context = c /\ frame'.callback = cb
    BY <1>9 DEF OnStream, IsStream, KindAllows, RunPlain, Run
  <2>2. k \in StreamKind
    BY DEF KindOf, StreamKind
  <2> HIDE DEF k
  <2>3. KeptEntries(entries, entries') /\ entries'[c].stream_kind = k
    BY <1>0, <2>1, <2>2, KindKept
  <2> QED
    BY <2>1, <2>3, ServeKept DEF k
<1>10. ASSUME NEW c \in ContextId, NEW k \in StreamKind, ExpectStreamKind(c, k) PROVE ServeInv'
  <2>1. /\ c \in DOMAIN entries /\ entries[c].stream_kind \in {NoKind, k}
        /\ entries' = SetStreamKind(entries, c, k)
        /\ UNCHANGED <<vm_rejected, frame, starting, deletion>>
    BY <1>10 DEF ExpectStreamKind, IsStream, KindAllows
  <2>2. KeptEntries(entries, entries')
    BY <1>0, <2>1, KindKept
  <2> QED
    BY <2>1, <2>2, ServeKept
<1>11. ASSUME NEW id \in CalloutId, NEW cb \in GrpcCallback, OnHttpCallResponse(id) \/ OnGrpc(id, cb)
       PROVE  ServeInv'
  <2>1. /\ UNCHANGED <<entries, vm_rejected, starting, deletion>> /\ ~Refused(frame'.context)
        /\ frame'.callback \in GrpcCallback \cup {"HttpCallResponse"}
    BY <1>11 DEF OnHttpCallResponse, OnGrpc, Deliverable, RootAccepted, Deliver, Run
  <2>2. (GrpcCallback \cup {"HttpCallResponse"}) \cap (HttpCallback \cup TcpCallback) = {}
    BY DEF GrpcCallback, HttpCallback, TcpCallback
  <2> QED
    BY <1>0, <1>2, <2>1, <2>2
<1>12. "GrpcClose" \in GrpcCallback
  BY DEF GrpcCallback
<1> QED
  BY <1>1, <1>3, <1>4, <1>5, <1>6, <1>7, <1>8, <1>9, <1>10, <1>11, <1>12, ServeOnDelete
     DEF EmbedderNext, Enter, Finish, DropScope, ForgetScope, TakeStream, RefuseCutGuest,
         StartRefused

LEMMA ServeHost ==
    ASSUME ServeInv, IInv, HostNext \/ GuestNext
    PROVE  ServeInv'
<1>0. TypeOK /\ Shapes /\ ContextTables(entries) /\ KeptEntries(entries, entries)
  BY TypeShapes DEF IInv, TypeOK, KeptEntries, SameTree
<1>1. ASSUME UNCHANGED <<entries, vm_rejected, frame, starting, deletion>> PROVE ServeInv'
  BY <1>0, <1>1, ServeKept
<1> USE DEF contextVars, stackVars
<1>2. CASE FailNext
  <2>1. /\ deletion.left # {} /\ UNCHANGED <<entries, vm_rejected, starting>>
        /\ deletion' = [deletion EXCEPT !.left = Rest(@)]
        /\ \/ UNCHANGED frame
           \/ frame'.context = DeletionRoot /\ frame'.callback \in {"HttpCallResponse", "GrpcClose"}
    BY <1>2 DEF FailNext, Deliver, Run, DeletionRoot
  <2>2. deletion \in Deletion
    BY <1>0, <2>1 DEF TypeOK, Shapes
  <2>3. deletion'.context = deletion.context /\ deletion'.root = deletion.root
    BY <2>1, <2>2 DEF Deletion
  <2>4. ~Refused(DeletionRoot)
    BY <2>1 DEF ServeInv
  <2>5. {"HttpCallResponse", "GrpcClose"} \cap (HttpCallback \cup TcpCallback) = {}
    BY DEF HttpCallback, TcpCallback
  <2> QED
    BY <1>0, <2>1, <2>3, <2>4, <2>5, ServeKept
<1>3. CASE CallDelete
  <2>1. UNCHANGED <<entries, vm_rejected, starting, deletion>> /\ frame'.callback = "Delete"
    BY <1>3 DEF CallDelete, RunPlain, Run
  <2> QED
    BY <1>0, <2>1, ServeKept DEF HttpCallback, TcpCallback
<1>4. CASE EndDelete
  <2>1. UNCHANGED <<entries, vm_rejected, starting, frame>> /\ deletion'.left = {}
    BY <1>4 DEF EndDelete, NoDeletion
  <2> QED
    BY <1>0, <2>1, ServeKept
<1>5. ASSUME starting.step \in {"VmStart", "Configure"} PROVE starting \in Starting /\ starting # NoStart
  BY <1>0, <1>5 DEF TypeOK, Shapes, NoCallback
<1>6. CASE StartVm
  <2>1. /\ UNCHANGED <<entries, vm_rejected, starting, deletion>> /\ frame'.context = starting.root
        /\ frame'.callback = "VmStart" /\ starting # NoStart
    BY <1>5, <1>6 DEF StartVm, VmStart, RunPlain, Run
  <2> QED
    BY <1>0, <2>1, ServeKept DEF HttpCallback, TcpCallback, ServeInv
<1>7. CASE StartRoot
  <2>1. /\ entries' = SetPlugin(entries, starting.root, starting.plugin)
        /\ UNCHANGED <<vm_rejected, starting, deletion>> /\ frame'.context = starting.root
        /\ frame'.callback = "Configure" /\ starting # NoStart /\ starting.plugin \in RootIds
    BY <1>5, <1>7 DEF StartRoot, Configure, RunPlain, Run, Starting
  <2>2. KeptEntries(entries, entries')
    BY <1>0, <2>1, MarksKept DEF ContextState
  <2> QED
    BY <2>1, <2>2, ServeKept DEF HttpCallback, TcpCallback, ServeInv
<1>8. CASE StartTooLarge
  <2>1. frame' = NoFrame /\ starting' = NoStart /\ starting # NoStart /\ UNCHANGED deletion
    BY <1>5, <1>8 DEF StartTooLarge, EndStart, Running
  <2>2. deletion.left = {}
    BY <1>0, <2>1 DEF IInv, StackInv, Shapes
  <2> QED
    BY <2>1, <2>2, ServeEnded
<1>9. CASE ProxyDone
  <2>1. /\ entries' = SetState(entries, effective, "Done")
        /\ UNCHANGED <<vm_rejected, frame, starting, deletion>>
    BY <1>9 DEF ProxyDone
  <2>2. KeptEntries(entries, entries')
    BY <1>0, <2>1, SetStateFacts DEF ContextState, KeptEntries
  <2> QED
    BY <2>1, <2>2, ServeKept
<1> QED
  BY <1>1, <1>2, <1>3, <1>4, <1>6, <1>7, <1>8, <1>9 DEF HostNext, GuestNext, OpenCallout,
     CloseStream, CancelCallout, ReadAnnounced, ProxySetEffectiveContext

LEMMA ServeReturn ==
    ASSUME ServeInv, IInv, ReturnNext
    PROVE  ServeInv'
<1>0. TypeOK /\ Shapes /\ ContextTables(entries) /\ KeptEntries(entries, entries)
  BY TypeShapes DEF IInv, TypeOK, KeptEntries, SameTree
<1> USE DEF contextVars, stackVars
<1>1. starting # NoStart => starting \in Starting
  BY <1>0 DEF TypeOK
<1>2. CASE ReturnPlain
  <2>1. /\ UNCHANGED <<entries, vm_rejected, deletion>> /\ frame' = NoFrame
        /\ starting' # NoStart => starting # NoStart /\ starting'.root = starting.root
    BY <1>1, <1>2 DEF ReturnPlain, PopFrame, Starting
  <2> QED
    BY <1>0, <2>1, ServeKept
<1>3. CASE ReturnAccept
  <2>1. /\ UNCHANGED <<entries, vm_rejected, deletion>> /\ frame' = NoFrame
        /\ starting' # NoStart => starting # NoStart /\ starting'.root = starting.root
    BY <1>1, <1>3 DEF ReturnAccept, PopFrame, Starting, EndStart
  <2> QED
    BY <1>0, <2>1, ServeKept
<1>4. ASSUME NEW s \in {"Done", "Pending", "NotBoolean"}, ReturnDone(s) PROVE ServeInv'
  <2>1. UNCHANGED <<vm_rejected, starting, deletion>> /\ frame' = NoFrame
    BY <1>4 DEF ReturnDone, PopFrame
  <2>2. KeptEntries(entries, entries')
    <3>1. CASE s \in ContextState
      BY <1>0, <1>4, <3>1, SetStateFacts DEF ReturnDone, KeptEntries
    <3> QED
      BY <1>0, <1>4, <3>1 DEF ReturnDone
  <2> QED
    BY <2>1, <2>2, ServeKept
<1>5. CASE ReturnDelivery
  <2>1. UNCHANGED <<entries, vm_rejected, starting>> /\ frame' = NoFrame
    BY <1>5 DEF ReturnDelivery, PopFrame
  <2>2. deletion' = deletion \/ (deletion \in Deletion /\ deletion' = [deletion EXCEPT !.ended = deletion'.ended])
    BY <1>0, <1>5 DEF ReturnDelivery, TypeOK, Deletion
  <2>3. /\ deletion'.context = deletion.context /\ deletion'.root = deletion.root
        /\ deletion'.left = deletion.left
    BY <2>2 DEF Deletion
  <2> QED
    BY <1>0, <2>1, <2>3, ServeKept
<1>6. ASSUME NEW boolean \in BOOLEAN, ReturnRefuse(boolean) PROVE ServeInv'
  <2>1. /\ UNCHANGED deletion /\ frame' = NoFrame /\ starting' = NoStart
        /\ frame.callback \in {"VmStart", "Configure"}
    BY <1>6 DEF ReturnRefuse, PopFrame, EndStart
  <2>2. deletion.left = {}
    BY <1>0, <2>1 DEF IInv, DeletionInv, DeliveryCallback, GrpcCallback, NoCallback, Shapes
  <2> QED
    BY <2>1, <2>2, ServeEnded
<1>7. CASE Trap \/ Panic
  <2>1. deletion' = NoDeletion /\ frame' = NoFrame /\ starting' = NoStart
    BY <1>7 DEF Trap, Panic, PopFrame, EndStart
  <2> QED
    BY <2>1, ServeEnded DEF NoDeletion
<1> QED
  BY <1>2, <1>3, <1>4, <1>5, <1>6, <1>7, ServeReturnDelete DEF ReturnNext

LEMMA ServeStep ==
    ASSUME ServeInv, IInv, [Next]_vars
    PROVE  ServeInv'
<1>1. CASE UNCHANGED vars
  <2>1. UNCHANGED <<entries, vm_rejected, frame, starting, deletion>>
    BY <1>1 DEF vars, contextVars, stackVars
  <2> QED
    BY <2>1, ServeKept DEF KeptEntries, SameTree
<1> QED
  BY <1>1, ServeEmbedder, ServeHost, ServeReturn DEF Next

LEMMA ServeHolds == Spec => []ServeInv
<1>1. Init => ServeInv
  BY DEF Init, ServeInv, RefusedRootServesNothing, Running, NoFrame, NoDeletion, NoCallback,
     HttpCallback, TcpCallback
<1>2. IInv /\ ServeInv /\ [Next]_vars => ServeInv'
  BY ServeStep
<1> QED
  BY <1>1, <1>2, GuestInvariant, PTL DEF Spec

\* Once a root or the VM was refused (on_vm_start, on_configure, start), a later
\* callback runs on it only to end it: proxy_on_done, proxy_on_log, proxy_on_delete.
\* It is not inductive: start and on_delete call the guest on a root they tested
\* some callbacks earlier, which ServeInv says is still accepted.
THEOREM GuestRefusedServesNothing == Spec => []RefusedRootServesNothing
<1>1. ServeInv => RefusedRootServesNothing
  BY DEF ServeInv
<1> QED
  BY <1>1, ServeHolds, PTL

\* What was recorded of a context stays recorded while it lives.
MarksLast(t, u) ==
    \A c \in DOMAIN t \cap DOMAIN u : /\ t[c].rejected => u[c].rejected
                                      /\ t[c].stream_kind \in {NoKind, u[c].stream_kind}

LEMMA LastingMarks ==
    ASSUME NEW t, ContextTables(t), NEW c
    PROVE  /\ MarksLast(t, t) /\ MarksLast(t, RemoveContext(t, c)) /\ MarksLast(t, Reject(t, c))
           /\ \A u : KeptEntries(t, u) => MarksLast(t, u)
<1>1. MarksLast(t, RemoveContext(t, c))
  <2>1. \A d \in DOMAIN RemoveContext(t, c) : RemoveContext(t, c)[d] = t[d]
    BY RemoveContextFacts
  <2> QED
    BY <2>1 DEF MarksLast
<1>2. MarksLast(t, Reject(t, c))
  BY RejectFacts DEF MarksLast
<1>3. \A u : KeptEntries(t, u) => MarksLast(t, u)
  BY DEF KeptEntries, MarksLast
<1> QED
  BY <1>1, <1>2, <1>3 DEF MarksLast

LEMMA EntryStep ==
    ASSUME IInv, [Next]_vars
    PROVE  MarksLast(entries, entries')
<1>0. TypeOK /\ Shapes /\ ContextTables(entries)
  BY TypeShapes DEF IInv, TypeOK
<1>1. ASSUME UNCHANGED entries PROVE MarksLast(entries, entries')
  BY <1>0, <1>1, LastingMarks
<1>2. ASSUME NEW parent, CreateAndRun(parent) PROVE MarksLast(entries, entries')
  <2>1. next_context \notin DOMAIN entries
    BY <1>0 DEF IInv, ContextTree, Shapes, ContextId
  <2>2. \A d \in DOMAIN entries : entries'[d] = entries[d]
    BY <1>2, <2>1 DEF CreateAndRun, CreateContext
  <2> QED
    BY <2>2 DEF MarksLast
<1>3. ASSUME NEW c, NEW s \in ContextState, entries' = SetState(entries, c, s)
      PROVE  MarksLast(entries, entries')
  BY <1>0, <1>3, SetStateFacts DEF MarksLast
<1>4. ASSUME NEW c, NEW p \in RootIds, entries' = SetPlugin(entries, c, p)
      PROVE  MarksLast(entries, entries')
  BY <1>0, <1>4, SetPluginFacts DEF MarksLast
<1>5. ASSUME NEW c \in DOMAIN entries, NEW k \in StreamKind, KindAllows(c, k),
             entries' = SetStreamKind(entries, c, k)
      PROVE  MarksLast(entries, entries')
  BY <1>0, <1>5, KindKept, LastingMarks DEF KindAllows
<1>6. ASSUME NEW step, NEW root, RefuseStart(step, root) PROVE MarksLast(entries, entries')
  BY <1>0, <1>6, LastingMarks DEF RefuseStart
<1> USE DEF contextVars
<1>7. CASE EmbedderNext
  <2>1. ASSUME NEW c \in ContextId \cup {NoContext}, OnContextCreate(c)
        PROVE  MarksLast(entries, entries')
    BY <1>2, <2>1 DEF OnContextCreate
  <2>2. ASSUME NEW p \in RootIds, Start(p) PROVE MarksLast(entries, entries')
    BY <1>2, <2>2 DEF Start
  <2>3. ASSUME NEW c \in ContextId, NEW p \in RootIds, OnConfigure(c, p)
        PROVE  MarksLast(entries, entries')
    BY <1>4, <2>3 DEF OnConfigure, Configure
  <2>4. ASSUME NEW c \in ContextId, NEW cb \in HttpCallback \cup TcpCallback, OnStream(c, cb)
        PROVE  MarksLast(entries, entries')
    <3>1. KindOf(cb) \in StreamKind
      BY DEF KindOf, StreamKind
    <3> QED
      BY <1>5, <2>4, <3>1 DEF OnStream, IsStream
  <2>5. ASSUME NEW c \in ContextId, NEW k \in StreamKind, ExpectStreamKind(c, k)
        PROVE  MarksLast(entries, entries')
    BY <1>5, <2>5 DEF ExpectStreamKind, IsStream
  <2> QED
    BY <1>1, <1>7, <2>1, <2>2, <2>3, <2>4, <2>5 DEF EmbedderNext, Enter, Finish, DropScope,
       ForgetScope, TakeStream, RefuseCutGuest, OnVmStart, OnTick, OnDone, OnLog, OnDelete,
       OnForeignFunction, OnHttpCallResponse, OnGrpc, StartRefused, VmStart
<1>8. CASE HostNext
  <2>1. CASE StartRoot
    <3>1. starting.plugin \in RootIds
      BY <1>0, <2>1 DEF StartRoot, TypeOK, Starting, Shapes, NoCallback
    <3> QED
      BY <1>4, <2>1, <3>1 DEF StartRoot, Configure
  <2>2. CASE StartTooLarge
    BY <1>6, <2>2 DEF StartTooLarge
  <2> QED
    BY <1>1, <1>8, <2>1, <2>2 DEF HostNext, FailNext, CallDelete, EndDelete, StartVm, VmStart
<1>9. CASE GuestNext
  <2>1. CASE ProxyDone
    BY <1>3, <2>1 DEF ProxyDone, ContextState
  <2> QED
    BY <1>1, <1>9, <2>1 DEF GuestNext, OpenCallout, CloseStream, CancelCallout, ReadAnnounced,
       ProxySetEffectiveContext
<1>10. CASE ReturnNext
  <2>1. CASE ReturnDelete
    BY <1>0, <2>1, LastingMarks DEF ReturnDelete
  <2>2. ASSUME NEW s \in {"Done", "Pending", "NotBoolean"}, ReturnDone(s)
        PROVE  MarksLast(entries, entries')
    BY <1>1, <1>3, <2>2 DEF ReturnDone
  <2>3. ASSUME NEW boolean \in BOOLEAN, ReturnRefuse(boolean) PROVE MarksLast(entries, entries')
    BY <1>1, <1>6, <2>3 DEF ReturnRefuse
  <2>4. CASE Trap
    BY <1>1, <1>6, <2>4 DEF Trap
  <2> QED
    BY <1>1, <1>10, <2>1, <2>2, <2>3, <2>4 DEF ReturnNext, ReturnPlain, ReturnAccept,
       ReturnDelivery, Panic
<1>11. CASE UNCHANGED vars
  BY <1>1, <1>11 DEF vars
<1> QED
  BY <1>7, <1>8, <1>9, <1>10, <1>11 DEF Next

\* A stream context sees the callbacks of one family (require_stream_kind), also
\* when expect_stream_kind named it before the first callback, and across scopes.
THEOREM GuestOneFamily == Spec => OneFamilyPerStream
<1>1. IInv /\ ServeInv /\ ServeInv' /\ [Next]_vars =>
        [/\ \A c \in DOMAIN entries \cap DOMAIN entries' :
               entries[c].stream_kind \in {NoKind, entries'[c].stream_kind}
         /\ frame'.callback \in HttpCallback \cup TcpCallback =>
               entries'[frame'.context].stream_kind = KindOf(frame'.callback)]_vars
  <2> SUFFICES ASSUME IInv, ServeInv', [Next]_vars
               PROVE  /\ \A c \in DOMAIN entries \cap DOMAIN entries' :
                            entries[c].stream_kind \in {NoKind, entries'[c].stream_kind}
                      /\ frame'.callback \in HttpCallback \cup TcpCallback =>
                            entries'[frame'.context].stream_kind = KindOf(frame'.callback)
    OBVIOUS
  <2>1. MarksLast(entries, entries')
    BY EntryStep
  <2> QED
    BY <2>1 DEF MarksLast, ServeInv
<1> QED
  BY <1>1, GuestInvariant, ServeHolds, PTL DEF Spec, OneFamilyPerStream

\* Which root refused the VM is settled once: start and on_vm_start do not run on a
\* refused guest.
LEMMA VmRefusalStep ==
    ASSUME IInv, ServeInv, [Next]_vars, vm_rejected # NoContext
    PROVE  vm_rejected' = vm_rejected
<1>0. TypeOK /\ Shapes
  BY TypeShapes DEF IInv
<1>1. starting = NoStart /\ starting.step = NoCallback
  BY <1>0 DEF ServeInv, Refused, Shapes
<1>2. frame.callback \notin {"VmStart", "Configure"}
  BY <1>0 DEF ServeInv, RefusedRootServesNothing, Refused, Running, Shapes, NoCallback
<1> USE DEF contextVars
<1>3. CASE EmbedderNext
  BY <1>3 DEF EmbedderNext, Enter, Finish, DropScope, ForgetScope, TakeStream, RefuseCutGuest,
     OnContextCreate, OnVmStart, OnTick, OnDone, OnLog, OnDelete, OnForeignFunction,
     OnConfigure, OnStream, ExpectStreamKind, OnHttpCallResponse, OnGrpc, Start, StartRefused
<1>4. CASE HostNext
  BY <1>1, <1>4 DEF HostNext, FailNext, CallDelete, EndDelete, StartVm, StartRoot,
     StartTooLarge, NoCallback
<1>5. CASE GuestNext
  BY <1>5 DEF GuestNext, OpenCallout, CloseStream, CancelCallout, ReadAnnounced, ProxyDone,
     ProxySetEffectiveContext
<1>6. CASE ReturnNext
  BY <1>1, <1>2, <1>6 DEF ReturnNext, ReturnPlain, ReturnAccept, ReturnDelivery, ReturnDelete,
     ReturnDone, ReturnRefuse, Trap, Panic
<1>7. CASE UNCHANGED vars
  BY <1>7 DEF vars
<1> QED
  BY <1>3, <1>4, <1>5, <1>6, <1>7 DEF Next

\* A callout that appears was put back by a trap, or is opened for a root that is
\* not refused: open_callout tests the context the guest acts on, whose root is it.
LEMMA AppearingCallouts ==
    ASSUME IInv, [Next]_vars, NEW id \in DOMAIN open' \ DOMAIN open
    PROVE  poisoned' \/ ~Refused(open'[id].root)
<1>1. CASE Shrinks
  BY <1>1 DEF Shrinks
<1>2. CASE Trap
  BY <1>2 DEF Trap
<1>3. ASSUME NEW kind \in CalloutKind, OpenCallout(kind, TRUE)
      PROVE  ~Refused(open'[id].root)
  <2> DEFINE root == RootOf(entries, effective)
  <2>1. Acting /\ open' = EnterCallout(open, next_callout, NewCallout(kind, effective, root))
    BY <1>3 DEF OpenCallout
  <2>2. open'[id].root = root
    BY <2>1 DEF EnterCallout, NewCallout
  <2>3. effective \in DOMAIN entries /\ ~Refused(effective)
    BY <2>1 DEF Acting, IInv, RootIsolation
  <2>4. RootOf(entries, root) = root
    BY <2>3 DEF IInv, ContextTree, RootOf, IsRoot, IsStream
  <2> QED
    BY <2>2, <2>3, <2>4 DEF Refused, IsRejected
<1> QED
  BY <1>1, <1>2, <1>3, OpenForms

\* A refusal is final (vm_rejected, ContextEntry.rejected): later calls of start,
\* on_vm_start and on_configure take nothing back, and no callout is opened for a
\* refused root.
THEOREM GuestRefusalFinal == Spec => RefusalIsFinal
<1>1. IInv /\ ServeInv /\ [Next]_vars =>
        [/\ vm_rejected # NoContext => vm_rejected' = vm_rejected
         /\ \A c \in DOMAIN entries \cap DOMAIN entries' :
               entries[c].rejected => entries'[c].rejected
         /\ \A id \in DOMAIN open' \ DOMAIN open :
               poisoned' \/ ~Refused(open'[id].root)]_vars
  <2> SUFFICES ASSUME IInv, ServeInv, [Next]_vars
               PROVE  /\ vm_rejected # NoContext => vm_rejected' = vm_rejected
                      /\ \A c \in DOMAIN entries \cap DOMAIN entries' :
                            entries[c].rejected => entries'[c].rejected
                      /\ \A id \in DOMAIN open' \ DOMAIN open :
                            poisoned' \/ ~Refused(open'[id].root)
    OBVIOUS
  <2>1. MarksLast(entries, entries')
    BY EntryStep
  <2> QED
    BY <2>1, VmRefusalStep, AppearingCallouts DEF MarksLast
<1> QED
  BY <1>1, GuestInvariant, ServeHolds, PTL DEF Spec, RefusalIsFinal

LEMMA EndsStep ==
    ASSUME IInv, EndsInv, [Next]_vars
    PROVE  EndsInv'
<1>0. TypeOK /\ Shapes /\ CalloutTables(open)
  BY TypeShapes DEF IInv, TypeOK
<1>1. ASSUME Shrinks, deletion'.removed = deletion.removed, deletion'.left = deletion.left,
             deletion'.context = deletion.context
      PROVE  EndsInv'
  BY <1>1 DEF Shrinks, EndsInv, MadeBy
<1>2. ASSUME ~deletion'.removed PROVE EndsInv'
  BY <1>2 DEF EndsInv
<1>3. ASSUME NEW kind \in CalloutKind, OpenCallout(kind, TRUE) PROVE EndsInv'
  <2>1. /\ UNCHANGED deletion /\ effective \in DOMAIN entries
        /\ open' = EnterCallout(open, next_callout,
                       NewCallout(kind, effective, RootOf(entries, effective)))
    BY <1>3 DEF OpenCallout, Acting, stackVars, IInv, RootIsolation
  <2>2. ASSUME deletion.removed PROVE deletion.context # effective
    BY <1>0, <2>1, <2>2 DEF IInv, DeletionInv, Shapes
  <2>3. ASSUME deletion.removed PROVE MadeBy(open', deletion.context) \subseteq MadeBy(open, deletion.context)
    BY <2>1, <2>2, <2>3 DEF MadeBy, EnterCallout, NewCallout
  <2> QED
    BY <2>1, <2>3 DEF EndsInv
<1>4. CASE Trap \/ Panic
  BY <1>2, <1>4 DEF Trap, Panic, NoDeletion
<1>5. CASE FailNext
  <2>1. /\ deletion' = [deletion EXCEPT !.left = deletion.left \ {First(deletion.left)}]
        /\ \/ open' = RemoveCallouts(open, {First(deletion.left)})
           \/ open' = open /\ First(deletion.left) \notin DOMAIN open
    BY <1>5 DEF FailNext, Rest, Deliver
  <2>2. deletion \in Deletion
    BY <1>0, <1>5 DEF FailNext, TypeOK, Shapes
  <2>3. /\ deletion'.left = deletion.left \ {First(deletion.left)}
        /\ deletion'.removed = deletion.removed /\ deletion'.context = deletion.context
    BY <2>1, <2>2 DEF Deletion
  <2>4. /\ First(deletion.left) \notin DOMAIN open' /\ DOMAIN open' \subseteq DOMAIN open
        /\ \A i \in DOMAIN open' : open'[i] = open[i]
    <3>1. CASE open' = RemoveCallouts(open, {First(deletion.left)})
      <4>1. /\ DOMAIN open' = DOMAIN open \ {First(deletion.left)}
            /\ \A i \in DOMAIN open' : open'[i] = open[i]
        BY <1>0, <3>1, RemoveCalloutsFacts
      <4> QED
        BY <4>1
    <3> QED
      BY <2>1, <3>1
  <2> QED
    BY <2>3, <2>4 DEF EndsInv, MadeBy
<1>6. CASE ReturnDelete
  <2>1. deletion # NoDeletion /\ deletion \in Deletion /\ deletion.left = {}
    BY <1>0, <1>6 DEF ReturnDelete, IInv, DeletionInv, TypeOK
  <2>2. CASE deletion.root = NoContext
    <3>1. MadeBy(open, deletion.context) = {}
      BY <2>1, <2>2 DEF IInv, DeletionInv
    <3>2. deletion'.context = deletion.context /\ open' = RemoveCallouts(open, {})
      BY <1>6, <2>1, <2>2 DEF ReturnDelete, Deletion
    <3>3. DOMAIN open' \subseteq DOMAIN open /\ \A i \in DOMAIN open' : open'[i] = open[i]
      BY <1>0, <3>2, RemoveCalloutsFacts
    <3>4. MadeBy(open', deletion.context) = {}
      BY <3>1, <3>3 DEF MadeBy
    <3> QED
      BY <3>2, <3>4 DEF EndsInv
  <2>3. CASE deletion.root # NoContext
    <3>1. /\ deletion'.context = deletion.context
          /\ deletion'.left = FailFirst(deletion.context, deletion.root)
          /\ open' = RemoveCallouts(open, DropFirst(deletion.context, deletion.root))
      BY <1>6, <2>1, <2>3 DEF ReturnDelete, Deletion
    <3>2. /\ DOMAIN open' = DOMAIN open \ DropFirst(deletion.context, deletion.root)
          /\ \A i \in DOMAIN open' : open'[i] = open[i]
      BY <1>0, <3>1, RemoveCalloutsFacts
    <3> QED
      BY <3>1, <3>2 DEF EndsInv, MadeBy, FailFirst, DropFirst
  <2> QED
    BY <2>2, <2>3
<1>7. CASE Shrinks /\ ~(Trap \/ Panic \/ FailNext \/ ReturnDelete)
  <2> USE DEF stackVars
  <2>1. ASSUME UNCHANGED deletion PROVE EndsInv'
    BY <1>1, <1>7, <2>1
  <2>2. ASSUME NEW c \in ContextId, OnDelete(c) PROVE EndsInv'
    BY <1>2, <2>1, <2>2 DEF OnDelete
  <2>3. CASE EndDelete
    BY <1>2, <2>3 DEF EndDelete, NoDeletion
  <2>4. CASE ReturnDelivery
    <3>1. deletion' = deletion \/ (deletion \in Deletion /\ deletion' = [deletion EXCEPT !.ended = deletion'.ended])
      BY <1>0, <2>4 DEF ReturnDelivery, TypeOK, Deletion
    <3> QED
      BY <1>1, <1>7, <3>1 DEF Deletion
  <2>5. CASE EmbedderNext
    BY <2>1, <2>2, <2>5 DEF EmbedderNext, Enter, Finish, DropScope, ForgetScope, TakeStream,
       RefuseCutGuest, OnContextCreate, OnVmStart, OnTick, OnDone, OnLog, OnForeignFunction,
       OnConfigure, OnStream, ExpectStreamKind, OnHttpCallResponse, OnGrpc, Start, StartRefused
  <2>6. CASE HostNext
    BY <1>7, <2>1, <2>3, <2>6 DEF HostNext, CallDelete, StartVm, StartRoot, StartTooLarge
  <2>7. CASE GuestNext
    BY <2>1, <2>7 DEF GuestNext, OpenCallout, CloseStream, CancelCallout, ReadAnnounced, ProxyDone,
       ProxySetEffectiveContext
  <2>8. CASE ReturnNext
    BY <1>7, <2>1, <2>4, <2>8 DEF ReturnNext, ReturnPlain, ReturnAccept, ReturnDone, ReturnRefuse
  <2>9. CASE UNCHANGED vars
    BY <2>1, <2>9 DEF vars
  <2> QED
    BY <2>5, <2>6, <2>7, <2>8, <2>9 DEF Next
<1> QED
  BY <1>3, <1>4, <1>5, <1>6, <1>7, OpenForms

\* How a callout may leave the table.
Heard(id) ==
    \/ frame'.callout = id /\ frame'.saved = open[id]
    \/ Running /\ id \notin DOMAIN requests'
    \/ Refused(open[id].root)

\* A callout that leaves the table leaves it for a delivery, by the guest's own
\* cancel, or because its root was refused; EndDelete finds none left to drop.
LEMMA VanishingCallouts ==
    ASSUME IInv, EndsInv, [Next]_vars, NEW id \in DOMAIN open \ DOMAIN open'
    PROVE  Heard(id)
<1>0. TypeOK /\ Shapes /\ CalloutTables(open) /\ RequestTables(requests)
  BY TypeShapes DEF IInv, TypeOK
<1>1. ASSUME UNCHANGED open PROVE FALSE
  BY <1>1
<1>2. ASSUME NEW callback, NEW c, NEW callout, NEW ends, Deliver(callback, c, callout, ends)
      PROVE  Heard(id)
  <2>1. ends /\ open' = RemoveCallouts(open, {callout})
    BY <1>2 DEF Deliver
  <2>2. callout = id
    BY <1>0, <2>1, RemoveCalloutsFacts
  <2> QED
    BY <1>2, <2>1, <2>2 DEF Deliver, Run, Heard
<1>3. ASSUME NEW c \in ContextId, OnDelete(c) PROVE Refused(open[id].root)
  <2>1. /\ IsRoot(entries, c) /\ open' = RemoveCallouts(open, DropFirst(c, c))
        /\ Called
    <3>1. Deletable(c) /\ Called
      BY <1>1, <1>3 DEF OnDelete
    <3>2. CASE IsRoot(entries, c)
      BY <1>3, <3>1, <3>2 DEF OnDelete
    <3>3. CASE ~IsRoot(entries, c)
      <4>1. open' = RemoveCallouts(open, {})
        BY <1>3, <3>1, <3>3 DEF OnDelete
      <4> QED
        BY <1>0, <4>1, RemoveCalloutsFacts
    <3> QED
      BY <3>1, <3>2, <3>3
  <2>2. id \in DropFirst(c, c)
    BY <1>0, <2>1, RemoveCalloutsFacts
  <2>3. Refused(c) /\ open[id].caller = c
    BY <2>2 DEF DropFirst, MadeBy
  <2>4. Sound /\ ~deletion.removed
    BY <1>0, <2>1 DEF Called, Live, Sound, Idle, Shapes
  <2>5. RootOf(entries, c) = open[id].root
    BY <2>3, <2>4 DEF IInv, CalloutsOwned
  <2> QED
    BY <2>1, <2>3, <2>5 DEF RootOf, IsRoot, IsStream
<1>4. CASE ReturnDelete
  <2>1. /\ deletion # NoDeletion /\ ~deletion.removed /\ Running
        /\ frame.context = deletion.context
    BY <1>0, <1>4 DEF ReturnDelete, IInv, DeletionInv, Running, NoFrame, NoCallback
  <2>2. /\ deletion.root # NoContext
        /\ open' = RemoveCallouts(open, DropFirst(deletion.context, deletion.root))
    <3>1. CASE deletion.root # NoContext
      BY <1>4, <3>1 DEF ReturnDelete
    <3>2. CASE deletion.root = NoContext
      <4>1. open' = RemoveCallouts(open, {})
        BY <1>4, <3>2 DEF ReturnDelete
      <4> QED
        BY <1>0, <4>1, RemoveCalloutsFacts
    <3> QED
      BY <3>1, <3>2
  <2>3. id \in DropFirst(deletion.context, deletion.root)
    <3> DEFINE dropped == DropFirst(deletion.context, deletion.root)
    <3>1. open' = RemoveCallouts(open, dropped)
      BY <2>2
    <3> HIDE DEF dropped
    <3>2. DOMAIN open' = DOMAIN open \ dropped
      BY <1>0, <3>1, RemoveCalloutsFacts
    <3> QED
      BY <3>2 DEF dropped
  <2>4. Refused(deletion.root) /\ open[id].caller = deletion.context
    BY <2>3 DEF DropFirst, MadeBy
  <2>5. Sound
    BY <2>1 DEF IInv, StackInv, Sound, Idle
  <2>6. RootOf(entries, deletion.context) = open[id].root
    BY <2>1, <2>4, <2>5 DEF IInv, CalloutsOwned
  <2>7. deletion.context \in DOMAIN entries /\ entries[deletion.context].parent = deletion.root
    BY <1>0, <2>1 DEF IInv, DeletionInv, Shapes
  <2> QED
    BY <2>2, <2>4, <2>6, <2>7 DEF RootOf, IsRoot, IsStream, Heard
<1>5. CASE EndDelete
  <2>1. /\ deletion.removed /\ deletion.left = {}
        /\ open' = RemoveCallouts(open, MadeBy(open, deletion.context))
    BY <1>5 DEF EndDelete
  <2>2. MadeBy(open, deletion.context) = {}
    BY <2>1 DEF EndsInv
  <2>3. DOMAIN open' = DOMAIN open \ MadeBy(open, deletion.context)
    BY <1>0, <2>1, RemoveCalloutsFacts
  <2> QED
    BY <2>2, <2>3
<1>6. ASSUME NEW callout \in CalloutId, CancelCallout(callout) PROVE Heard(id)
  <2>1. /\ Running /\ open' = RemoveCallouts(open, {callout})
        /\ requests' = RemoveCallouts(requests, {callout})
    BY <1>6 DEF CancelCallout, FindOpen
  <2>2. callout = id
    BY <1>0, <2>1, RemoveCalloutsFacts
  <2>3. DOMAIN requests' = DOMAIN requests \ {callout}
    BY <1>0, <2>1, RemoveRequestsFacts
  <2> QED
    BY <2>1, <2>2, <2>3 DEF Heard
<1>7. ASSUME NEW callout \in CalloutId, CloseStream(callout) PROVE FALSE
  <2>1. callout \in DOMAIN open /\ open' = CloseByGuest(open, callout)
    BY <1>7 DEF CloseStream, FindOpen
  <2> QED
    BY <1>0, <2>1, CloseByGuestFacts
<1>8. ASSUME NEW callout, NEW x, open' = EnterCallout(open, callout, x) PROVE FALSE
  BY <1>8 DEF EnterCallout
<1> USE DEF calloutVars
<1>9. CASE EmbedderNext
  <2>1. ASSUME NEW c \in ContextId, OnForeignFunction(c) PROVE Heard(id)
    BY <1>2, <2>1 DEF OnForeignFunction
  <2>2. ASSUME NEW callout \in CalloutId,
               OnHttpCallResponse(callout) \/ \E cb \in GrpcCallback : OnGrpc(callout, cb)
        PROVE  Heard(id)
    BY <1>2, <2>2 DEF OnHttpCallResponse, OnGrpc
  <2>3. ASSUME NEW c \in ContextId, OnDelete(c) PROVE Heard(id)
    BY <1>3, <2>3 DEF Heard
  <2> QED
    BY <1>1, <1>9, <2>1, <2>2, <2>3 DEF EmbedderNext, Enter, Finish, DropScope, ForgetScope,
       TakeStream, RefuseCutGuest, OnContextCreate, OnVmStart, OnTick, OnDone, OnLog, OnConfigure,
       OnStream, ExpectStreamKind, Start, StartRefused
<1>10. CASE HostNext
  <2>1. CASE FailNext
    BY <1>1, <1>2, <2>1 DEF FailNext
  <2> QED
    BY <1>1, <1>5, <1>10, <2>1 DEF HostNext, CallDelete, StartVm, StartRoot, StartTooLarge
<1>11. CASE GuestNext
  BY <1>1, <1>6, <1>7, <1>8, <1>11 DEF GuestNext, OpenCallout, ReadAnnounced, ProxyDone,
     ProxySetEffectiveContext
<1>12. CASE ReturnNext
  <2>1. CASE ReturnDelete
    BY <1>4, <2>1 DEF Heard
  <2> QED
    BY <1>1, <1>8, <1>12, <2>1 DEF ReturnNext, ReturnPlain, ReturnAccept, ReturnDelivery, ReturnDone,
       ReturnRefuse, Trap, RestoreSaved, Panic
<1>13. CASE UNCHANGED vars
  BY <1>1, <1>13 DEF vars
<1> QED
  BY <1>9, <1>10, <1>11, <1>12, <1>13 DEF Next

\* No callout ends in silence (deliver, fail_open_callouts, drop_open_callouts): the
\* guest is told, or it ended the callout itself, or its root was refused.  The drop
\* at the end of on_delete is never a silent one: by EndsInv it finds nothing.
THEOREM GuestHearsEnds == Spec => GuestHearsEveryEnd
<1>1. Init => EndsInv
  BY DEF Init, EndsInv, NoDeletion
<1>2. IInv /\ EndsInv /\ [Next]_vars => EndsInv'
  BY EndsStep
<1>3. IInv /\ EndsInv /\ [Next]_vars =>
        [\A id \in DOMAIN open \ DOMAIN open' :
            \/ frame'.callout = id /\ frame'.saved = open[id]
            \/ Running /\ id \notin DOMAIN requests'
            \/ Refused(open[id].root)]_vars
  BY VanishingCallouts DEF Heard
<1> QED
  BY <1>1, <1>2, <1>3, GuestInvariant, PTL DEF Spec, GuestHearsEveryEnd
=============================================================================
