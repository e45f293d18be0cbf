---------------------------- MODULE SharedGuests ----------------------------
(***************************************************************************)
(* Guests on threads of their own that use shared stores: the shared data, *)
(* queue, metric and timer host functions (host_functions), the grants that *)
(* stand between a guest and a store's small identifiers (state.rs), the    *)
(* changes an embedder reads back, and on_queue_ready.                      *)
(*                                                                          *)
(* What a host function does to its own guest is seen by no other thread, so *)
(* a function that enters a store once is one action.  Two are more: an      *)
(* enqueue calls the observer after it released the store, and a dequeue     *)
(* writes the item to the guest after the item left the queue.               *)
(***************************************************************************)
EXTENDS SharedStore

CONSTANTS
    Guest,          \* the guests, one thread each
    Store,          \* the shared services, by address
    Unserved,       \* the stores with the default bodies of SharedServices
    LongName,       \* the names over max_name_bytes
    Root,           \* root contexts
    Period,         \* tick periods but zero
    Delta,          \* arguments of proxy_increment_metric
    MaxSharedNames, \* Limits::max_shared_names
    MaxWrites       \* how often a key is written (a bound)

ASSUME SharedGuestsAssumption ==
    /\ Unserved \subseteq Store /\ LongName \subseteq Name
    /\ Delta \subseteq Int /\ {MaxSharedNames, MaxWrites} \subseteq Nat
    /\ Period \subseteq Nat \ {0} /\ Store \subseteq Nat \ {0}
    /\ "NoRoot" \notin Root

VARIABLES
    data, queues, metrics,  \* the three families of every store
    services,               \* of every guest: VM id and store
    grants,                 \* of every guest: AbiState's queues, metrics,
                            \* held_names, registrants, granted_against
    changes,                \* of every guest: what take_changes answers
    roots, tick,            \* of every guest: its roots and their periods
    serving, ready,         \* of every guest: the root whose callback runs, and
                            \* the queue on_queue_ready told it of
    call,                   \* of every guest: the host call in the middle
    poisoned,
    known,                  \* what each embedder learned from take_changes
    sent, noticed, received, lost,  \* the items so far, for the properties
    writes, seen            \* writes of every key, and what a guest last read

storeVars == <<data, queues, metrics>>
guestVars == <<grants, changes, tick>>
embedderVars == <<services, roots, known>>
controlVars == <<serving, ready, call, poisoned>>
itemVars  == <<sent, noticed, received, lost>>
casVars   == <<writes, seen>>
vars == <<storeVars, guestVars, embedderVars, controlVars, itemVars, casVars>>

NoRoot  == "NoRoot"
NoStore == 0
NoCall  == [op |-> "None"]
NoTicks == [r \in {} |-> 0]
NoRead  == [store |-> NoStore]

Services == [vm : VmId, store : Store]
SharedName ==
    [as : {"Registered"}, name : Name] \cup [as : {"Resolved"}, key : Key]
    \cup [as : {"Metric"}, kind : MetricKind, name : Name]
Grants ==
    [against : Store \cup {NoStore}, queues : SUBSET QueueId, metrics : SUBSET MetricId,
     names : SUBSET SharedName, registrants : SUBSET (QueueId \X Root)]
NoGrants(s) ==
    [against |-> s, queues |-> {}, metrics |-> {}, names |-> {}, registrants |-> {}]
NoChanges == [ticks |-> NoTicks, queues |-> {}]
Calls == {NoCall} \cup [op : {"Observe"}, item : Item]
                  \cup [op : {"Return"}, item : Item]

TypeOK ==
    /\ \A s \in Store :
          /\ DOMAIN data[s] \subseteq Key
          /\ \A k \in DOMAIN data[s] : data[s][k] \in [value : Item, cas : 1..MaxCas]
          /\ DOMAIN queues[s].by_name \subseteq Key
          /\ \A q \in DOMAIN queues[s].items : queues[s].items[q] \in Seq(Item)
          /\ \A m \in DOMAIN metrics[s].entries :
                metrics[s].entries[m] \in [kind : MetricKind, value : 0..MaxMetric]
    /\ services \in [Guest -> Services]
    /\ grants \in [Guest -> Grants]
    /\ \A g \in Guest :
          /\ changes[g].queues \subseteq QueueId \X Root \X Name
          /\ changes[g].ticks \in [DOMAIN changes[g].ticks -> Period \cup {0}]
    /\ roots \in [Guest -> [Root -> {"New", "Live", "Rejected", "Gone"}]]
    /\ tick \in [Guest -> [Root -> Period \cup {0}]]
    /\ serving \in [Guest -> Root \cup {NoRoot}]
    /\ ready \in [Guest -> QueueId \cup {NoId}]
    /\ call \in [Guest -> Calls]
    /\ poisoned \in [Guest -> BOOLEAN]
    /\ {sent, noticed, received, lost} \subseteq SUBSET Item

Init ==
    /\ data = [s \in Store |-> EmptyData]
    /\ queues = [s \in Store |-> EmptyQueues]
    /\ metrics = [s \in Store |-> EmptyMetrics]
    /\ services \in [Guest -> Services]
    /\ grants = [g \in Guest |-> NoGrants(NoStore)]
    /\ changes = [g \in Guest |-> NoChanges]
    /\ roots = [g \in Guest |-> [r \in Root |-> "New"]]
    /\ tick = [g \in Guest |-> [r \in Root |-> 0]]
    /\ serving = [g \in Guest |-> NoRoot]
    /\ ready = [g \in Guest |-> NoId]
    /\ call = [g \in Guest |-> NoCall]
    /\ poisoned = [g \in Guest |-> FALSE]
    /\ known = [g \in Guest |-> [queues |-> {}, ticks |-> [r \in Root |-> 0]]]
    /\ sent = {} /\ noticed = {} /\ received = {} /\ lost = {}
    /\ writes = [s \in Store |-> [k \in Key |-> 0]]
    /\ seen = [g \in Guest |-> NoRead]

-----------------------------------------------------------------------------
(***************************************************************************)
(* The embedder, between callbacks                                         *)
(***************************************************************************)
Idle(g) == serving[g] = NoRoot /\ ~poisoned[g]

\* A change through services_mut.
ReplaceServices(g, new) ==
    /\ Idle(g) /\ new # services[g]
    /\ services' = [services EXCEPT ![g] = new]
    /\ UNCHANGED <<storeVars, guestVars, roots, known, controlVars, itemVars, casVars>>

\* grants_are_current.
Current(g) == grants[g].against = services[g].store

\* queue_registrants.
Registrants(g, q) == {r \in Root : Current(g) /\ <<q, r>> \in grants[g].registrants}

\* A root's life, of which the callbacks that are no business of the shared
\* state are left out.
CreateRoot(g, r) ==
    /\ Idle(g) /\ roots[g][r] = "New"
    /\ roots' = [roots EXCEPT ![g][r] = "Live"]
    /\ UNCHANGED <<storeVars, guestVars, services, known, controlVars, itemVars, casVars>>

RejectRoot(g, r) ==
    /\ Idle(g) /\ roots[g][r] = "Live"
    /\ roots' = [roots EXCEPT ![g][r] = "Rejected"]
    /\ UNCHANGED <<storeVars, guestVars, services, known, controlVars, itemVars, casVars>>

\* Mutant: a deleted root stays in the queues it registered.
WithoutRootKept(registrants, r) == registrants

\* forget_registrant.
WithoutRoot(registrants, r) == {p \in registrants : p[2] # r}

\* The end of on_delete of a root.
DeleteRoot(g, r) ==
    /\ Idle(g) /\ roots[g][r] \in {"Live", "Rejected"}
    /\ roots' = [roots EXCEPT ![g][r] = "Gone"]
    /\ tick' = [tick EXCEPT ![g][r] = 0]
    /\ grants' = [grants EXCEPT ![g].registrants = WithoutRoot(@, r)]
    /\ UNCHANGED <<storeVars, changes, services, known, controlVars, itemVars, casVars>>

\* Any callback of root r or of one of its streams.  A callback that turns to
\* the context of another root is here a callback that returns, and one of that
\* root.
RunCallback(g, r) ==
    /\ Idle(g) /\ roots[g][r] \in {"Live", "Rejected"}
    /\ serving' = [serving EXCEPT ![g] = r]
    /\ UNCHANGED <<storeVars, guestVars, embedderVars, ready, call, poisoned, itemVars,
                   casVars>>

\* on_queue_ready.
OnQueueReady(g, r, q) ==
    /\ Idle(g) /\ roots[g][r] = "Live"
    /\ r \in Registrants(g, q)
    /\ serving' = [serving EXCEPT ![g] = r]
    /\ ready' = [ready EXCEPT ![g] = q]
    /\ UNCHANGED <<storeVars, guestVars, embedderVars, call, poisoned, itemVars, casVars>>

\* take_changes, and what the embedder keeps of it.
TakeChanges(g) ==
    LET told  == IF Current(g) THEN changes[g].queues ELSE {}
        ticks == changes[g].ticks
    IN  /\ serving[g] = NoRoot
        /\ changes[g] # NoChanges
        /\ changes' = [changes EXCEPT ![g] = NoChanges]
        /\ known' = [known EXCEPT
              ![g].queues = @ \cup {<<services[g].store, t[1], t[2]>> : t \in told},
              ![g].ticks  = [r \in Root |-> IF r \in DOMAIN ticks THEN ticks[r] ELSE @[r]]]
        /\ UNCHANGED <<storeVars, grants, tick, services, roots, controlVars, itemVars,
                       casVars>>

\* A poisoned guest is replaced by a new one, which holds nothing; the stores
\* keep what the old one left in them.
Rebuild(g, new) ==
    /\ poisoned[g]
    /\ poisoned' = [poisoned EXCEPT ![g] = FALSE]
    /\ services' = [services EXCEPT ![g] = new]
    /\ grants' = [grants EXCEPT ![g] = NoGrants(NoStore)]
    /\ changes' = [changes EXCEPT ![g] = NoChanges]
    /\ roots' = [roots EXCEPT ![g] = [r \in Root |-> "New"]]
    /\ tick' = [tick EXCEPT ![g] = [r \in Root |-> 0]]
    /\ known' = [known EXCEPT ![g] = [queues |-> {}, ticks |-> [r \in Root |-> 0]]]
    /\ seen' = [seen EXCEPT ![g] = NoRead]
    /\ UNCHANGED <<storeVars, serving, ready, call, itemVars, writes>>

-----------------------------------------------------------------------------
(***************************************************************************)
(* What the host functions share (host_functions/call.rs, bounds.rs)       *)
(***************************************************************************)
Running(g) == serving[g] # NoRoot /\ call[g] = NoCall

\* `context' refuses a rejected root.
Accepted(g) == roots[g][serving[g]] = "Live"

\* Mutant: only the queues are dropped.
SettledQueues(g) ==
    IF Current(g) THEN grants[g]
    ELSE [grants[g] EXCEPT !.against = services[g].store, !.queues = {}, !.names = {},
                           !.registrants = {}]

\* settle_grants.
Settled(g) == IF Current(g) THEN grants[g] ELSE NoGrants(services[g].store)
SettledChanges(g) == IF Current(g) THEN changes[g] ELSE [changes[g] EXCEPT !.queues = {}]

\* Mutant: the limit is tested after the new name.
MayHoldLate(own, name) ==
    \/ name \in own.names
    \/ Cardinality(own.queues) + Cardinality(own.metrics) <= MaxSharedNames

\* within_shared_names: a name the guest holds costs nothing.
MayHold(own, name) ==
    \/ name \in own.names
    \/ Cardinality(own.queues) + Cardinality(own.metrics) < MaxSharedNames

StoreOf(g)   == services[g].store
Serves(g)    == StoreOf(g) \notin Unserved

KeyOf(g, n) == <<services[g].vm, n>>

\* The host function ends with the grants settled and nothing else done.
Settle(g) ==
    /\ grants' = [grants EXCEPT ![g] = Settled(g)]
    /\ changes' = [changes EXCEPT ![g] = SettledChanges(g)]
    /\ UNCHANGED <<storeVars, tick, embedderVars, controlVars, itemVars, casVars>>

-----------------------------------------------------------------------------
(***************************************************************************)
(* Shared data (host_functions/shared_data.rs)                             *)
(***************************************************************************)
SetSharedData(g, n, value, cas) ==
    LET s == StoreOf(g)
        key == KeyOf(g, n)
    IN  /\ Running(g)
        /\ IF /\ Accepted(g) /\ n \notin LongName /\ Serves(g)
              /\ SetStatus(data[s], key, value, cas) = "Ok"
           THEN /\ writes[s][key] < MaxWrites
                /\ data' = [data EXCEPT ![s] = Written(@, key, value)]
                /\ writes' = [writes EXCEPT ![s][key] = @ + 1]
                /\ grants' = [grants EXCEPT ![g] = Settled(g)]
                /\ changes' = [changes EXCEPT ![g] = SettledChanges(g)]
                /\ UNCHANGED <<queues, metrics, tick, embedderVars, controlVars,
                               itemVars, seen>>
           ELSE Settle(g)

GetSharedData(g, n) ==
    LET s == StoreOf(g)
        key == KeyOf(g, n)
    IN  /\ Running(g)
        /\ grants' = [grants EXCEPT ![g] = Settled(g)]
        /\ changes' = [changes EXCEPT ![g] = SettledChanges(g)]
        /\ seen' = [seen EXCEPT ![g] =
              IF Accepted(g) /\ n \notin LongName /\ Serves(g) /\ key \in DOMAIN data[s]
              THEN [store |-> s, key |-> key, value |-> data[s][key].value,
                    cas |-> data[s][key].cas, writes |-> writes[s][key]]
              ELSE NoRead]
        /\ UNCHANGED <<storeVars, tick, embedderVars, controlVars, itemVars, writes>>

-----------------------------------------------------------------------------
(***************************************************************************)
(* Queues (host_functions/shared_queue.rs)                                 *)
(***************************************************************************)
\* register_queue: the registration is a change the first time.
NoteRegistration(chg, own, q, r, n) ==
    IF <<q, r>> \in own.registrants THEN chg
    ELSE [chg EXCEPT !.queues = @ \cup {<<q, r, n>>}]

RegisterSharedQueue(g, n) ==
    LET s    == StoreOf(g)
        key  == KeyOf(g, n)
        own  == Settled(g)
        name == [as |-> "Registered", name |-> n]
        q    == Registered(queues[s], key).by_name[key]
        r    == serving[g]
    IN  /\ Running(g)
        /\ IF /\ Accepted(g) /\ n \notin LongName /\ MayHold(own, name) /\ Serves(g)
              /\ RegisterStatus(queues[s], key) = "Ok"
           THEN /\ queues' = [queues EXCEPT ![s] = Registered(@, key)]
                /\ grants' = [grants EXCEPT ![g] =
                      [own EXCEPT !.queues = @ \cup {q}, !.names = @ \cup {name},
                                  !.registrants = @ \cup {<<q, r>>}]]
                /\ changes' = [changes EXCEPT ![g] =
                                  NoteRegistration(SettledChanges(g), own, q, r, n)]
                /\ UNCHANGED <<data, metrics, tick, embedderVars, controlVars, itemVars,
                               casVars>>
           ELSE Settle(g)

\* An empty VM id is the caller's own; \E over the VM ids covers it.
ResolveSharedQueue(g, key) ==
    LET s    == StoreOf(g)
        own  == Settled(g)
        name == [as |-> "Resolved", key |-> key]
    IN  /\ Running(g)
        /\ IF /\ Accepted(g) /\ key[2] \notin LongName /\ MayHold(own, name) /\ Serves(g)
              /\ ResolveStatus(queues[s], key) = "Ok"
           THEN /\ grants' = [grants EXCEPT ![g] =
                      [own EXCEPT !.queues = @ \cup {queues[s].by_name[key]},
                                  !.names = @ \cup {name}]]
                /\ changes' = [changes EXCEPT ![g] = SettledChanges(g)]
                /\ UNCHANGED <<storeVars, tick, embedderVars, controlVars, itemVars, casVars>>
           ELSE Settle(g)

\* Mutant: only the first item of a queue is told.
ObservedFirst(item, q, s) ==
    IF queues[s].items[q] = <<>> THEN [op |-> "Observe", item |-> item] ELSE NoCall

\* What is left of an enqueue when the store is released.
Observed(item, q, s) == [op |-> "Observe", item |-> item]

\* Mutant: an identifier is good in every store.
MayUseQueueAny(g, q) == q \in grants[g].queues

\* The grant a queue function asks for, after it settled the grants.
MayUseQueue(g, q) == q \in Settled(g).queues

EnqueueSharedQueue(g, q, item) ==
    LET s == StoreOf(g)
    IN  /\ Running(g) /\ item \notin sent
        /\ IF /\ MayUseQueue(g, q) /\ Accepted(g) /\ Serves(g)
              /\ EnqueueStatus(queues[s], q, item) = "Ok"
           THEN /\ queues' = [queues EXCEPT ![s] = Enqueued(@, q, item)]
                /\ call' = [call EXCEPT ![g] = Observed(item, q, s)]
                /\ sent' = sent \cup {item}
                /\ grants' = [grants EXCEPT ![g] = Settled(g)]
                /\ changes' = [changes EXCEPT ![g] = SettledChanges(g)]
                /\ UNCHANGED <<data, metrics, tick, embedderVars, serving, ready, poisoned,
                               noticed, received, lost, casVars>>
           ELSE Settle(g)

\* The observer runs on the thread that enqueued.
Observe(g) ==
    /\ call[g].op = "Observe"
    /\ noticed' = noticed \cup {call[g].item}
    /\ call' = [call EXCEPT ![g] = NoCall]
    /\ UNCHANGED <<storeVars, guestVars, embedderVars, serving, ready, poisoned, sent, received,
                   lost, casVars>>

DequeueSharedQueue(g, q) ==
    LET s == StoreOf(g)
    IN  /\ Running(g)
        /\ IF /\ MayUseQueue(g, q) /\ Accepted(g) /\ Serves(g)
              /\ DequeueStatus(queues[s], q) = "Ok"
           THEN /\ call' = [call EXCEPT ![g] = [op |-> "Return",
                                                item |-> Head(queues[s].items[q])]]
                /\ queues' = [queues EXCEPT ![s] = Dequeued(@, q)]
                /\ grants' = [grants EXCEPT ![g] = Settled(g)]
                /\ changes' = [changes EXCEPT ![g] = SettledChanges(g)]
                /\ UNCHANGED <<data, metrics, tick, embedderVars, serving, ready, poisoned,
                               itemVars, casVars>>
           ELSE Settle(g)

\* write_return: the guest's allocator runs, and the item is written.
ReturnItem(g) ==
    /\ call[g].op = "Return"
    /\ received' = received \cup {call[g].item}
    /\ call' = [call EXCEPT ![g] = NoCall]
    /\ UNCHANGED <<storeVars, guestVars, embedderVars, serving, ready, poisoned, sent, noticed,
                   lost, casVars>>

\* The allocator answers nothing useful (a status), or it traps: nothing puts
\* the item back.
LoseItem(g, traps) ==
    /\ call[g].op = "Return"
    /\ lost' = lost \cup {call[g].item}
    /\ call' = [call EXCEPT ![g] = NoCall]
    /\ poisoned' = [poisoned EXCEPT ![g] = traps]
    /\ serving' = [serving EXCEPT ![g] = IF traps THEN NoRoot ELSE @]
    /\ ready' = [ready EXCEPT ![g] = IF traps THEN NoId ELSE @]
    /\ UNCHANGED <<storeVars, guestVars, embedderVars, sent, noticed, received, casVars>>

-----------------------------------------------------------------------------
(***************************************************************************)
(* Metrics and timers (host_functions/metric.rs, timer.rs)                 *)
(***************************************************************************)
DefineMetric(g, n, kind) ==
    LET s    == StoreOf(g)
        key  == KeyOf(g, n)
        own  == Settled(g)
        name == [as |-> "Metric", kind |-> kind, name |-> n]
        m    == Defined(metrics[s], key, kind).by_name[key]
    IN  /\ Running(g)
        /\ IF /\ Accepted(g) /\ n \notin LongName /\ MayHold(own, name) /\ Serves(g)
              /\ DefineStatus(metrics[s], key, kind) = "Ok"
           THEN /\ metrics' = [metrics EXCEPT ![s] = Defined(@, key, kind)]
                /\ grants' = [grants EXCEPT ![g] =
                      [own EXCEPT !.metrics = @ \cup {m}, !.names = @ \cup {name}]]
                /\ changes' = [changes EXCEPT ![g] = SettledChanges(g)]
                /\ UNCHANGED <<data, queues, tick, embedderVars, controlVars, itemVars,
                               casVars>>
           ELSE Settle(g)

\* The grant a metric function asks for, after it settled the grants.
MayUseMetric(g, m) == m \in Settled(g).metrics

RecordMetric(g, m, value) ==
    LET s == StoreOf(g)
    IN  /\ Running(g)
        /\ IF /\ MayUseMetric(g, m) /\ Accepted(g) /\ Serves(g)
              /\ RecordStatus(metrics[s], m) = "Ok"
           THEN /\ metrics' = [metrics EXCEPT ![s] = Recorded(@, m, value)]
                /\ grants' = [grants EXCEPT ![g] = Settled(g)]
                /\ changes' = [changes EXCEPT ![g] = SettledChanges(g)]
                /\ UNCHANGED <<data, queues, tick, embedderVars, controlVars, itemVars,
                               casVars>>
           ELSE Settle(g)

IncrementMetric(g, m, delta) ==
    LET s == StoreOf(g)
    IN  /\ Running(g)
        /\ IF /\ MayUseMetric(g, m) /\ Accepted(g) /\ Serves(g)
              /\ IncrementStatus(metrics[s], m, delta) = "Ok"
           THEN /\ metrics' = [metrics EXCEPT ![s] = Incremented(@, m, delta)]
                /\ grants' = [grants EXCEPT ![g] = Settled(g)]
                /\ changes' = [changes EXCEPT ![g] = SettledChanges(g)]
                /\ UNCHANGED <<data, queues, tick, embedderVars, controlVars, itemVars,
                               casVars>>
           ELSE Settle(g)

\* proxy_get_metric reads.
GetMetric(g, m) == Running(g) /\ Settle(g)

\* Mutant: a period of zero is no change.
NotedTicksSome(ticks, r, period) == IF period = 0 THEN ticks ELSE With(ticks, r, period)

\* note_tick_period.
NotedTicks(ticks, r, period) == With(ticks, r, period)

\* proxy_set_tick_period_milliseconds, on the root of the callback; zero stops
\* the timer.
SetTickPeriod(g, period) ==
    LET r == serving[g]
    IN  /\ Running(g) /\ Accepted(g)
        /\ tick' = [tick EXCEPT ![g][r] = period]
        /\ changes' = [changes EXCEPT ![g].ticks = NotedTicks(@, r, period)]
        /\ UNCHANGED <<storeVars, grants, embedderVars, controlVars, itemVars, casVars>>

-----------------------------------------------------------------------------
\* The guest's callback returns, or it traps between two host calls.
ReturnCallback(g) ==
    /\ Running(g)
    /\ serving' = [serving EXCEPT ![g] = NoRoot]
    /\ ready' = [ready EXCEPT ![g] = NoId]
    /\ UNCHANGED <<storeVars, guestVars, embedderVars, call, poisoned, itemVars, casVars>>

TrapCallback(g) ==
    /\ Running(g)
    /\ serving' = [serving EXCEPT ![g] = NoRoot]
    /\ ready' = [ready EXCEPT ![g] = NoId]
    /\ poisoned' = [poisoned EXCEPT ![g] = TRUE]
    /\ UNCHANGED <<storeVars, guestVars, embedderVars, call, itemVars, casVars>>

ControlNext(g) ==
    \/ ReturnCallback(g) \/ TrapCallback(g)
    \/ \E new \in Services : Rebuild(g, new)
    \/ \E r \in Root : CreateRoot(g, r) \/ RunCallback(g, r)

RootNext(g) ==
    \/ \E r \in Root : RejectRoot(g, r) \/ DeleteRoot(g, r)
    \/ TakeChanges(g)
    \/ \E period \in Period \cup {0} : SetTickPeriod(g, period)

DataNext(g) ==
    \E n \in Name :
       \/ GetSharedData(g, n)
       \/ \E value \in Item, cas \in 0..MaxCas : SetSharedData(g, n, value, cas)

NameNext(g) ==
    \/ \E n \in Name : RegisterSharedQueue(g, n)
    \/ \E key \in Key : ResolveSharedQueue(g, key)
    \/ \E r \in Root, q \in QueueId : OnQueueReady(g, r, q)

ItemNext(g) ==
    \/ \E q \in QueueId : \/ DequeueSharedQueue(g, q)
                          \/ \E item \in Item : EnqueueSharedQueue(g, q, item)
    \/ Observe(g) \/ ReturnItem(g)
    \/ \E traps \in BOOLEAN : LoseItem(g, traps)

MetricNext(g) ==
    \/ \E n \in Name, kind \in MetricKind : DefineMetric(g, n, kind)
    \/ \E m \in MetricId : \/ GetMetric(g, m)
                           \/ \E value \in 0..MaxMetric : RecordMetric(g, m, value)
                           \/ \E delta \in Delta : IncrementMetric(g, m, delta)

Next ==
    \E g \in Guest :
       \/ ControlNext(g) \/ RootNext(g) \/ DataNext(g) \/ NameNext(g) \/ ItemNext(g)
       \/ MetricNext(g)
       \/ \E new \in Services : ReplaceServices(g, new)

Spec == Init /\ [][Next]_vars
-----------------------------------------------------------------------------
(***************************************************************************)
(* Properties                                                              *)
(***************************************************************************)
\* The items on the queues of all stores, and those a dequeue took off one.
Places == {p \in Store \X QueueId : p[2] \in DOMAIN queues[p[1]].items}
LineAt(p) == queues[p[1]].items[p[2]]
OnQueue(item) ==
    {o \in Places \X (1..MaxQueueItems) :
        o[2] \in DOMAIN LineAt(o[1]) /\ LineAt(o[1])[o[2]] = item}
InHand(item) == {g \in Guest : call[g] = [op |-> "Return", item |-> item]}

\* Whatever guests, traps and new guests do, an item that was accepted is at one
\* place: on one queue once, in the hands of one dequeue, received, or lost to a
\* guest whose allocator failed (dequeue_shared_queue, then write_return).
ItemsConserved ==
    \A item \in Item :
        Cardinality(OnQueue(item)) + Cardinality(InHand(item))
          + Cardinality({item} \cap received) + Cardinality({item} \cap lost)
        = Cardinality({item} \cap sent)

\* Every accepted item is told to the observer in the end.
EveryItemNoticed == \A item \in Item : item \in sent ~> item \in noticed

\* The limits of a store (InMemoryStoreLimits) hold across its guests, of whatever
\* VM, those that trapped and were replaced included.
StoreLimits ==
    \A s \in Store :
        /\ Cardinality(DOMAIN data[s]) <= MaxKeys
        /\ Cardinality(DOMAIN queues[s].by_name) <= MaxQueues
        /\ Cardinality(DOMAIN metrics[s].by_name) <= MaxMetrics
        /\ \A q \in DOMAIN queues[s].items : Len(queues[s].items[q]) <= MaxQueueItems

\* A guest holds no more queues and metrics than max_shared_names allows, in any
\* order of names, repetitions and replaced stores; and its bookkeeping of names is
\* bounded by what it holds, two names of a queue and one of a metric.
\*
\* The limit supposes that the VM id of a living guest stays.  A name that it holds
\* costs nothing (within_shared_names), and a held name tells nothing of the VM id
\* (state/names.rs): with another id on the same store, which settle_grants does not
\* notice, the name is registered anew, outside the limit.
GuestLimits ==
    \A g \in Guest :
        LET queueCount  == Cardinality(grants[g].queues)
            metricCount == Cardinality(grants[g].metrics)
        IN  /\ queueCount + metricCount <= MaxSharedNames
            /\ Cardinality(grants[g].names) <= 2 * queueCount + metricCount

\* The three maps of the queues and the two of the metrics tell of the same
\* identifiers, each name has an identifier of its own, and a guest holds only
\* identifiers that the store it holds them against gave out.
IdsAgree ==
    /\ \A s \in Store :
          LET q == queues[s]
              m == metrics[s]
          IN  /\ DOMAIN q.items = 1..q.next /\ DOMAIN q.owners = 1..q.next
              /\ DOMAIN m.entries = 1..m.next
              /\ \A id \in 1..q.next : q.owners[id] \in DOMAIN q.by_name
                                        /\ q.by_name[q.owners[id]] = id
              /\ \A k \in DOMAIN q.by_name : q.by_name[k] \in 1..q.next
                                              /\ q.owners[q.by_name[k]] = k
              /\ \A id \in 1..m.next : \E k \in DOMAIN m.by_name : m.by_name[k] = id
              /\ \A k, l \in DOMAIN m.by_name :
                    m.by_name[k] \in 1..m.next /\ (m.by_name[k] = m.by_name[l] => k = l)
    /\ \A g \in Guest :
          LET own == grants[g]
          IN  IF own.against = NoStore
              THEN own.queues = {} /\ own.metrics = {}
              ELSE /\ own.queues \subseteq 1..queues[own.against].next
                   /\ own.metrics \subseteq 1..metrics[own.against].next
    /\ \A g \in Guest : \A p \in grants[g].registrants : p[1] \in grants[g].queues

\* A queue is told only to a root that registered it with the store the guest
\* has now, and the registrations of a guest are of roots that are alive.
RegistrantsAlive ==
    \A g \in Guest :
        /\ \A p \in grants[g].registrants : roots[g][p[2]] \in {"Live", "Rejected"}
        /\ ready[g] # NoId => /\ Current(g)
                              /\ <<ready[g], serving[g]>> \in grants[g].registrants

\* What take_changes told the embedder, with what it would tell now, is what the
\* guest holds: the periods of live roots, and the registrations that count.
ChangesTell ==
    \A g \in Guest :
        /\ \A r \in Root :
              roots[g][r] \in {"Live", "Rejected"} =>
                  tick[g][r] = IF r \in DOMAIN changes[g].ticks THEN changes[g].ticks[r]
                               ELSE known[g].ticks[r]
        /\ Current(g) =>
              \A p \in grants[g].registrants :
                  \/ <<services[g].store, p[1], p[2]>> \in known[g].queues
                  \/ \E n \in Name : <<p[1], p[2], n>> \in changes[g].queues

\* A write with the number of an earlier read succeeds only if nobody wrote the
\* key since, or the number went all the way round.
NoLostUpdate ==
    [][\A g \in Guest, n \in Name, value \in Item :
          LET read == seen[g]
          IN  /\ read # NoRead
              /\ read.store = StoreOf(g) /\ read.key = KeyOf(g, n)
              /\ SetSharedData(g, n, value, read.cas)
              /\ data' # data
              => (writes[read.store][read.key] - read.writes) % MaxCas = 0]_vars
=============================================================================
