-------------------------- MODULE MCSharedGuests --------------------------
(***************************************************************************)
(* SharedGuests for TLC, in parts: each part has the operations and inputs  *)
(* of one question, and a behaviour stays in the part it began in.          *)
(***************************************************************************)
EXTENDS SharedRefinement

CONSTANTS g1, r1, n1, v1, i1    \* the members of the sets that a part uses alone

VARIABLE part

mcVars == <<vars, part>>

\* Steps of a metric on both sides of zero.
Deltas == {-1, 1, 2}

\* Callbacks of the roots rs, and what becomes of a guest that traps.
Callbacks(g, rs) ==
    ReturnCallback(g) \/ \E r \in rs : CreateRoot(g, r) \/ RunCallback(g, r)
Faults(g) ==
    \/ TrapCallback(g)
    \/ \E new \in Services : new.store = 1 /\ Rebuild(g, new)

\* The embedder moves a living guest to another store, with the VM id it has.
OtherStore(g) ==
    \E new \in Services : new.vm = services[g].vm /\ ReplaceServices(g, new)

\* It moves on to a store the guest did not have before.
MoveOn(g) == OtherStore(g) /\ services'[g].store > services[g].store

\* Compare and swap by two guests of two VMs.
DataPart(g) ==
    \/ Callbacks(g, {r1}) \/ Faults(g)
    \/ GetSharedData(g, n1)
    \/ \E value \in TooLarge \cup {i1}, cas \in 0..MaxCas : SetSharedData(g, n1, value, cas)

\* One queue, and two guests that enqueue more than it takes, and dequeue.
QueuePart(g) ==
    \/ Callbacks(g, {r1}) \/ TrapCallback(g) \/ Rebuild(g, services[g]) \/ ItemNext(g)
    \/ RegisterSharedQueue(g, n1)

\* One metric of each of two guests.
MetricPart(g) ==
    \/ Callbacks(g, {r1}) \/ Faults(g)
    \/ \E kind \in MetricKind : DefineMetric(g, n1, kind)
    \/ \E m \in MetricId : \/ GetMetric(g, m)
                           \/ \E value \in {0, MaxMetric} : RecordMetric(g, m, value)
                           \/ \E delta \in Delta : IncrementMetric(g, m, delta)

\* The grants, registrants and changes of a guest with two roots.
GrantPart(g) ==
    /\ g = g1
    /\ \/ Callbacks(g, Root) \/ TakeChanges(g) \/ MoveOn(g)
       \/ DefineMetric(g, n1, "Gauge") \/ ResolveSharedQueue(g, <<v1, n1>>)
       \/ \E n \in Name : RegisterSharedQueue(g, n)
       \/ \E r \in Root : DeleteRoot(g, r) \/ OnQueueReady(g, r, 1)

\* The periods of two roots.
TickPart(g) == g = g1 /\ (Callbacks(g, Root) \/ Faults(g) \/ RootNext(g))

\* More names of queues and metrics, from guests of two VMs, than a store takes.
LimitPart(g) ==
    \/ Callbacks(g, {r1})
    \/ \E n \in Name : RegisterSharedQueue(g, n) \/ DefineMetric(g, n, "Gauge")
    \/ \E key \in Key : ResolveSharedQueue(g, key)

\* The queues of several stores, which the embedder also puts back, and of the
\* VMs of one guest after another.
StorePart(g) ==
    /\ g = g1
    /\ \/ Callbacks(g, {r1}) \/ Faults(g) \/ OtherStore(g)
       \/ Observe(g) \/ ReturnItem(g) \/ LoseItem(g, FALSE)
       \/ RegisterSharedQueue(g, n1)
       \/ \E key \in VmId \X {n1} : ResolveSharedQueue(g, key)
       \/ \E q \in QueueId : EnqueueSharedQueue(g, q, i1) \/ DequeueSharedQueue(g, q)

\* The VM ids two guests begin with.
TwoVms == part \in {"Data", "Metric", "Limit"} \/ \A g \in Guest : services[g].vm = v1

SharedInit ==
    /\ Init /\ part \in {"Data", "Queue", "Metric", "Grant", "Tick", "Limit", "Store"}
    /\ TwoVms /\ \A g \in Guest : services[g].store = 1

SharedNext ==
    /\ part' = part
    /\ \E g \in Guest :
          \/ part = "Data" /\ DataPart(g)
          \/ part = "Queue" /\ QueuePart(g)
          \/ part = "Metric" /\ MetricPart(g)
          \/ part = "Grant" /\ GrantPart(g)
          \/ part = "Tick" /\ TickPart(g)
          \/ part = "Limit" /\ LimitPart(g)
          \/ part = "Store" /\ StorePart(g)

SharedSpec ==
    /\ SharedInit /\ [][SharedNext]_mcVars
    /\ \A g \in Guest : WF_mcVars(Observe(g) /\ UNCHANGED part)

\* GrantPart, and the embedder puts back a store its guest had.
SwapSpec ==
    /\ SharedInit /\ part = "Grant"
    /\ [][part' = part /\ (GrantPart(g1) \/ OtherStore(g1))]_mcVars

\* GrantPart, and the embedder gives its guest another VM id on the same store.
VmIdSpec ==
    /\ SharedInit /\ part = "Grant"
    /\ [][/\ part' = part
          /\ \/ GrantPart(g1)
             \/ \E new \in Services :
                   new.store = services[g1].store /\ ReplaceServices(g1, new)]_mcVars
=============================================================================
