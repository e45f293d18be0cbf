---------------------------- MODULE SharedStore ----------------------------
(***************************************************************************)
(* The methods of InMemoryStore (abi/v0_2_1/shared_services/store.rs), each *)
(* as what one critical section does to one family of the store: shared     *)
(* data, queues, metrics.  A family is a record or a function; a key is the *)
(* VM id with the name.  Every operator answers a status and the family     *)
(* after it.                                                                *)
(***************************************************************************)
EXTENDS Integers, FiniteSets, Sequences

CONSTANTS
    VmId,           \* the VM ids embedders give
    Name,           \* names and keys guests send
    Item,           \* values of keys and items of queues
    TooLarge,       \* the items over value_bytes
    MaxCas,         \* the largest compare and swap number, 2^32 - 1
    MaxId,          \* the largest queue or metric identifier, 2^32 - 1
    MaxMetric,      \* the largest value of a metric, 2^64 - 1
    MaxKeys, MaxQueueItems, MaxQueues, MaxMetrics   \* InMemoryStoreLimits

ASSUME SharedStoreAssumption ==
    /\ TooLarge \subseteq Item
    /\ {MaxCas, MaxId, MaxMetric} \subseteq Nat \ {0}
    /\ {MaxKeys, MaxQueueItems, MaxQueues, MaxMetrics} \subseteq Nat

Key        == VmId \X Name
QueueId    == 1..MaxId
MetricId   == 1..MaxId
MetricKind == {"Counter", "Gauge", "Histogram"}

NoCas == 0
NoId  == 0

\* A function that also maps k to v.
With(f, k, v) == [x \in DOMAIN f \cup {k} |-> IF x = k THEN v ELSE f[x]]

-----------------------------------------------------------------------------
(***************************************************************************)
(* Shared data: a function from keys to [value, cas]                       *)
(***************************************************************************)
EmptyData == [k \in {} |-> [value |-> k, cas |-> 1]]

\* Mutant: the number wraps to zero.
NextCasZero(cas) == IF cas = MaxCas THEN 0 ELSE cas + 1

\* Never zero, which means "no comparison" to the ABI.
NextCas(cas) == IF cas = MaxCas THEN 1 ELSE cas + 1

\* Mutant: a key that is there is written without comparison.
SetStatusBlind(data, key, value, cas) ==
    IF value \in TooLarge \/ (key \notin DOMAIN data /\ Cardinality(DOMAIN data) >= MaxKeys)
    THEN "InternalFailure" ELSE "Ok"

\* A key that is not there is written whatever number the guest gave.
SetStatus(data, key, value, cas) ==
    IF value \in TooLarge \/ (key \notin DOMAIN data /\ Cardinality(DOMAIN data) >= MaxKeys)
    THEN "InternalFailure"
    ELSE IF key \in DOMAIN data /\ cas # NoCas /\ cas # data[key].cas
    THEN "CasMismatch" ELSE "Ok"

Written(data, key, value) ==
    With(data, key, [value |-> value,
                     cas   |-> IF key \in DOMAIN data THEN NextCas(data[key].cas) ELSE 1])

-----------------------------------------------------------------------------
(***************************************************************************)
(* Queues: [by_name, owners, items, next]                                  *)
(***************************************************************************)
EmptyQueues ==
    [by_name |-> [k \in {} |-> NoId], owners |-> [q \in {} |-> q],
     items |-> [q \in {} |-> <<>>], next |-> 0]

\* Mutant: a full store takes one more queue.
RegisterStatusLate(queues, key) ==
    IF key \in DOMAIN queues.by_name
       \/ (Cardinality(DOMAIN queues.by_name) <= MaxQueues /\ queues.next < MaxId)
    THEN "Ok" ELSE "InternalFailure"

RegisterStatus(queues, key) ==
    IF key \in DOMAIN queues.by_name
       \/ (Cardinality(DOMAIN queues.by_name) < MaxQueues /\ queues.next < MaxId)
    THEN "Ok" ELSE "InternalFailure"

\* The queue under key, created when it is new.
Registered(queues, key) ==
    IF key \in DOMAIN queues.by_name THEN queues
    ELSE LET id == queues.next + 1
         IN  [by_name |-> With(queues.by_name, key, id),
              owners  |-> With(queues.owners, id, key),
              items   |-> With(queues.items, id, <<>>),
              next    |-> id]

ResolveStatus(queues, key) == IF key \in DOMAIN queues.by_name THEN "Ok" ELSE "NotFound"

EnqueueStatus(queues, q, item) ==
    IF item \in TooLarge THEN "InternalFailure"
    ELSE IF q \notin DOMAIN queues.items THEN "NotFound"
    ELSE IF Len(queues.items[q]) >= MaxQueueItems THEN "InternalFailure" ELSE "Ok"

Enqueued(queues, q, item) == [queues EXCEPT !.items[q] = Append(@, item)]

DequeueStatus(queues, q) ==
    IF q \notin DOMAIN queues.items THEN "NotFound"
    ELSE IF queues.items[q] = <<>> THEN "Empty" ELSE "Ok"

\* Mutant: the item is read and stays on the queue.
DequeuedKept(queues, q) == queues

Dequeued(queues, q) == [queues EXCEPT !.items[q] = Tail(@)]

-----------------------------------------------------------------------------
(***************************************************************************)
(* Metrics: [by_name, entries, next]                                       *)
(***************************************************************************)
EmptyMetrics ==
    [by_name |-> [k \in {} |-> NoId],
     entries |-> [m \in {} |-> [kind |-> "Gauge", value |-> 0]], next |-> 0]

DefineStatus(metrics, key, kind) ==
    IF key \in DOMAIN metrics.by_name
    THEN IF metrics.entries[metrics.by_name[key]].kind = kind THEN "Ok" ELSE "BadArgument"
    ELSE IF Cardinality(DOMAIN metrics.by_name) < MaxMetrics /\ metrics.next < MaxId
    THEN "Ok" ELSE "InternalFailure"

Defined(metrics, key, kind) ==
    IF key \in DOMAIN metrics.by_name THEN metrics
    ELSE LET id == metrics.next + 1
         IN  [by_name |-> With(metrics.by_name, key, id),
              entries |-> With(metrics.entries, id, [kind |-> kind, value |-> 0]),
              next    |-> id]

RecordStatus(metrics, m) == IF m \in DOMAIN metrics.entries THEN "Ok" ELSE "NotFound"

\* A histogram keeps no value.
Recorded(metrics, m, value) ==
    IF metrics.entries[m].kind = "Histogram" THEN metrics
    ELSE [metrics EXCEPT !.entries[m].value = value]

\* checked_add_signed: what does not fit is refused.
IncrementStatus(metrics, m, delta) ==
    IF m \notin DOMAIN metrics.entries THEN "NotFound"
    ELSE IF metrics.entries[m].kind = "Histogram"
            \/ (metrics.entries[m].kind = "Counter" /\ delta < 0)
            \/ metrics.entries[m].value + delta \notin 0..MaxMetric
    THEN "BadArgument" ELSE "Ok"

Incremented(metrics, m, delta) == [metrics EXCEPT !.entries[m].value = @ + delta]

GetMetricStatus(metrics, m) ==
    IF m \notin DOMAIN metrics.entries THEN "NotFound"
    ELSE IF metrics.entries[m].kind = "Histogram" THEN "BadArgument" ELSE "Ok"
=============================================================================
