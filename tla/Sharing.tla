------------------------------ MODULE Sharing ------------------------------
(***************************************************************************)
(* What shared services promise their guests, with no identifiers in it: a  *)
(* guest holds handles, each of one queue or metric of one store, obtained  *)
(* by name.  It changes a queue or a metric only through a handle of the    *)
(* store it has now, and a key of the shared data only under its own VM id. *)
(* Handles of a store it no longer has are dropped at its next call.        *)
(***************************************************************************)
EXTENDS Sequences

CONSTANTS Guest, Store, VmId, Name, Item, MetricKind, MetricValue

Key      == VmId \X Name
Services == [vm : VmId, store : Store]
Family   == {"Queue", "Metric"}
Handle   == Store \X Family \X Key

VARIABLES
    cells,      \* of every store: the value of every key that is there
    lines,      \* of every store: the items of every queue, by key
    meters,     \* of every store: kind and value of every metric, by key
    services,   \* of every guest
    handles     \* of every guest

vars == <<cells, lines, meters, services, handles>>

Nothing == [k \in {} |-> k]
Set(f, k, v) == [x \in DOMAIN f \cup {k} |-> IF x = k THEN v ELSE f[x]]

Init ==
    /\ cells = [s \in Store |-> Nothing]
    /\ lines = [s \in Store |-> Nothing]
    /\ meters = [s \in Store |-> Nothing]
    /\ services \in [Guest -> Services]
    /\ handles = [g \in Guest |-> {}]

StoreOf(g) == services[g].store
Kept(g)    == {h \in handles[g] : h[1] = StoreOf(g)}
Holds(g, family, key) == <<StoreOf(g), family, key>> \in handles[g]
Drop(g)    == handles' = [handles EXCEPT ![g] = Kept(g)]
Obtain(g, family, key) ==
    handles' = [handles EXCEPT ![g] = Kept(g) \cup {<<StoreOf(g), family, key>>}]

Replace(g) ==
    /\ \E new \in Services : services' = [services EXCEPT ![g] = new]
    /\ UNCHANGED <<cells, lines, meters, handles>>

\* A new guest in place of an old one.
Renew(g) ==
    /\ \E new \in Services : services' = [services EXCEPT ![g] = new]
    /\ handles' = [handles EXCEPT ![g] = {}]
    /\ UNCHANGED <<cells, lines, meters>>

\* A read, or a call that was refused.
Look(g) == Drop(g) /\ UNCHANGED <<cells, lines, meters, services>>

Write(g, n, value) ==
    /\ cells' = [cells EXCEPT ![StoreOf(g)] = Set(@, <<services[g].vm, n>>, value)]
    /\ Drop(g)
    /\ UNCHANGED <<lines, meters, services>>

\* Another VM's queue is found by its name and never created.
FindQueue(g, key) ==
    /\ key \in DOMAIN lines[StoreOf(g)]
    /\ Obtain(g, "Queue", key)
    /\ UNCHANGED <<cells, lines, meters, services>>

MakeQueue(g, n) ==
    LET key == <<services[g].vm, n>>
    IN  /\ key \notin DOMAIN lines[StoreOf(g)]
        /\ lines' = [lines EXCEPT ![StoreOf(g)] = Set(@, key, <<>>)]
        /\ Obtain(g, "Queue", key)
        /\ UNCHANGED <<cells, meters, services>>

Send(g, key, item) ==
    /\ Holds(g, "Queue", key)
    /\ lines' = [lines EXCEPT ![StoreOf(g)][key] = Append(@, item)]
    /\ Drop(g)
    /\ UNCHANGED <<cells, meters, services>>

Take(g, key) ==
    /\ Holds(g, "Queue", key) /\ lines[StoreOf(g)][key] # <<>>
    /\ lines' = [lines EXCEPT ![StoreOf(g)][key] = Tail(@)]
    /\ Drop(g)
    /\ UNCHANGED <<cells, meters, services>>

\* A metric is of the guest's own VM, and keeps its kind.
MakeMetric(g, n, kind) ==
    LET key == <<services[g].vm, n>>
    IN  /\ IF key \in DOMAIN meters[StoreOf(g)]
           THEN meters[StoreOf(g)][key].kind = kind /\ UNCHANGED meters
           ELSE meters' = [meters EXCEPT ![StoreOf(g)] =
                               Set(@, key, [kind |-> kind, value |-> 0])]
        /\ Obtain(g, "Metric", key)
        /\ UNCHANGED <<cells, lines, services>>

\* A histogram keeps no value.
Move(g, key, value) ==
    /\ Holds(g, "Metric", key) /\ meters[StoreOf(g)][key].kind # "Histogram"
    /\ meters' = [meters EXCEPT ![StoreOf(g)][key].value = value]
    /\ Drop(g)
    /\ UNCHANGED <<cells, lines, services>>

Next ==
    \E g \in Guest :
       \/ Replace(g) \/ Renew(g) \/ Look(g)
       \/ \E n \in Name : \/ MakeQueue(g, n)
                          \/ \E value \in Item : Write(g, n, value)
                          \/ \E kind \in MetricKind : MakeMetric(g, n, kind)
       \/ \E key \in Key : \/ FindQueue(g, key) \/ Take(g, key)
                           \/ \E item \in Item : Send(g, key, item)
                           \/ \E value \in MetricValue : Move(g, key, value)

Spec == Init /\ [][Next]_vars
=============================================================================
