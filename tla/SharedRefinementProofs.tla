----------------------- MODULE SharedRefinementProofs -----------------------
(***************************************************************************)
(* The proof that the guests and stores of SharedGuests implement Sharing: *)
(* what each critical section does to one family is what Sharing does to    *)
(* the family without its identifiers, and the grants that settle_grants    *)
(* leaves are the handles of the store of now.                              *)
(***************************************************************************)
EXTENDS SharedRefinement, SharedProofs

LEMMA RefinedInit ==
    ASSUME Init
    PROVE  Abstract!Init
  <1>1. \A s \in Store : CellsOf(s) = Abstract!Nothing
    BY DEF Init, CellsOf, EmptyData, Abstract!Nothing
  <1>2. \A s \in Store : LinesOf(s) = Abstract!Nothing
    BY DEF Init, LinesOf, EmptyQueues, Abstract!Nothing
  <1>3. \A s \in Store : MetersOf(s) = Abstract!Nothing
    BY DEF Init, MetersOf, EmptyMetrics, Abstract!Nothing
  <1>4. \A g \in Guest : HandlesOf(g) = {}
    BY DEF Init, HandlesOf, NoGrants
  <1>5. services \in [Guest -> Abstract!Services]
    BY DEF Init, Services, Abstract!Services
  <1>6. QED
    BY <1>1, <1>2, <1>3, <1>4, <1>5 DEF Abstract!Init

-----------------------------------------------------------------------------
(***************************************************************************)
(* The families without their identifiers                                  *)
(***************************************************************************)
Values(d) == [k \in DOMAIN d |-> d[k].value]
Lines(q)  == [k \in DOMAIN q.by_name |-> q.items[q.by_name[k]]]
Meters(m) == [k \in DOMAIN m.by_name |-> m.entries[m.by_name[k]]]

LEMMA WrittenValues ==
    ASSUME NEW d, NEW key, NEW value
    PROVE  Values(Written(d, key, value)) = Abstract!Set(Values(d), key, value)
  <1> DEFINE w == Written(d, key, value)
  <1>1. /\ DOMAIN w = DOMAIN d \cup {key} /\ w[key].value = value
        /\ \A k \in DOMAIN d : k # key => w[k] = d[k]
    BY DEF Written, With
  <1> HIDE DEF w
  <1>2. Values(w) = [k \in DOMAIN d \cup {key} |-> w[k].value]
    BY <1>1 DEF Values
  <1>3. \A k \in DOMAIN d \cup {key} : w[k].value = IF k = key THEN value ELSE Values(d)[k]
    BY <1>1 DEF Values
  <1>4. QED
    BY <1>2, <1>3 DEF Values, Abstract!Set, w

LEMMA RegisteredLines ==
    ASSUME NEW q, QueuesOK(q), NEW key \in Key, RegisterStatus(q, key) = "Ok",
           key \notin DOMAIN q.by_name
    PROVE  Lines(Registered(q, key)) = Abstract!Set(Lines(q), key, <<>>)
  <1> DEFINE r == Registered(q, key)
  <1>1. /\ DOMAIN r.by_name = DOMAIN q.by_name \cup {key}
        /\ \A k \in DOMAIN q.by_name : r.by_name[k] = q.by_name[k]
        /\ r.items[r.by_name[key]] = <<>>
        /\ \A id \in 1 .. q.next : r.items[id] = q.items[id]
    BY RegisteredOK
  <1> HIDE DEF r
  <1>2. \A k \in DOMAIN q.by_name : q.by_name[k] \in 1 .. q.next
    BY DEF QueuesOK, QueuesAgree
  <1>3. \A k \in DOMAIN q.by_name \cup {key} :
            r.items[r.by_name[k]] = IF k = key THEN <<>> ELSE Lines(q)[k]
    BY <1>1, <1>2 DEF Lines
  <1>4. QED
    BY <1>1, <1>3 DEF Lines, Abstract!Set, r

\* A change of the items of one queue is a change of the line under its key.
LEMMA ChangedLine ==
    ASSUME NEW q, QueuesOK(q), NEW r, NEW id \in 1 .. q.next, NEW line,
           r.by_name = q.by_name, r.items[id] = line,
           \A i \in 1 .. q.next : i # id => r.items[i] = q.items[i]
    PROVE  /\ q.owners[id] \in DOMAIN Lines(q) /\ Lines(q)[q.owners[id]] = q.items[id]
           /\ Lines(r) = [Lines(q) EXCEPT ![q.owners[id]] = line]
  <1>1. /\ q.owners[id] \in DOMAIN q.by_name /\ q.by_name[q.owners[id]] = id
        /\ \A k \in DOMAIN q.by_name : q.by_name[k] \in 1 .. q.next
        /\ \A k \in DOMAIN q.by_name : q.by_name[k] = id => k = q.owners[id]
    BY DEF QueuesOK, QueuesAgree
  <1>2. \A k \in DOMAIN q.by_name :
            r.items[r.by_name[k]] = IF k = q.owners[id] THEN line ELSE Lines(q)[k]
    BY <1>1 DEF Lines
  <1>3. QED
    BY <1>1, <1>2 DEF Lines

LEMMA DefinedMeters ==
    ASSUME NEW m, MetricsOK(m), NEW key \in Key, NEW kind \in MetricKind,
           DefineStatus(m, key, kind) = "Ok", key \notin DOMAIN m.by_name
    PROVE  Meters(Defined(m, key, kind))
               = Abstract!Set(Meters(m), key, [kind |-> kind, value |-> 0])
  <1> DEFINE w == Defined(m, key, kind)
             entry == [kind |-> kind, value |-> 0]
  <1>1. /\ DOMAIN w.by_name = DOMAIN m.by_name \cup {key}
        /\ \A k \in DOMAIN m.by_name : w.by_name[k] = m.by_name[k]
        /\ \A id \in 1 .. m.next : w.entries[id] = m.entries[id]
    BY DefinedOK
  <1>2. w.entries[w.by_name[key]] = entry
    BY DEF Defined, With
  <1> HIDE DEF w, entry
  <1>3. \A k \in DOMAIN m.by_name : m.by_name[k] \in 1 .. m.next
    BY DEF MetricsOK, MetricsAgree
  <1>4. \A k \in DOMAIN m.by_name \cup {key} :
            w.entries[w.by_name[k]] = IF k = key THEN entry ELSE Meters(m)[k]
    BY <1>1, <1>2, <1>3 DEF Meters
  <1>5. Meters(w) = Abstract!Set(Meters(m), key, entry)
    BY <1>1, <1>4 DEF Meters, Abstract!Set
  <1>6. QED
    BY <1>5 DEF w, entry

\* The metric id of m is under the key k, and its value is new in w.
Moved(m, w, id, k, value) ==
    /\ m.by_name[k] = id /\ Meters(m)[k] = m.entries[id]
    /\ k \in Key /\ k \in DOMAIN Meters(m)
    /\ Meters(w) = [Meters(m) EXCEPT ![k].value = value]

\* A change of one metric's value is one under its key.
LEMMA ChangedMeter ==
    ASSUME NEW m, MetricsOK(m), NEW id \in DOMAIN m.entries, NEW value, NEW w,
           w = [m EXCEPT !.entries[id].value = value]
    PROVE  \E k \in DOMAIN m.by_name : Moved(m, w, id, k, value)
  <1>1. m \in MetricFamily /\ id \in 1 .. m.next
    BY DEF MetricsOK, MetricsAgree
  <1>2. PICK k \in DOMAIN m.by_name : m.by_name[k] = id
    BY <1>1 DEF MetricsOK, MetricsAgree
  <1>3. k \in Key
    BY <1>1, <1>2, MetricFields, PartialFcnDef
  <1>4. w.by_name = m.by_name /\ w.entries = [m.entries EXCEPT ![id].value = value]
    BY <1>1 DEF MetricFamily
  <1>5. /\ w.entries[id] = [m.entries[id] EXCEPT !.value = value]
        /\ \A i \in DOMAIN m.entries : i # id => w.entries[i] = m.entries[i]
    BY <1>4
  <1>6. \A l \in DOMAIN m.by_name : /\ m.by_name[l] \in DOMAIN m.entries
                                    /\ m.by_name[l] = id => l = k
    BY <1>2 DEF MetricsOK, MetricsAgree
  <1>7. \A l \in DOMAIN m.by_name :
            w.entries[m.by_name[l]] = IF l = k THEN [Meters(m)[k] EXCEPT !.value = value]
                                      ELSE Meters(m)[l]
    BY <1>2, <1>5, <1>6 DEF Meters
  <1>8. Meters(w) = [Meters(m) EXCEPT ![k].value = value]
    BY <1>4, <1>7 DEF Meters
  <1>9. QED
    BY <1>2, <1>3, <1>8 DEF Meters, Moved

-----------------------------------------------------------------------------
(***************************************************************************)
(* The handles                                                             *)
(***************************************************************************)
\* The handles of a guest that holds own, against a store with q and m.
Handles(own, q, m) ==
    {<<own.against, "Queue", k>> :
        k \in {x \in DOMAIN q.by_name : q.by_name[x] \in own.queues}}
    \cup
    {<<own.against, "Metric", k>> :
        k \in {x \in DOMAIN m.by_name : m.by_name[x] \in own.metrics}}

LEMMA HandlesForm ==
    ASSUME NEW g \in Guest
    PROVE  /\ HandlesOf(g) = IF grants[g].against = NoStore THEN {}
                             ELSE Handles(grants[g], queues[grants[g].against],
                                          metrics[grants[g].against])
           /\ HandlesOf(g)' = IF grants'[g].against = NoStore THEN {}
                              ELSE Handles(grants'[g], queues'[grants'[g].against],
                                           metrics'[grants'[g].against])
    BY DEF HandlesOf, Handles

\* A store that grows leaves the handles of its guests alone.
LEMMA HandlesKept ==
    ASSUME NEW own, NEW q, NEW r, NEW m, NEW w, GrantOK(own, q, m),
           QueuesOK(q), QueuesOK(r), QueuesGrow(q, r),
           MetricsOK(m), MetricsOK(w), MetricsGrow(m, w)
    PROVE  Handles(own, r, w) = Handles(own, q, m)
  <1>1. {x \in DOMAIN r.by_name : r.by_name[x] \in own.queues}
          = {x \in DOMAIN q.by_name : q.by_name[x] \in own.queues}
    <2>1. \A x \in DOMAIN q.by_name : x \in DOMAIN r.by_name /\ r.by_name[x] = q.by_name[x]
      BY DEF QueuesGrow
    <2>2. ASSUME NEW x \in DOMAIN r.by_name, r.by_name[x] \in own.queues
          PROVE  x \in DOMAIN q.by_name
      <3> DEFINE id == r.by_name[x]
      <3>1. id \in 1 .. q.next
        BY <2>2 DEF GrantOK
      <3>2. q.owners[id] \in DOMAIN q.by_name /\ r.owners[id] = q.owners[id]
        BY <3>1, OwnersKept DEF QueuesOK, QueuesAgree
      <3>3. r.owners[id] = x
        BY DEF QueuesOK, QueuesAgree
      <3>4. QED
        BY <3>2, <3>3
    <2>3. QED
      BY <2>1, <2>2
  <1>2. {x \in DOMAIN w.by_name : w.by_name[x] \in own.metrics}
          = {x \in DOMAIN m.by_name : m.by_name[x] \in own.metrics}
    <2>1. \A x \in DOMAIN m.by_name : x \in DOMAIN w.by_name /\ w.by_name[x] = m.by_name[x]
      BY DEF MetricsGrow
    <2>2. ASSUME NEW x \in DOMAIN w.by_name, w.by_name[x] \in own.metrics
          PROVE  x \in DOMAIN m.by_name
      <3>1. w.by_name[x] \in 1 .. m.next
        BY <2>2 DEF GrantOK
      <3>2. PICK k \in DOMAIN m.by_name : m.by_name[k] = w.by_name[x]
        BY <3>1 DEF MetricsOK, MetricsAgree
      <3>3. k = x
        BY <2>1, <3>2 DEF MetricsOK, MetricsAgree
      <3>4. QED
        BY <3>3
    <2>3. QED
      BY <2>1, <2>2
  <1>3. QED
    BY <1>1, <1>2 DEF Handles

LEMMA OneMoreQueue ==
    ASSUME NEW own, NEW new, NEW q, NEW m, QueuesOK(q), NEW key \in DOMAIN q.by_name,
           new.against = own.against, new.metrics = own.metrics,
           new.queues = own.queues \cup {q.by_name[key]}
    PROVE  Handles(new, q, m) = Handles(own, q, m) \cup {<<own.against, "Queue", key>>}
  <1>1. \A k \in DOMAIN q.by_name : q.by_name[k] = q.by_name[key] => k = key
    BY DEF QueuesOK, QueuesAgree
  <1>2. {x \in DOMAIN q.by_name : q.by_name[x] \in new.queues}
          = {x \in DOMAIN q.by_name : q.by_name[x] \in own.queues} \cup {key}
    BY <1>1
  <1>3. QED
    BY <1>2 DEF Handles

LEMMA OneMoreMetric ==
    ASSUME NEW own, NEW new, NEW q, NEW m, MetricsOK(m), NEW key \in DOMAIN m.by_name,
           new.against = own.against, new.queues = own.queues,
           new.metrics = own.metrics \cup {m.by_name[key]}
    PROVE  Handles(new, q, m) = Handles(own, q, m) \cup {<<own.against, "Metric", key>>}
  <1>1. \A k \in DOMAIN m.by_name : m.by_name[k] = m.by_name[key] => k = key
    BY DEF MetricsOK, MetricsAgree
  <1>2. {x \in DOMAIN m.by_name : m.by_name[x] \in new.metrics}
          = {x \in DOMAIN m.by_name : m.by_name[x] \in own.metrics} \cup {key}
    BY <1>1
  <1>3. QED
    BY <1>2 DEF Handles

\* settle_grants keeps the handles of the store of now.
LEMMA SettledHandles ==
    ASSUME StoreInv, GuestTypes, GrantInv, NEW g \in Guest
    PROVE  Handles(Settled(g), queues[StoreOf(g)], metrics[StoreOf(g)]) = Abstract!Kept(g)
  <1>0. Abstract!Kept(g) = {h \in HandlesOf(g) : h[1] = StoreOf(g)}
    BY DEF Abstract!Kept, Abstract!StoreOf, StoreOf
  <1>1. StoreOf(g) # NoStore
    BY StoreOfType, SharedGuestsAssumption DEF NoStore
  <1>2. CASE Current(g)
    <2>1. /\ grants[g].against = StoreOf(g) /\ Settled(g) = grants[g]
          /\ HandlesOf(g) = Handles(grants[g], queues[StoreOf(g)], metrics[StoreOf(g)])
      BY <1>1, <1>2, HandlesForm DEF Current, Settled, StoreOf
    <2>2. \A h \in HandlesOf(g) : h[1] = StoreOf(g)
      BY <2>1 DEF Handles
    <2>3. QED
      BY <1>0, <2>1, <2>2
  <1>3. CASE ~Current(g)
    <2>1. Settled(g).queues = {} /\ Settled(g).metrics = {}
      BY <1>3 DEF Settled, NoGrants
    <2>2. Handles(Settled(g), queues[StoreOf(g)], metrics[StoreOf(g)]) = {}
      BY <2>1 DEF Handles
    <2>3. \A h \in HandlesOf(g) : h[1] = grants[g].against
      BY HandlesForm DEF Handles
    <2>4. grants[g].against # StoreOf(g)
      BY <1>3 DEF Current, StoreOf
    <2>5. QED
      BY <1>0, <2>2, <2>3, <2>4
  <1>4. QED
    BY <1>2, <1>3

\* A change of one guest's grants is one of its handles alone.
LEMMA HandlesStep ==
    ASSUME StoreInv, StoreInv', StoresGrow, GuestTypes, GrantInv, NEW g \in Guest, NEW own,
           grants' = [grants EXCEPT ![g] = own]
    PROVE  \A h \in Guest : h # g => HandlesOf(h)' = HandlesOf(h)
  <1> SUFFICES ASSUME NEW h \in Guest, h # g
               PROVE  HandlesOf(h)' = HandlesOf(h)
    OBVIOUS
  <1>1. grants'[h] = grants[h]
    BY DEF GuestTypes
  <1>2. CASE grants[h].against = NoStore
    BY <1>1, <1>2, HandlesForm
  <1>3. CASE grants[h].against # NoStore
    <2> DEFINE s == grants[h].against
    <2>1. s \in Store
      BY <1>3 DEF GuestTypes, Grants
    <2>2. /\ GrantOK(grants[h], queues[s], metrics[s])
          /\ QueuesOK(queues[s]) /\ QueuesOK(queues'[s]) /\ QueuesGrow(queues[s], queues'[s])
          /\ MetricsOK(metrics[s]) /\ MetricsOK(metrics'[s]) /\ MetricsGrow(metrics[s], metrics'[s])
      BY <1>3, <2>1 DEF GrantInv, StoreInv, StoresGrow
    <2>3. Handles(grants[h], queues'[s], metrics'[s]) = Handles(grants[h], queues[s], metrics[s])
      BY <2>2, HandlesKept
    <2>4. QED
      BY <1>1, <1>3, <2>3, HandlesForm
  <1>4. QED
    BY <1>2, <1>3

\* The grants that settle_grants leaves are the handles that Sharing keeps.
LEMMA DropStep ==
    ASSUME StoreInv, StoreInv', StoresGrow, GuestTypes, GrantInv, NEW g \in Guest,
           grants' = [grants EXCEPT ![g] = Settled(g)]
    PROVE  Abstract!Drop(g)
  <1> DEFINE s == StoreOf(g)
             own == Settled(g)
  <1>1. s \in Store /\ s # NoStore /\ own.against = s /\ GrantOK(own, queues[s], metrics[s])
    BY StoreOfType, SettledOK, SharedGuestsAssumption DEF NoStore
  <1>2. /\ QueuesOK(queues[s]) /\ QueuesOK(queues'[s]) /\ QueuesGrow(queues[s], queues'[s])
        /\ MetricsOK(metrics[s]) /\ MetricsOK(metrics'[s]) /\ MetricsGrow(metrics[s], metrics'[s])
    BY <1>1 DEF StoreInv, StoresGrow
  <1>3. Handles(own, queues[s], metrics[s]) = Abstract!Kept(g)
    BY SettledHandles
  <1>4. grants'[g] = own
    BY DEF GuestTypes
  <1>5. \A h \in Guest : h # g => HandlesOf(h)' = HandlesOf(h)
    BY HandlesStep
  <1> HIDE DEF own, s
  <1>6. HandlesOf(g)' = Abstract!Kept(g)
    BY <1>1, <1>2, <1>3, <1>4, HandlesForm, HandlesKept
  <1>7. QED
    BY <1>5, <1>6 DEF Abstract!Drop

LEMMA ObtainQueue ==
    ASSUME StoreInv, StoreInv', StoresGrow, GuestTypes, GrantInv, NEW g \in Guest, NEW own,
           grants' = [grants EXCEPT ![g] = own],
           NEW key \in DOMAIN queues'[StoreOf(g)].by_name,
           own.against = StoreOf(g), own.metrics = Settled(g).metrics,
           own.queues = Settled(g).queues \cup {queues'[StoreOf(g)].by_name[key]}
    PROVE  Abstract!Obtain(g, "Queue", key)
  <1> DEFINE s == StoreOf(g)
             old == Settled(g)
  <1>1. s \in Store /\ s # NoStore /\ old.against = s /\ GrantOK(old, queues[s], metrics[s])
    BY StoreOfType, SettledOK, SharedGuestsAssumption DEF NoStore
  <1>2. /\ QueuesOK(queues[s]) /\ QueuesOK(queues'[s]) /\ QueuesGrow(queues[s], queues'[s])
        /\ MetricsOK(metrics[s]) /\ MetricsOK(metrics'[s]) /\ MetricsGrow(metrics[s], metrics'[s])
    BY <1>1 DEF StoreInv, StoresGrow
  <1>3. Handles(old, queues[s], metrics[s]) = Abstract!Kept(g) /\ s = Abstract!StoreOf(g)
    BY SettledHandles DEF Abstract!StoreOf, StoreOf
  <1>4. /\ grants'[g] = own /\ own.against = s /\ own.metrics = old.metrics
        /\ key \in DOMAIN queues'[s].by_name
        /\ own.queues = old.queues \cup {queues'[s].by_name[key]}
    BY DEF GuestTypes
  <1>5. \A h \in Guest : h # g => HandlesOf(h)' = HandlesOf(h)
    BY HandlesStep
  <1> HIDE DEF old, s
  <1>6. Handles(own, queues'[s], metrics'[s])
          = Handles(old, queues'[s], metrics'[s]) \cup {<<s, "Queue", key>>}
    BY <1>1, <1>2, <1>4, OneMoreQueue
  <1>7. Handles(old, queues'[s], metrics'[s]) = Abstract!Kept(g)
    BY <1>1, <1>2, <1>3, HandlesKept
  <1>8. HandlesOf(g)' = Abstract!Kept(g) \cup {<<Abstract!StoreOf(g), "Queue", key>>}
    BY <1>1, <1>3, <1>4, <1>6, <1>7, HandlesForm
  <1>9. QED
    BY <1>5, <1>8 DEF Abstract!Obtain

LEMMA ObtainMetric ==
    ASSUME StoreInv, StoreInv', StoresGrow, GuestTypes, GrantInv, NEW g \in Guest, NEW own,
           grants' = [grants EXCEPT ![g] = own],
           NEW key \in DOMAIN metrics'[StoreOf(g)].by_name,
           own.against = StoreOf(g), own.queues = Settled(g).queues,
           own.metrics = Settled(g).metrics \cup {metrics'[StoreOf(g)].by_name[key]}
    PROVE  Abstract!Obtain(g, "Metric", key)
  <1> DEFINE s == StoreOf(g)
             old == Settled(g)
  <1>1. s \in Store /\ s # NoStore /\ old.against = s /\ GrantOK(old, queues[s], metrics[s])
    BY StoreOfType, SettledOK, SharedGuestsAssumption DEF NoStore
  <1>2. /\ QueuesOK(queues[s]) /\ QueuesOK(queues'[s]) /\ QueuesGrow(queues[s], queues'[s])
        /\ MetricsOK(metrics[s]) /\ MetricsOK(metrics'[s]) /\ MetricsGrow(metrics[s], metrics'[s])
    BY <1>1 DEF StoreInv, StoresGrow
  <1>3. Handles(old, queues[s], metrics[s]) = Abstract!Kept(g) /\ s = Abstract!StoreOf(g)
    BY SettledHandles DEF Abstract!StoreOf, StoreOf
  <1>4. /\ grants'[g] = own /\ own.against = s /\ own.queues = old.queues
        /\ key \in DOMAIN metrics'[s].by_name
        /\ own.metrics = old.metrics \cup {metrics'[s].by_name[key]}
    BY DEF GuestTypes
  <1>5. \A h \in Guest : h # g => HandlesOf(h)' = HandlesOf(h)
    BY HandlesStep
  <1> HIDE DEF old, s
  <1>6. Handles(own, queues'[s], metrics'[s])
          = Handles(old, queues'[s], metrics'[s]) \cup {<<s, "Metric", key>>}
    BY <1>1, <1>2, <1>4, OneMoreMetric
  <1>7. Handles(old, queues'[s], metrics'[s]) = Abstract!Kept(g)
    BY <1>1, <1>2, <1>3, HandlesKept
  <1>8. HandlesOf(g)' = Abstract!Kept(g) \cup {<<Abstract!StoreOf(g), "Metric", key>>}
    BY <1>1, <1>3, <1>4, <1>6, <1>7, HandlesForm
  <1>9. QED
    BY <1>5, <1>8 DEF Abstract!Obtain

\* A change of one store is one of its abstract family alone.
LEMMA CellsStep ==
    ASSUME StoreInv, NEW s \in Store, NEW d, data' = [data EXCEPT ![s] = d]
    PROVE  [t \in Store |-> CellsOf(t)]' = [[t \in Store |-> CellsOf(t)] EXCEPT ![s] = Values(d)]
  <1>1. \A t \in Store : data'[t] = IF t = s THEN d ELSE data[t]
    BY DEF StoreInv
  <1>2. \A t \in Store : CellsOf(t)' = IF t = s THEN Values(d) ELSE CellsOf(t)
    BY <1>1 DEF CellsOf, Values
  <1>3. QED
    BY <1>2

LEMMA LinesStep ==
    ASSUME StoreInv, NEW s \in Store, NEW q, queues' = [queues EXCEPT ![s] = q]
    PROVE  [t \in Store |-> LinesOf(t)]' = [[t \in Store |-> LinesOf(t)] EXCEPT ![s] = Lines(q)]
  <1>1. \A t \in Store : queues'[t] = IF t = s THEN q ELSE queues[t]
    BY DEF StoreInv
  <1>2. \A t \in Store : LinesOf(t)' = IF t = s THEN Lines(q) ELSE LinesOf(t)
    BY <1>1 DEF LinesOf, Lines
  <1>3. QED
    BY <1>2

LEMMA MetersStep ==
    ASSUME StoreInv, NEW s \in Store, NEW m, metrics' = [metrics EXCEPT ![s] = m]
    PROVE  [t \in Store |-> MetersOf(t)]' = [[t \in Store |-> MetersOf(t)] EXCEPT ![s] = Meters(m)]
  <1>1. \A t \in Store : metrics'[t] = IF t = s THEN m ELSE metrics[t]
    BY DEF StoreInv
  <1>2. \A t \in Store : MetersOf(t)' = IF t = s THEN Meters(m) ELSE MetersOf(t)
    BY <1>1 DEF MetersOf, Meters
  <1>3. QED
    BY <1>2

\* The other families stay as they are.
LEMMA CellsSame == UNCHANGED data => UNCHANGED [t \in Store |-> CellsOf(t)]
    BY DEF CellsOf
LEMMA LinesSame == UNCHANGED queues => UNCHANGED [t \in Store |-> LinesOf(t)]
    BY DEF LinesOf
LEMMA MetersSame == UNCHANGED metrics => UNCHANGED [t \in Store |-> MetersOf(t)]
    BY DEF MetersOf

-----------------------------------------------------------------------------
(***************************************************************************)
(* The steps                                                               *)
(***************************************************************************)
LEMMA RefinedPlain ==
    ASSUME SharedInv, StoreInv', StoresGrow, NEW g \in Guest, PlainStep(g)
    PROVE  Abstract!Next \/ UNCHANGED Abstract!vars
  <1>0. StoreInv /\ GuestTypes /\ GrantInv
    BY DEF SharedInv
  <1>1. /\ UNCHANGED storeVars /\ UNCHANGED [t \in Store |-> CellsOf(t)]
        /\ UNCHANGED [t \in Store |-> LinesOf(t)] /\ UNCHANGED [t \in Store |-> MetersOf(t)]
    <2>1. UNCHANGED <<data, queues, metrics>>
      BY DEF PlainStep, ReplaceServices, Rebuild, CreateRoot, RejectRoot, DeleteRoot,
         RunCallback, OnQueueReady, TakeChanges, ReturnCallback, TrapCallback, SetTickPeriod,
         Observe, ReturnItem, LoseItem, storeVars
    <2>2. QED
      BY <2>1, CellsSame, LinesSame, MetersSame DEF storeVars
  <1>2. ASSUME UNCHANGED grants PROVE UNCHANGED [h \in Guest |-> HandlesOf(h)]
    BY <1>1, <1>2 DEF HandlesOf, storeVars
  <1>3. ASSUME NEW new \in Services, ReplaceServices(g, new) PROVE Abstract!Next
    <2>1. services' = [services EXCEPT ![g] = new] /\ UNCHANGED grants
      BY <1>3 DEF ReplaceServices, guestVars
    <2>2. Abstract!Replace(g)
      BY <1>1, <1>2, <2>1 DEF Abstract!Replace, Abstract!Services, Services
    <2>3. QED
      BY <2>2 DEF Abstract!Next
  <1>4. ASSUME NEW new \in Services, Rebuild(g, new) PROVE Abstract!Next
    <2>1. /\ services' = [services EXCEPT ![g] = new]
          /\ grants' = [grants EXCEPT ![g] = NoGrants(NoStore)]
      BY <1>4 DEF Rebuild
    <2>2. \A h \in Guest : h # g => HandlesOf(h)' = HandlesOf(h)
      BY <1>0, <2>1, HandlesStep
    <2>3. grants'[g].against = NoStore
      BY <1>0, <2>1 DEF GuestTypes, NoGrants
    <2>4. HandlesOf(g)' = {}
      BY <2>3, HandlesForm
    <2>5. Abstract!Renew(g)
      BY <1>1, <2>1, <2>2, <2>4 DEF Abstract!Renew, Abstract!Services, Services
    <2>6. QED
      BY <2>5 DEF Abstract!Next
  <1>5. ASSUME NEW r \in Root, DeleteRoot(g, r) PROVE UNCHANGED Abstract!vars
    <2> DEFINE new == [grants[g] EXCEPT !.registrants = WithoutRoot(@, r)]
    <2>1. grants' = [grants EXCEPT ![g] = new] /\ UNCHANGED services
      BY <1>0, <1>5 DEF DeleteRoot, GuestTypes
    <2>2. /\ new.queues = grants[g].queues /\ new.metrics = grants[g].metrics
          /\ new.against = grants[g].against
      BY <1>0 DEF GuestTypes, Grants
    <2>3. grants'[g] = new
      BY <1>0, <2>1 DEF GuestTypes
    <2> HIDE DEF new
    <2>4. HandlesOf(g)' = HandlesOf(g)
      BY <1>1, <2>2, <2>3 DEF HandlesOf, storeVars
    <2>5. \A h \in Guest : h # g => HandlesOf(h)' = HandlesOf(h)
      BY <1>0, <2>1, HandlesStep
    <2>6. QED
      BY <1>1, <2>1, <2>4, <2>5 DEF Abstract!vars
  <1>6. ASSUME UNCHANGED <<grants, services>> PROVE UNCHANGED Abstract!vars
    BY <1>1, <1>2, <1>6 DEF Abstract!vars
  <1>7. \/ UNCHANGED <<grants, services>>
        \/ \E new \in Services : ReplaceServices(g, new) \/ Rebuild(g, new)
        \/ \E r \in Root : DeleteRoot(g, r)
    BY DEF PlainStep, CreateRoot, RejectRoot, RunCallback, OnQueueReady, TakeChanges,
       ReturnCallback, TrapCallback, SetTickPeriod, Observe, ReturnItem, LoseItem, guestVars,
       embedderVars
  <1>8. QED
    BY <1>3, <1>4, <1>5, <1>6, <1>7

\* A host function that settles the grants and does nothing else looks.
LEMMA RefinedLook ==
    ASSUME SharedInv, StoreInv', StoresGrow, NEW g \in Guest,
           grants' = [grants EXCEPT ![g] = Settled(g)], UNCHANGED <<data, queues, metrics, services>>
    PROVE  Abstract!Look(g)
    BY DropStep, CellsSame, LinesSame, MetersSame DEF Abstract!Look, SharedInv

LEMMA RefinedWrite ==
    ASSUME SharedInv, StoreInv', StoresGrow, NEW g \in Guest, NEW n \in Name, NEW value \in Item, NEW cas,
           SetSharedData(g, n, value, cas), Writes(g, n, value, cas)
    PROVE  Abstract!Write(g, n, value)
  <1> DEFINE s == StoreOf(g)
             key == KeyOf(g, n)
             d == Written(data[s], key, value)
  <1>0. StoreInv /\ GuestTypes /\ GrantInv /\ s \in Store
    BY StoreOfType DEF SharedInv
  <1>1. /\ data' = [data EXCEPT ![s] = d] /\ UNCHANGED <<queues, metrics, services>>
        /\ grants' = [grants EXCEPT ![g] = Settled(g)]
    BY DEF SetSharedData, Writes, embedderVars
  <1>2. Abstract!Drop(g) /\ UNCHANGED [t \in Store |-> LinesOf(t)] /\ UNCHANGED [t \in Store |-> MetersOf(t)]
    BY <1>0, <1>1, DropStep, LinesSame, MetersSame
  <1>3. s = Abstract!StoreOf(g) /\ key = <<services[g].vm, n>> /\ CellsOf(s) = Values(data[s])
    BY DEF Abstract!StoreOf, StoreOf, KeyOf, CellsOf, Values
  <1>4. Values(d) = Abstract!Set(CellsOf(s), key, value)
    BY <1>3, WrittenValues
  <1> HIDE DEF d, s, key
  <1>5. [t \in Store |-> CellsOf(t)]' = [[t \in Store |-> CellsOf(t)] EXCEPT ![s] = Values(d)]
    BY <1>0, <1>1, CellsStep
  <1>6. [t \in Store |-> CellsOf(t)][s] = CellsOf(s)
    BY <1>0
  <1>7. QED
    BY <1>1, <1>2, <1>3, <1>4, <1>5, <1>6 DEF Abstract!Write

\* register_shared_queue finds the queue or makes it.
LEMMA RefinedRegister ==
    ASSUME SharedInv, StoreInv', StoresGrow, NEW g \in Guest, NEW n \in Name,
           RegisterSharedQueue(g, n), Registers(g, n)
    PROVE  Abstract!FindQueue(g, KeyOf(g, n)) \/ Abstract!MakeQueue(g, n)
  <1> DEFINE s == StoreOf(g)
             key == KeyOf(g, n)
             r == Registered(queues[s], key)
             own == Settled(g)
             new == [own EXCEPT !.queues = @ \cup {r.by_name[key]}, !.names = @ \cup {RegisteredName(n)},
                                !.registrants = @ \cup {<<r.by_name[key], serving[g]>>}]
  <1>0. /\ StoreInv /\ GuestTypes /\ GrantInv /\ s \in Store /\ key \in Key /\ own \in Grants
        /\ own.against = s /\ QueuesOK(queues[s])
    BY StoreOfType, SettledType, SettledOK DEF SharedInv, StoreInv
  <1>1. /\ queues' = [queues EXCEPT ![s] = r] /\ UNCHANGED <<data, metrics, services>>
        /\ grants' = [grants EXCEPT ![g] = new] /\ RegisterStatus(queues[s], key) = "Ok"
    BY DEF RegisterSharedQueue, Registers, RegisteredName, embedderVars
  <1>2. key \in DOMAIN r.by_name
    BY <1>0, <1>1, RegisteredOK
  <1>3. key \in DOMAIN queues[s].by_name => r = queues[s]
    BY DEF Registered
  <1>4. key \notin DOMAIN queues[s].by_name => Lines(r) = Abstract!Set(Lines(queues[s]), key, <<>>)
    BY <1>0, <1>1, RegisteredLines
  <1>5. s = Abstract!StoreOf(g) /\ key = <<services[g].vm, n>> /\ LinesOf(s) = Lines(queues[s])
    BY DEF Abstract!StoreOf, StoreOf, KeyOf, LinesOf, Lines
  <1> HIDE DEF r
  <1>6. queues'[s] = r
    BY <1>0, <1>1 DEF StoreInv
  <1>7. /\ new.against = s /\ new.metrics = own.metrics
        /\ new.queues = own.queues \cup {r.by_name[key]}
    BY <1>0 DEF Grants
  <1>8. Abstract!Obtain(g, "Queue", key)
    <2> HIDE DEF new, key
    <2>1. QED
      BY <1>0, <1>1, <1>2, <1>6, <1>7, ObtainQueue
  <1> HIDE DEF new, own, s, key
  <1>9. [t \in Store |-> LinesOf(t)]' = [[t \in Store |-> LinesOf(t)] EXCEPT ![s] = Lines(r)]
    BY <1>0, <1>1, LinesStep
  <1>10. UNCHANGED [t \in Store |-> CellsOf(t)] /\ UNCHANGED [t \in Store |-> MetersOf(t)]
    BY <1>1, CellsSame, MetersSame
  <1>11. [t \in Store |-> LinesOf(t)][s] = Lines(queues[s]) /\ DOMAIN Lines(queues[s]) = DOMAIN queues[s].by_name
    BY <1>0, <1>5 DEF Lines
  <1>12. CASE key \in DOMAIN queues[s].by_name
    <2>1. UNCHANGED [t \in Store |-> LinesOf(t)]
      BY <1>0, <1>1, <1>3, <1>12, LinesSame DEF StoreInv
    <2>2. Abstract!FindQueue(g, key)
      BY <1>1, <1>5, <1>8, <1>10, <1>11, <1>12, <2>1 DEF Abstract!FindQueue
    <2>3. QED
      BY <2>2 DEF key
  <1>13. CASE key \notin DOMAIN queues[s].by_name
    <2>1. Abstract!MakeQueue(g, n)
      BY <1>1, <1>4, <1>5, <1>8, <1>9, <1>10, <1>11, <1>13 DEF Abstract!MakeQueue
    <2>2. QED
      BY <2>1
  <1>14. QED
    BY <1>12, <1>13

LEMMA RefinedResolve ==
    ASSUME SharedInv, StoreInv', StoresGrow, NEW g \in Guest, NEW key \in Key,
           ResolveSharedQueue(g, key), Resolves(g, key)
    PROVE  Abstract!FindQueue(g, key)
  <1> DEFINE s == StoreOf(g)
             own == Settled(g)
             new == [own EXCEPT !.queues = @ \cup {queues[s].by_name[key]},
                                !.names = @ \cup {ResolvedName(key)}]
  <1>0. /\ StoreInv /\ GuestTypes /\ GrantInv /\ s \in Store /\ own \in Grants /\ own.against = s
    BY StoreOfType, SettledType, SettledOK DEF SharedInv
  <1>1. /\ UNCHANGED <<data, queues, metrics, services>>
        /\ grants' = [grants EXCEPT ![g] = new] /\ key \in DOMAIN queues[s].by_name
    BY DEF ResolveSharedQueue, Resolves, ResolvedName, ResolveStatus, embedderVars, storeVars
  <1>2. s = Abstract!StoreOf(g) /\ LinesOf(s) = Lines(queues[s])
    BY DEF Abstract!StoreOf, StoreOf, LinesOf, Lines
  <1>3. /\ new.against = s /\ new.metrics = own.metrics
        /\ new.queues = own.queues \cup {queues'[s].by_name[key]} /\ key \in DOMAIN queues'[s].by_name
    BY <1>0, <1>1 DEF Grants
  <1>4. Abstract!Obtain(g, "Queue", key)
    <2> HIDE DEF new
    <2>1. QED
      BY <1>0, <1>1, <1>3, ObtainQueue
  <1> HIDE DEF new, own, s
  <1>5. key \in DOMAIN [t \in Store |-> LinesOf(t)][s]
    BY <1>0, <1>1, <1>2 DEF Lines
  <1>6. QED
    BY <1>1, <1>2, <1>4, <1>5, CellsSame, LinesSame, MetersSame DEF Abstract!FindQueue

\* A number a guest may use stands for the key of a queue it holds a handle of.
LEMMA QueueHandle ==
    ASSUME SharedInv, NEW g \in Guest, NEW q, MayUseQueue(g, q)
    PROVE  /\ q \in 1 .. queues[StoreOf(g)].next
           /\ queues[StoreOf(g)].owners[q] \in Key
           /\ Abstract!Holds(g, "Queue", queues[StoreOf(g)].owners[q])
  <1> DEFINE s == StoreOf(g)
             own == Settled(g)
             key == queues[s].owners[q]
  <1>0. StoreInv /\ GuestTypes /\ GrantInv /\ s \in Store /\ QueuesOK(queues[s])
    BY StoreOfType DEF SharedInv, StoreInv
  <1>1. own.against = s /\ GrantOK(own, queues[s], metrics[s]) /\ q \in own.queues
    BY <1>0, SettledOK DEF MayUseQueue
  <1>2. q \in 1 .. queues[s].next
    BY <1>1 DEF GrantOK
  <1>3. key \in DOMAIN queues[s].by_name /\ queues[s].by_name[key] = q
    BY <1>0, <1>2 DEF QueuesOK, QueuesAgree
  <1>4. key \in Key
    BY <1>0, <1>3, QueueFields, PartialFcnDef DEF QueuesOK
  <1>5. <<s, "Queue", key>> \in Handles(own, queues[s], metrics[s])
    BY <1>1, <1>3 DEF Handles
  <1>6. <<s, "Queue", key>> \in HandlesOf(g)
    BY <1>0, <1>5, SettledHandles DEF Abstract!Kept
  <1>7. QED
    BY <1>2, <1>4, <1>6 DEF Abstract!Holds, Abstract!StoreOf, StoreOf

LEMMA RefinedEnqueue ==
    ASSUME SharedInv, StoreInv', StoresGrow, NEW g \in Guest, NEW q, NEW item \in Item,
           EnqueueSharedQueue(g, q, item), Enqueues(g, q, item)
    PROVE  \E key \in Key : Abstract!Send(g, key, item)
  <1> DEFINE s == StoreOf(g)
             r == Enqueued(queues[s], q, item)
             key == queues[s].owners[q]
             line == queues[s].items[q]
  <1>0. StoreInv /\ GuestTypes /\ GrantInv /\ s \in Store /\ QueuesOK(queues[s])
    BY StoreOfType DEF SharedInv, StoreInv
  <1>1. /\ queues' = [queues EXCEPT ![s] = r] /\ UNCHANGED <<data, metrics, services>>
        /\ grants' = [grants EXCEPT ![g] = Settled(g)]
        /\ MayUseQueue(g, q) /\ EnqueueStatus(queues[s], q, item) = "Ok"
    BY DEF EnqueueSharedQueue, Enqueues, embedderVars
  <1>2. q \in 1 .. queues[s].next /\ key \in Key /\ Abstract!Holds(g, "Queue", key)
    BY <1>1, QueueHandle
  <1>3. Abstract!Drop(g) /\ UNCHANGED [t \in Store |-> CellsOf(t)] /\ UNCHANGED [t \in Store |-> MetersOf(t)]
    BY <1>0, <1>1, DropStep, CellsSame, MetersSame
  <1>4. /\ r.by_name = queues[s].by_name /\ r.items[q] = Append(line, item)
        /\ \A i \in 1 .. queues[s].next : i # q => r.items[i] = queues[s].items[i]
    BY <1>0, <1>1, EnqueuedOK
  <1>5. s = Abstract!StoreOf(g) /\ LinesOf(s) = Lines(queues[s])
    BY DEF Abstract!StoreOf, StoreOf, LinesOf, Lines
  <1> HIDE DEF r, s
  <1>6. [t \in Store |-> LinesOf(t)]' = [[t \in Store |-> LinesOf(t)] EXCEPT ![s] = Lines(r)]
    BY <1>0, <1>1, LinesStep
  <1>7. /\ key \in DOMAIN Lines(queues[s]) /\ Lines(queues[s])[key] = line
        /\ Lines(r) = [Lines(queues[s]) EXCEPT ![key] = Append(line, item)]
    BY <1>0, <1>2, <1>4, ChangedLine
  <1> HIDE DEF key, line
  <1>8. [t \in Store |-> LinesOf(t)]'
          = [[t \in Store |-> LinesOf(t)] EXCEPT ![s][key] = Append(@, item)]
    BY <1>0, <1>5, <1>6, <1>7
  <1>9. Abstract!Send(g, key, item)
    BY <1>1, <1>2, <1>3, <1>5, <1>8 DEF Abstract!Send
  <1>10. QED
    BY <1>2, <1>9

LEMMA RefinedDequeue ==
    ASSUME SharedInv, StoreInv', StoresGrow, NEW g \in Guest, NEW q,
           DequeueSharedQueue(g, q), Dequeues(g, q)
    PROVE  \E key \in Key : Abstract!Take(g, key)
  <1> DEFINE s == StoreOf(g)
             r == Dequeued(queues[s], q)
             key == queues[s].owners[q]
             line == queues[s].items[q]
  <1>0. StoreInv /\ GuestTypes /\ GrantInv /\ s \in Store /\ QueuesOK(queues[s])
    BY StoreOfType DEF SharedInv, StoreInv
  <1>1. /\ queues' = [queues EXCEPT ![s] = r] /\ UNCHANGED <<data, metrics, services>>
        /\ grants' = [grants EXCEPT ![g] = Settled(g)]
        /\ MayUseQueue(g, q) /\ DequeueStatus(queues[s], q) = "Ok"
    BY DEF DequeueSharedQueue, Dequeues, embedderVars
  <1>2. q \in 1 .. queues[s].next /\ key \in Key /\ Abstract!Holds(g, "Queue", key)
    BY <1>1, QueueHandle
  <1>3. Abstract!Drop(g) /\ UNCHANGED [t \in Store |-> CellsOf(t)] /\ UNCHANGED [t \in Store |-> MetersOf(t)]
    BY <1>0, <1>1, DropStep, CellsSame, MetersSame
  <1>4. /\ r.by_name = queues[s].by_name /\ r.items[q] = Tail(line) /\ line # <<>>
        /\ \A i \in 1 .. queues[s].next : i # q => r.items[i] = queues[s].items[i]
    BY <1>0, <1>1, DequeuedOK
  <1>5. s = Abstract!StoreOf(g) /\ LinesOf(s) = Lines(queues[s])
    BY DEF Abstract!StoreOf, StoreOf, LinesOf, Lines
  <1> HIDE DEF r, s
  <1>6. [t \in Store |-> LinesOf(t)]' = [[t \in Store |-> LinesOf(t)] EXCEPT ![s] = Lines(r)]
    BY <1>0, <1>1, LinesStep
  <1>7. /\ key \in DOMAIN Lines(queues[s]) /\ Lines(queues[s])[key] = line
        /\ Lines(r) = [Lines(queues[s]) EXCEPT ![key] = Tail(line)]
    BY <1>0, <1>2, <1>4, ChangedLine
  <1> HIDE DEF key, line
  <1>8. /\ [t \in Store |-> LinesOf(t)]' = [[t \in Store |-> LinesOf(t)] EXCEPT ![s][key] = Tail(@)]
        /\ [t \in Store |-> LinesOf(t)][s][key] # <<>>
    BY <1>0, <1>4, <1>5, <1>6, <1>7
  <1>9. Abstract!Take(g, key)
    BY <1>1, <1>2, <1>3, <1>5, <1>8 DEF Abstract!Take
  <1>10. QED
    BY <1>2, <1>9

LEMMA RefinedDefine ==
    ASSUME SharedInv, StoreInv', StoresGrow, NEW g \in Guest, NEW n \in Name, NEW kind \in MetricKind,
           DefineMetric(g, n, kind), Defines(g, n, kind)
    PROVE  Abstract!MakeMetric(g, n, kind)
  <1> DEFINE s == StoreOf(g)
             key == KeyOf(g, n)
             w == Defined(metrics[s], key, kind)
             own == Settled(g)
             new == [own EXCEPT !.metrics = @ \cup {w.by_name[key]}, !.names = @ \cup {MetricName(kind, n)}]
             entry == [kind |-> kind, value |-> 0]
  <1>0. /\ StoreInv /\ GuestTypes /\ GrantInv /\ s \in Store /\ key \in Key /\ own \in Grants
        /\ own.against = s /\ MetricsOK(metrics[s])
    BY StoreOfType, SettledType, SettledOK DEF SharedInv, StoreInv
  <1>1. /\ metrics' = [metrics EXCEPT ![s] = w] /\ UNCHANGED <<data, queues, services>>
        /\ grants' = [grants EXCEPT ![g] = new] /\ DefineStatus(metrics[s], key, kind) = "Ok"
    BY DEF DefineMetric, Defines, MetricName, embedderVars
  <1>2. key \in DOMAIN w.by_name
    BY <1>0, <1>1, DefinedOK
  <1>3. key \in DOMAIN metrics[s].by_name =>
            w = metrics[s] /\ metrics[s].entries[metrics[s].by_name[key]].kind = kind
    BY <1>1 DEF Defined, DefineStatus
  <1>4. key \notin DOMAIN metrics[s].by_name => Meters(w) = Abstract!Set(Meters(metrics[s]), key, entry)
    BY <1>0, <1>1, DefinedMeters
  <1>5. s = Abstract!StoreOf(g) /\ key = <<services[g].vm, n>> /\ MetersOf(s) = Meters(metrics[s])
    BY DEF Abstract!StoreOf, StoreOf, KeyOf, MetersOf, Meters
  <1> HIDE DEF w
  <1>6. metrics'[s] = w
    BY <1>0, <1>1 DEF StoreInv
  <1>7. /\ new.against = s /\ new.queues = own.queues
        /\ new.metrics = own.metrics \cup {w.by_name[key]}
    BY <1>0 DEF Grants
  <1>8. Abstract!Obtain(g, "Metric", key)
    <2> HIDE DEF new, key
    <2>1. QED
      BY <1>0, <1>1, <1>2, <1>6, <1>7, ObtainMetric
  <1> HIDE DEF new, own, s, key
  <1>9. [t \in Store |-> MetersOf(t)]' = [[t \in Store |-> MetersOf(t)] EXCEPT ![s] = Meters(w)]
    BY <1>0, <1>1, MetersStep
  <1>10. UNCHANGED [t \in Store |-> CellsOf(t)] /\ UNCHANGED [t \in Store |-> LinesOf(t)]
    BY <1>1, CellsSame, LinesSame
  <1>11. /\ [t \in Store |-> MetersOf(t)][s] = Meters(metrics[s])
         /\ DOMAIN Meters(metrics[s]) = DOMAIN metrics[s].by_name
    BY <1>0, <1>5 DEF Meters
  <1>12. CASE key \in DOMAIN metrics[s].by_name
    <2>1. UNCHANGED [t \in Store |-> MetersOf(t)]
      BY <1>0, <1>1, <1>3, <1>12, MetersSame DEF StoreInv
    <2>2. Meters(metrics[s])[key].kind = kind
      BY <1>3, <1>12 DEF Meters
    <2>3. QED
      BY <1>1, <1>5, <1>8, <1>10, <1>11, <1>12, <2>1, <2>2 DEF Abstract!MakeMetric
  <1>13. CASE key \notin DOMAIN metrics[s].by_name
    BY <1>1, <1>4, <1>5, <1>8, <1>9, <1>10, <1>11, <1>13 DEF Abstract!MakeMetric
  <1>14. QED
    BY <1>12, <1>13

\* A change of the value of a metric that is no histogram.
LEMMA RefinedMove ==
    ASSUME SharedInv, StoreInv', StoresGrow, NEW g \in Guest, NEW m, NEW value \in 0 .. MaxMetric, NEW w,
           MayUseMetric(g, m), m \in DOMAIN metrics[StoreOf(g)].entries,
           metrics[StoreOf(g)].entries[m].kind # "Histogram",
           w = [metrics[StoreOf(g)] EXCEPT !.entries[m].value = value],
           metrics' = [metrics EXCEPT ![StoreOf(g)] = w],
           grants' = [grants EXCEPT ![g] = Settled(g)], UNCHANGED <<data, queues, services>>
    PROVE  \E key \in Key : Abstract!Move(g, key, value)
  <1> DEFINE s == StoreOf(g)
             own == Settled(g)
  <1>0. StoreInv /\ GuestTypes /\ GrantInv /\ s \in Store /\ MetricsOK(metrics[s])
    BY StoreOfType DEF SharedInv, StoreInv
  <1>m. PICK key \in DOMAIN metrics[s].by_name : Moved(metrics[s], w, m, key, value)
    BY <1>0, ChangedMeter
  <1>1. /\ metrics[s].by_name[key] = m /\ Meters(metrics[s])[key] = metrics[s].entries[m]
        /\ key \in Key /\ key \in DOMAIN Meters(metrics[s])
        /\ Meters(w) = [Meters(metrics[s]) EXCEPT ![key].value = value]
    BY <1>m DEF Moved
  <1>2. Abstract!Drop(g) /\ UNCHANGED [t \in Store |-> CellsOf(t)] /\ UNCHANGED [t \in Store |-> LinesOf(t)]
    BY <1>0, DropStep, CellsSame, LinesSame
  <1>3. s = Abstract!StoreOf(g) /\ MetersOf(s) = Meters(metrics[s])
    BY DEF Abstract!StoreOf, StoreOf, MetersOf, Meters
  <1>4. Abstract!Holds(g, "Metric", key)
    <2>1. own.against = s /\ m \in own.metrics
      BY <1>0, SettledOK DEF MayUseMetric
    <2>2. <<s, "Metric", key>> \in Handles(own, queues[s], metrics[s])
      BY <1>1, <2>1 DEF Handles
    <2>3. <<s, "Metric", key>> \in HandlesOf(g)
      BY <1>0, <2>2, SettledHandles DEF Abstract!Kept
    <2>4. QED
      BY <2>3 DEF Abstract!Holds, Abstract!StoreOf, StoreOf
  <1>5. [t \in Store |-> MetersOf(t)]' = [[t \in Store |-> MetersOf(t)] EXCEPT ![s] = Meters(w)]
    BY <1>0, MetersStep
  <1>6. metrics[s].entries[m].kind # "Histogram" /\ UNCHANGED services
    OBVIOUS
  <1> HIDE DEF s
  <1>7. /\ [t \in Store |-> MetersOf(t)]'
             = [[t \in Store |-> MetersOf(t)] EXCEPT ![s][key].value = value]
        /\ [t \in Store |-> MetersOf(t)][s][key].kind # "Histogram"
    BY <1>0, <1>1, <1>3, <1>5, <1>6
  <1>8. Abstract!Move(g, key, value)
    BY <1>2, <1>3, <1>4, <1>6, <1>7 DEF Abstract!Move
  <1>9. QED
    BY <1>1, <1>8

\* record_metric sets the value of a metric, and is heard and forgotten by a
\* histogram.
LEMMA RefinedRecord ==
    ASSUME SharedInv, StoreInv', StoresGrow, NEW g \in Guest, NEW m, NEW value \in 0 .. MaxMetric,
           RecordMetric(g, m, value), Records(g, m)
    PROVE  Abstract!Look(g) \/ \E key \in Key : Abstract!Move(g, key, value)
  <1> DEFINE s == StoreOf(g)
             w == Recorded(metrics[s], m, value)
  <1>1. /\ metrics' = [metrics EXCEPT ![s] = w] /\ UNCHANGED <<data, queues, services>>
        /\ grants' = [grants EXCEPT ![g] = Settled(g)]
        /\ MayUseMetric(g, m) /\ m \in DOMAIN metrics[s].entries
    BY DEF RecordMetric, Records, RecordStatus, embedderVars
  <1>2. s \in Store /\ metrics \in [Store -> MetricFamily]
    BY StoreOfType DEF SharedInv, StoreInv
  <1>3. CASE metrics[s].entries[m].kind = "Histogram"
    <2>1. w = metrics[s]
      BY <1>3 DEF Recorded
    <2>2. UNCHANGED metrics
      BY <1>1, <1>2, <2>1
    <2>3. QED
      BY <1>1, <2>2, RefinedLook
  <1>4. CASE metrics[s].entries[m].kind # "Histogram"
    <2>1. w = [metrics[s] EXCEPT !.entries[m].value = value]
      BY <1>4 DEF Recorded
    <2> HIDE DEF w
    <2>2. QED
      BY <1>1, <1>4, <2>1, RefinedMove
  <1>5. QED
    BY <1>3, <1>4

LEMMA RefinedIncrement ==
    ASSUME SharedInv, StoreInv', StoresGrow, NEW g \in Guest, NEW m, NEW delta \in Int,
           IncrementMetric(g, m, delta), Increments(g, m, delta)
    PROVE  \E key \in Key, value \in 0 .. MaxMetric : Abstract!Move(g, key, value)
  <1> DEFINE s == StoreOf(g)
             w == Incremented(metrics[s], m, delta)
             value == metrics[s].entries[m].value + delta
  <1>1. /\ metrics' = [metrics EXCEPT ![s] = w] /\ UNCHANGED <<data, queues, services>>
        /\ grants' = [grants EXCEPT ![g] = Settled(g)]
        /\ MayUseMetric(g, m) /\ IncrementStatus(metrics[s], m, delta) = "Ok"
    BY DEF IncrementMetric, Increments, embedderVars
  <1>2. /\ value \in 0 .. MaxMetric /\ metrics[s].entries[m].kind # "Histogram"
        /\ m \in DOMAIN metrics[s].entries
    BY <1>1 DEF IncrementStatus
  <1>3. w = [metrics[s] EXCEPT !.entries[m].value = value]
    BY DEF Incremented
  <1> HIDE DEF w, value
  <1>4. \E key \in Key : Abstract!Move(g, key, value)
    BY <1>1, <1>2, <1>3, RefinedMove
  <1>5. QED
    BY <1>2, <1>4

\* Every step of the guests and of their stores is one of Sharing, or none that
\* it can see.
LEMMA RefinedNext ==
    ASSUME SharedInv, [Next]_vars
    PROVE  [Abstract!Next]_(Abstract!vars)
  <1>0. StoreInv' /\ StoresGrow
    BY StoreNext DEF SharedInv
  <1>k. Key = Abstract!Key
    BY DEF Key, Abstract!Key
  <1>1. CASE UNCHANGED vars
    <2>1. UNCHANGED <<data, queues, metrics, grants, services>>
      BY <1>1 DEF vars, storeVars, guestVars, embedderVars
    <2>2. UNCHANGED [g \in Guest |-> HandlesOf(g)]
      BY <2>1 DEF HandlesOf
    <2>3. QED
      BY <2>1, <2>2, CellsSame, LinesSame, MetersSame DEF Abstract!vars
  <1>2. CASE Next
    <2>1. PICK g \in Guest : \/ PlainStep(g) \/ StoreStep(g)
                             \/ Running(g) /\ Settle(g)
                             \/ \E n \in Name : GetSharedData(g, n)
      BY <1>2, NextForms
    <2>2. CASE PlainStep(g)
      BY <1>0, <2>2, RefinedPlain
    <2>3. CASE \/ Running(g) /\ Settle(g)
               \/ \E n \in Name : GetSharedData(g, n)
      <3>1. /\ grants' = [grants EXCEPT ![g] = Settled(g)]
            /\ UNCHANGED <<data, queues, metrics, services>>
        BY <2>3 DEF Settle, GetSharedData, storeVars, embedderVars
      <3>2. Abstract!Look(g)
        BY <1>0, <3>1, RefinedLook
      <3>3. QED
        BY <3>2 DEF Abstract!Next
    <2>4. ASSUME NEW n \in Name, NEW value \in Item, NEW cas \in 0 .. MaxCas,
                 SetSharedData(g, n, value, cas), Writes(g, n, value, cas)
          PROVE  Abstract!Next
      <3>1. Abstract!Write(g, n, value)
        BY <1>0, <2>4, RefinedWrite
      <3>2. QED
        BY <3>1 DEF Abstract!Next
    <2>5. ASSUME NEW n \in Name, RegisterSharedQueue(g, n), Registers(g, n)
          PROVE  Abstract!Next
      <3>1. Abstract!FindQueue(g, KeyOf(g, n)) \/ Abstract!MakeQueue(g, n)
        BY <1>0, <2>5, RefinedRegister
      <3>2. KeyOf(g, n) \in Key
        BY StoreOfType DEF SharedInv
      <3>3. QED
        BY <1>k, <3>1, <3>2 DEF Abstract!Next
    <2>6. ASSUME NEW key \in Key, ResolveSharedQueue(g, key), Resolves(g, key)
          PROVE  Abstract!Next
      <3>1. Abstract!FindQueue(g, key)
        BY <1>0, <2>6, RefinedResolve
      <3>2. QED
        BY <1>k, <3>1 DEF Abstract!Next
    <2>7. ASSUME NEW q \in QueueId, NEW item \in Item,
                 EnqueueSharedQueue(g, q, item), Enqueues(g, q, item)
          PROVE  Abstract!Next
      <3>1. \E key \in Key : Abstract!Send(g, key, item)
        BY <1>0, <2>7, RefinedEnqueue
      <3>2. QED
        BY <1>k, <3>1 DEF Abstract!Next
    <2>8. ASSUME NEW q \in QueueId, DequeueSharedQueue(g, q), Dequeues(g, q)
          PROVE  Abstract!Next
      <3>1. \E key \in Key : Abstract!Take(g, key)
        BY <1>0, <2>8, RefinedDequeue
      <3>2. QED
        BY <1>k, <3>1 DEF Abstract!Next
    <2>9. ASSUME NEW n \in Name, NEW kind \in MetricKind,
                 DefineMetric(g, n, kind), Defines(g, n, kind)
          PROVE  Abstract!Next
      <3>1. Abstract!MakeMetric(g, n, kind)
        BY <1>0, <2>9, RefinedDefine
      <3>2. QED
        BY <3>1 DEF Abstract!Next
    <2>10. ASSUME NEW m \in MetricId, NEW value \in 0 .. MaxMetric,
                  RecordMetric(g, m, value), Records(g, m)
           PROVE  Abstract!Next
      <3>1. Abstract!Look(g) \/ \E key \in Key : Abstract!Move(g, key, value)
        BY <1>0, <2>10, RefinedRecord
      <3>2. QED
        BY <1>k, <3>1 DEF Abstract!Next
    <2>11. ASSUME NEW m \in MetricId, NEW delta \in Delta,
                  IncrementMetric(g, m, delta), Increments(g, m, delta)
           PROVE  Abstract!Next
      <3>1. delta \in Int
        BY SharedGuestsAssumption
      <3>2. \E key \in Key, value \in 0 .. MaxMetric : Abstract!Move(g, key, value)
        BY <1>0, <2>11, <3>1, RefinedIncrement
      <3>3. QED
        BY <1>k, <3>2 DEF Abstract!Next
    <2>12. CASE StoreStep(g)
      BY <2>4, <2>5, <2>6, <2>7, <2>8, <2>9, <2>10, <2>11, <2>12 DEF StoreStep
    <2>13. QED
      BY <2>1, <2>2, <2>3, <2>12
  <1>3. QED
    BY <1>1, <1>2

\* For any guests, stores and limits: what the shared host functions do with their
\* small identifiers and the grants of AbiState (shared_data.rs, shared_queue.rs,
\* metrics.rs, state.rs) is what Sharing allows with handles.  A guest changes a
\* queue or a metric only through a handle it obtained by name from the store it
\* has now, and a key of the shared data or a metric only under its own VM id.
THEOREM SharingImplemented == Spec => ImplementsSharing
  <1>1. Init => Abstract!Init
    BY RefinedInit
  <1>2. SharedInv /\ [Next]_vars => [Abstract!Next]_(Abstract!vars)
    BY RefinedNext
  <1>3. QED
    BY <1>1, <1>2, SharedInvariant, PTL DEF Spec, ImplementsSharing, Abstract!Spec
=============================================================================
