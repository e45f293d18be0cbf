---------------------------- MODULE SharedProofs ----------------------------
(***************************************************************************)
(* Theorems about SharedGuests, for any number of guests, stores, names    *)
(* and items and any limits: first what the operators of the store keep,   *)
(* then the invariant of the guests and the properties that follow.        *)
(***************************************************************************)
EXTENDS SharedGuests, FiniteSetTheorems, TLAPS

\* The functions from a part of S to T.
PartialFcn(S, T) == UNION {[D -> T] : D \in SUBSET S}

DataEntry   == [value : Item, cas : 1 .. MaxCas]
MetricEntry == [kind : MetricKind, value : 0 .. MaxMetric]

DataFamily == PartialFcn(Key, DataEntry)
QueueFamily ==
    [by_name : PartialFcn(Key, Nat), owners : PartialFcn(Nat, Key),
     items : PartialFcn(Nat, Seq(Item)), next : 0 .. MaxId]
MetricFamily ==
    [by_name : PartialFcn(Key, Nat), entries : PartialFcn(Nat, MetricEntry), next : 0 .. MaxId]

\* A store keeps its limit of keys.
DataOK(d) == d \in DataFamily /\ IsFiniteSet(DOMAIN d) /\ Cardinality(DOMAIN d) <= MaxKeys

\* The three maps of the queues tell of the same identifiers, and the limits hold.
QueuesAgree(q) ==
    /\ DOMAIN q.items = 1 .. q.next /\ DOMAIN q.owners = 1 .. q.next
    /\ \A id \in 1 .. q.next : q.owners[id] \in DOMAIN q.by_name /\ q.by_name[q.owners[id]] = id
    /\ \A k \in DOMAIN q.by_name : q.by_name[k] \in 1 .. q.next /\ q.owners[q.by_name[k]] = k
QueuesOK(q) ==
    /\ q \in QueueFamily /\ QueuesAgree(q)
    /\ IsFiniteSet(DOMAIN q.by_name) /\ Cardinality(DOMAIN q.by_name) <= MaxQueues
    /\ \A id \in 1 .. q.next : Len(q.items[id]) <= MaxQueueItems

\* The two maps of the metrics do.
MetricsAgree(m) ==
    /\ DOMAIN m.entries = 1 .. m.next
    /\ \A id \in 1 .. m.next : \E k \in DOMAIN m.by_name : m.by_name[k] = id
    /\ \A k, l \in DOMAIN m.by_name :
          m.by_name[k] \in 1 .. m.next /\ (m.by_name[k] = m.by_name[l] => k = l)
MetricsOK(m) ==
    /\ m \in MetricFamily /\ MetricsAgree(m)
    /\ IsFiniteSet(DOMAIN m.by_name) /\ Cardinality(DOMAIN m.by_name) <= MaxMetrics

-----------------------------------------------------------------------------
(***************************************************************************)
(* The operators of SharedStore                                            *)
(***************************************************************************)
LEMMA PartialFcnDef ==
    ASSUME NEW S, NEW T, NEW f
    PROVE  f \in PartialFcn(S, T) <=> DOMAIN f \subseteq S /\ f \in [DOMAIN f -> T]
    BY DEF PartialFcn

\* One more argument.
LEMMA WithType ==
    ASSUME NEW S, NEW T, NEW f \in PartialFcn(S, T), NEW k \in S, NEW v \in T
    PROVE  /\ With(f, k, v) \in PartialFcn(S, T)
           /\ DOMAIN With(f, k, v) = DOMAIN f \cup {k}
           /\ With(f, k, v)[k] = v
           /\ \A x \in DOMAIN f : x # k => With(f, k, v)[x] = f[x]
    BY PartialFcnDef DEF With

\* A key more than there were, at most.
LEMMA DomainGrows ==
    ASSUME NEW D, NEW k, NEW max \in Nat, IsFiniteSet(D),
           (k \in D /\ Cardinality(D) <= max) \/ Cardinality(D) < max
    PROVE  IsFiniteSet(D \cup {k}) /\ Cardinality(D \cup {k}) <= max
  <1>1. CASE k \in D
    <2>1. D \cup {k} = D
      BY <1>1
    <2>2. Cardinality(D) \in Nat
      BY FS_CardinalityType
    <2>3. QED
      BY <2>1, <2>2
  <1>2. CASE k \notin D
    <2>1. Cardinality(D) \in Nat
      BY FS_CardinalityType
    <2>2. IsFiniteSet(D \cup {k}) /\ Cardinality(D \cup {k}) = Cardinality(D) + 1
      BY <1>2, FS_AddElement
    <2>3. QED
      BY <1>2, <2>1, <2>2
  <1>3. QED
    BY <1>1, <1>2

\* The number of a write is never zero, and stays in range (store.rs, next_cas).
LEMMA WrittenOK ==
    ASSUME NEW d, DataOK(d), NEW key \in Key, NEW value \in Item, NEW cas,
           SetStatus(d, key, value, cas) = "Ok"
    PROVE  DataOK(Written(d, key, value))
  <1>1. MaxCas \in Nat \ {0} /\ MaxKeys \in Nat
    BY SharedStoreAssumption
  <1>2. d \in PartialFcn(Key, DataEntry) /\ IsFiniteSet(DOMAIN d)
    BY DEF DataOK, DataFamily
  <1> DEFINE entry == [value |-> value,
                       cas |-> IF key \in DOMAIN d THEN NextCas(d[key].cas) ELSE 1]
  <1>3. entry \in DataEntry
    <2>1. key \in DOMAIN d => d[key] \in DataEntry
      BY <1>2, PartialFcnDef
    <2>2. key \in DOMAIN d => d[key].cas \in 1 .. MaxCas
      BY <2>1 DEF DataEntry
    <2>3. entry.cas \in 1 .. MaxCas
      BY <1>1, <2>2 DEF NextCas
    <2>4. QED
      BY <2>3 DEF DataEntry
  <1>4. Written(d, key, value) = With(d, key, entry)
    BY DEF Written
  <1> HIDE DEF entry
  <1>5. Written(d, key, value) \in DataFamily /\ DOMAIN Written(d, key, value) = DOMAIN d \cup {key}
    BY <1>2, <1>3, <1>4, WithType DEF DataFamily
  <1>6. (key \in DOMAIN d /\ Cardinality(DOMAIN d) <= MaxKeys) \/ Cardinality(DOMAIN d) < MaxKeys
    <2>1. key \in DOMAIN d \/ ~(Cardinality(DOMAIN d) >= MaxKeys)
      BY DEF SetStatus
    <2>2. Cardinality(DOMAIN d) \in Nat
      BY <1>2, FS_CardinalityType
    <2>3. QED
      BY <1>1, <2>1, <2>2 DEF DataOK
  <1>7. QED
    BY <1>1, <1>2, <1>5, <1>6, DomainGrows DEF DataOK

\* A family of queues is its four fields.
LEMMA QueueFields ==
    ASSUME NEW q \in QueueFamily
    PROVE  /\ q.by_name \in PartialFcn(Key, Nat) /\ q.owners \in PartialFcn(Nat, Key)
           /\ q.items \in PartialFcn(Nat, Seq(Item)) /\ q.next \in 0 .. MaxId
    BY DEF QueueFamily

\* Registration makes an identifier that was never given out, or changes nothing.
LEMMA RegisteredOK ==
    ASSUME NEW q, QueuesOK(q), NEW key \in Key, RegisterStatus(q, key) = "Ok"
    PROVE  /\ QueuesOK(Registered(q, key))
           /\ key \in DOMAIN Registered(q, key).by_name
           /\ \A k \in DOMAIN q.by_name : /\ k \in DOMAIN Registered(q, key).by_name
                                          /\ Registered(q, key).by_name[k] = q.by_name[k]
           /\ DOMAIN Registered(q, key).by_name = DOMAIN q.by_name \cup {key}
           /\ key \notin DOMAIN q.by_name =>
                /\ Registered(q, key).by_name[key] = q.next + 1
                /\ Registered(q, key).next = q.next + 1
                /\ Registered(q, key).items[q.next + 1] = <<>>
           /\ q.next <= Registered(q, key).next
           /\ \A id \in 1 .. q.next : Registered(q, key).items[id] = q.items[id]
  <1>1. CASE key \in DOMAIN q.by_name
    BY <1>1 DEF Registered, QueuesOK, QueueFamily
  <1>2. CASE key \notin DOMAIN q.by_name
    <2> DEFINE id == q.next + 1
               r == Registered(q, key)
    <2>1. /\ MaxQueues \in Nat /\ MaxId \in Nat /\ MaxQueueItems \in Nat
          /\ IsFiniteSet(DOMAIN q.by_name) /\ Cardinality(DOMAIN q.by_name) < MaxQueues
          /\ q.next \in 0 .. MaxId /\ q.next < MaxId
      BY <1>2, SharedStoreAssumption, QueueFields DEF QueuesOK, RegisterStatus
    <2>2. /\ r.by_name = With(q.by_name, key, id) /\ r.owners = With(q.owners, id, key)
          /\ r.items = With(q.items, id, <<>>) /\ r.next = id
          /\ r = [by_name |-> r.by_name, owners |-> r.owners, items |-> r.items, next |-> r.next]
      BY <1>2 DEF Registered
    <2>3. id \in Nat /\ id \in 1 .. MaxId /\ id \notin 1 .. q.next /\ 1 .. id = (1 .. q.next) \cup {id}
      BY <2>1
    <2> HIDE DEF id, r
    <2>4. /\ q.by_name \in PartialFcn(Key, Nat) /\ q.owners \in PartialFcn(Nat, Key)
          /\ q.items \in PartialFcn(Nat, Seq(Item)) /\ QueuesAgree(q)
      BY QueueFields DEF QueuesOK
    <2>5. /\ r.by_name \in PartialFcn(Key, Nat)
          /\ DOMAIN r.by_name = DOMAIN q.by_name \cup {key} /\ r.by_name[key] = id
          /\ \A k \in DOMAIN q.by_name : r.by_name[k] = q.by_name[k]
      <3>1. DOMAIN q.by_name \subseteq Key /\ q.by_name \in [DOMAIN q.by_name -> Nat]
        BY <2>4, PartialFcnDef
      <3>2. /\ r.by_name \in [DOMAIN r.by_name -> Nat]
            /\ DOMAIN r.by_name = DOMAIN q.by_name \cup {key} /\ r.by_name[key] = id
            /\ \A k \in DOMAIN q.by_name : r.by_name[k] = q.by_name[k]
        <4>1. With(q.by_name, key, id) \in [(DOMAIN q.by_name) \cup {key} -> Nat]
          BY <2>3, <3>1 DEF With
        <4>2. DOMAIN With(q.by_name, key, id) = (DOMAIN q.by_name) \cup {key}
          BY <2>3, <3>1 DEF With
        <4>3. With(q.by_name, key, id)[key] = id
          BY <2>3, <3>1 DEF With
        <4>4. \A i \in DOMAIN q.by_name : i # key => With(q.by_name, key, id)[i] = q.by_name[i]
          BY <2>3, <3>1 DEF With
        <4>5. QED
          BY <1>2, <2>2, <4>1, <4>2, <4>3, <4>4
      <3>3. QED
        BY <3>1, <3>2, PartialFcnDef
    <2>6. /\ r.owners \in PartialFcn(Nat, Key)
          /\ DOMAIN r.owners = 1 .. id /\ r.owners[id] = key
          /\ \A i \in 1 .. q.next : r.owners[i] = q.owners[i]
      <3>1. q.owners \in [1 .. q.next -> Key]
        BY <2>4, PartialFcnDef DEF QueuesAgree
      <3>2. /\ r.owners \in [1 .. id -> Key] /\ r.owners[id] = key
            /\ \A i \in 1 .. q.next : r.owners[i] = q.owners[i]
        <4>1. With(q.owners, id, key) \in [(1 .. q.next) \cup {id} -> Key]
          BY <3>1 DEF With
        <4>2. DOMAIN With(q.owners, id, key) = (1 .. q.next) \cup {id}
          BY <3>1 DEF With
        <4>3. With(q.owners, id, key)[id] = key
          BY <3>1 DEF With
        <4>4. \A i \in 1 .. q.next : i # id => With(q.owners, id, key)[i] = q.owners[i]
          BY <3>1 DEF With
        <4>5. QED
          BY <2>2, <2>3, <4>1, <4>2, <4>3, <4>4
      <3>3. QED
        BY <2>3, <3>2, PartialFcnDef
    <2>7. /\ r.items \in PartialFcn(Nat, Seq(Item))
          /\ DOMAIN r.items = 1 .. id /\ r.items[id] = <<>>
          /\ \A i \in 1 .. q.next : r.items[i] = q.items[i]
      <3> DEFINE Line == Seq(Item)
      <3>1. q.items \in PartialFcn(Nat, Line) /\ <<>> \in Line
        BY <2>4
      <3> HIDE DEF Line
      <3>2. q.items \in [1 .. q.next -> Line]
        BY <2>4, <3>1, PartialFcnDef DEF QueuesAgree
      <3>3. /\ r.items \in [1 .. id -> Line] /\ r.items[id] = <<>>
            /\ \A i \in 1 .. q.next : r.items[i] = q.items[i]
        <4>1. With(q.items, id, <<>>) \in [(1 .. q.next) \cup {id} -> Line]
          BY <3>1, <3>2 DEF With
        <4>2. DOMAIN With(q.items, id, <<>>) = (1 .. q.next) \cup {id}
          BY <3>1, <3>2 DEF With
        <4>3. With(q.items, id, <<>>)[id] = <<>>
          BY <3>1, <3>2 DEF With
        <4>4. \A i \in 1 .. q.next : i # id => With(q.items, id, <<>>)[i] = q.items[i]
          BY <3>1, <3>2 DEF With
        <4>5. QED
          BY <2>2, <2>3, <4>1, <4>2, <4>3, <4>4
      <3>4. DOMAIN r.items = 1 .. id /\ DOMAIN r.items \subseteq Nat
        BY <2>3, <3>3
      <3>5. r.items \in PartialFcn(Nat, Line)
        BY <3>3, <3>4, PartialFcnDef
      <3>6. QED
        BY <3>3, <3>4, <3>5 DEF Line
    <2>8. r \in QueueFamily
      BY <2>2, <2>3, <2>5, <2>6, <2>7 DEF QueueFamily
    <2>9. QueuesAgree(r)
      BY <1>2, <2>2, <2>3, <2>4, <2>5, <2>6, <2>7 DEF QueuesAgree
    <2>10. IsFiniteSet(DOMAIN r.by_name) /\ Cardinality(DOMAIN r.by_name) <= MaxQueues
      BY <2>1, <2>5, DomainGrows
    <2>11. \A i \in 1 .. r.next : Len(r.items[i]) <= MaxQueueItems
      <3>1. Len(<<>>) = 0
        OBVIOUS
      <3>2. QED
        BY <2>1, <2>2, <2>3, <2>7, <3>1 DEF QueuesOK
    <2>12. QueuesOK(r)
      BY <2>8, <2>9, <2>10, <2>11 DEF QueuesOK
    <2>13. QED
      BY <1>2, <2>1, <2>2, <2>5, <2>7, <2>12 DEF id, r
  <1>3. QED
    BY <1>1, <1>2

\* A change of one queue's items within its limit.
LEMMA ItemsChangeOK ==
    ASSUME NEW q, QueuesOK(q), NEW id \in 1 .. q.next, NEW line \in Seq(Item),
           Len(line) <= MaxQueueItems
    PROVE  LET r == [q EXCEPT !.items[id] = line]
           IN  /\ QueuesOK(r) /\ r.by_name = q.by_name /\ r.owners = q.owners /\ r.next = q.next
               /\ r.items[id] = line
               /\ \A i \in 1 .. q.next : i # id => r.items[i] = q.items[i]
  <1> DEFINE r == [q EXCEPT !.items[id] = line]
  <1>1. /\ q.by_name \in PartialFcn(Key, Nat) /\ q.owners \in PartialFcn(Nat, Key)
        /\ q.items \in PartialFcn(Nat, Seq(Item)) /\ q.next \in 0 .. MaxId /\ QueuesAgree(q)
    BY QueueFields DEF QueuesOK
  <1>2. q.items \in [1 .. q.next -> Seq(Item)]
    BY <1>1, PartialFcnDef DEF QueuesAgree
  <1>3. /\ r.by_name = q.by_name /\ r.owners = q.owners /\ r.next = q.next
        /\ r.items = [q.items EXCEPT ![id] = line]
        /\ r = [by_name |-> r.by_name, owners |-> r.owners, items |-> r.items, next |-> r.next]
    BY DEF QueuesOK, QueueFamily
  <1> HIDE DEF r
  <1>4. /\ r.items \in [1 .. q.next -> Seq(Item)] /\ r.items[id] = line
        /\ \A i \in 1 .. q.next : i # id => r.items[i] = q.items[i]
    BY <1>2, <1>3
  <1>5. r.items \in PartialFcn(Nat, Seq(Item))
    BY <1>1, <1>4, PartialFcnDef
  <1>6. r \in QueueFamily
    BY <1>1, <1>3, <1>5 DEF QueueFamily
  <1>7. QueuesAgree(r)
    BY <1>1, <1>3, <1>4 DEF QueuesAgree
  <1>8. \A i \in 1 .. r.next : Len(r.items[i]) <= MaxQueueItems
    BY <1>3, <1>4 DEF QueuesOK
  <1>9. QueuesOK(r)
    BY <1>3, <1>6, <1>7, <1>8 DEF QueuesOK
  <1>10. QED
    BY <1>3, <1>4, <1>9 DEF r

\* The limit is tested before the item is put on.
LEMMA EnqueuedOK ==
    ASSUME NEW q, QueuesOK(q), NEW id, NEW item \in Item, EnqueueStatus(q, id, item) = "Ok"
    PROVE  LET r == Enqueued(q, id, item)
           IN  /\ id \in 1 .. q.next /\ Len(q.items[id]) < MaxQueueItems
               /\ QueuesOK(r) /\ r.by_name = q.by_name /\ r.owners = q.owners /\ r.next = q.next
               /\ r.items[id] = Append(q.items[id], item)
               /\ \A i \in 1 .. q.next : i # id => r.items[i] = q.items[i]
  <1>1. id \in 1 .. q.next /\ ~(Len(q.items[id]) >= MaxQueueItems)
    BY DEF EnqueueStatus, QueuesOK, QueuesAgree
  <1>2. q.items[id] \in Seq(Item)
    BY <1>1, QueueFields, PartialFcnDef DEF QueuesOK, QueuesAgree
  <1>3. MaxQueueItems \in Nat
    BY SharedStoreAssumption
  <1>4. /\ Append(q.items[id], item) \in Seq(Item)
        /\ Len(Append(q.items[id], item)) <= MaxQueueItems /\ Len(q.items[id]) < MaxQueueItems
    BY <1>1, <1>2, <1>3
  <1>5. Enqueued(q, id, item) = [q EXCEPT !.items[id] = Append(q.items[id], item)]
    BY DEF Enqueued
  <1> DEFINE line == Append(q.items[id], item)
             r == Enqueued(q, id, item)
  <1>6. line \in Seq(Item) /\ Len(line) <= MaxQueueItems /\ r = [q EXCEPT !.items[id] = line]
    BY <1>4, <1>5
  <1> HIDE DEF line, r
  <1>7. /\ QueuesOK(r) /\ r.by_name = q.by_name /\ r.owners = q.owners /\ r.next = q.next
        /\ r.items[id] = line /\ \A i \in 1 .. q.next : i # id => r.items[i] = q.items[i]
    BY <1>1, <1>6, ItemsChangeOK
  <1>8. QED
    BY <1>1, <1>4, <1>7 DEF line, r

LEMMA DequeuedOK ==
    ASSUME NEW q, QueuesOK(q), NEW id, DequeueStatus(q, id) = "Ok"
    PROVE  LET r == Dequeued(q, id)
           IN  /\ id \in 1 .. q.next /\ q.items[id] \in Seq(Item) /\ q.items[id] # <<>>
               /\ QueuesOK(r) /\ r.by_name = q.by_name /\ r.owners = q.owners /\ r.next = q.next
               /\ r.items[id] = Tail(q.items[id])
               /\ \A i \in 1 .. q.next : i # id => r.items[i] = q.items[i]
  <1>1. id \in 1 .. q.next /\ q.items[id] # <<>>
    BY DEF DequeueStatus, QueuesOK, QueuesAgree
  <1>2. q.items[id] \in Seq(Item) /\ Len(q.items[id]) <= MaxQueueItems
    BY <1>1, QueueFields, PartialFcnDef DEF QueuesOK, QueuesAgree
  <1>3. MaxQueueItems \in Nat
    BY SharedStoreAssumption
  <1>4. Tail(q.items[id]) \in Seq(Item) /\ Len(Tail(q.items[id])) <= MaxQueueItems
    BY <1>1, <1>2, <1>3
  <1>5. Dequeued(q, id) = [q EXCEPT !.items[id] = Tail(q.items[id])]
    BY DEF Dequeued
  <1> DEFINE line == Tail(q.items[id])
             r == Dequeued(q, id)
  <1>6. line \in Seq(Item) /\ Len(line) <= MaxQueueItems /\ r = [q EXCEPT !.items[id] = line]
    BY <1>4, <1>5
  <1> HIDE DEF line, r
  <1>7. /\ QueuesOK(r) /\ r.by_name = q.by_name /\ r.owners = q.owners /\ r.next = q.next
        /\ r.items[id] = line /\ \A i \in 1 .. q.next : i # id => r.items[i] = q.items[i]
    BY <1>1, <1>6, ItemsChangeOK
  <1>8. QED
    BY <1>1, <1>2, <1>7 DEF line, r

LEMMA MetricFields ==
    ASSUME NEW m \in MetricFamily
    PROVE  /\ m.by_name \in PartialFcn(Key, Nat)
           /\ m.entries \in PartialFcn(Nat, MetricEntry) /\ m.next \in 0 .. MaxId
    BY DEF MetricFamily

\* A definition makes an identifier that was never given out, or changes nothing.
LEMMA DefinedOK ==
    ASSUME NEW m, MetricsOK(m), NEW key \in Key, NEW kind \in MetricKind,
           DefineStatus(m, key, kind) = "Ok"
    PROVE  /\ MetricsOK(Defined(m, key, kind))
           /\ DOMAIN Defined(m, key, kind).by_name = DOMAIN m.by_name \cup {key}
           /\ \A k \in DOMAIN m.by_name : Defined(m, key, kind).by_name[k] = m.by_name[k]
           /\ Defined(m, key, kind).entries[Defined(m, key, kind).by_name[key]].kind = kind
           /\ m.next <= Defined(m, key, kind).next
           /\ \A id \in 1 .. m.next : Defined(m, key, kind).entries[id] = m.entries[id]
           /\ key \notin DOMAIN m.by_name => Defined(m, key, kind).by_name[key] = m.next + 1
  <1>1. CASE key \in DOMAIN m.by_name
    <2>1. Defined(m, key, kind) = m
      BY <1>1 DEF Defined
    <2>2. m.next \in Nat
      BY MetricFields DEF MetricsOK
    <2>3. m.entries[m.by_name[key]].kind = kind
      BY <1>1 DEF DefineStatus
    <2>4. QED
      BY <1>1, <2>1, <2>2, <2>3 DEF MetricsOK, MetricsAgree
  <1>2. CASE key \notin DOMAIN m.by_name
    <2> DEFINE id == m.next + 1
               r == Defined(m, key, kind)
               entry == [kind |-> kind, value |-> 0]
    <2>1. /\ MaxMetrics \in Nat /\ MaxId \in Nat
          /\ IsFiniteSet(DOMAIN m.by_name) /\ Cardinality(DOMAIN m.by_name) < MaxMetrics
          /\ m.next \in 0 .. MaxId /\ m.next < MaxId
      BY <1>2, SharedStoreAssumption, MetricFields DEF MetricsOK, DefineStatus
    <2>2. /\ r.by_name = With(m.by_name, key, id) /\ r.entries = With(m.entries, id, entry)
          /\ r.next = id /\ r = [by_name |-> r.by_name, entries |-> r.entries, next |-> r.next]
      BY <1>2 DEF Defined
    <2>3. id \in Nat /\ id \in 1 .. MaxId /\ id \notin 1 .. m.next /\ 1 .. id = (1 .. m.next) \cup {id}
      BY <2>1
    <2>4. entry \in MetricEntry /\ entry.kind = kind
      BY SharedStoreAssumption DEF MetricEntry
    <2> HIDE DEF id, r, entry
    <2>5. /\ m.by_name \in PartialFcn(Key, Nat)
          /\ m.entries \in PartialFcn(Nat, MetricEntry) /\ MetricsAgree(m)
      BY MetricFields DEF MetricsOK
    <2>6. /\ r.by_name \in PartialFcn(Key, Nat)
          /\ DOMAIN r.by_name = DOMAIN m.by_name \cup {key} /\ r.by_name[key] = id
          /\ \A k \in DOMAIN m.by_name : r.by_name[k] = m.by_name[k]
      <3>1. DOMAIN m.by_name \subseteq Key /\ m.by_name \in [DOMAIN m.by_name -> Nat]
        BY <2>5, PartialFcnDef
      <3>2. /\ r.by_name \in [DOMAIN r.by_name -> Nat]
            /\ DOMAIN r.by_name = DOMAIN m.by_name \cup {key} /\ r.by_name[key] = id
            /\ \A k \in DOMAIN m.by_name : r.by_name[k] = m.by_name[k]
        BY <1>2, <2>2, <2>3, <3>1 DEF With
      <3>3. QED
        BY <3>1, <3>2, PartialFcnDef
    <2>7. /\ r.entries \in PartialFcn(Nat, MetricEntry)
          /\ DOMAIN r.entries = 1 .. id /\ r.entries[id] = entry
          /\ \A i \in 1 .. m.next : r.entries[i] = m.entries[i]
      <3>1. m.entries \in [1 .. m.next -> MetricEntry]
        BY <2>5, PartialFcnDef DEF MetricsAgree
      <3>2. /\ r.entries \in [1 .. id -> MetricEntry] /\ r.entries[id] = entry
            /\ \A i \in 1 .. m.next : r.entries[i] = m.entries[i]
        <4>1. entry \in MetricEntry /\ r.entries = With(m.entries, id, entry)
          BY <2>2, <2>4
        <4>2. QED
          BY <2>3, <3>1, <4>1 DEF With
      <3>3. QED
        BY <2>3, <3>2, PartialFcnDef
    <2>8. r \in MetricFamily
      BY <2>2, <2>3, <2>6, <2>7 DEF MetricFamily
    <2>9. MetricsAgree(r)
      BY <1>2, <2>2, <2>3, <2>5, <2>6, <2>7 DEF MetricsAgree
    <2>10. IsFiniteSet(DOMAIN r.by_name) /\ Cardinality(DOMAIN r.by_name) <= MaxMetrics
      BY <2>1, <2>6, DomainGrows
    <2>11. MetricsOK(r)
      BY <2>8, <2>9, <2>10 DEF MetricsOK
    <2>12. r.by_name[key] \in 1 .. r.next /\ r.entries[r.by_name[key]].kind = kind /\ m.next <= r.next
      BY <2>1, <2>2, <2>3, <2>4, <2>6, <2>7 DEF id
    <2>13. QED
      BY <2>6, <2>7, <2>11, <2>12 DEF id, r, entry
  <1>3. QED
    BY <1>1, <1>2

\* A change of one metric's value within its range.
LEMMA ValueChangeOK ==
    ASSUME NEW m, MetricsOK(m), NEW id \in 1 .. m.next, NEW value \in 0 .. MaxMetric
    PROVE  LET r == [m EXCEPT !.entries[id].value = value]
           IN  /\ MetricsOK(r) /\ r.by_name = m.by_name /\ r.next = m.next
               /\ r.entries = [m.entries EXCEPT ![id].value = value]
               /\ \A i \in 1 .. m.next : r.entries[i].kind = m.entries[i].kind
  <1> DEFINE r == [m EXCEPT !.entries[id].value = value]
  <1>1. /\ m.by_name \in PartialFcn(Key, Nat)
        /\ m.entries \in PartialFcn(Nat, MetricEntry) /\ m.next \in 0 .. MaxId /\ MetricsAgree(m)
    BY MetricFields DEF MetricsOK
  <1>2. m.entries \in [1 .. m.next -> MetricEntry]
    BY <1>1, PartialFcnDef DEF MetricsAgree
  <1>3. /\ r.by_name = m.by_name /\ r.next = m.next
        /\ r.entries = [m.entries EXCEPT ![id].value = value]
        /\ r = [by_name |-> r.by_name, entries |-> r.entries, next |-> r.next]
    BY DEF MetricsOK, MetricFamily
  <1> HIDE DEF r
  <1>4. /\ r.entries \in [1 .. m.next -> MetricEntry]
        /\ \A i \in 1 .. m.next : r.entries[i].kind = m.entries[i].kind
    <2> DEFINE e == [m.entries[id] EXCEPT !.value = value]
    <2>1. m.entries[id] \in MetricEntry
      BY <1>2
    <2>2. e \in MetricEntry /\ e.kind = m.entries[id].kind
      BY <2>1 DEF MetricEntry
    <2>3. r.entries = [m.entries EXCEPT ![id] = e]
      BY <1>2, <1>3
    <2> HIDE DEF e
    <2>4. QED
      BY <1>2, <2>2, <2>3
  <1>5. r.entries \in PartialFcn(Nat, MetricEntry)
    BY <1>1, <1>4, PartialFcnDef
  <1>6. r \in MetricFamily
    BY <1>1, <1>3, <1>5 DEF MetricFamily
  <1>7. MetricsAgree(r)
    BY <1>1, <1>3, <1>4 DEF MetricsAgree
  <1>8. MetricsOK(r)
    BY <1>3, <1>6, <1>7 DEF MetricsOK
  <1>9. QED
    BY <1>3, <1>4, <1>8 DEF r

\* What recording a metric does to its family: nothing to a histogram.
LEMMA RecordedOK ==
    ASSUME NEW m, MetricsOK(m), NEW id, NEW value \in 0 .. MaxMetric, RecordStatus(m, id) = "Ok"
    PROVE  /\ id \in 1 .. m.next /\ MetricsOK(Recorded(m, id, value))
           /\ Recorded(m, id, value).by_name = m.by_name
           /\ Recorded(m, id, value).next = m.next
           /\ \A i \in 1 .. m.next : Recorded(m, id, value).entries[i].kind = m.entries[i].kind
  <1>1. id \in 1 .. m.next
    BY DEF RecordStatus, MetricsOK, MetricsAgree
  <1>2. CASE m.entries[id].kind = "Histogram"
    BY <1>1, <1>2 DEF Recorded
  <1>3. CASE m.entries[id].kind # "Histogram"
    <2>1. Recorded(m, id, value) = [m EXCEPT !.entries[id].value = value]
      BY <1>3 DEF Recorded
    <2>2. QED
      BY <1>1, <1>3, <2>1, ValueChangeOK
  <1>4. QED
    BY <1>2, <1>3

\* An increment that does not fit is refused, so that the value stays in range.
LEMMA IncrementedOK ==
    ASSUME NEW m, MetricsOK(m), NEW id, NEW delta, delta \in Int,
           IncrementStatus(m, id, delta) = "Ok"
    PROVE  /\ id \in 1 .. m.next /\ m.entries[id].kind # "Histogram"
           /\ m.entries[id].value + delta \in 0 .. MaxMetric
           /\ MetricsOK(Incremented(m, id, delta))
           /\ Incremented(m, id, delta).by_name = m.by_name
           /\ Incremented(m, id, delta).next = m.next
           /\ \A i \in 1 .. m.next : Incremented(m, id, delta).entries[i].kind = m.entries[i].kind
  <1>1. /\ id \in 1 .. m.next /\ m.entries[id].kind # "Histogram"
        /\ m.entries[id].value + delta \in 0 .. MaxMetric
    BY DEF IncrementStatus, MetricsOK, MetricsAgree
  <1> DEFINE value == m.entries[id].value + delta
             r == Incremented(m, id, delta)
  <1>2. r = [m EXCEPT !.entries[id].value = value] /\ value \in 0 .. MaxMetric
    BY <1>1 DEF Incremented
  <1> HIDE DEF value, r
  <1>3. /\ MetricsOK(r) /\ r.by_name = m.by_name /\ r.next = m.next
        /\ \A i \in 1 .. m.next : r.entries[i].kind = m.entries[i].kind
    BY <1>1, <1>2, ValueChangeOK
  <1>4. QED
    BY <1>1, <1>3 DEF r

LEMMA EmptyOK == DataOK(EmptyData) /\ QueuesOK(EmptyQueues) /\ MetricsOK(EmptyMetrics)
  <1>1. /\ {MaxKeys, MaxQueues, MaxMetrics} \subseteq Nat /\ MaxId \in Nat
        /\ IsFiniteSet({}) /\ Cardinality({}) = 0 /\ 1 .. 0 = {}
    BY SharedStoreAssumption, FS_EmptySet
  <1>2. ASSUME NEW S, NEW T, NEW f, DOMAIN f = {}, f = [x \in {} |-> f[x]]
        PROVE  f \in PartialFcn(S, T)
    BY <1>2, PartialFcnDef
  <1>3. EmptyData = [x \in {} |-> EmptyData[x]] /\ DOMAIN EmptyData = {}
    BY DEF EmptyData
  <1>4. DataOK(EmptyData)
    BY <1>1, <1>2, <1>3 DEF DataOK, DataFamily
  <1>5. QueuesOK(EmptyQueues)
    <2> DEFINE e == EmptyQueues
    <2>1. /\ e = [by_name |-> e.by_name, owners |-> e.owners, items |-> e.items, next |-> e.next]
          /\ e.by_name = [x \in {} |-> e.by_name[x]] /\ e.owners = [x \in {} |-> e.owners[x]]
          /\ e.items = [x \in {} |-> e.items[x]] /\ e.next = 0
          /\ DOMAIN e.by_name = {} /\ DOMAIN e.owners = {} /\ DOMAIN e.items = {}
      BY DEF EmptyQueues
    <2> HIDE DEF e
    <2>2. /\ e.by_name \in PartialFcn(Key, Nat) /\ e.owners \in PartialFcn(Nat, Key)
          /\ e.items \in PartialFcn(Nat, Seq(Item))
      BY <1>2, <2>1
    <2>3. e \in QueueFamily
      BY <1>1, <2>1, <2>2 DEF QueueFamily
    <2>4. QueuesAgree(e)
      BY <1>1, <2>1 DEF QueuesAgree
    <2>5. QueuesOK(e)
      BY <1>1, <2>1, <2>3, <2>4 DEF QueuesOK
    <2>6. QED
      BY <2>5 DEF e
  <1>6. MetricsOK(EmptyMetrics)
    <2> DEFINE e == EmptyMetrics
    <2>1. /\ e = [by_name |-> e.by_name, entries |-> e.entries, next |-> e.next]
          /\ e.by_name = [x \in {} |-> e.by_name[x]] /\ e.entries = [x \in {} |-> e.entries[x]]
          /\ e.next = 0 /\ DOMAIN e.by_name = {} /\ DOMAIN e.entries = {}
      BY DEF EmptyMetrics
    <2> HIDE DEF e
    <2>2. e.by_name \in PartialFcn(Key, Nat) /\ e.entries \in PartialFcn(Nat, MetricEntry)
      BY <1>2, <2>1
    <2>3. e \in MetricFamily
      BY <1>1, <2>1, <2>2 DEF MetricFamily
    <2>4. MetricsAgree(e)
      BY <1>1, <2>1 DEF MetricsAgree
    <2>5. MetricsOK(e)
      BY <1>1, <2>1, <2>3, <2>4 DEF MetricsOK
    <2>6. QED
      BY <2>5 DEF e
  <1>7. QED
    BY <1>4, <1>5, <1>6

-----------------------------------------------------------------------------
(***************************************************************************)
(* The steps of a guest                                                    *)
(***************************************************************************)
\* When a host function of SharedGuests does more than settle the grants.
Writes(g, n, value, cas) ==
    /\ Accepted(g) /\ n \notin LongName /\ Serves(g)
    /\ SetStatus(data[StoreOf(g)], KeyOf(g, n), value, cas) = "Ok"
RegisteredName(n) == [as |-> "Registered", name |-> n]
ResolvedName(key) == [as |-> "Resolved", key |-> key]
MetricName(kind, n) == [as |-> "Metric", kind |-> kind, name |-> n]
Registers(g, n) ==
    /\ Accepted(g) /\ n \notin LongName /\ MayHold(Settled(g), RegisteredName(n)) /\ Serves(g)
    /\ RegisterStatus(queues[StoreOf(g)], KeyOf(g, n)) = "Ok"
Resolves(g, key) ==
    /\ Accepted(g) /\ key[2] \notin LongName /\ MayHold(Settled(g), ResolvedName(key)) /\ Serves(g)
    /\ ResolveStatus(queues[StoreOf(g)], key) = "Ok"
Enqueues(g, q, item) ==
    /\ MayUseQueue(g, q) /\ Accepted(g) /\ Serves(g)
    /\ EnqueueStatus(queues[StoreOf(g)], q, item) = "Ok"
Dequeues(g, q) ==
    /\ MayUseQueue(g, q) /\ Accepted(g) /\ Serves(g)
    /\ DequeueStatus(queues[StoreOf(g)], q) = "Ok"
Defines(g, n, kind) ==
    /\ Accepted(g) /\ n \notin LongName /\ MayHold(Settled(g), MetricName(kind, n)) /\ Serves(g)
    /\ DefineStatus(metrics[StoreOf(g)], KeyOf(g, n), kind) = "Ok"
Records(g, m) ==
    MayUseMetric(g, m) /\ Accepted(g) /\ Serves(g) /\ RecordStatus(metrics[StoreOf(g)], m) = "Ok"
Increments(g, m, delta) ==
    /\ MayUseMetric(g, m) /\ Accepted(g) /\ Serves(g)
    /\ IncrementStatus(metrics[StoreOf(g)], m, delta) = "Ok"

\* The steps that leave every store alone, but for the host functions.
PlainStep(g) ==
    \/ \E new \in Services : ReplaceServices(g, new) \/ Rebuild(g, new)
    \/ \E r \in Root : CreateRoot(g, r) \/ RejectRoot(g, r) \/ DeleteRoot(g, r) \/ RunCallback(g, r)
    \/ \E r \in Root, q \in QueueId : OnQueueReady(g, r, q)
    \/ TakeChanges(g) \/ ReturnCallback(g) \/ TrapCallback(g)
    \/ \E period \in Period \cup {0} : SetTickPeriod(g, period)
    \/ Observe(g) \/ ReturnItem(g) \/ \E traps \in BOOLEAN : LoseItem(g, traps)

\* Those of the host functions that change a store or hand out an identifier.
StoreStep(g) ==
    \/ \E n \in Name, value \in Item, cas \in 0 .. MaxCas :
          SetSharedData(g, n, value, cas) /\ Writes(g, n, value, cas)
    \/ \E n \in Name : RegisterSharedQueue(g, n) /\ Registers(g, n)
    \/ \E key \in Key : ResolveSharedQueue(g, key) /\ Resolves(g, key)
    \/ \E q \in QueueId, item \in Item : EnqueueSharedQueue(g, q, item) /\ Enqueues(g, q, item)
    \/ \E q \in QueueId : DequeueSharedQueue(g, q) /\ Dequeues(g, q)
    \/ \E n \in Name, kind \in MetricKind : DefineMetric(g, n, kind) /\ Defines(g, n, kind)
    \/ \E m \in MetricId, value \in 0 .. MaxMetric : RecordMetric(g, m, value) /\ Records(g, m)
    \/ \E m \in MetricId, delta \in Delta : IncrementMetric(g, m, delta) /\ Increments(g, m, delta)

\* Every step is of one of these forms.
LEMMA NextForms ==
    ASSUME Next
    PROVE  \E g \in Guest : \/ PlainStep(g) \/ StoreStep(g)
                            \/ Running(g) /\ Settle(g)
                            \/ \E n \in Name : GetSharedData(g, n)
  <1>1. PICK g \in Guest :
            \/ ControlNext(g) \/ RootNext(g) \/ DataNext(g) \/ NameNext(g) \/ ItemNext(g)
            \/ MetricNext(g)
            \/ \E new \in Services : ReplaceServices(g, new)
    BY DEF Next
  <1> SUFFICES \/ PlainStep(g) \/ StoreStep(g)
               \/ Running(g) /\ Settle(g)
               \/ \E n \in Name : GetSharedData(g, n)
    OBVIOUS
  <1>2. CASE ControlNext(g) \/ RootNext(g) \/ \E new \in Services : ReplaceServices(g, new)
    BY <1>2 DEF ControlNext, RootNext, PlainStep
  <1>3. CASE DataNext(g)
    <2>1. ASSUME NEW n \in Name, NEW value \in Item, NEW cas \in 0 .. MaxCas,
                 SetSharedData(g, n, value, cas), ~Writes(g, n, value, cas)
          PROVE  Running(g) /\ Settle(g)
      BY <2>1 DEF SetSharedData, Writes
    <2>2. QED
      BY <1>3, <2>1 DEF DataNext, StoreStep
  <1>4. CASE NameNext(g)
    <2>1. ASSUME NEW n \in Name, RegisterSharedQueue(g, n), ~Registers(g, n)
          PROVE  Running(g) /\ Settle(g)
      BY <2>1 DEF RegisterSharedQueue, Registers, RegisteredName
    <2>2. ASSUME NEW key \in Key, ResolveSharedQueue(g, key), ~Resolves(g, key)
          PROVE  Running(g) /\ Settle(g)
      BY <2>2 DEF ResolveSharedQueue, Resolves, ResolvedName
    <2>3. QED
      BY <1>4, <2>1, <2>2 DEF NameNext, StoreStep, PlainStep
  <1>5. CASE ItemNext(g)
    <2>1. ASSUME NEW q \in QueueId, NEW item \in Item,
                 EnqueueSharedQueue(g, q, item), ~Enqueues(g, q, item)
          PROVE  Running(g) /\ Settle(g)
      BY <2>1 DEF EnqueueSharedQueue, Enqueues
    <2>2. ASSUME NEW q \in QueueId, DequeueSharedQueue(g, q), ~Dequeues(g, q)
          PROVE  Running(g) /\ Settle(g)
      BY <2>2 DEF DequeueSharedQueue, Dequeues
    <2>3. QED
      BY <1>5, <2>1, <2>2 DEF ItemNext, StoreStep, PlainStep
  <1>6. CASE MetricNext(g)
    <2>1. ASSUME NEW n \in Name, NEW kind \in MetricKind,
                 DefineMetric(g, n, kind), ~Defines(g, n, kind)
          PROVE  Running(g) /\ Settle(g)
      BY <2>1 DEF DefineMetric, Defines, MetricName
    <2>2. ASSUME NEW m \in MetricId, NEW value \in 0 .. MaxMetric,
                 RecordMetric(g, m, value), ~Records(g, m)
          PROVE  Running(g) /\ Settle(g)
      BY <2>2 DEF RecordMetric, Records
    <2>3. ASSUME NEW m \in MetricId, NEW delta \in Delta,
                 IncrementMetric(g, m, delta), ~Increments(g, m, delta)
          PROVE  Running(g) /\ Settle(g)
      BY <2>3 DEF IncrementMetric, Increments
    <2>4. ASSUME NEW m \in MetricId, GetMetric(g, m)
          PROVE  Running(g) /\ Settle(g)
      BY <2>4 DEF GetMetric
    <2>5. QED
      BY <1>6, <2>1, <2>2, <2>3, <2>4 DEF MetricNext, StoreStep
  <1>7. QED
    BY <1>1, <1>2, <1>3, <1>4, <1>5, <1>6

-----------------------------------------------------------------------------
(***************************************************************************)
(* The stores                                                              *)
(***************************************************************************)
Changes ==
    [ticks : PartialFcn(Root, Period \cup {0}), queues : SUBSET (QueueId \X Root \X Name)]

\* The types of what belongs to the guests.
GuestTypes ==
    /\ services \in [Guest -> Services]
    /\ grants \in [Guest -> Grants]
    /\ changes \in [Guest -> Changes]
    /\ roots \in [Guest -> [Root -> {"New", "Live", "Rejected", "Gone"}]]
    /\ tick \in [Guest -> [Root -> Period \cup {0}]]
    /\ serving \in [Guest -> Root \cup {NoRoot}]
    /\ ready \in [Guest -> QueueId \cup {NoId}]
    /\ call \in [Guest -> Calls]
    /\ poisoned \in [Guest -> BOOLEAN]
    /\ sent \subseteq Item /\ noticed \subseteq Item /\ received \subseteq Item /\ lost \subseteq Item

StoreInv ==
    /\ data \in [Store -> DataFamily]
    /\ queues \in [Store -> QueueFamily]
    /\ metrics \in [Store -> MetricFamily]
    /\ \A s \in Store : DataOK(data[s]) /\ QueuesOK(queues[s]) /\ MetricsOK(metrics[s])

\* A store forgets no name, and no metric changes its kind.
QueuesGrow(q, r) ==
    /\ q.next <= r.next
    /\ \A k \in DOMAIN q.by_name : k \in DOMAIN r.by_name /\ r.by_name[k] = q.by_name[k]
MetricsGrow(m, r) ==
    /\ m.next <= r.next
    /\ \A k \in DOMAIN m.by_name : k \in DOMAIN r.by_name /\ r.by_name[k] = m.by_name[k]
    /\ \A id \in 1 .. m.next : r.entries[id].kind = m.entries[id].kind
StoresGrow ==
    \A s \in Store : QueuesGrow(queues[s], queues'[s]) /\ MetricsGrow(metrics[s], metrics'[s])

LEMMA StoreOfType ==
    ASSUME GuestTypes, NEW g \in Guest
    PROVE  /\ StoreOf(g) \in Store
           /\ \A n \in Name : KeyOf(g, n) \in Key
    BY DEF GuestTypes, Services, StoreOf, KeyOf, Key

LEMMA NothingGrows ==
    ASSUME StoreInv, NEW s \in Store
    PROVE  QueuesGrow(queues[s], queues[s]) /\ MetricsGrow(metrics[s], metrics[s])
  <1>1. queues[s].next \in Nat /\ metrics[s].next \in Nat
    BY SharedStoreAssumption, QueueFields, MetricFields DEF StoreInv
  <1>2. QED
    BY <1>1 DEF QueuesGrow, MetricsGrow

\* One family of one store changes.
LEMMA QueuesStep ==
    ASSUME StoreInv, NEW s \in Store, NEW r, QueuesOK(r), QueuesGrow(queues[s], r),
           queues' = [queues EXCEPT ![s] = r], UNCHANGED <<data, metrics>>
    PROVE  StoreInv' /\ StoresGrow
  <1>1. r \in QueueFamily
    BY DEF QueuesOK
  <1>2. queues' \in [Store -> QueueFamily] /\ \A x \in Store : queues'[x] = IF x = s THEN r ELSE queues[x]
    BY <1>1 DEF StoreInv
  <1>3. StoreInv'
    BY <1>2 DEF StoreInv
  <1>4. StoresGrow
    BY <1>2, NothingGrows DEF StoresGrow
  <1>5. QED
    BY <1>3, <1>4

LEMMA MetricsStep ==
    ASSUME StoreInv, NEW s \in Store, NEW r, MetricsOK(r), MetricsGrow(metrics[s], r),
           metrics' = [metrics EXCEPT ![s] = r], UNCHANGED <<data, queues>>
    PROVE  StoreInv' /\ StoresGrow
  <1>1. r \in MetricFamily
    BY DEF MetricsOK
  <1>2. /\ metrics' \in [Store -> MetricFamily]
        /\ \A x \in Store : metrics'[x] = IF x = s THEN r ELSE metrics[x]
    BY <1>1 DEF StoreInv
  <1>3. StoreInv'
    BY <1>2 DEF StoreInv
  <1>4. StoresGrow
    BY <1>2, NothingGrows DEF StoresGrow
  <1>5. QED
    BY <1>3, <1>4

LEMMA NoStoreStep ==
    ASSUME StoreInv, UNCHANGED storeVars
    PROVE  StoreInv' /\ StoresGrow
    BY NothingGrows DEF StoreInv, StoresGrow, storeVars

\* Every step of the guests keeps the stores in order, and they only grow.
LEMMA StoreNext ==
    ASSUME StoreInv, GuestTypes, [Next]_vars
    PROVE  StoreInv' /\ StoresGrow
  <1>1. CASE UNCHANGED vars
    BY <1>1, NoStoreStep DEF vars
  <1>2. CASE Next
    <2>1. PICK g \in Guest : \/ PlainStep(g) \/ StoreStep(g)
                             \/ Running(g) /\ Settle(g)
                             \/ \E n \in Name : GetSharedData(g, n)
      BY <1>2, NextForms
    <2> DEFINE s == StoreOf(g)
    <2>2. /\ s \in Store /\ \A n \in Name : KeyOf(g, n) \in Key
          /\ DataOK(data[s]) /\ QueuesOK(queues[s]) /\ MetricsOK(metrics[s])
          /\ queues[s].next \in Nat /\ metrics[s].next \in Nat
      BY StoreOfType, SharedStoreAssumption, QueueFields, MetricFields DEF StoreInv
    <2>3. CASE PlainStep(g)
      <3>1. UNCHANGED storeVars
        BY <2>3 DEF PlainStep, ReplaceServices, Rebuild, CreateRoot, RejectRoot, DeleteRoot,
           RunCallback, OnQueueReady, TakeChanges, ReturnCallback, TrapCallback, SetTickPeriod,
           Observe, ReturnItem, LoseItem
      <3>2. QED
        BY <3>1, NoStoreStep
    <2>4. CASE \/ Running(g) /\ Settle(g)
               \/ \E n \in Name : GetSharedData(g, n)
      BY <2>4, NoStoreStep DEF Settle, GetSharedData
    <2>5. ASSUME NEW n \in Name, NEW value \in Item, NEW cas \in 0 .. MaxCas,
                 SetSharedData(g, n, value, cas), Writes(g, n, value, cas)
          PROVE  StoreInv' /\ StoresGrow
      <3> DEFINE d == Written(data[s], KeyOf(g, n), value)
      <3>1. data' = [data EXCEPT ![s] = d] /\ UNCHANGED <<queues, metrics>>
        BY <2>5 DEF SetSharedData, Writes
      <3>2. DataOK(d)
        BY <2>2, <2>5, WrittenOK DEF Writes
      <3> HIDE DEF d
      <3>3. /\ data' \in [Store -> DataFamily]
            /\ \A x \in Store : data'[x] = IF x = s THEN d ELSE data[x]
        BY <2>2, <3>1, <3>2 DEF StoreInv, DataOK
      <3>4. StoreInv'
        BY <3>1, <3>2, <3>3 DEF StoreInv
      <3>5. QED
        BY <3>1, <3>4, NothingGrows DEF StoresGrow
    <2>6. ASSUME NEW n \in Name, RegisterSharedQueue(g, n), Registers(g, n)
          PROVE  StoreInv' /\ StoresGrow
      <3> DEFINE r == Registered(queues[s], KeyOf(g, n))
      <3>1. queues' = [queues EXCEPT ![s] = r] /\ UNCHANGED <<data, metrics>>
        BY <2>6 DEF RegisterSharedQueue, Registers, RegisteredName
      <3>2. QueuesOK(r) /\ QueuesGrow(queues[s], r)
        BY <2>2, <2>6, RegisteredOK DEF Registers, QueuesGrow
      <3> HIDE DEF r
      <3>3. QED
        BY <2>2, <3>1, <3>2, QueuesStep
    <2>7. ASSUME NEW key \in Key, ResolveSharedQueue(g, key), Resolves(g, key)
          PROVE  StoreInv' /\ StoresGrow
      BY <2>7, NoStoreStep DEF ResolveSharedQueue, Resolves, ResolvedName
    <2>8. ASSUME NEW q \in QueueId, NEW item \in Item,
                 EnqueueSharedQueue(g, q, item), Enqueues(g, q, item)
          PROVE  StoreInv' /\ StoresGrow
      <3> DEFINE r == Enqueued(queues[s], q, item)
      <3>1. queues' = [queues EXCEPT ![s] = r] /\ UNCHANGED <<data, metrics>>
        BY <2>8 DEF EnqueueSharedQueue, Enqueues
      <3>2. QueuesOK(r) /\ QueuesGrow(queues[s], r)
        BY <2>2, <2>8, EnqueuedOK DEF Enqueues, QueuesGrow
      <3> HIDE DEF r
      <3>3. QED
        BY <2>2, <3>1, <3>2, QueuesStep
    <2>9. ASSUME NEW q \in QueueId, DequeueSharedQueue(g, q), Dequeues(g, q)
          PROVE  StoreInv' /\ StoresGrow
      <3> DEFINE r == Dequeued(queues[s], q)
      <3>1. queues' = [queues EXCEPT ![s] = r] /\ UNCHANGED <<data, metrics>>
        BY <2>9 DEF DequeueSharedQueue, Dequeues
      <3>2. QueuesOK(r) /\ QueuesGrow(queues[s], r)
        BY <2>2, <2>9, DequeuedOK DEF Dequeues, QueuesGrow
      <3> HIDE DEF r
      <3>3. QED
        BY <2>2, <3>1, <3>2, QueuesStep
    <2>10. ASSUME NEW n \in Name, NEW kind \in MetricKind,
                  DefineMetric(g, n, kind), Defines(g, n, kind)
           PROVE  StoreInv' /\ StoresGrow
      <3> DEFINE r == Defined(metrics[s], KeyOf(g, n), kind)
      <3>1. metrics' = [metrics EXCEPT ![s] = r] /\ UNCHANGED <<data, queues>>
        BY <2>10 DEF DefineMetric, Defines, MetricName
      <3>2. MetricsOK(r) /\ MetricsGrow(metrics[s], r)
        <4>1. KeyOf(g, n) \in Key /\ DefineStatus(metrics[s], KeyOf(g, n), kind) = "Ok"
          BY <2>2, <2>10 DEF Defines
        <4>2. /\ MetricsOK(r) /\ metrics[s].next <= r.next
              /\ DOMAIN r.by_name = DOMAIN metrics[s].by_name \cup {KeyOf(g, n)}
              /\ \A k \in DOMAIN metrics[s].by_name : r.by_name[k] = metrics[s].by_name[k]
              /\ \A id \in 1 .. metrics[s].next : r.entries[id] = metrics[s].entries[id]
          BY <2>2, <4>1, DefinedOK
        <4> HIDE DEF r
        <4>3. QED
          BY <4>2 DEF MetricsGrow
      <3> HIDE DEF r
      <3>3. QED
        BY <2>2, <3>1, <3>2, MetricsStep
    <2>11. ASSUME NEW m \in MetricId, NEW value \in 0 .. MaxMetric,
                  RecordMetric(g, m, value), Records(g, m)
           PROVE  StoreInv' /\ StoresGrow
      <3> DEFINE r == Recorded(metrics[s], m, value)
      <3>1. metrics' = [metrics EXCEPT ![s] = r] /\ UNCHANGED <<data, queues>>
        BY <2>11 DEF RecordMetric, Records
      <3>2. MetricsOK(r) /\ MetricsGrow(metrics[s], r)
        <4>1. RecordStatus(metrics[s], m) = "Ok"
          BY <2>11 DEF Records
        <4>2. /\ MetricsOK(r) /\ r.next = metrics[s].next /\ r.by_name = metrics[s].by_name
              /\ \A id \in 1 .. metrics[s].next : r.entries[id].kind = metrics[s].entries[id].kind
          BY <2>2, <4>1, RecordedOK
        <4>3. QED
          BY <2>2, <4>2 DEF MetricsGrow
      <3> HIDE DEF r
      <3>3. QED
        BY <2>2, <3>1, <3>2, MetricsStep
    <2>12. ASSUME NEW m \in MetricId, NEW delta \in Delta,
                  IncrementMetric(g, m, delta), Increments(g, m, delta)
           PROVE  StoreInv' /\ StoresGrow
      <3> DEFINE r == Incremented(metrics[s], m, delta)
      <3>1. metrics' = [metrics EXCEPT ![s] = r] /\ UNCHANGED <<data, queues>>
        BY <2>12 DEF IncrementMetric, Increments
      <3>2. MetricsOK(r) /\ MetricsGrow(metrics[s], r)
        <4>1. delta \in Int /\ IncrementStatus(metrics[s], m, delta) = "Ok"
          BY <2>12, SharedGuestsAssumption DEF Increments
        <4>2. /\ MetricsOK(r) /\ r.next = metrics[s].next /\ r.by_name = metrics[s].by_name
              /\ \A id \in 1 .. metrics[s].next : r.entries[id].kind = metrics[s].entries[id].kind
          BY <2>2, <4>1, IncrementedOK
        <4>3. QED
          BY <2>2, <4>2 DEF MetricsGrow
      <3> HIDE DEF r
      <3>3. QED
        BY <2>2, <3>1, <3>2, MetricsStep
    <2>13. CASE StoreStep(g)
      BY <2>5, <2>6, <2>7, <2>8, <2>9, <2>10, <2>11, <2>12, <2>13 DEF StoreStep
    <2>14. QED
      BY <2>1, <2>3, <2>4, <2>13
  <1>3. QED
    BY <1>1, <1>2

-----------------------------------------------------------------------------
(***************************************************************************)
(* The types                                                               *)
(***************************************************************************)
LEMMA NoGrantsType ==
    ASSUME NEW s \in Store \cup {NoStore}
    PROVE  NoGrants(s) \in Grants
    BY DEF NoGrants, Grants

LEMMA NoChangesType == NoChanges \in Changes
  <1>1. NoTicks \in PartialFcn(Root, Period \cup {0})
    BY PartialFcnDef DEF NoTicks
  <1>2. QED
    BY <1>1 DEF NoChanges, Changes

LEMMA SettledType ==
    ASSUME GuestTypes, NEW g \in Guest
    PROVE  Settled(g) \in Grants /\ SettledChanges(g) \in Changes
  <1>1. Settled(g) \in Grants
    BY NoGrantsType, StoreOfType DEF Settled, GuestTypes, StoreOf
  <1>2. SettledChanges(g) \in Changes
    BY DEF SettledChanges, GuestTypes, Changes
  <1>3. QED
    BY <1>1, <1>2

\* What a host function changes of its guest.
LEMMA SettleTypes ==
    ASSUME GuestTypes, NEW g \in Guest, NEW own \in Grants, NEW chg \in Changes,
           grants' = [grants EXCEPT ![g] = own], changes' = [changes EXCEPT ![g] = chg],
           UNCHANGED <<services, roots, tick, serving, ready, call, poisoned, sent, noticed,
                       received, lost>>
    PROVE  GuestTypes'
    BY DEF GuestTypes

\* The identifier of a queue or a metric is one.
LEMMA QueueIdType ==
    ASSUME NEW q, QueuesOK(q), NEW k \in DOMAIN q.by_name
    PROVE  q.by_name[k] \in QueueId /\ q.by_name[k] \in 1 .. q.next
  <1>1. q.next \in 0 .. MaxId /\ MaxId \in Nat
    BY SharedStoreAssumption, QueueFields DEF QueuesOK
  <1>2. QED
    BY <1>1 DEF QueuesOK, QueuesAgree, QueueId

LEMMA MetricIdType ==
    ASSUME NEW m, MetricsOK(m), NEW k \in DOMAIN m.by_name
    PROVE  m.by_name[k] \in MetricId /\ m.by_name[k] \in 1 .. m.next
  <1>1. m.next \in 0 .. MaxId /\ MaxId \in Nat
    BY SharedStoreAssumption, MetricFields DEF MetricsOK
  <1>2. QED
    BY <1>1 DEF MetricsOK, MetricsAgree, MetricId

LEMMA PlainTypes ==
    ASSUME StoreInv, GuestTypes, NEW g \in Guest, PlainStep(g)
    PROVE  GuestTypes'
  <1>0. "NoRoot" \notin Root /\ NoRoot = "NoRoot"
    BY SharedGuestsAssumption DEF NoRoot
  <1>1. ASSUME NEW new \in Services, ReplaceServices(g, new) PROVE GuestTypes'
    BY <1>1 DEF ReplaceServices, GuestTypes, guestVars, controlVars, itemVars
  <1>2. ASSUME NEW new \in Services, Rebuild(g, new) PROVE GuestTypes'
    <2>1. NoGrants(NoStore) \in Grants /\ NoChanges \in Changes
      BY NoGrantsType, NoChangesType
    <2>2. QED
      BY <1>2, <2>1 DEF Rebuild, GuestTypes, itemVars
  <1>3. ASSUME NEW r \in Root, CreateRoot(g, r) \/ RejectRoot(g, r) PROVE GuestTypes'
    <2>1. CASE CreateRoot(g, r)
      BY <2>1 DEF CreateRoot, GuestTypes, guestVars, controlVars, itemVars
    <2>2. CASE RejectRoot(g, r)
      BY <2>2 DEF RejectRoot, GuestTypes, guestVars, controlVars, itemVars
    <2>3. QED
      BY <1>3, <2>1, <2>2
  <1>4. ASSUME NEW r \in Root, DeleteRoot(g, r) PROVE GuestTypes'
    <2> DEFINE own == [grants[g] EXCEPT !.registrants = WithoutRoot(@, r)]
    <2>1. own \in Grants
      <3>1. grants[g] \in Grants
        BY DEF GuestTypes
      <3>2. WithoutRoot(grants[g].registrants, r) \in SUBSET (QueueId \X Root)
        BY <3>1 DEF Grants, WithoutRoot
      <3>3. QED
        BY <3>1, <3>2 DEF Grants
    <2>2. /\ grants' = [grants EXCEPT ![g] = own]
          /\ roots' = [roots EXCEPT ![g][r] = "Gone"] /\ tick' = [tick EXCEPT ![g][r] = 0]
          /\ UNCHANGED <<changes, services, serving, ready, call, poisoned, sent, noticed,
                         received, lost>>
      BY <1>4 DEF DeleteRoot, GuestTypes, controlVars, itemVars
    <2> HIDE DEF own
    <2>3. QED
      BY <2>1, <2>2 DEF GuestTypes
  <1>5. ASSUME NEW r \in Root, RunCallback(g, r) PROVE GuestTypes'
    BY <1>5 DEF RunCallback, GuestTypes, guestVars, embedderVars, itemVars
  <1>6. ASSUME NEW r \in Root, NEW q \in QueueId, OnQueueReady(g, r, q) PROVE GuestTypes'
    BY <1>6 DEF OnQueueReady, GuestTypes, guestVars, embedderVars, itemVars
  <1>7. CASE TakeChanges(g)
    BY <1>7, NoChangesType DEF TakeChanges, GuestTypes, controlVars, itemVars
  <1>8. CASE ReturnCallback(g)
    BY <1>8 DEF ReturnCallback, GuestTypes, guestVars, embedderVars, itemVars
  <1>9. CASE TrapCallback(g)
    BY <1>9 DEF TrapCallback, GuestTypes, guestVars, embedderVars, itemVars
  <1>10. ASSUME NEW period \in Period \cup {0}, SetTickPeriod(g, period) PROVE GuestTypes'
    <2> DEFINE ticks == NotedTicks(changes[g].ticks, serving[g], period)
               chg == [changes[g] EXCEPT !.ticks = ticks]
    <2>1. serving[g] \in Root
      BY <1>0, <1>10 DEF SetTickPeriod, Running, GuestTypes
    <2>2. changes[g].ticks \in PartialFcn(Root, Period \cup {0})
      BY DEF GuestTypes, Changes
    <2>3. ticks \in PartialFcn(Root, Period \cup {0})
      BY <2>1, <2>2, WithType DEF NotedTicks
    <2> HIDE DEF ticks
    <2>4. chg \in Changes
      BY <2>3 DEF GuestTypes, Changes
    <2>5. /\ changes' = [changes EXCEPT ![g] = chg]
          /\ tick' = [tick EXCEPT ![g][serving[g]] = period]
          /\ UNCHANGED <<grants, services, roots, serving, ready, call, poisoned, sent, noticed,
                         received, lost>>
      BY <1>10 DEF SetTickPeriod, GuestTypes, embedderVars, controlVars, itemVars, ticks
    <2> HIDE DEF chg
    <2>6. QED
      BY <2>1, <2>4, <2>5 DEF GuestTypes
  <1>11. ASSUME Observe(g) \/ ReturnItem(g) \/ \E traps \in BOOLEAN : LoseItem(g, traps)
         PROVE  GuestTypes'
    <2>1. call[g].item \in Item /\ NoCall \in Calls
      BY <1>11 DEF Observe, ReturnItem, LoseItem, GuestTypes, Calls, NoCall
    <2>2. CASE Observe(g)
      BY <2>1, <2>2 DEF Observe, GuestTypes, guestVars, embedderVars
    <2>3. CASE ReturnItem(g)
      BY <2>1, <2>3 DEF ReturnItem, GuestTypes, guestVars, embedderVars
    <2>4. ASSUME NEW traps \in BOOLEAN, LoseItem(g, traps) PROVE GuestTypes'
      BY <2>1, <2>4 DEF LoseItem, GuestTypes, guestVars, embedderVars
    <2>5. QED
      BY <1>11, <2>2, <2>3, <2>4
  <1>12. QED
    BY <1>1, <1>2, <1>3, <1>4, <1>5, <1>6, <1>7, <1>8, <1>9, <1>10, <1>11 DEF PlainStep

\* A guest holds what the store gave it.
LEMMA StoreTypes ==
    ASSUME StoreInv, GuestTypes, NEW g \in Guest, StoreStep(g)
    PROVE  GuestTypes'
  <1> DEFINE s == StoreOf(g)
             own == Settled(g)
  <1>0. /\ s \in Store /\ \A n \in Name : KeyOf(g, n) \in Key
        /\ own \in Grants /\ SettledChanges(g) \in Changes
        /\ QueuesOK(queues[s]) /\ MetricsOK(metrics[s])
    BY StoreOfType, SettledType DEF StoreInv
  <1>2. ASSUME NEW n \in Name, NEW value \in Item, NEW cas \in 0 .. MaxCas,
               SetSharedData(g, n, value, cas), Writes(g, n, value, cas)
        PROVE  GuestTypes'
    BY <1>0, <1>2, SettleTypes DEF SetSharedData, Writes, embedderVars, controlVars, itemVars
  <1>3. ASSUME NEW n \in Name, RegisterSharedQueue(g, n), Registers(g, n)
        PROVE  GuestTypes'
    <2> DEFINE r == Registered(queues[s], KeyOf(g, n))
               q == r.by_name[KeyOf(g, n)]
               new == [own EXCEPT !.queues = @ \cup {q}, !.names = @ \cup {RegisteredName(n)},
                                  !.registrants = @ \cup {<<q, serving[g]>>}]
               chg == NoteRegistration(SettledChanges(g), own, q, serving[g], n)
    <2>1. /\ queues' = [queues EXCEPT ![s] = r] /\ grants' = [grants EXCEPT ![g] = new]
          /\ changes' = [changes EXCEPT ![g] = chg]
          /\ UNCHANGED <<services, roots, tick, serving, ready, call, poisoned, sent, noticed,
                         received, lost>>
      BY <1>3 DEF RegisterSharedQueue, Registers, RegisteredName, embedderVars, controlVars, itemVars
    <2>2. KeyOf(g, n) \in DOMAIN r.by_name /\ QueuesOK(r)
      BY <1>0, <1>3, RegisteredOK DEF Registers
    <2>4. q \in QueueId
      BY <2>2, QueueIdType
    <2>5. serving[g] \in Root
      BY <1>3, SharedGuestsAssumption DEF RegisterSharedQueue, Running, GuestTypes, NoRoot
    <2>6. RegisteredName(n) \in SharedName
      BY DEF RegisteredName, SharedName
    <2> HIDE DEF q, own, r
    <2>7. new \in Grants
      <3>1. /\ own.queues \cup {q} \in SUBSET QueueId
            /\ own.names \cup {RegisteredName(n)} \in SUBSET SharedName
            /\ own.registrants \cup {<<q, serving[g]>>} \in SUBSET (QueueId \X Root)
        BY <1>0, <2>4, <2>5, <2>6 DEF Grants
      <3>2. QED
        BY <1>0, <3>1 DEF Grants
    <2>8. chg \in Changes
      BY <1>0, <2>4, <2>5 DEF NoteRegistration, Changes
    <2> HIDE DEF new, chg
    <2>9. QED
      BY <2>1, <2>7, <2>8, SettleTypes
  <1>4. ASSUME NEW key \in Key, ResolveSharedQueue(g, key), Resolves(g, key)
        PROVE  GuestTypes'
    <2> DEFINE q == queues[s].by_name[key]
               new == [own EXCEPT !.queues = @ \cup {q}, !.names = @ \cup {ResolvedName(key)}]
    <2>1. /\ grants' = [grants EXCEPT ![g] = new]
          /\ changes' = [changes EXCEPT ![g] = SettledChanges(g)]
          /\ UNCHANGED <<services, roots, tick, serving, ready, call, poisoned, sent, noticed,
                         received, lost>>
      BY <1>4 DEF ResolveSharedQueue, Resolves, ResolvedName, embedderVars, controlVars, itemVars
    <2>2. q \in QueueId
      BY <1>0, <1>4, QueueIdType DEF Resolves, ResolveStatus
    <2>3. ResolvedName(key) \in SharedName
      BY DEF ResolvedName, SharedName
    <2> HIDE DEF q, own
    <2>4. new \in Grants
      BY <1>0, <2>2, <2>3 DEF Grants
    <2> HIDE DEF new
    <2>5. QED
      BY <1>0, <2>1, <2>4, SettleTypes
  <1>5. ASSUME NEW q \in QueueId, NEW item \in Item,
               EnqueueSharedQueue(g, q, item), Enqueues(g, q, item)
        PROVE  GuestTypes'
    <2>1. [op |-> "Observe", item |-> item] \in Calls
      BY DEF Calls
    <2> HIDE DEF own
    <2>2. /\ grants' = [grants EXCEPT ![g] = own]
          /\ changes' = [changes EXCEPT ![g] = SettledChanges(g)]
          /\ call' = [call EXCEPT ![g] = [op |-> "Observe", item |-> item]]
          /\ sent' = sent \cup {item}
          /\ UNCHANGED <<services, roots, tick, serving, ready, poisoned, noticed, received, lost>>
      BY <1>5 DEF EnqueueSharedQueue, Enqueues, Observed, embedderVars, own
    <2>3. QED
      BY <1>0, <2>1, <2>2 DEF GuestTypes
  <1>6. ASSUME NEW q \in QueueId, DequeueSharedQueue(g, q), Dequeues(g, q)
        PROVE  GuestTypes'
    <2> DEFINE item == Head(queues[s].items[q])
    <2>1. queues[s].items[q] \in Seq(Item) /\ queues[s].items[q] # <<>>
      BY <1>0, <1>6, DequeuedOK DEF Dequeues
    <2>2. item \in Item
      BY <2>1
    <2> HIDE DEF item, own
    <2>3. [op |-> "Return", item |-> item] \in Calls
      BY <2>2 DEF Calls
    <2>4. /\ grants' = [grants EXCEPT ![g] = own]
          /\ changes' = [changes EXCEPT ![g] = SettledChanges(g)]
          /\ call' = [call EXCEPT ![g] = [op |-> "Return", item |-> item]]
          /\ UNCHANGED <<services, roots, tick, serving, ready, poisoned, sent, noticed, received,
                         lost>>
      BY <1>6 DEF DequeueSharedQueue, Dequeues, embedderVars, itemVars, own, item
    <2>5. QED
      BY <1>0, <2>3, <2>4 DEF GuestTypes
  <1>7. ASSUME NEW n \in Name, NEW kind \in MetricKind,
               DefineMetric(g, n, kind), Defines(g, n, kind)
        PROVE  GuestTypes'
    <2> DEFINE r == Defined(metrics[s], KeyOf(g, n), kind)
               m == r.by_name[KeyOf(g, n)]
               new == [own EXCEPT !.metrics = @ \cup {m}, !.names = @ \cup {MetricName(kind, n)}]
    <2>1. /\ metrics' = [metrics EXCEPT ![s] = r] /\ grants' = [grants EXCEPT ![g] = new]
          /\ changes' = [changes EXCEPT ![g] = SettledChanges(g)]
          /\ UNCHANGED <<services, roots, tick, serving, ready, call, poisoned, sent, noticed,
                         received, lost>>
      BY <1>7 DEF DefineMetric, Defines, MetricName, embedderVars, controlVars, itemVars
    <2>2. KeyOf(g, n) \in DOMAIN r.by_name /\ MetricsOK(r)
      BY <1>0, <1>7, DefinedOK DEF Defines
    <2>4. m \in MetricId
      BY <2>2, MetricIdType
    <2>5. MetricName(kind, n) \in SharedName
      BY DEF MetricName, SharedName
    <2> HIDE DEF m, own, r
    <2>6. new \in Grants
      BY <1>0, <2>4, <2>5 DEF Grants
    <2> HIDE DEF new
    <2>7. QED
      BY <1>0, <2>1, <2>6, SettleTypes
  <1>8. ASSUME NEW m \in MetricId, NEW value \in 0 .. MaxMetric,
               RecordMetric(g, m, value), Records(g, m)
        PROVE  GuestTypes'
    BY <1>0, <1>8, SettleTypes DEF RecordMetric, Records, embedderVars, controlVars, itemVars
  <1>9. ASSUME NEW m \in MetricId, NEW delta \in Delta,
               IncrementMetric(g, m, delta), Increments(g, m, delta)
        PROVE  GuestTypes'
    BY <1>0, <1>9, SettleTypes DEF IncrementMetric, Increments, embedderVars, controlVars, itemVars
  <1>10. QED
    BY <1>2, <1>3, <1>4, <1>5, <1>6, <1>7, <1>8, <1>9 DEF StoreStep

LEMMA TypesNext ==
    ASSUME StoreInv, GuestTypes, [Next]_vars
    PROVE  GuestTypes'
  <1>1. CASE UNCHANGED vars
    BY <1>1 DEF vars, GuestTypes, guestVars, embedderVars, controlVars, itemVars
  <1>2. CASE Next
    <2>1. PICK g \in Guest : \/ PlainStep(g) \/ StoreStep(g)
                             \/ Running(g) /\ Settle(g)
                             \/ \E n \in Name : GetSharedData(g, n)
      BY <1>2, NextForms
    <2>2. CASE \/ Running(g) /\ Settle(g)
               \/ \E n \in Name : GetSharedData(g, n)
      <3>1. /\ grants' = [grants EXCEPT ![g] = Settled(g)]
            /\ changes' = [changes EXCEPT ![g] = SettledChanges(g)]
            /\ UNCHANGED <<services, roots, tick, serving, ready, call, poisoned, sent, noticed,
                           received, lost>>
        BY <2>2 DEF Settle, GetSharedData, embedderVars, controlVars, itemVars
      <3>2. QED
        BY <3>1, SettledType, SettleTypes
    <2>3. QED
      BY <2>1, <2>2, PlainTypes, StoreTypes
  <1>3. QED
    BY <1>1, <1>2

-----------------------------------------------------------------------------
(***************************************************************************)
(* The grants                                                              *)
(***************************************************************************)
\* The name x of a guest that holds own is of something it holds.
OfHeld(x, own, q, m) ==
    \/ \E id \in own.queues : x = RegisteredName(q.owners[id][2])
    \/ \E id \in own.queues : x = ResolvedName(q.owners[id])
    \/ \E k \in DOMAIN m.by_name :
          m.by_name[k] \in own.metrics /\ x = MetricName(m.entries[m.by_name[k]].kind, k[2])

\* Grants against a store with the queues q and the metrics m.
GrantOK(own, q, m) ==
    /\ own.queues \subseteq 1 .. q.next /\ own.metrics \subseteq 1 .. m.next
    /\ \A p \in own.registrants : p[1] \in own.queues
    /\ \A x \in own.names : OfHeld(x, own, q, m)

GrantInv ==
    \A g \in Guest :
        IF grants[g].against = NoStore THEN grants[g] = NoGrants(NoStore)
        ELSE GrantOK(grants[g], queues[grants[g].against], metrics[grants[g].against])

LEMMA NoGrantsOK ==
    ASSUME NEW s, NEW q, NEW m
    PROVE  GrantOK(NoGrants(s), q, m)
    BY DEF GrantOK, NoGrants

\* An identifier keeps its name while the store grows.
LEMMA OwnersKept ==
    ASSUME NEW q, NEW r, QueuesOK(q), QueuesOK(r), QueuesGrow(q, r), NEW id \in 1 .. q.next
    PROVE  id \in 1 .. r.next /\ r.owners[id] = q.owners[id]
  <1>1. q.next \in Nat /\ r.next \in Nat /\ q.next <= r.next
    BY SharedStoreAssumption, QueueFields DEF QueuesOK, QueuesGrow
  <1>2. q.owners[id] \in DOMAIN q.by_name /\ q.by_name[q.owners[id]] = id
    BY DEF QueuesOK, QueuesAgree
  <1>3. q.owners[id] \in DOMAIN r.by_name /\ r.by_name[q.owners[id]] = id
    BY <1>2 DEF QueuesGrow
  <1>4. QED
    BY <1>1, <1>3 DEF QueuesOK, QueuesAgree

LEMMA GrantKept ==
    ASSUME NEW own, NEW q, NEW r, NEW m, NEW w, GrantOK(own, q, m),
           QueuesOK(q), QueuesOK(r), QueuesGrow(q, r),
           MetricsOK(m), MetricsOK(w), MetricsGrow(m, w)
    PROVE  GrantOK(own, r, w)
  <1>1. /\ \A id \in 1 .. q.next : id \in 1 .. r.next /\ r.owners[id] = q.owners[id]
        /\ own.queues \subseteq 1 .. r.next
    BY OwnersKept DEF GrantOK
  <1>2. own.metrics \subseteq 1 .. w.next
    <2>1. m.next \in Nat /\ w.next \in Nat /\ m.next <= w.next
      BY SharedStoreAssumption, MetricFields DEF MetricsOK, MetricsGrow
    <2>2. QED
      BY <2>1 DEF GrantOK
  <1>3. ASSUME NEW x \in own.names
        PROVE  OfHeld(x, own, r, w)
    <2>1. OfHeld(x, own, q, m)
      BY DEF GrantOK
    <2>2. \A id \in own.queues : r.owners[id] = q.owners[id]
      BY <1>1 DEF GrantOK
    <2>3. \A k \in DOMAIN m.by_name :
              /\ k \in DOMAIN w.by_name /\ w.by_name[k] = m.by_name[k]
              /\ w.entries[m.by_name[k]].kind = m.entries[m.by_name[k]].kind
      BY MetricIdType DEF MetricsGrow
    <2>4. QED
      BY <2>1, <2>2, <2>3 DEF OfHeld
  <1>4. QED
    BY <1>1, <1>2, <1>3 DEF GrantOK

\* More of what a guest holds leaves its names what they are.
LEMMA OfHeldMore ==
    ASSUME NEW x, NEW own, NEW new, NEW q, NEW m, OfHeld(x, own, q, m),
           own.queues \subseteq new.queues, own.metrics \subseteq new.metrics
    PROVE  OfHeld(x, new, q, m)
    BY DEF OfHeld

\* After settle_grants the grants are against the store of now.
LEMMA SettledOK ==
    ASSUME StoreInv, GuestTypes, GrantInv, NEW g \in Guest
    PROVE  /\ Settled(g).against = StoreOf(g)
           /\ GrantOK(Settled(g), queues[StoreOf(g)], metrics[StoreOf(g)])
  <1>1. StoreOf(g) \in Store /\ StoreOf(g) # NoStore
    BY StoreOfType, SharedGuestsAssumption DEF NoStore
  <1>2. CASE Current(g)
    BY <1>1, <1>2 DEF Current, Settled, StoreOf, GrantInv
  <1>3. CASE ~Current(g)
    BY <1>3, NoGrantsOK DEF Settled, StoreOf, NoGrants
  <1>4. QED
    BY <1>2, <1>3

\* The other guests hold what they held, of stores that grew.
LEMMA GrantsStep ==
    ASSUME StoreInv, StoreInv', StoresGrow, GuestTypes, GrantInv,
           NEW g \in Guest, NEW own, grants' = [grants EXCEPT ![g] = own],
           \/ own = NoGrants(NoStore)
           \/ own.against # NoStore /\ GrantOK(own, queues'[own.against], metrics'[own.against])
    PROVE  GrantInv'
  <1>1. \A h \in Guest : grants'[h] = IF h = g THEN own ELSE grants[h]
    BY DEF GuestTypes
  <1> SUFFICES ASSUME NEW h \in Guest
               PROVE  IF grants'[h].against = NoStore THEN grants'[h] = NoGrants(NoStore)
                      ELSE GrantOK(grants'[h], queues'[grants'[h].against],
                                   metrics'[grants'[h].against])
    BY DEF GrantInv
  <1>2. CASE h = g
    BY <1>1, <1>2 DEF NoGrants
  <1>3. CASE h # g /\ grants[h].against # NoStore
    <2>1. grants'[h] = grants[h] /\ grants[h].against \in Store
      BY <1>1, <1>3 DEF GuestTypes, Grants
    <2> DEFINE s == grants[h].against
    <2>2. /\ GrantOK(grants[h], queues[s], metrics[s])
          /\ QueuesOK(queues[s]) /\ QueuesOK(queues'[s]) /\ QueuesGrow(queues[s], queues'[s])
          /\ MetricsOK(metrics[s]) /\ MetricsOK(metrics'[s]) /\ MetricsGrow(metrics[s], metrics'[s])
      BY <1>3, <2>1 DEF GrantInv, StoreInv, StoresGrow
    <2>3. GrantOK(grants[h], queues'[s], metrics'[s])
      BY <2>2, GrantKept
    <2>4. QED
      BY <1>3, <2>1, <2>3
  <1>4. CASE h # g /\ grants[h].against = NoStore
    BY <1>1, <1>4 DEF GrantInv
  <1>5. QED
    BY <1>2, <1>3, <1>4

\* What a registration adds to the grants.
LEMMA RegisterGrant ==
    ASSUME NEW own \in Grants, NEW r, NEW m, QueuesOK(r), GrantOK(own, r, m),
           NEW key \in Key, key \in DOMAIN r.by_name, NEW root,
           NEW new, new = [own EXCEPT !.queues = @ \cup {r.by_name[key]},
                                      !.names = @ \cup {RegisteredName(key[2])},
                                      !.registrants = @ \cup {<<r.by_name[key], root>>}]
    PROVE  GrantOK(new, r, m)
  <1> DEFINE id == r.by_name[key]
  <1>1. id \in 1 .. r.next /\ r.owners[id] = key
    BY DEF QueuesOK, QueuesAgree
  <1> HIDE DEF id
  <1>2. /\ new.queues = own.queues \cup {id} /\ new.metrics = own.metrics
        /\ new.names = own.names \cup {RegisteredName(key[2])}
        /\ new.registrants = own.registrants \cup {<<id, root>>}
    BY DEF Grants, id
  <1>3. \A x \in own.names : OfHeld(x, new, r, m)
    BY <1>2, OfHeldMore DEF GrantOK
  <1>4. OfHeld(RegisteredName(key[2]), new, r, m)
    BY <1>1, <1>2 DEF OfHeld
  <1>5. QED
    BY <1>1, <1>2, <1>3, <1>4 DEF GrantOK

LEMMA ResolveGrant ==
    ASSUME NEW own \in Grants, NEW r, NEW m, QueuesOK(r), GrantOK(own, r, m),
           NEW key \in Key, key \in DOMAIN r.by_name,
           NEW new, new = [own EXCEPT !.queues = @ \cup {r.by_name[key]},
                                      !.names = @ \cup {ResolvedName(key)}]
    PROVE  GrantOK(new, r, m)
  <1> DEFINE id == r.by_name[key]
  <1>1. id \in 1 .. r.next /\ r.owners[id] = key
    BY DEF QueuesOK, QueuesAgree
  <1> HIDE DEF id
  <1>2. /\ new.queues = own.queues \cup {id} /\ new.metrics = own.metrics
        /\ new.names = own.names \cup {ResolvedName(key)}
        /\ new.registrants = own.registrants
    BY DEF Grants, id
  <1>3. \A x \in own.names : OfHeld(x, new, r, m)
    BY <1>2, OfHeldMore DEF GrantOK
  <1>4. OfHeld(ResolvedName(key), new, r, m)
    BY <1>1, <1>2 DEF OfHeld
  <1>5. QED
    BY <1>1, <1>2, <1>3, <1>4 DEF GrantOK

LEMMA DefineGrant ==
    ASSUME NEW own \in Grants, NEW q, NEW w, MetricsOK(w), GrantOK(own, q, w),
           NEW key \in Key, key \in DOMAIN w.by_name,
           NEW kind, w.entries[w.by_name[key]].kind = kind,
           NEW new, new = [own EXCEPT !.metrics = @ \cup {w.by_name[key]},
                                      !.names = @ \cup {MetricName(kind, key[2])}]
    PROVE  GrantOK(new, q, w)
  <1> DEFINE id == w.by_name[key]
  <1>1. id \in 1 .. w.next
    BY DEF MetricsOK, MetricsAgree
  <1>2. /\ new.queues = own.queues /\ new.metrics = own.metrics \cup {id}
        /\ new.names = own.names \cup {MetricName(kind, key[2])}
        /\ new.registrants = own.registrants
    BY DEF Grants
  <1>3. \A x \in own.names : OfHeld(x, new, q, w)
    BY <1>2, OfHeldMore DEF GrantOK
  <1>4. OfHeld(MetricName(kind, key[2]), new, q, w)
    BY <1>2 DEF OfHeld
  <1>5. QED
    BY <1>1, <1>2, <1>3, <1>4 DEF GrantOK

LEMMA GrantNext ==
    ASSUME StoreInv, GuestTypes, GrantInv, [Next]_vars
    PROVE  GrantInv'
  <1>0. StoreInv' /\ StoresGrow /\ GuestTypes'
    BY StoreNext, TypesNext
  <1>1. ASSUME UNCHANGED grants
        PROVE  GrantInv'
    <2>1. ASSUME NEW h \in Guest, grants[h].against # NoStore
          PROVE  GrantOK(grants[h], queues'[grants[h].against], metrics'[grants[h].against])
      <3>1. grants[h].against \in Store
        BY <2>1 DEF GuestTypes, Grants
      <3> DEFINE s == grants[h].against
      <3>2. /\ GrantOK(grants[h], queues[s], metrics[s])
            /\ QueuesOK(queues[s]) /\ QueuesOK(queues'[s]) /\ QueuesGrow(queues[s], queues'[s])
            /\ MetricsOK(metrics[s]) /\ MetricsOK(metrics'[s])
            /\ MetricsGrow(metrics[s], metrics'[s])
        BY <1>0, <2>1, <3>1 DEF GrantInv, StoreInv, StoresGrow
      <3>3. QED
        BY <3>2, GrantKept
    <2>2. QED
      BY <1>1, <2>1 DEF GrantInv
  <1>2. CASE UNCHANGED vars
    BY <1>1, <1>2 DEF vars, guestVars
  <1>3. CASE Next
    <2>1. PICK g \in Guest : \/ PlainStep(g) \/ StoreStep(g)
                             \/ Running(g) /\ Settle(g)
                             \/ \E n \in Name : GetSharedData(g, n)
      BY <1>3, NextForms
    <2> DEFINE s == StoreOf(g)
               own == Settled(g)
    <2>2. /\ s \in Store /\ s # NoStore /\ own \in Grants /\ own.against = s
          /\ \A n \in Name : KeyOf(g, n) \in Key /\ KeyOf(g, n)[2] = n
      BY StoreOfType, SettledType, SettledOK, SharedGuestsAssumption DEF NoStore, KeyOf
    <2>3. /\ QueuesOK(queues[s]) /\ QueuesOK(queues'[s]) /\ QueuesGrow(queues[s], queues'[s])
          /\ MetricsOK(metrics[s]) /\ MetricsOK(metrics'[s]) /\ MetricsGrow(metrics[s], metrics'[s])
      BY <1>0, <2>2 DEF StoreInv, StoresGrow
    <2>4. GrantOK(own, queues[s], metrics[s])
      BY SettledOK
    <2>5. GrantOK(own, queues'[s], metrics'[s])
      BY <2>3, <2>4, GrantKept
    <2>6. CASE grants' = [grants EXCEPT ![g] = own]
      BY <1>0, <2>2, <2>5, <2>6, GrantsStep
    <2>7. CASE \/ Running(g) /\ Settle(g)
               \/ \E n \in Name : GetSharedData(g, n)
      BY <2>6, <2>7 DEF Settle, GetSharedData
    <2>8. CASE PlainStep(g)
      <3>1. ASSUME NEW new \in Services, Rebuild(g, new) PROVE GrantInv'
        BY <1>0, <3>1, GrantsStep DEF Rebuild
      <3>2. ASSUME NEW r \in Root, DeleteRoot(g, r) PROVE GrantInv'
        <4> DEFINE new == [grants[g] EXCEPT !.registrants = WithoutRoot(@, r)]
                   a == grants[g].against
        <4>1. grants' = [grants EXCEPT ![g] = new] /\ UNCHANGED storeVars
          BY <3>2 DEF DeleteRoot, GuestTypes
        <4>2. CASE a = NoStore
          <5>1. grants[g] = NoGrants(NoStore)
            BY <4>2 DEF GrantInv
          <5>2. new = NoGrants(NoStore)
            BY <5>1 DEF NoGrants, WithoutRoot
          <5>3. QED
            BY <1>0, <4>1, <5>2, GrantsStep
        <4>3. CASE a # NoStore
          <5>1. GrantOK(grants[g], queues'[a], metrics'[a])
            BY <4>1, <4>3 DEF GrantInv, storeVars
          <5>2. /\ new.queues = grants[g].queues /\ new.metrics = grants[g].metrics
                /\ new.names = grants[g].names /\ new.registrants \subseteq grants[g].registrants
                /\ new.against = a
            BY DEF GuestTypes, Grants, WithoutRoot
          <5> HIDE DEF new
          <5>3. GrantOK(new, queues'[a], metrics'[a])
            BY <5>1, <5>2 DEF GrantOK, OfHeld
          <5>4. QED
            BY <1>0, <4>1, <4>3, <5>2, <5>3, GrantsStep
        <4>4. QED
          BY <4>2, <4>3
      <3>3. CASE UNCHANGED grants
        BY <1>1, <3>3
      <3>4. \/ UNCHANGED grants
            \/ \E new \in Services : Rebuild(g, new)
            \/ \E r \in Root : DeleteRoot(g, r)
        BY <2>8 DEF PlainStep, ReplaceServices, CreateRoot, RejectRoot, RunCallback, OnQueueReady,
           TakeChanges, ReturnCallback, TrapCallback, SetTickPeriod, Observe, ReturnItem, LoseItem,
           guestVars
      <3>5. QED
        BY <3>1, <3>2, <3>3, <3>4
    <2>9. ASSUME NEW n \in Name, RegisterSharedQueue(g, n), Registers(g, n)
          PROVE  GrantInv'
      <3> DEFINE r == Registered(queues[s], KeyOf(g, n))
                 key == KeyOf(g, n)
                 new == [own EXCEPT !.queues = @ \cup {r.by_name[key]},
                                    !.names = @ \cup {RegisteredName(key[2])},
                                    !.registrants = @ \cup {<<r.by_name[key], serving[g]>>}]
      <3>1. queues' = [queues EXCEPT ![s] = r] /\ grants' = [grants EXCEPT ![g] = new]
        BY <2>2, <2>9 DEF RegisterSharedQueue, Registers, RegisteredName
      <3>2. queues'[s] = r /\ key \in Key /\ key \in DOMAIN r.by_name
        BY <2>2, <2>3, <2>9, <3>1, RegisteredOK DEF StoreInv, Registers
      <3>3. new.against = s
        BY <2>2 DEF Grants
      <3> HIDE DEF r, key, new, own, s
      <3>4. GrantOK(new, queues'[s], metrics'[s])
        BY <2>2, <2>3, <2>5, <3>2, RegisterGrant DEF new
      <3>5. QED
        BY <1>0, <2>2, <3>1, <3>3, <3>4, GrantsStep
    <2>10. ASSUME NEW key \in Key, ResolveSharedQueue(g, key), Resolves(g, key)
           PROVE  GrantInv'
      <3> DEFINE new == [own EXCEPT !.queues = @ \cup {queues[s].by_name[key]},
                                    !.names = @ \cup {ResolvedName(key)}]
      <3>1. grants' = [grants EXCEPT ![g] = new] /\ UNCHANGED storeVars
        BY <2>2, <2>10 DEF ResolveSharedQueue, Resolves, ResolvedName
      <3>2. queues'[s] = queues[s] /\ key \in DOMAIN queues[s].by_name
        BY <2>10, <3>1 DEF Resolves, ResolveStatus, storeVars
      <3>3. new.against = s
        BY <2>2 DEF Grants
      <3> HIDE DEF new, own, s
      <3>4. GrantOK(new, queues'[s], metrics'[s])
        BY <2>2, <2>3, <2>5, <3>2, ResolveGrant DEF new
      <3>5. QED
        BY <1>0, <2>2, <3>1, <3>3, <3>4, GrantsStep
    <2>11. ASSUME NEW n \in Name, NEW kind \in MetricKind,
                  DefineMetric(g, n, kind), Defines(g, n, kind)
           PROVE  GrantInv'
      <3> DEFINE w == Defined(metrics[s], KeyOf(g, n), kind)
                 key == KeyOf(g, n)
                 new == [own EXCEPT !.metrics = @ \cup {w.by_name[key]},
                                    !.names = @ \cup {MetricName(kind, key[2])}]
      <3>1. metrics' = [metrics EXCEPT ![s] = w] /\ grants' = [grants EXCEPT ![g] = new]
        BY <2>2, <2>11 DEF DefineMetric, Defines, MetricName
      <3>2. DefineStatus(metrics[s], key, kind) = "Ok" /\ key \in Key
        BY <2>2, <2>11 DEF Defines
      <3>3. key \in DOMAIN w.by_name /\ w.entries[w.by_name[key]].kind = kind
        BY <2>3, <3>2, DefinedOK
      <3>4. metrics'[s] = w
        BY <2>2, <3>1 DEF StoreInv
      <3>5. new.against = s
        BY <2>2 DEF Grants
      <3> HIDE DEF w, key, new, own, s
      <3>6. GrantOK(new, queues'[s], metrics'[s])
        BY <2>2, <2>3, <2>5, <3>2, <3>3, <3>4, DefineGrant DEF new
      <3>7. QED
        BY <1>0, <2>2, <3>1, <3>5, <3>6, GrantsStep
    <2>12. CASE StoreStep(g)
      <3>1. \/ grants' = [grants EXCEPT ![g] = own]
            \/ \E n \in Name : RegisterSharedQueue(g, n) /\ Registers(g, n)
            \/ \E key \in Key : ResolveSharedQueue(g, key) /\ Resolves(g, key)
            \/ \E n \in Name, kind \in MetricKind : DefineMetric(g, n, kind) /\ Defines(g, n, kind)
        BY <2>12 DEF StoreStep, SetSharedData, Writes, EnqueueSharedQueue, Enqueues,
           DequeueSharedQueue, Dequeues, RecordMetric, Records, IncrementMetric, Increments
      <3>2. QED
        BY <2>6, <2>9, <2>10, <2>11, <3>1
    <2>13. QED
      BY <2>1, <2>7, <2>8, <2>12
  <1>4. QED
    BY <1>2, <1>3

-----------------------------------------------------------------------------
(***************************************************************************)
(* The registrants                                                         *)
(***************************************************************************)
\* A host call is in the middle only of a callback of a sound guest, and a trap
\* ends the callback.
ControlInv ==
    \A g \in Guest :
        /\ call[g] # NoCall => serving[g] # NoRoot /\ ~poisoned[g]
        /\ ready[g] # NoId => serving[g] # NoRoot
        /\ poisoned[g] => serving[g] = NoRoot

LEMMA ControlNextInv ==
    ASSUME GuestTypes, ControlInv, [Next]_vars
    PROVE  ControlInv'
  <1>0. NoRoot \notin Root
    BY SharedGuestsAssumption DEF NoRoot
  <1>1. CASE UNCHANGED vars
    BY <1>1 DEF vars, controlVars, ControlInv
  <1>2. CASE Next
    <2>1. PICK g \in Guest : \/ PlainStep(g) \/ StoreStep(g)
                             \/ Running(g) /\ Settle(g)
                             \/ \E n \in Name : GetSharedData(g, n)
      BY <1>2, NextForms
    <2>2. CASE UNCHANGED <<serving, ready, call, poisoned>>
      BY <2>2 DEF ControlInv
    <2>3. CASE \/ Running(g) /\ Settle(g)
               \/ \E n \in Name : GetSharedData(g, n)
      BY <2>2, <2>3 DEF Settle, GetSharedData, controlVars
    <2>4. ASSUME NEW q \in QueueId, NEW item \in Item,
                 EnqueueSharedQueue(g, q, item), Enqueues(g, q, item)
          PROVE  ControlInv'
      <3>1. /\ serving[g] # NoRoot /\ UNCHANGED <<serving, ready, poisoned>>
            /\ \A h \in Guest : h # g => call'[h] = call[h]
        BY <2>4 DEF EnqueueSharedQueue, Enqueues, Running, GuestTypes
      <3>2. QED
        BY <3>1 DEF ControlInv
    <2>5. ASSUME NEW q \in QueueId, DequeueSharedQueue(g, q), Dequeues(g, q)
          PROVE  ControlInv'
      <3>1. /\ serving[g] # NoRoot /\ UNCHANGED <<serving, ready, poisoned>>
            /\ \A h \in Guest : h # g => call'[h] = call[h]
        BY <2>5 DEF DequeueSharedQueue, Dequeues, Running, GuestTypes
      <3>2. QED
        BY <3>1 DEF ControlInv
    <2>6. CASE StoreStep(g)
      <3>1. \/ UNCHANGED <<serving, ready, call, poisoned>>
            \/ \E q \in QueueId, item \in Item :
                  EnqueueSharedQueue(g, q, item) /\ Enqueues(g, q, item)
            \/ \E q \in QueueId : DequeueSharedQueue(g, q) /\ Dequeues(g, q)
        BY <2>6 DEF StoreStep, SetSharedData, Writes, RegisterSharedQueue, Registers,
           RegisteredName, ResolveSharedQueue, Resolves, ResolvedName, DefineMetric, Defines,
           MetricName, RecordMetric, Records, IncrementMetric, Increments, controlVars
      <3>2. QED
        BY <2>2, <2>4, <2>5, <3>1
    <2>7. CASE PlainStep(g)
      <3>1. ASSUME NEW new \in Services, Rebuild(g, new) PROVE ControlInv'
        BY <3>1 DEF Rebuild, ControlInv, GuestTypes
      <3>2. ASSUME NEW r \in Root, RunCallback(g, r) PROVE ControlInv'
        BY <1>0, <3>2 DEF RunCallback, Idle, ControlInv, GuestTypes
      <3>3. ASSUME NEW r \in Root, NEW q \in QueueId, OnQueueReady(g, r, q) PROVE ControlInv'
        BY <1>0, <3>3 DEF OnQueueReady, Idle, ControlInv, GuestTypes
      <3>4. CASE ReturnCallback(g)
        BY <3>4 DEF ReturnCallback, Running, ControlInv, GuestTypes
      <3>5. CASE TrapCallback(g)
        BY <3>5 DEF TrapCallback, Running, ControlInv, GuestTypes
      <3>6. CASE Observe(g)
        BY <3>6 DEF Observe, ControlInv, GuestTypes
      <3>7. CASE ReturnItem(g)
        BY <3>7 DEF ReturnItem, ControlInv, GuestTypes
      <3>8. ASSUME NEW traps \in BOOLEAN, LoseItem(g, traps) PROVE ControlInv'
        <4>1. call[g] # NoCall
          BY <3>8 DEF LoseItem, NoCall
        <4>2. CASE traps = TRUE
          BY <3>8, <4>1, <4>2 DEF LoseItem, ControlInv, GuestTypes
        <4>3. CASE traps = FALSE
          BY <3>8, <4>1, <4>3 DEF LoseItem, ControlInv, GuestTypes
        <4>4. QED
          BY <4>2, <4>3
      <3>9. \/ UNCHANGED <<serving, ready, call, poisoned>>
            \/ \E new \in Services : Rebuild(g, new)
            \/ \E r \in Root : RunCallback(g, r)
            \/ \E r \in Root, q \in QueueId : OnQueueReady(g, r, q)
            \/ ReturnCallback(g) \/ TrapCallback(g) \/ Observe(g) \/ ReturnItem(g)
            \/ \E traps \in BOOLEAN : LoseItem(g, traps)
        BY <2>7 DEF PlainStep, ReplaceServices, CreateRoot, RejectRoot, DeleteRoot, TakeChanges,
           SetTickPeriod, controlVars
      <3>10. QED
        BY <2>2, <3>1, <3>2, <3>3, <3>4, <3>5, <3>6, <3>7, <3>8, <3>9
    <2>8. QED
      BY <2>1, <2>3, <2>6, <2>7
  <1>3. QED
    BY <1>1, <1>2

\* A host function whose guest holds more registrations than before, all of them
\* of live roots.
LEMMA AliveHost ==
    ASSUME GuestTypes, RegistrantsAlive, NEW g \in Guest, NEW own,
           grants' = [grants EXCEPT ![g] = own],
           \A p \in own.registrants : roots[g][p[2]] \in {"Live", "Rejected"},
           own.against = StoreOf(g),
           Current(g) => grants[g].registrants \subseteq own.registrants,
           UNCHANGED <<services, roots, serving, ready>>
    PROVE  RegistrantsAlive'
  <1>1. \A h \in Guest : grants'[h] = IF h = g THEN own ELSE grants[h]
    BY DEF GuestTypes
  <1>2. ASSUME NEW h \in Guest
        PROVE  /\ \A p \in grants'[h].registrants : roots'[h][p[2]] \in {"Live", "Rejected"}
               /\ ready'[h] # NoId => Current(h)' /\ <<ready'[h], serving'[h]>> \in grants'[h].registrants
    BY <1>1 DEF RegistrantsAlive, Current, StoreOf
  <1>3. QED
    BY <1>2 DEF RegistrantsAlive

LEMMA AliveNext ==
    ASSUME StoreInv, GuestTypes, GrantInv, ControlInv, RegistrantsAlive, [Next]_vars
    PROVE  RegistrantsAlive'
  <1>0. NoRoot \notin Root
    BY SharedGuestsAssumption DEF NoRoot
  <1>1. CASE UNCHANGED <<grants, services, roots, serving, ready>>
    BY <1>1 DEF RegistrantsAlive, Current
  <1>2. CASE UNCHANGED vars
    BY <1>1, <1>2 DEF vars, guestVars, embedderVars, controlVars
  <1>3. CASE Next
    <2>1. PICK g \in Guest : \/ PlainStep(g) \/ StoreStep(g)
                             \/ Running(g) /\ Settle(g)
                             \/ \E n \in Name : GetSharedData(g, n)
      BY <1>3, NextForms
    <2> DEFINE own == Settled(g)
    <2>2. /\ own \in Grants /\ own.against = StoreOf(g)
          /\ \A p \in own.registrants : roots[g][p[2]] \in {"Live", "Rejected"}
          /\ Current(g) => grants[g].registrants \subseteq own.registrants
      BY SettledType, SettledOK DEF RegistrantsAlive, Settled, NoGrants
    <2>3. CASE grants' = [grants EXCEPT ![g] = own] /\ UNCHANGED <<services, roots, serving, ready>>
      BY <2>2, <2>3, AliveHost
    <2>4. CASE \/ Running(g) /\ Settle(g)
               \/ \E n \in Name : GetSharedData(g, n)
      BY <2>3, <2>4 DEF Settle, GetSharedData, embedderVars, controlVars
    <2>5. ASSUME NEW n \in Name, RegisterSharedQueue(g, n), Registers(g, n)
          PROVE  RegistrantsAlive'
      <3> DEFINE q == Registered(queues[StoreOf(g)], KeyOf(g, n)).by_name[KeyOf(g, n)]
                 new == [own EXCEPT !.queues = @ \cup {q}, !.names = @ \cup {RegisteredName(n)},
                                    !.registrants = @ \cup {<<q, serving[g]>>}]
      <3>1. /\ grants' = [grants EXCEPT ![g] = new] /\ roots[g][serving[g]] = "Live"
            /\ UNCHANGED <<services, roots, serving, ready>>
        BY <2>5 DEF RegisterSharedQueue, Registers, RegisteredName, Accepted, embedderVars,
           controlVars
      <3> HIDE DEF q, own
      <3>2. new.registrants = own.registrants \cup {<<q, serving[g]>>} /\ new.against = own.against
        BY <2>2 DEF Grants
      <3> HIDE DEF new
      <3>3. \A p \in new.registrants : roots[g][p[2]] \in {"Live", "Rejected"}
        BY <2>2, <3>1, <3>2
      <3>4. QED
        BY <2>2, <3>1, <3>2, <3>3, AliveHost
    <2>6. ASSUME NEW key \in Key, ResolveSharedQueue(g, key), Resolves(g, key)
          PROVE  RegistrantsAlive'
      <3> DEFINE new == [own EXCEPT !.queues = @ \cup {queues[StoreOf(g)].by_name[key]},
                                    !.names = @ \cup {ResolvedName(key)}]
      <3>1. grants' = [grants EXCEPT ![g] = new] /\ UNCHANGED <<services, roots, serving, ready>>
        BY <2>6 DEF ResolveSharedQueue, Resolves, ResolvedName, embedderVars, controlVars
      <3> HIDE DEF own
      <3>2. new.registrants = own.registrants /\ new.against = own.against
        BY <2>2 DEF Grants
      <3> HIDE DEF new
      <3>3. QED
        BY <2>2, <3>1, <3>2, AliveHost
    <2>7. ASSUME NEW n \in Name, NEW kind \in MetricKind,
                 DefineMetric(g, n, kind), Defines(g, n, kind)
          PROVE  RegistrantsAlive'
      <3> DEFINE m == Defined(metrics[StoreOf(g)], KeyOf(g, n), kind).by_name[KeyOf(g, n)]
                 new == [own EXCEPT !.metrics = @ \cup {m}, !.names = @ \cup {MetricName(kind, n)}]
      <3>1. grants' = [grants EXCEPT ![g] = new] /\ UNCHANGED <<services, roots, serving, ready>>
        BY <2>7 DEF DefineMetric, Defines, MetricName, embedderVars, controlVars
      <3> HIDE DEF m, own
      <3>2. new.registrants = own.registrants /\ new.against = own.against
        BY <2>2 DEF Grants
      <3> HIDE DEF new
      <3>3. QED
        BY <2>2, <3>1, <3>2, AliveHost
    <2>8. CASE StoreStep(g)
      <3>1. \/ grants' = [grants EXCEPT ![g] = own] /\ UNCHANGED <<services, roots, serving, ready>>
            \/ \E n \in Name : RegisterSharedQueue(g, n) /\ Registers(g, n)
            \/ \E key \in Key : ResolveSharedQueue(g, key) /\ Resolves(g, key)
            \/ \E n \in Name, kind \in MetricKind : DefineMetric(g, n, kind) /\ Defines(g, n, kind)
        BY <2>8 DEF StoreStep, SetSharedData, Writes, EnqueueSharedQueue, Enqueues,
           DequeueSharedQueue, Dequeues, RecordMetric, Records, IncrementMetric, Increments,
           embedderVars, controlVars
      <3>2. QED
        BY <2>3, <2>5, <2>6, <2>7, <3>1
    <2>9. CASE PlainStep(g)
      <3>1. ASSUME NEW new \in Services, ReplaceServices(g, new) PROVE RegistrantsAlive'
        <4>1. ready[g] = NoId /\ \A h \in Guest : h # g => services'[h] = services[h]
          BY <3>1 DEF ReplaceServices, Idle, ControlInv, GuestTypes
        <4>2. UNCHANGED <<grants, roots, serving, ready>>
          BY <3>1 DEF ReplaceServices, guestVars, controlVars
        <4>3. QED
          BY <4>1, <4>2 DEF RegistrantsAlive, Current
      <3>2. ASSUME NEW new \in Services, Rebuild(g, new) PROVE RegistrantsAlive'
        <4>1. /\ ready[g] = NoId /\ grants'[g].registrants = {}
              /\ \A h \in Guest : h # g => /\ services'[h] = services[h] /\ grants'[h] = grants[h]
                                           /\ roots'[h] = roots[h]
              /\ UNCHANGED <<serving, ready>>
          BY <3>2 DEF Rebuild, ControlInv, GuestTypes, NoGrants
        <4>2. QED
          BY <4>1 DEF RegistrantsAlive, Current
      <3>3. ASSUME NEW r \in Root, CreateRoot(g, r) \/ RejectRoot(g, r) PROVE RegistrantsAlive'
        <4>1. /\ UNCHANGED <<grants, services, serving, ready>>
              /\ \E to \in {"Live", "Rejected"} : roots' = [roots EXCEPT ![g][r] = to]
          BY <3>3 DEF CreateRoot, RejectRoot, guestVars, controlVars
        <4>2. \A h \in Guest, x \in Root : roots'[h][x] = roots[h][x] \/ roots'[h][x] \in {"Live", "Rejected"}
          BY <4>1 DEF GuestTypes
        <4>3. \A h \in Guest : \A p \in grants[h].registrants : p[2] \in Root
          BY DEF GuestTypes, Grants
        <4>4. QED
          BY <4>1, <4>2, <4>3 DEF RegistrantsAlive, Current
      <3>4. ASSUME NEW r \in Root, DeleteRoot(g, r) PROVE RegistrantsAlive'
        <4>1. /\ ready[g] = NoId /\ UNCHANGED <<services, serving, ready>>
              /\ \A h \in Guest : h # g => grants'[h] = grants[h] /\ roots'[h] = roots[h]
              /\ \A x \in Root : x # r => roots'[g][x] = roots[g][x]
          BY <3>4 DEF DeleteRoot, Idle, ControlInv, GuestTypes, controlVars
        <4>2. grants'[g].registrants = WithoutRoot(grants[g].registrants, r)
          BY <3>4 DEF DeleteRoot, GuestTypes, Grants
        <4>3. \A p \in grants'[g].registrants : p \in grants[g].registrants /\ p[2] \in Root /\ p[2] # r
          BY <4>2 DEF WithoutRoot, GuestTypes, Grants
        <4>4. QED
          BY <4>1, <4>3 DEF RegistrantsAlive, Current
      <3>5. ASSUME NEW r \in Root, RunCallback(g, r) PROVE RegistrantsAlive'
        <4>1. /\ ready[g] = NoId /\ UNCHANGED <<grants, services, roots, ready>>
              /\ \A h \in Guest : h # g => serving'[h] = serving[h]
          BY <3>5 DEF RunCallback, Idle, ControlInv, GuestTypes, guestVars, embedderVars
        <4>2. QED
          BY <4>1 DEF RegistrantsAlive, Current
      <3>6. ASSUME NEW r \in Root, NEW q \in QueueId, OnQueueReady(g, r, q) PROVE RegistrantsAlive'
        <4>1. /\ Current(g) /\ <<q, r>> \in grants[g].registrants
              /\ serving'[g] = r /\ ready'[g] = q /\ UNCHANGED <<grants, services, roots>>
              /\ \A h \in Guest : h # g => serving'[h] = serving[h] /\ ready'[h] = ready[h]
          BY <3>6 DEF OnQueueReady, Registrants, GuestTypes, guestVars, embedderVars
        <4>2. QED
          BY <4>1 DEF RegistrantsAlive, Current
      <3>7. CASE ReturnCallback(g) \/ TrapCallback(g)
        <4>1. /\ ready'[g] = NoId /\ UNCHANGED <<grants, services, roots>>
              /\ \A h \in Guest : h # g => serving'[h] = serving[h] /\ ready'[h] = ready[h]
          BY <3>7 DEF ReturnCallback, TrapCallback, GuestTypes, guestVars, embedderVars
        <4>2. QED
          BY <4>1 DEF RegistrantsAlive, Current
      <3>8. ASSUME NEW traps \in BOOLEAN, LoseItem(g, traps) PROVE RegistrantsAlive'
        <4>1. /\ UNCHANGED <<grants, services, roots>>
              /\ \A h \in Guest : h # g => serving'[h] = serving[h] /\ ready'[h] = ready[h]
              /\ ready'[g] = NoId \/ (ready'[g] = ready[g] /\ serving'[g] = serving[g])
          BY <3>8 DEF LoseItem, GuestTypes, guestVars, embedderVars
        <4>2. QED
          BY <4>1 DEF RegistrantsAlive, Current
      <3>9. \/ UNCHANGED <<grants, services, roots, serving, ready>>
            \/ \E new \in Services : ReplaceServices(g, new) \/ Rebuild(g, new)
            \/ \E r \in Root : CreateRoot(g, r) \/ RejectRoot(g, r) \/ DeleteRoot(g, r)
                               \/ RunCallback(g, r)
            \/ \E r \in Root, q \in QueueId : OnQueueReady(g, r, q)
            \/ ReturnCallback(g) \/ TrapCallback(g)
            \/ \E traps \in BOOLEAN : LoseItem(g, traps)
        BY <2>9 DEF PlainStep, TakeChanges, SetTickPeriod, Observe, ReturnItem, guestVars,
           embedderVars, controlVars
      <3>10. QED
        BY <1>1, <3>1, <3>2, <3>3, <3>4, <3>5, <3>6, <3>7, <3>8, <3>9
    <2>10. QED
      BY <2>1, <2>4, <2>8, <2>9
  <1>4. QED
    BY <1>2, <1>3

-----------------------------------------------------------------------------
(***************************************************************************)
(* The theorems                                                            *)
(***************************************************************************)
\* The inductive invariant of the guests and their stores.
SharedInv == StoreInv /\ GuestTypes /\ GrantInv /\ ControlInv /\ RegistrantsAlive

LEMMA SharedInit ==
    ASSUME Init
    PROVE  SharedInv
  <1>1. StoreInv
    <2>1. EmptyData \in DataFamily /\ EmptyQueues \in QueueFamily /\ EmptyMetrics \in MetricFamily
      BY EmptyOK DEF DataOK, QueuesOK, MetricsOK
    <2>2. QED
      BY <2>1, EmptyOK DEF Init, StoreInv
  <1>2. GuestTypes
    <2>1. NoGrants(NoStore) \in Grants /\ NoChanges \in Changes
      BY NoGrantsType, NoChangesType
    <2>2. QED
      BY <2>1 DEF Init, GuestTypes, Calls
  <1>3. GrantInv
    BY DEF Init, GrantInv, NoGrants
  <1>4. ControlInv
    BY DEF Init, ControlInv
  <1>5. RegistrantsAlive
    BY DEF Init, RegistrantsAlive, NoGrants
  <1>6. QED
    BY <1>1, <1>2, <1>3, <1>4, <1>5 DEF SharedInv

LEMMA SharedInvariant == Spec => []SharedInv
  <1>1. Init => SharedInv
    BY SharedInit
  <1>2. SharedInv /\ [Next]_vars => SharedInv'
    BY StoreNext, TypesNext, GrantNext, ControlNextInv, AliveNext DEF SharedInv
  <1>3. QED
    BY <1>1, <1>2, PTL DEF Spec

LEMMA InvTypes ==
    ASSUME SharedInv
    PROVE  TypeOK
  <1>1. ASSUME NEW s \in Store
        PROVE  /\ DOMAIN data[s] \subseteq Key
               /\ \A k \in DOMAIN data[s] : data[s][k] \in [value : Item, cas : 1 .. MaxCas]
    <2>1. data[s] \in PartialFcn(Key, DataEntry)
      BY DEF SharedInv, StoreInv, DataOK, DataFamily
    <2>2. DOMAIN data[s] \subseteq Key /\ \A k \in DOMAIN data[s] : data[s][k] \in DataEntry
      BY <2>1, PartialFcnDef
    <2>3. QED
      BY <2>2 DEF DataEntry
  <1>2. ASSUME NEW s \in Store
        PROVE  /\ DOMAIN queues[s].by_name \subseteq Key
               /\ \A q \in DOMAIN queues[s].items : queues[s].items[q] \in Seq(Item)
    BY QueueFields, PartialFcnDef DEF SharedInv, StoreInv
  <1>3. ASSUME NEW s \in Store
        PROVE  \A m \in DOMAIN metrics[s].entries :
                  metrics[s].entries[m] \in [kind : MetricKind, value : 0 .. MaxMetric]
    <2>1. metrics[s].entries \in PartialFcn(Nat, MetricEntry)
      BY MetricFields DEF SharedInv, StoreInv
    <2>2. \A m \in DOMAIN metrics[s].entries : metrics[s].entries[m] \in MetricEntry
      BY <2>1, PartialFcnDef
    <2>3. QED
      BY <2>2 DEF MetricEntry
  <1>4. ASSUME NEW g \in Guest
        PROVE  /\ changes[g].queues \subseteq QueueId \X Root \X Name
               /\ changes[g].ticks \in [DOMAIN changes[g].ticks -> Period \cup {0}]
    <2>1. changes[g] \in Changes
      BY DEF SharedInv, GuestTypes
    <2>2. changes[g].ticks \in PartialFcn(Root, Period \cup {0})
      BY <2>1 DEF Changes
    <2>3. QED
      BY <2>1, <2>2, PartialFcnDef DEF Changes
  <1>5. {sent, noticed, received, lost} \subseteq SUBSET Item
    BY DEF SharedInv, GuestTypes
  <1>6. QED
    BY <1>1, <1>2, <1>3, <1>4, <1>5 DEF TypeOK, SharedInv, GuestTypes

\* Whatever guests and embedders do, every piece of state of the guests and of the
\* stores has its type; a compare and swap number is never zero (store.rs,
\* next_cas) and a metric never leaves its range (increment_metric).
THEOREM SharedTypes == Spec => []TypeOK
  <1>1. SharedInv => TypeOK
    BY InvTypes
  <1>2. QED
    BY <1>1, SharedInvariant, PTL

\* The maps of a store tell of the same identifiers, each name has one of its own,
\* and a guest holds only identifiers of the store it holds them against (store.rs;
\* state.rs, settle_grants).
THEOREM IdentifiersAgree == Spec => []IdsAgree
  <1>1. ASSUME SharedInv PROVE IdsAgree
    <2>1. ASSUME NEW s \in Store
          PROVE  QueuesAgree(queues[s]) /\ MetricsAgree(metrics[s])
      BY <1>1 DEF SharedInv, StoreInv, QueuesOK, MetricsOK
    <2>2. ASSUME NEW g \in Guest
          PROVE  /\ IF grants[g].against = NoStore
                    THEN grants[g].queues = {} /\ grants[g].metrics = {}
                    ELSE /\ grants[g].queues \subseteq 1 .. queues[grants[g].against].next
                         /\ grants[g].metrics \subseteq 1 .. metrics[grants[g].against].next
                 /\ \A p \in grants[g].registrants : p[1] \in grants[g].queues
      <3>1. CASE grants[g].against = NoStore
        <4>1. grants[g] = NoGrants(NoStore)
          BY <1>1, <3>1 DEF SharedInv, GrantInv
        <4>2. grants[g].queues = {} /\ grants[g].metrics = {} /\ grants[g].registrants = {}
          BY <4>1 DEF NoGrants
        <4>3. QED
          BY <3>1, <4>2
      <3>2. CASE grants[g].against # NoStore
        BY <1>1, <3>2 DEF SharedInv, GrantInv, GrantOK
      <3>3. QED
        BY <3>1, <3>2
    <2>3. QED
      BY <2>1, <2>2 DEF IdsAgree, QueuesAgree, MetricsAgree
  <1>2. QED
    BY <1>1, SharedInvariant, PTL

\* on_queue_ready tells a queue only to a root that registered it with the store
\* the guest has now, and no registration outlives its root (forget_registrant,
\* settle_grants).
THEOREM RegistrantsStayAlive == Spec => []RegistrantsAlive
  <1>1. SharedInv => RegistrantsAlive
    BY DEF SharedInv
  <1>2. QED
    BY <1>1, SharedInvariant, PTL

-----------------------------------------------------------------------------
(***************************************************************************)
(* More theorems about SharedGuests, on top of the invariant of            *)
(* SharedProofs: no item is lost or doubled, no update is lost, and the     *)
(* limits hold.                                                             *)
(***************************************************************************)

(***************************************************************************)
(* Items                                                                   *)
(***************************************************************************)
\* Place i of queue q of store s holds item x; qs are the queues of all stores.
At(qs, s, q, i, x) ==
    q \in DOMAIN qs[s].items /\ i \in DOMAIN qs[s].items[q] /\ qs[s].items[q][i] = x
\* The host call c has taken item x off a queue and not yet written it.
Takes(c, x) == c = [op |-> "Return", item |-> x]

\* An item is at one place of one queue at most; one that is on a queue is in no
\* dequeue and was not handed out; nor was one that is in a dequeue.
OnePlace ==
    \A s, t \in Store, q, p \in Nat, i, j \in Nat, x \in Item :
        At(queues, s, q, i, x) /\ At(queues, t, p, j, x) => s = t /\ q = p /\ i = j
OnQueues ==
    \A s \in Store, q \in Nat, i \in Nat, x \in Item :
        At(queues, s, q, i, x) => /\ x \in sent /\ x \notin received /\ x \notin lost
                                  /\ \A g \in Guest : ~Takes(call[g], x)
OneHand ==
    \A g, h \in Guest, x \in Item :
        /\ Takes(call[g], x) => x \in sent /\ x \notin received /\ x \notin lost
        /\ Takes(call[g], x) /\ Takes(call[h], x) => g = h
HandedOut ==
    \A x \in Item : /\ x \in received \cup lost => x \in sent
                    /\ ~(x \in received /\ x \in lost)
\* An accepted item is somewhere.
Somewhere ==
    \A x \in sent : \/ x \in received \/ x \in lost
                    \/ \E g \in Guest : Takes(call[g], x)
                    \/ \E s \in Store, q \in Nat, i \in Nat : At(queues, s, q, i, x)
ItemsInv == OnePlace /\ OnQueues /\ OneHand /\ HandedOut /\ Somewhere

\* A step that moves no item.
SameHands == \A g \in Guest, x \in Item : Takes(call'[g], x) <=> Takes(call[g], x)
SamePlaces ==
    /\ \A s \in Store, q \in Nat, i \in Nat, x \in Item :
          At(queues', s, q, i, x) <=> At(queues, s, q, i, x)
    /\ SameHands
    /\ UNCHANGED <<sent, received, lost>>

LEMMA SamePlacesKeep ==
    ASSUME ItemsInv, GuestTypes, SamePlaces
    PROVE  ItemsInv'
  <1>1. OnePlace' /\ OnQueues' /\ OneHand' /\ HandedOut'
    BY DEF ItemsInv, SamePlaces, SameHands, OnePlace, OnQueues, OneHand, HandedOut
  <1>2. Somewhere'
    <2>1. sent \subseteq Item
      BY DEF GuestTypes
    <2>2. QED
      BY <2>1 DEF ItemsInv, SamePlaces, SameHands, Somewhere
  <1>3. QED
    BY <1>1, <1>2 DEF ItemsInv

LEMMA AppendPlaces ==
    ASSUME NEW line \in Seq(Item), NEW item \in Item, NEW j \in Nat, NEW x \in Item
    PROVE  j \in DOMAIN Append(line, item) /\ Append(line, item)[j] = x <=>
               \/ j \in DOMAIN line /\ line[j] = x
               \/ j = Len(line) + 1 /\ x = item
  <1> DEFINE new == Append(line, item)
  <1>1. Len(line) \in Nat /\ DOMAIN line = 1 .. Len(line) /\ DOMAIN new = 1 .. Len(line) + 1
    OBVIOUS
  <1>2. new[Len(line) + 1] = item /\ \A i \in 1 .. Len(line) : new[i] = line[i]
    OBVIOUS
  <1> HIDE DEF new
  <1>3. QED
    BY <1>1, <1>2 DEF new

LEMMA TailPlaces ==
    ASSUME NEW line \in Seq(Item), line # <<>>, NEW j \in Nat, NEW x \in Item
    PROVE  j \in DOMAIN Tail(line) /\ Tail(line)[j] = x <=>
               j # 0 /\ j + 1 \in DOMAIN line /\ line[j + 1] = x
  <1> DEFINE new == Tail(line)
  <1>1. Len(line) \in Nat \ {0} /\ DOMAIN line = 1 .. Len(line) /\ DOMAIN new = 1 .. Len(line) - 1
    OBVIOUS
  <1>2. \A i \in 1 .. Len(line) - 1 : new[i] = line[i + 1]
    OBVIOUS
  <1> HIDE DEF new
  <1>3. QED
    BY <1>1, <1>2 DEF new

\* The places after item was put at place k of queue q of store s.
PutOn(qs, rs, s, q, k, item) ==
    \A t \in Store, p \in Nat, j \in Nat, x \in Item :
        At(rs, t, p, j, x) <=> \/ At(qs, t, p, j, x)
                               \/ t = s /\ p = q /\ j = k /\ x = item

\* What enqueue_shared_queue does to the places.
LEMMA EnqueuePlaces ==
    ASSUME StoreInv, NEW s \in Store, NEW q, NEW item \in Item,
           EnqueueStatus(queues[s], q, item) = "Ok",
           queues' = [queues EXCEPT ![s] = Enqueued(queues[s], q, item)]
    PROVE  q \in Nat /\ \E k \in Nat : PutOn(queues, queues', s, q, k, item)
  <1> DEFINE line == queues[s].items[q]
             r == Enqueued(queues[s], q, item)
  <1>1. /\ q \in 1 .. queues[s].next /\ r.next = queues[s].next
        /\ r.items[q] = Append(line, item)
        /\ \A i \in 1 .. queues[s].next : i # q => r.items[i] = queues[s].items[i]
        /\ DOMAIN queues[s].items = 1 .. queues[s].next /\ DOMAIN r.items = 1 .. queues[s].next
    <2>1. QueuesOK(queues[s])
      BY DEF StoreInv
    <2>2. /\ q \in 1 .. queues[s].next /\ r.next = queues[s].next
          /\ r.items[q] = Append(line, item) /\ QueuesOK(r)
          /\ \A i \in 1 .. queues[s].next : i # q => r.items[i] = queues[s].items[i]
      BY <2>1, EnqueuedOK
    <2> HIDE DEF r
    <2>3. QED
      BY <2>1, <2>2 DEF QueuesOK, QueuesAgree
  <1>2. line \in Seq(Item) /\ queues[s].next \in Nat
    BY <1>1, SharedStoreAssumption, QueueFields, PartialFcnDef DEF StoreInv, QueuesOK
  <1>3. \A t \in Store : queues'[t] = IF t = s THEN r ELSE queues[t]
    BY DEF StoreInv
  <1> HIDE DEF r
  <1>4. /\ Len(line) + 1 \in Nat
        /\ \A j \in Nat, x \in Item :
              j \in DOMAIN Append(line, item) /\ Append(line, item)[j] = x <=>
                  \/ j \in DOMAIN line /\ line[j] = x
                  \/ j = Len(line) + 1 /\ x = item
    BY <1>2, AppendPlaces
  <1> DEFINE k == Len(line) + 1
             new == Append(line, item)
  <1>5. \A t \in Store, p \in Nat, j \in Nat, x \in Item :
            At(queues', t, p, j, x) <=> \/ At(queues, t, p, j, x)
                                        \/ t = s /\ p = q /\ j = k /\ x = item
    <2> SUFFICES ASSUME NEW t \in Store, NEW p \in Nat, NEW j \in Nat, NEW x \in Item
                 PROVE  At(queues', t, p, j, x) <=> \/ At(queues, t, p, j, x)
                                                    \/ t = s /\ p = q /\ j = k /\ x = item
      OBVIOUS
    <2>1. CASE t # s
      BY <1>3, <2>1 DEF At
    <2>2. CASE t = s /\ p # q
      <3>1. queues'[t] = r
        BY <1>3, <2>2
      <3> HIDE DEF k
      <3>2. QED
        BY <1>1, <2>2, <3>1 DEF At
    <2>3. CASE t = s /\ p = q
      <3>1. queues'[t] = r /\ r.items[p] = new /\ p \in DOMAIN r.items
            /\ queues[t].items[p] = line /\ p \in DOMAIN queues[t].items
        BY <1>1, <1>3, <2>3
      <3>2. j \in DOMAIN new /\ new[j] = x <=> \/ j \in DOMAIN line /\ line[j] = x
                                               \/ j = k /\ x = item
        BY <1>4
      <3> HIDE DEF k, new, line
      <3>3. QED
        BY <2>3, <3>1, <3>2 DEF At
    <2>4. QED
      BY <2>1, <2>2, <2>3
  <1>6. q \in Nat
    BY <1>1, <1>2
  <1>7. QED
    BY <1>4, <1>5, <1>6 DEF PutOn

\* What dequeue_shared_queue does to the places: the items behind the first move up.
LEMMA DequeuePlaces ==
    ASSUME StoreInv, NEW s \in Store, NEW q, DequeueStatus(queues[s], q) = "Ok",
           queues' = [queues EXCEPT ![s] = Dequeued(queues[s], q)]
    PROVE  /\ q \in Nat
           /\ Head(queues[s].items[q]) \in Item
           /\ At(queues, s, q, 1, Head(queues[s].items[q]))
           /\ \A t \in Store, p \in Nat, j \in Nat, x \in Item :
                 At(queues', t, p, j, x) <=>
                    IF t = s /\ p = q THEN j # 0 /\ At(queues, t, p, j + 1, x)
                    ELSE At(queues, t, p, j, x)
  <1> DEFINE line == queues[s].items[q]
             r == Dequeued(queues[s], q)
             new == Tail(line)
  <1>1. /\ q \in 1 .. queues[s].next /\ r.items[q] = new /\ line \in Seq(Item) /\ line # <<>>
        /\ \A i \in 1 .. queues[s].next : i # q => r.items[i] = queues[s].items[i]
        /\ DOMAIN queues[s].items = 1 .. queues[s].next /\ DOMAIN r.items = 1 .. queues[s].next
    <2>1. QueuesOK(queues[s])
      BY DEF StoreInv
    <2>2. /\ q \in 1 .. queues[s].next /\ r.next = queues[s].next
          /\ r.items[q] = new /\ QueuesOK(r) /\ line \in Seq(Item) /\ line # <<>>
          /\ \A i \in 1 .. queues[s].next : i # q => r.items[i] = queues[s].items[i]
      BY <2>1, DequeuedOK
    <2> HIDE DEF r
    <2>3. QED
      BY <2>1, <2>2 DEF QueuesOK, QueuesAgree
  <1>2. queues[s].next \in Nat
    BY <1>1, SharedStoreAssumption, QueueFields DEF StoreInv, QueuesOK
  <1>3. \A t \in Store : queues'[t] = IF t = s THEN r ELSE queues[t]
    BY DEF StoreInv
  <1> HIDE DEF r
  <1>4. \A j \in Nat, x \in Item :
            j \in DOMAIN new /\ new[j] = x <=>
                j # 0 /\ j + 1 \in DOMAIN line /\ line[j + 1] = x
    BY <1>1, TailPlaces
  <1>5. ASSUME NEW t \in Store, NEW p \in Nat, NEW j \in Nat, NEW x \in Item
        PROVE  At(queues', t, p, j, x) <=>
                    IF t = s /\ p = q THEN j # 0 /\ At(queues, t, p, j + 1, x)
                    ELSE At(queues, t, p, j, x)
    <2>1. CASE t # s
      BY <1>3, <2>1 DEF At
    <2>2. CASE t = s /\ p # q
      <3>1. queues'[t] = r
        BY <1>3, <2>2
      <3>2. QED
        BY <1>1, <2>2, <3>1 DEF At
    <2>3. CASE t = s /\ p = q
      <3>1. /\ queues'[t] = r /\ r.items[p] = new /\ p \in DOMAIN r.items
            /\ queues[t].items[p] = line /\ p \in DOMAIN queues[t].items
        BY <1>1, <1>3, <2>3
      <3>2. j \in DOMAIN new /\ new[j] = x <=>
                j # 0 /\ j + 1 \in DOMAIN line /\ line[j + 1] = x
        BY <1>4
      <3> HIDE DEF new, line
      <3>3. QED
        BY <2>3, <3>1, <3>2 DEF At
    <2>4. QED
      BY <2>1, <2>2, <2>3
  <1>6. Head(line) \in Item /\ 1 \in DOMAIN line /\ line[1] = Head(line)
    BY <1>1
  <1>7. q \in Nat /\ q \in DOMAIN queues[s].items
    BY <1>1, <1>2
  <1>8. QED
    BY <1>5, <1>6, <1>7 DEF At

\* An item put on a queue was never sent, so it is nowhere else.
LEMMA EnqueueItems ==
    ASSUME ItemsInv, GuestTypes, NEW s \in Store, NEW q \in Nat, NEW k \in Nat, NEW item \in Item,
           item \notin sent,
           PutOn(queues, queues', s, q, k, item), SameHands,
           sent' = sent \cup {item}, UNCHANGED <<received, lost>>
    PROVE  ItemsInv'
  <1>1. \A t \in Store, p \in Nat, j \in Nat : ~At(queues, t, p, j, item)
    BY DEF ItemsInv, OnQueues
  <1>2. OnePlace'
    BY <1>1 DEF ItemsInv, OnePlace, PutOn
  <1>3. OnQueues'
    BY DEF ItemsInv, OnQueues, OneHand, HandedOut, PutOn, SameHands
  <1>4. OneHand' /\ HandedOut'
    BY DEF ItemsInv, OneHand, HandedOut, SameHands
  <1>5. Somewhere'
    <2>1. sent \subseteq Item
      BY DEF GuestTypes
    <2> SUFFICES ASSUME NEW x \in sent'
                 PROVE  \/ x \in received' \/ x \in lost'
                        \/ \E g \in Guest : Takes(call'[g], x)
                        \/ \E t \in Store, p \in Nat, j \in Nat : At(queues', t, p, j, x)
      BY DEF Somewhere
    <2>2. CASE x = item
      BY <2>2 DEF PutOn
    <2>3. CASE x \in sent
      BY <2>1, <2>3 DEF ItemsInv, Somewhere, PutOn, SameHands
    <2>4. QED
      BY <2>2, <2>3
  <1>6. QED
    BY <1>2, <1>3, <1>4, <1>5 DEF ItemsInv

\* The places after the first item of queue q of store s was taken off.
MovedUp(qs, rs, s, q) ==
    \A t \in Store, p \in Nat, j \in Nat, x \in Item :
        At(rs, t, p, j, x) <=> IF t = s /\ p = q THEN j # 0 /\ At(qs, t, p, j + 1, x)
                               ELSE At(qs, t, p, j, x)

\* The hands after guest g took item.
TakenBy(g, item) ==
    \A h \in Guest, x \in Item :
        Takes(call'[h], x) <=> IF h = g THEN x = item ELSE Takes(call[h], x)

\* The item taken off a queue is in the hands of the guest that asked for it.
LEMMA DequeueItems ==
    ASSUME ItemsInv, GuestTypes, NEW s \in Store, NEW q \in Nat, NEW item \in Item, NEW g \in Guest,
           At(queues, s, q, 1, item),
           MovedUp(queues, queues', s, q),
           \A j \in Nat, x \in Item : At(queues, s, q, j, x) => j # 0,
           TakenBy(g, item),
           \A x \in Item : ~Takes(call[g], x),
           UNCHANGED <<sent, received, lost>>
    PROVE  ItemsInv'
  <1>1. item \in sent /\ item \notin received /\ item \notin lost /\ \A h \in Guest : ~Takes(call[h], item)
    BY 1 \in Nat DEF ItemsInv, OnQueues
  <1>2. \A t \in Store, p \in Nat, j \in Nat, x \in Item :
            At(queues', t, p, j, x) => \E i \in Nat : /\ At(queues, t, p, i, x)
                                                      /\ i = IF t = s /\ p = q THEN j + 1 ELSE j
    BY DEF MovedUp
  <1>3. \A t \in Store, p \in Nat, j \in Nat : ~At(queues', t, p, j, item)
    <2> SUFFICES ASSUME NEW t \in Store, NEW p \in Nat, NEW j \in Nat, At(queues', t, p, j, item)
                 PROVE  FALSE
      OBVIOUS
    <2>1. CASE t = s /\ p = q
      <3>1. j # 0 /\ j + 1 \in Nat /\ At(queues, s, q, j + 1, item)
        BY <2>1 DEF MovedUp
      <3>2. j + 1 = 1
        BY <3>1, 1 \in Nat DEF ItemsInv, OnePlace
      <3>3. QED
        BY <3>1, <3>2
    <2>2. CASE ~(t = s /\ p = q)
      BY <2>2, 1 \in Nat DEF ItemsInv, OnePlace, MovedUp
    <2>3. QED
      BY <2>1, <2>2
  <1>4. OnePlace'
    <2>1. ASSUME NEW t \in Store, NEW u \in Store, NEW p \in Nat, NEW o \in Nat,
                 NEW i \in Nat, NEW j \in Nat, NEW x \in Item,
                 At(queues', t, p, i, x) /\ At(queues', u, o, j, x)
          PROVE  t = u /\ p = o /\ i = j
      <3>1. PICK a \in Nat : At(queues, t, p, a, x) /\ a = IF t = s /\ p = q THEN i + 1 ELSE i
        BY <1>2, <2>1
      <3>2. PICK b \in Nat : At(queues, u, o, b, x) /\ b = IF u = s /\ o = q THEN j + 1 ELSE j
        BY <1>2, <2>1
      <3>3. t = u /\ p = o /\ a = b
        BY <3>1, <3>2 DEF ItemsInv, OnePlace
      <3>4. QED
        BY <3>1, <3>2, <3>3
    <2>2. \A t, u \in Store, p, o \in Nat, i, j \in Nat, x \in Item :
              At(queues', t, p, i, x) /\ At(queues', u, o, j, x) => t = u /\ p = o /\ i = j
      BY <2>1
    <2>3. QED
      BY <2>2 DEF OnePlace
  <1>5. OnQueues'
    <2> SUFFICES ASSUME NEW t \in Store, NEW p \in Nat, NEW j \in Nat, NEW x \in Item,
                        At(queues', t, p, j, x)
                 PROVE  /\ x \in sent /\ x \notin received /\ x \notin lost
                        /\ \A h \in Guest : ~Takes(call'[h], x)
      BY DEF OnQueues
    <2>1. PICK i \in Nat : At(queues, t, p, i, x)
      BY <1>2
    <2>2. x # item
      BY <1>3
    <2>3. QED
      BY <2>1, <2>2 DEF ItemsInv, OnQueues, TakenBy
  <1>6. OneHand' /\ HandedOut'
    BY <1>1 DEF ItemsInv, OneHand, HandedOut, TakenBy
  <1>7. Somewhere'
    <2>1. sent \subseteq Item
      BY DEF GuestTypes
    <2> SUFFICES ASSUME NEW x \in sent
                 PROVE  \/ x \in received \/ x \in lost
                        \/ \E h \in Guest : Takes(call'[h], x)
                        \/ \E t \in Store, p \in Nat, j \in Nat : At(queues', t, p, j, x)
      BY DEF Somewhere
    <2>2. CASE x = item
      BY <2>2 DEF TakenBy
    <2>3. CASE \E h \in Guest : Takes(call[h], x)
      BY <2>1, <2>3 DEF TakenBy
    <2>4. ASSUME x # item, NEW t \in Store, NEW p \in Nat, NEW i \in Nat, At(queues, t, p, i, x)
          PROVE  \E j \in Nat : At(queues', t, p, j, x)
      <3>1. CASE t = s /\ p = q
        <4>1. i # 0
          BY <2>1, <2>4, <3>1
        <4>2. i # 1
          <5>1. ASSUME i = 1
                PROVE  x = item
            BY <2>4, <3>1, <5>1 DEF At
          <5>2. QED
            BY <2>4, <5>1
        <4>3. i - 1 \in Nat /\ i - 1 # 0 /\ (i - 1) + 1 = i
          BY <4>1, <4>2
        <4>4. At(queues', t, p, i - 1, x)
          BY <2>1, <2>4, <3>1, <4>3 DEF MovedUp
        <4>5. QED
          BY <4>3, <4>4
      <3>2. CASE ~(t = s /\ p = q)
        BY <2>1, <2>4, <3>2 DEF MovedUp
      <3>3. QED
        BY <3>1, <3>2
    <2>5. QED
      BY <2>1, <2>2, <2>3, <2>4 DEF ItemsInv, Somewhere
  <1>8. QED
    BY <1>4, <1>5, <1>6, <1>7 DEF ItemsInv

\* A new queue is empty.
LEMMA RegisterPlaces ==
    ASSUME StoreInv, NEW s \in Store, NEW key \in Key, RegisterStatus(queues[s], key) = "Ok",
           queues' = [queues EXCEPT ![s] = Registered(queues[s], key)]
    PROVE  \A t \in Store, p \in Nat, j \in Nat, x \in Item :
               At(queues', t, p, j, x) <=> At(queues, t, p, j, x)
  <1> DEFINE r == Registered(queues[s], key)
  <1>1. \A t \in Store : queues'[t] = IF t = s THEN r ELSE queues[t]
    BY DEF StoreInv
  <1>2. QueuesOK(queues[s]) /\ queues[s].next \in Nat
    BY SharedStoreAssumption, QueueFields DEF StoreInv
  <1>3. CASE key \in DOMAIN queues[s].by_name
    BY <1>1, <1>3 DEF Registered, At
  <1>4. CASE key \notin DOMAIN queues[s].by_name
    <2>1. /\ QueuesOK(r) /\ r.next = queues[s].next + 1 /\ r.items[queues[s].next + 1] = <<>>
          /\ \A id \in 1 .. queues[s].next : r.items[id] = queues[s].items[id]
      BY <1>2, <1>4, RegisteredOK
    <2> HIDE DEF r
    <2>2. DOMAIN queues[s].items = 1 .. queues[s].next /\ DOMAIN r.items = 1 .. queues[s].next + 1
      BY <1>2, <2>1 DEF QueuesOK, QueuesAgree
    <2>3. DOMAIN <<>> = {}
      OBVIOUS
    <2>4. ASSUME NEW t \in Store, NEW p \in Nat, NEW j \in Nat, NEW x \in Item
          PROVE  At(queues', t, p, j, x) <=> At(queues, t, p, j, x)
      <3>1. CASE t # s
        BY <1>1, <3>1 DEF At
      <3>2. CASE t = s
        <4>1. queues'[t] = r
          BY <1>1, <3>2
        <4>2. CASE p = queues[s].next + 1
          <5>1. r.items[p] = <<>> /\ p \notin DOMAIN queues[s].items
            BY <1>2, <2>1, <2>2, <4>2
          <5>2. QED
            BY <2>3, <3>2, <4>1, <5>1 DEF At
        <4>3. CASE p # queues[s].next + 1
          <5>1. p \in DOMAIN r.items <=> p \in DOMAIN queues[s].items
            BY <1>2, <2>2, <4>3
          <5>2. p \in DOMAIN queues[s].items => r.items[p] = queues[s].items[p]
            BY <2>1, <2>2
          <5>3. QED
            BY <3>2, <4>1, <5>1, <5>2 DEF At
        <4>4. QED
          BY <4>2, <4>3
      <3>3. QED
        BY <3>1, <3>2
    <2>5. QED
      BY <2>4
  <1>5. QED
    BY <1>3, <1>4

\* An item leaves the hands of a dequeue for one of the two sets.
LEMMA HandItems ==
    ASSUME ItemsInv, GuestTypes, NEW g \in Guest, NEW item \in Item, Takes(call[g], item),
           UNCHANGED <<queues, sent>>,
           \A h \in Guest, x \in Item : Takes(call'[h], x) <=> h # g /\ Takes(call[h], x),
           \A x \in Item : Takes(call[g], x) => x = item,
           \/ received' = received \cup {item} /\ UNCHANGED lost
           \/ lost' = lost \cup {item} /\ UNCHANGED received
    PROVE  ItemsInv'
  <1>1. /\ item \in sent /\ item \notin received /\ item \notin lost
        /\ \A h \in Guest : Takes(call[h], item) => h = g
    BY DEF ItemsInv, OneHand
  <1>2. OnePlace' /\ OnQueues'
    BY DEF ItemsInv, OnePlace, OnQueues
  <1>3. OneHand'
    BY <1>1 DEF ItemsInv, OneHand
  <1>4. HandedOut'
    BY <1>1 DEF ItemsInv, HandedOut
  <1>5. Somewhere'
    <2>1. sent \subseteq Item
      BY DEF GuestTypes
    <2>2. QED
      BY <2>1 DEF ItemsInv, Somewhere
  <1>6. QED
    BY <1>2, <1>3, <1>4, <1>5 DEF ItemsInv

LEMMA ItemsNext ==
    ASSUME StoreInv, GuestTypes, ItemsInv, [Next]_vars
    PROVE  ItemsInv'
  <1>0. \A x \in Item : ~Takes(NoCall, x)
    BY DEF Takes, NoCall
  <1>1. ASSUME UNCHANGED <<queues, call, sent, received, lost>>
        PROVE  ItemsInv'
    BY <1>1, SamePlacesKeep DEF SamePlaces, SameHands
  <1>2. CASE UNCHANGED vars
    BY <1>1, <1>2 DEF vars, storeVars, controlVars, itemVars
  <1>3. CASE Next
    <2>1. PICK g \in Guest : \/ PlainStep(g) \/ StoreStep(g)
                             \/ Running(g) /\ Settle(g)
                             \/ \E n \in Name : GetSharedData(g, n)
      BY <1>3, NextForms
    <2> DEFINE s == StoreOf(g)
    <2>2. s \in Store /\ \A n \in Name : KeyOf(g, n) \in Key
      BY StoreOfType
    <2>3. CASE \/ Running(g) /\ Settle(g)
               \/ \E n \in Name : GetSharedData(g, n)
      BY <1>1, <2>3 DEF Settle, GetSharedData, storeVars, controlVars, itemVars
    <2>4. ASSUME NEW n \in Name, RegisterSharedQueue(g, n), Registers(g, n)
          PROVE  ItemsInv'
      <3>1. /\ queues' = [queues EXCEPT ![s] = Registered(queues[s], KeyOf(g, n))]
            /\ RegisterStatus(queues[s], KeyOf(g, n)) = "Ok"
            /\ UNCHANGED <<call, sent, received, lost>>
        BY <2>4 DEF RegisterSharedQueue, Registers, RegisteredName, controlVars, itemVars
      <3>2. \A t \in Store, p \in Nat, j \in Nat, x \in Item :
                At(queues', t, p, j, x) <=> At(queues, t, p, j, x)
        BY <2>2, <3>1, RegisterPlaces
      <3>3. SamePlaces
        BY <3>1, <3>2 DEF SamePlaces, SameHands
      <3>4. QED
        BY <3>3, SamePlacesKeep
    <2>5. ASSUME NEW q \in QueueId, NEW item \in Item,
                 EnqueueSharedQueue(g, q, item), Enqueues(g, q, item)
          PROVE  ItemsInv'
      <3>1. /\ queues' = [queues EXCEPT ![s] = Enqueued(queues[s], q, item)]
            /\ EnqueueStatus(queues[s], q, item) = "Ok" /\ item \notin sent
            /\ call[g] = NoCall /\ call' = [call EXCEPT ![g] = Observed(item, q, s)]
            /\ sent' = sent \cup {item} /\ UNCHANGED <<received, lost>>
        BY <2>5 DEF EnqueueSharedQueue, Enqueues, Running
      <3>2. SameHands
        <4>1. \A x \in Item : ~Takes(Observed(item, q, s), x)
          BY DEF Takes, Observed
        <4>2. \A h \in Guest : call'[h] = IF h = g THEN Observed(item, q, s) ELSE call[h]
          BY <3>1 DEF GuestTypes
        <4>3. QED
          BY <1>0, <3>1, <4>1, <4>2 DEF SameHands
      <3> HIDE DEF s
      <3>3. q \in Nat /\ \E k \in Nat : PutOn(queues, queues', s, q, k, item)
        BY <2>2, <3>1, EnqueuePlaces
      <3>4. QED
        BY <2>2, <3>1, <3>2, <3>3, EnqueueItems
    <2>6. ASSUME NEW q \in QueueId, DequeueSharedQueue(g, q), Dequeues(g, q)
          PROVE  ItemsInv'
      <3> DEFINE item == Head(queues[s].items[q])
      <3>1. /\ queues' = [queues EXCEPT ![s] = Dequeued(queues[s], q)]
            /\ DequeueStatus(queues[s], q) = "Ok"
            /\ call[g] = NoCall
            /\ call' = [call EXCEPT ![g] = [op |-> "Return", item |-> item]]
            /\ UNCHANGED <<sent, received, lost>>
        BY <2>6 DEF DequeueSharedQueue, Dequeues, Running, itemVars
      <3>2. /\ q \in Nat /\ item \in Item /\ At(queues, s, q, 1, item)
            /\ MovedUp(queues, queues', s, q)
        BY <2>2, <3>1, DequeuePlaces DEF MovedUp
      <3>3. \A j \in Nat, x \in Item : At(queues, s, q, j, x) => j # 0
        <4>1. q \in DOMAIN queues[s].items
          BY <3>2 DEF At
        <4>2. queues[s].items[q] \in Seq(Item)
          BY <2>2, <4>1, QueueFields, PartialFcnDef DEF StoreInv
        <4>3. \A j \in DOMAIN queues[s].items[q] : j # 0
          BY <4>2
        <4>4. QED
          BY <4>3 DEF At
      <3> HIDE DEF item, s
      <3>4. TakenBy(g, item)
        <4>1. \A h \in Guest : call'[h] = IF h = g THEN [op |-> "Return", item |-> item] ELSE call[h]
          BY <3>1 DEF GuestTypes
        <4>2. \A x \in Item : Takes([op |-> "Return", item |-> item], x) <=> x = item
          BY DEF Takes
        <4>3. QED
          BY <4>1, <4>2 DEF TakenBy
      <3>5. \A x \in Item : ~Takes(call[g], x)
        BY <1>0, <3>1
      <3>6. QED
        BY <2>2, <3>1, <3>2, <3>3, <3>4, <3>5, DequeueItems
    <2>7. CASE StoreStep(g)
      <3>1. \/ UNCHANGED <<queues, call, sent, received, lost>>
            \/ \E n \in Name : RegisterSharedQueue(g, n) /\ Registers(g, n)
            \/ \E q \in QueueId, item \in Item :
                  EnqueueSharedQueue(g, q, item) /\ Enqueues(g, q, item)
            \/ \E q \in QueueId : DequeueSharedQueue(g, q) /\ Dequeues(g, q)
        BY <2>7 DEF StoreStep, SetSharedData, Writes, ResolveSharedQueue, Resolves, ResolvedName,
           DefineMetric, Defines, MetricName, RecordMetric, Records, IncrementMetric, Increments,
           storeVars, controlVars, itemVars
      <3>2. QED
        BY <1>1, <2>4, <2>5, <2>6, <3>1
    <2>8. CASE PlainStep(g)
      <3>1. ASSUME Observe(g) PROVE ItemsInv'
        <4>1. /\ UNCHANGED <<queues, sent, received, lost>> /\ call[g].op = "Observe"
              /\ \A h \in Guest : call'[h] = IF h = g THEN NoCall ELSE call[h]
          BY <3>1 DEF Observe, GuestTypes, storeVars
        <4>2. \A x \in Item : ~Takes(call[g], x)
          BY <4>1 DEF Takes
        <4>3. SamePlaces
          BY <1>0, <4>1, <4>2 DEF SamePlaces, SameHands
        <4>4. QED
          BY <4>3, SamePlacesKeep
      <3>2. ASSUME call[g].op = "Return",
                   \/ received' = received \cup {call[g].item} /\ UNCHANGED lost
                   \/ lost' = lost \cup {call[g].item} /\ UNCHANGED received,
                   call' = [call EXCEPT ![g] = NoCall], UNCHANGED <<queues, sent>>
            PROVE  ItemsInv'
        <4> DEFINE item == call[g].item
        <4>1. item \in Item /\ Takes(call[g], item)
          BY <3>2 DEF GuestTypes, Calls, NoCall, Takes
        <4>2. \A x \in Item : Takes(call[g], x) => x = item
          BY DEF Takes
        <4>3. \A h \in Guest, x \in Item : Takes(call'[h], x) <=> h # g /\ Takes(call[h], x)
          BY <1>0, <3>2 DEF GuestTypes
        <4> HIDE DEF item
        <4>4. \/ received' = received \cup {item} /\ UNCHANGED lost
              \/ lost' = lost \cup {item} /\ UNCHANGED received
          BY <3>2 DEF item
        <4>5. QED
          BY <3>2, <4>1, <4>2, <4>3, <4>4, HandItems
      <3>3. CASE ReturnItem(g)
        BY <3>2, <3>3 DEF ReturnItem, storeVars
      <3>4. ASSUME NEW traps \in BOOLEAN, LoseItem(g, traps) PROVE ItemsInv'
        BY <3>2, <3>4 DEF LoseItem, storeVars
      <3>5. \/ UNCHANGED <<queues, call, sent, received, lost>>
            \/ Observe(g) \/ ReturnItem(g) \/ \E traps \in BOOLEAN : LoseItem(g, traps)
        BY <2>8 DEF PlainStep, ReplaceServices, Rebuild, CreateRoot, RejectRoot, DeleteRoot,
           RunCallback, OnQueueReady, TakeChanges, ReturnCallback, TrapCallback, SetTickPeriod,
           storeVars, controlVars, itemVars
      <3>6. QED
        BY <1>1, <3>1, <3>3, <3>4, <3>5
    <2>9. QED
      BY <2>1, <2>3, <2>7, <2>8
  <1>4. QED
    BY <1>2, <1>3

\* The part of a set a value is in has one member or none.
LEMMA CountOne ==
    ASSUME NEW S, NEW x
    PROVE  Cardinality({x} \cap S) = IF x \in S THEN 1 ELSE 0
  <1>1. CASE x \in S
    <2>1. {x} \cap S = {x}
      BY <1>1
    <2>2. QED
      BY <1>1, <2>1, FS_Singleton
  <1>2. CASE x \notin S
    <2>1. {x} \cap S = {}
      BY <1>2
    <2>2. QED
      BY <1>2, <2>1, FS_EmptySet
  <1>3. QED
    BY <1>1, <1>2

LEMMA CountOnQueue ==
    ASSUME StoreInv, OnePlace, NEW x \in Item
    PROVE  Cardinality(OnQueue(x)) =
               IF \E s \in Store, q \in Nat, i \in Nat : At(queues, s, q, i, x) THEN 1 ELSE 0
  <1>0. MaxQueueItems \in Nat /\ MaxId \in Nat
    BY SharedStoreAssumption
  <1>1. ASSUME NEW s \in Store, NEW q \in DOMAIN queues[s].items
        PROVE  /\ q \in QueueId /\ q \in Nat /\ queues[s].items[q] \in Seq(Item)
               /\ DOMAIN queues[s].items[q] \subseteq 1 .. MaxQueueItems
    <2>1. QueuesOK(queues[s]) /\ queues[s] \in QueueFamily
      BY DEF StoreInv
    <2>2. queues[s].items[q] \in Seq(Item) /\ queues[s].next \in 0 .. MaxId
      BY <2>1, QueueFields, PartialFcnDef
    <2>3. q \in 1 .. queues[s].next /\ Len(queues[s].items[q]) <= MaxQueueItems
      BY <2>1 DEF QueuesOK, QueuesAgree
    <2>4. QED
      BY <1>0, <2>2, <2>3 DEF QueueId
  <1>2. ASSUME NEW o \in OnQueue(x)
        PROVE  /\ o = <<<<o[1][1], o[1][2]>>, o[2]>>
               /\ o[1][1] \in Store /\ o[1][2] \in Nat /\ o[2] \in Nat
               /\ At(queues, o[1][1], o[1][2], o[2], x)
    <2>1. o[1] \in Places /\ o[2] \in 1 .. MaxQueueItems /\ o = <<o[1], o[2]>>
      BY DEF OnQueue
    <2>2. o[1] = <<o[1][1], o[1][2]>> /\ o[1][1] \in Store /\ o[1][2] \in DOMAIN queues[o[1][1]].items
      BY <2>1 DEF Places
    <2>3. o[2] \in DOMAIN LineAt(o[1]) /\ LineAt(o[1])[o[2]] = x
      BY DEF OnQueue
    <2>4. o[1][2] \in Nat
      BY <1>1, <2>2
    <2>5. o[2] \in Nat
      BY <1>0, <2>1
    <2>6. QED
      BY <2>1, <2>2, <2>3, <2>4, <2>5 DEF At, LineAt
  <1>3. ASSUME NEW s \in Store, NEW q \in Nat, NEW i \in Nat, At(queues, s, q, i, x)
        PROVE  Cardinality(OnQueue(x)) = 1
    <2>1. /\ q \in DOMAIN queues[s].items /\ i \in DOMAIN queues[s].items[q]
          /\ queues[s].items[q][i] = x
      BY <1>3 DEF At
    <2>2. q \in QueueId /\ i \in 1 .. MaxQueueItems
      BY <1>1, <2>1
    <2>3. <<s, q>> \in Places /\ LineAt(<<s, q>>) = queues[s].items[q]
      BY <2>1, <2>2 DEF Places, LineAt
    <2>4. <<<<s, q>>, i>> \in OnQueue(x)
      BY <2>1, <2>2, <2>3 DEF OnQueue
    <2>5. \A o \in OnQueue(x) : o = <<<<s, q>>, i>>
      <3> TAKE o \in OnQueue(x)
      <3>1. /\ o = <<<<o[1][1], o[1][2]>>, o[2]>>
            /\ o[1][1] \in Store /\ o[1][2] \in Nat /\ o[2] \in Nat
            /\ At(queues, o[1][1], o[1][2], o[2], x)
        BY <1>2
      <3>2. o[1][1] = s /\ o[1][2] = q /\ o[2] = i
        BY <1>3, <3>1 DEF OnePlace
      <3>3. QED
        BY <3>1, <3>2
    <2>6. OnQueue(x) = {<<<<s, q>>, i>>}
      BY <2>4, <2>5
    <2>7. QED
      BY <2>6, FS_Singleton
  <1>4. ASSUME ~\E s \in Store, q \in Nat, i \in Nat : At(queues, s, q, i, x)
        PROVE  Cardinality(OnQueue(x)) = 0
    <2>1. OnQueue(x) = {}
      BY <1>2, <1>4
    <2>2. QED
      BY <2>1, FS_EmptySet
  <1>5. QED
    BY <1>3, <1>4

LEMMA CountInHand ==
    ASSUME OneHand, NEW x \in Item
    PROVE  Cardinality(InHand(x)) = IF \E g \in Guest : Takes(call[g], x) THEN 1 ELSE 0
  <1>1. ASSUME NEW g \in Guest, Takes(call[g], x)
        PROVE  Cardinality(InHand(x)) = 1
    <2>1. InHand(x) = {g}
      BY <1>1 DEF InHand, OneHand, Takes
    <2>2. QED
      BY <2>1, FS_Singleton
  <1>2. ASSUME ~\E g \in Guest : Takes(call[g], x)
        PROVE  Cardinality(InHand(x)) = 0
    <2>1. InHand(x) = {}
      BY <1>2 DEF InHand, Takes
    <2>2. QED
      BY <2>1, FS_EmptySet
  <1>3. QED
    BY <1>1, <1>2

LEMMA ItemsCount ==
    ASSUME StoreInv, ItemsInv
    PROVE  ItemsConserved
  <1> SUFFICES ASSUME NEW x \in Item
               PROVE  Cardinality(OnQueue(x)) + Cardinality(InHand(x))
                        + Cardinality({x} \cap received) + Cardinality({x} \cap lost)
                      = Cardinality({x} \cap sent)
    BY DEF ItemsConserved
  <1> DEFINE on == \E s \in Store, q \in Nat, i \in Nat : At(queues, s, q, i, x)
             in == \E g \in Guest : Takes(call[g], x)
  <1>1. /\ Cardinality(OnQueue(x)) = (IF on THEN 1 ELSE 0)
        /\ Cardinality(InHand(x)) = (IF in THEN 1 ELSE 0)
        /\ Cardinality({x} \cap received) = (IF x \in received THEN 1 ELSE 0)
        /\ Cardinality({x} \cap lost) = (IF x \in lost THEN 1 ELSE 0)
        /\ Cardinality({x} \cap sent) = (IF x \in sent THEN 1 ELSE 0)
    BY CountOnQueue, CountInHand, CountOne DEF ItemsInv
  <1>2. x \in sent <=> on \/ in \/ x \in received \/ x \in lost
    BY DEF ItemsInv, OnQueues, OneHand, HandedOut, Somewhere
  <1>3. /\ ~(on /\ in) /\ ~(on /\ x \in received) /\ ~(on /\ x \in lost)
        /\ ~(in /\ x \in received) /\ ~(in /\ x \in lost) /\ ~(x \in received /\ x \in lost)
    BY DEF ItemsInv, OnQueues, OneHand, HandedOut
  <1> HIDE DEF on, in
  <1>4. QED
    BY <1>1, <1>2, <1>3

\* Whatever guests enqueue, dequeue, trap and are replaced, and however many share
\* however many stores, an accepted item is at exactly one place: on one queue once,
\* in the hands of one dequeue, received, or lost to a guest whose allocator failed
\* (store.rs, enqueue and dequeue; shared_queue.rs, dequeue_shared_queue).
THEOREM NoItemLostOrDoubled == Spec => []ItemsConserved
  <1>1. Init => ItemsInv
    <2>1. ASSUME Init PROVE ItemsInv
      <3>1. \A s \in Store, q \in Nat, i \in Nat, x \in Item : ~At(queues, s, q, i, x)
        BY <2>1 DEF Init, EmptyQueues, At
      <3>2. \A g \in Guest, x \in Item : ~Takes(call[g], x)
        BY <2>1 DEF Init, NoCall, Takes
      <3>3. sent = {} /\ received = {} /\ lost = {}
        BY <2>1 DEF Init
      <3>4. QED
        BY <3>1, <3>2, <3>3 DEF ItemsInv, OnePlace, OnQueues, OneHand, HandedOut, Somewhere
    <2>2. QED
      BY <2>1
  <1>2. SharedInv /\ ItemsInv /\ [Next]_vars => ItemsInv'
    BY ItemsNext DEF SharedInv
  <1>3. SharedInv /\ ItemsInv => ItemsConserved
    BY ItemsCount DEF SharedInv
  <1>4. QED
    BY <1>1, <1>2, <1>3, SharedInvariant, PTL DEF Spec

-----------------------------------------------------------------------------
(***************************************************************************)
(* Compare and swap                                                        *)
(***************************************************************************)
\* The number of a key after it was written w times, whole rounds apart.
Rounds(w, cas) == \E c \in Nat : w = cas + c * MaxCas

LEMMA RoundsStep ==
    ASSUME NEW w \in Nat, NEW cas \in 1 .. MaxCas, Rounds(w, cas)
    PROVE  Rounds(w + 1, NextCas(cas))
  <1>1. MaxCas \in Nat \ {0}
    BY SharedStoreAssumption
  <1>2. PICK c \in Nat : w = cas + c * MaxCas
    BY DEF Rounds
  <1>3. CASE cas = MaxCas
    <2>1. (c + 1) * MaxCas = c * MaxCas + MaxCas /\ c * MaxCas \in Nat /\ c + 1 \in Nat
      BY <1>1
    <2>2. w + 1 = 1 + (c + 1) * MaxCas
      BY <1>1, <1>2, <1>3, <2>1
    <2>3. QED
      BY <1>3, <2>1, <2>2 DEF Rounds, NextCas
  <1>4. CASE cas # MaxCas
    <2>1. c * MaxCas \in Nat
      BY <1>1
    <2>2. w + 1 = (cas + 1) + c * MaxCas
      BY <1>1, <1>2, <2>1
    <2>3. QED
      BY <1>4, <2>2 DEF Rounds, NextCas
  <1>5. QED
    BY <1>3, <1>4

LEMMA RoundsDiffer ==
    ASSUME NEW w \in Nat, NEW v \in Nat, NEW cas \in 1 .. MaxCas, Rounds(w, cas), Rounds(v, cas)
    PROVE  (w - v) % MaxCas = 0
  <1>1. MaxCas \in Nat \ {0}
    BY SharedStoreAssumption
  <1>2. PICK c \in Nat : w = cas + c * MaxCas
    BY DEF Rounds
  <1>3. PICK d \in Nat : v = cas + d * MaxCas
    BY DEF Rounds
  <1>4. w - v = (c - d) * MaxCas
    <2>1. (c - d) * MaxCas = c * MaxCas - d * MaxCas /\ c * MaxCas \in Int /\ d * MaxCas \in Int
      BY <1>1
    <2>2. QED
      BY <1>1, <1>2, <1>3, <2>1
  <1>5. ASSUME NEW e \in Int
        PROVE  (e * MaxCas) % MaxCas = 0
    BY <1>1
  <1>6. QED
    BY <1>4, <1>5

Reads == [store : Store, key : Key, value : Item, cas : 1 .. MaxCas, writes : Nat]

\* The number of a key tells how often it was written, but for whole rounds; so
\* does the number a guest read, and the key it read is still there.
CasInv ==
    /\ writes \in [Store -> [Key -> Nat]]
    /\ seen \in [Guest -> Reads \cup {NoRead}]
    /\ \A s \in Store : \A k \in Key :
          IF k \in DOMAIN data[s] THEN Rounds(writes[s][k], data[s][k].cas) ELSE writes[s][k] = 0
    /\ \A g \in Guest :
          seen[g] # NoRead => /\ seen[g].key \in DOMAIN data[seen[g].store]
                              /\ Rounds(seen[g].writes, seen[g].cas)

LEMMA DataTypes ==
    ASSUME StoreInv, NEW s \in Store
    PROVE  /\ DOMAIN data[s] \subseteq Key
           /\ \A k \in DOMAIN data[s] : data[s][k].cas \in 1 .. MaxCas /\ data[s][k].value \in Item
  <1>1. data[s] \in PartialFcn(Key, DataEntry)
    BY DEF StoreInv, DataFamily
  <1>2. DOMAIN data[s] \subseteq Key /\ \A k \in DOMAIN data[s] : data[s][k] \in DataEntry
    BY <1>1, PartialFcnDef
  <1>3. QED
    BY <1>2 DEF DataEntry

LEMMA WriteCas ==
    ASSUME StoreInv, CasInv, NEW s \in Store, NEW key \in Key, NEW value \in Item,
           data' = [data EXCEPT ![s] = Written(data[s], key, value)],
           writes' = [writes EXCEPT ![s][key] = @ + 1], UNCHANGED seen
    PROVE  CasInv'
  <1> DEFINE d == Written(data[s], key, value)
             cas == IF key \in DOMAIN data[s] THEN NextCas(data[s][key].cas) ELSE 1
  <1>1. /\ DOMAIN d = DOMAIN data[s] \cup {key} /\ d[key].cas = cas
        /\ \A k \in DOMAIN data[s] : k # key => d[k] = data[s][k]
    BY DEF Written, With
  <1>2. \A t \in Store : data'[t] = IF t = s THEN d ELSE data[t]
    BY DEF StoreInv
  <1>3. /\ writes' \in [Store -> [Key -> Nat]]
        /\ \A t \in Store : \A k \in Key :
              writes'[t][k] = IF t = s /\ k = key THEN writes[s][key] + 1 ELSE writes[t][k]
    BY DEF CasInv
  <1>4. Rounds(writes[s][key] + 1, cas)
    <2>1. CASE key \in DOMAIN data[s]
      <3>1. data[s][key].cas \in 1 .. MaxCas /\ Rounds(writes[s][key], data[s][key].cas)
            /\ writes[s][key] \in Nat
        BY <2>1, DataTypes DEF CasInv
      <3>2. QED
        BY <2>1, <3>1, RoundsStep
    <2>2. CASE key \notin DOMAIN data[s]
      <3>1. writes[s][key] = 0 /\ MaxCas \in Nat
        BY <2>2, SharedStoreAssumption DEF CasInv
      <3>2. 0 + 1 = 1 + 0 * MaxCas
        BY <3>1
      <3>3. QED
        BY <2>2, <3>1, <3>2 DEF Rounds
    <2>3. QED
      BY <2>1, <2>2
  <1> HIDE DEF d, cas
  <1>5. \A t \in Store : \A k \in Key :
            IF k \in DOMAIN data'[t] THEN Rounds(writes'[t][k], data'[t][k].cas)
            ELSE writes'[t][k] = 0
    BY <1>1, <1>2, <1>3, <1>4 DEF CasInv
  <1>6. \A t \in Store : DOMAIN data[t] \subseteq DOMAIN data'[t]
    BY <1>1, <1>2
  <1>7. \A g \in Guest : seen[g] # NoRead => seen[g].store \in Store
    BY DEF CasInv, Reads
  <1>8. QED
    BY <1>3, <1>5, <1>6, <1>7 DEF CasInv

LEMMA CasNext ==
    ASSUME StoreInv, GuestTypes, CasInv, [Next]_vars
    PROVE  CasInv'
  <1>1. ASSUME UNCHANGED <<data, writes, seen>>
        PROVE  CasInv'
    BY <1>1 DEF CasInv
  <1>2. CASE UNCHANGED vars
    BY <1>1, <1>2 DEF vars, storeVars, casVars
  <1>3. CASE Next
    <2>1. PICK g \in Guest : \/ PlainStep(g) \/ StoreStep(g)
                             \/ Running(g) /\ Settle(g)
                             \/ \E n \in Name : GetSharedData(g, n)
      BY <1>3, NextForms
    <2>2. StoreOf(g) \in Store /\ \A n \in Name : KeyOf(g, n) \in Key
      BY StoreOfType
    <2>3. CASE Running(g) /\ Settle(g)
      BY <1>1, <2>3 DEF Settle, storeVars, casVars
    <2>4. ASSUME NEW n \in Name, GetSharedData(g, n)
          PROVE  CasInv'
      <3> DEFINE s == StoreOf(g)
                 key == KeyOf(g, n)
                 read == [store |-> s, key |-> key, value |-> data[s][key].value,
                          cas |-> data[s][key].cas, writes |-> writes[s][key]]
      <3>1. /\ UNCHANGED <<data, writes>>
            /\ \/ seen' = [seen EXCEPT ![g] = NoRead]
               \/ key \in DOMAIN data[s] /\ seen' = [seen EXCEPT ![g] = read]
        BY <2>4 DEF GetSharedData, storeVars
      <3>2. CASE seen' = [seen EXCEPT ![g] = NoRead]
        BY <3>1, <3>2 DEF CasInv
      <3>3. CASE key \in DOMAIN data[s] /\ seen' = [seen EXCEPT ![g] = read]
        <4>1. /\ data[s][key].cas \in 1 .. MaxCas /\ data[s][key].value \in Item
              /\ writes[s][key] \in Nat /\ Rounds(writes[s][key], data[s][key].cas)
          BY <2>2, <3>3, DataTypes DEF CasInv
        <4>2. /\ read \in Reads /\ read.key = key /\ read.store = s
              /\ Rounds(read.writes, read.cas)
          BY <2>2, <4>1 DEF Reads
        <4> HIDE DEF read
        <4>3. seen' \in [Guest -> Reads \cup {NoRead}]
              /\ \A h \in Guest : seen'[h] = IF h = g THEN read ELSE seen[h]
          BY <3>3, <4>2 DEF CasInv
        <4>4. QED
          BY <3>1, <3>3, <4>2, <4>3 DEF CasInv
      <3>4. QED
        BY <3>1, <3>2, <3>3
    <2>5. ASSUME NEW n \in Name, NEW value \in Item, NEW cas \in 0 .. MaxCas,
                 SetSharedData(g, n, value, cas), Writes(g, n, value, cas)
          PROVE  CasInv'
      BY <2>2, <2>5, WriteCas DEF SetSharedData, Writes
    <2>6. CASE StoreStep(g)
      <3>1. \/ UNCHANGED <<data, writes, seen>>
            \/ \E n \in Name, value \in Item, cas \in 0 .. MaxCas :
                  SetSharedData(g, n, value, cas) /\ Writes(g, n, value, cas)
        BY <2>6 DEF StoreStep, RegisterSharedQueue, Registers, RegisteredName,
           ResolveSharedQueue, Resolves, ResolvedName, EnqueueSharedQueue, Enqueues,
           DequeueSharedQueue, Dequeues, DefineMetric, Defines, MetricName, RecordMetric, Records,
           IncrementMetric, Increments, storeVars, casVars
      <3>2. QED
        BY <1>1, <2>5, <3>1
    <2>7. CASE PlainStep(g)
      <3>1. ASSUME NEW new \in Services, Rebuild(g, new) PROVE CasInv'
        <4>1. UNCHANGED <<data, writes>> /\ seen' = [seen EXCEPT ![g] = NoRead]
          BY <3>1 DEF Rebuild, storeVars
        <4>2. QED
          BY <4>1 DEF CasInv
      <3>2. \/ UNCHANGED <<data, writes, seen>>
            \/ \E new \in Services : Rebuild(g, new)
        BY <2>7 DEF PlainStep, ReplaceServices, CreateRoot, RejectRoot, DeleteRoot,
           RunCallback, OnQueueReady, TakeChanges, ReturnCallback, TrapCallback, SetTickPeriod,
           Observe, ReturnItem, LoseItem, storeVars, casVars
      <3>3. QED
        BY <1>1, <3>1, <3>2
    <2>8. QED
      BY <2>1, <2>3, <2>4, <2>6, <2>7
  <1>4. QED
    BY <1>2, <1>3

\* A write with the number of an earlier read succeeds only if nobody wrote the key
\* since, or the 32 bit number went all the way round (store.rs, set_shared_data and
\* next_cas), whichever guests wrote in between.
THEOREM NoUpdateLost == Spec => NoLostUpdate
  <1>1. Init => CasInv
    <2>1. ASSUME Init PROVE CasInv
      <3>1. \A s \in Store : DOMAIN data[s] = {}
        BY <2>1 DEF Init, EmptyData
      <3>2. QED
        BY <2>1, <3>1 DEF Init, CasInv
    <2>2. QED
      BY <2>1
  <1>2. SharedInv /\ CasInv /\ [Next]_vars => CasInv'
    BY CasNext DEF SharedInv
  <1>3. ASSUME SharedInv, CasInv, NEW g \in Guest, NEW n \in Name, NEW value \in Item,
               seen[g] # NoRead, seen[g].store = StoreOf(g), seen[g].key = KeyOf(g, n),
               SetSharedData(g, n, value, seen[g].cas), data' # data
        PROVE  (writes[seen[g].store][seen[g].key] - seen[g].writes) % MaxCas = 0
    <2> DEFINE s == seen[g].store
               key == seen[g].key
    <2>1. /\ s \in Store /\ key \in Key /\ seen[g].cas \in 1 .. MaxCas /\ seen[g].writes \in Nat
          /\ key \in DOMAIN data[s] /\ Rounds(seen[g].writes, seen[g].cas)
      BY <1>3 DEF CasInv, Reads
    <2>2. SetStatus(data[s], key, value, seen[g].cas) = "Ok"
      BY <1>3 DEF SetSharedData, Settle, storeVars
    <2>3. data[s][key].cas = seen[g].cas
      <3>1. MaxCas \in Nat
        BY SharedStoreAssumption
      <3>2. seen[g].cas # NoCas
        BY <2>1, <3>1 DEF NoCas
      <3>3. QED
        BY <2>1, <2>2, <3>2 DEF SetStatus
    <2>4. writes[s][key] \in Nat /\ Rounds(writes[s][key], seen[g].cas)
      BY <1>3, <2>1, <2>3 DEF CasInv
    <2>5. QED
      BY <2>1, <2>4, RoundsDiffer
  <1>4. SharedInv /\ CasInv =>
            \A g \in Guest, n \in Name, value \in Item :
                LET read == seen[g]
                IN  /\ read # NoRead
                    /\ read.store = StoreOf(g) /\ read.key = KeyOf(g, n)
                    /\ SetSharedData(g, n, value, read.cas)
                    /\ data' # data
                    => (writes[read.store][read.key] - read.writes) % MaxCas = 0
    BY <1>3
  <1>5. QED
    BY <1>1, <1>2, <1>4, SharedInvariant, PTL DEF Spec, NoLostUpdate

-----------------------------------------------------------------------------
(***************************************************************************)
(* The limits                                                              *)
(***************************************************************************)
\* What a held name stands for is held, under the VM id the guest has.
KeptNames(own, vm, q, m) ==
    /\ \A n \in Name : RegisteredName(n) \in own.names =>
          <<vm, n>> \in DOMAIN q.by_name /\ q.by_name[<<vm, n>>] \in own.queues
    /\ \A k \in Key : ResolvedName(k) \in own.names =>
          k \in DOMAIN q.by_name /\ q.by_name[k] \in own.queues
    /\ \A kind \in MetricKind, n \in Name : MetricName(kind, n) \in own.names =>
          <<vm, n>> \in DOMAIN m.by_name /\ m.by_name[<<vm, n>>] \in own.metrics
HeldOK(own, vm, q, m) ==
    /\ IsFiniteSet(own.queues) /\ IsFiniteSet(own.metrics)
    /\ Cardinality(own.queues) + Cardinality(own.metrics) <= MaxSharedNames
    /\ KeptNames(own, vm, q, m)

LimitInv ==
    \A g \in Guest : HeldOK(grants[g], services[g].vm, queues[grants[g].against],
                            metrics[grants[g].against])

\* The three kinds of names are apart.
LEMMA NamesApart ==
    /\ \A n, o : RegisteredName(n) = RegisteredName(o) => n = o
    /\ \A k, l : ResolvedName(k) = ResolvedName(l) => k = l
    /\ \A a, b, n, o : MetricName(a, n) = MetricName(b, o) => a = b /\ n = o
    /\ \A n, k : RegisteredName(n) # ResolvedName(k)
    /\ \A n, a, o : RegisteredName(n) # MetricName(a, o)
    /\ \A k, a, o : ResolvedName(k) # MetricName(a, o)
  <1>1. /\ \A n : RegisteredName(n).as = "Registered" /\ RegisteredName(n).name = n
        /\ \A k : ResolvedName(k).as = "Resolved" /\ ResolvedName(k).key = k
        /\ \A a, n : /\ MetricName(a, n).as = "Metric"
                     /\ MetricName(a, n).kind = a /\ MetricName(a, n).name = n
    BY DEF RegisteredName, ResolvedName, MetricName
  <1>2. "Registered" # "Resolved" /\ "Registered" # "Metric" /\ "Resolved" # "Metric"
    OBVIOUS
  <1>3. QED
    BY <1>1, <1>2

LEMMA NoGrantsHeld ==
    ASSUME NEW s, NEW vm, NEW q, NEW m
    PROVE  HeldOK(NoGrants(s), vm, q, m)
  <1>1. MaxSharedNames \in Nat /\ IsFiniteSet({}) /\ Cardinality({}) = 0
    BY SharedGuestsAssumption, FS_EmptySet
  <1>2. NoGrants(s).queues = {} /\ NoGrants(s).metrics = {} /\ NoGrants(s).names = {}
    BY DEF NoGrants
  <1>3. QED
    BY <1>1, <1>2 DEF HeldOK, KeptNames

LEMMA HeldKept ==
    ASSUME NEW own, NEW vm, NEW q, NEW m, NEW r, NEW w, HeldOK(own, vm, q, m),
           QueuesGrow(q, r), MetricsGrow(m, w)
    PROVE  HeldOK(own, vm, r, w)
  <1>1. KeptNames(own, vm, r, w)
    BY DEF HeldOK, KeptNames, QueuesGrow, MetricsGrow
  <1>2. QED
    BY <1>1 DEF HeldOK

\* One identifier more, unless it was held already.
LEMMA OneMoreHeld ==
    ASSUME NEW S, NEW T, NEW x, IsFiniteSet(S), IsFiniteSet(T),
           Cardinality(S) + Cardinality(T) <= MaxSharedNames,
           x \in S \/ Cardinality(S) + Cardinality(T) < MaxSharedNames
    PROVE  /\ IsFiniteSet(S \cup {x}) /\ Cardinality(S \cup {x}) \in Nat
           /\ Cardinality(S \cup {x}) + Cardinality(T) <= MaxSharedNames
  <1>1. MaxSharedNames \in Nat /\ Cardinality(S) \in Nat /\ Cardinality(T) \in Nat
    BY SharedGuestsAssumption, FS_CardinalityType
  <1>2. /\ IsFiniteSet(S \cup {x})
        /\ Cardinality(S \cup {x}) = IF x \in S THEN Cardinality(S) ELSE Cardinality(S) + 1
    BY FS_AddElement
  <1>3. QED
    BY <1>1, <1>2

LEMMA RegisterHeld ==
    ASSUME NEW own \in Grants, NEW vm \in VmId, NEW n \in Name, NEW q, NEW m, NEW root,
           HeldOK(own, vm, q, m), QueuesOK(q), RegisterStatus(q, <<vm, n>>) = "Ok",
           MayHold(own, RegisteredName(n)),
           NEW r, r = Registered(q, <<vm, n>>), NEW id, id = r.by_name[<<vm, n>>],
           NEW new, new = [own EXCEPT !.queues = @ \cup {id},
                                      !.names = @ \cup {RegisteredName(n)},
                                      !.registrants = @ \cup {<<id, root>>}]
    PROVE  HeldOK(new, vm, r, m)
  <1> DEFINE key == <<vm, n>>
  <1>1. key \in Key
    BY DEF Key
  <1>2. /\ key \in DOMAIN r.by_name
        /\ \A k \in DOMAIN q.by_name : k \in DOMAIN r.by_name /\ r.by_name[k] = q.by_name[k]
    BY <1>1, RegisteredOK
  <1>3. /\ new.queues = own.queues \cup {id} /\ new.metrics = own.metrics
        /\ new.names = own.names \cup {RegisteredName(n)}
    BY DEF Grants
  <1>4. id \in own.queues \/ Cardinality(own.queues) + Cardinality(own.metrics) < MaxSharedNames
    <2>1. CASE RegisteredName(n) \in own.names
      BY <1>2, <2>1 DEF HeldOK, KeptNames
    <2>2. CASE RegisteredName(n) \notin own.names
      BY <2>2 DEF MayHold
    <2>3. QED
      BY <2>1, <2>2
  <1>5. KeptNames(new, vm, r, m)
    <2>1. \A x \in Name : RegisteredName(x) \in new.names => RegisteredName(x) \in own.names \/ x = n
      BY <1>3, NamesApart
    <2>2. /\ \A k \in Key : ResolvedName(k) \in new.names => ResolvedName(k) \in own.names
          /\ \A a \in MetricKind, x \in Name : MetricName(a, x) \in new.names => MetricName(a, x) \in own.names
      BY <1>3, NamesApart
    <2>3. QED
      BY <1>2, <1>3, <2>1, <2>2 DEF HeldOK, KeptNames
  <1>6. /\ IsFiniteSet(new.queues) /\ IsFiniteSet(new.metrics)
        /\ Cardinality(new.queues) + Cardinality(new.metrics) <= MaxSharedNames
    <2>1. /\ IsFiniteSet(own.queues) /\ IsFiniteSet(own.metrics)
          /\ Cardinality(own.queues) + Cardinality(own.metrics) <= MaxSharedNames
      BY DEF HeldOK
    <2>2. /\ IsFiniteSet(own.queues \cup {id})
          /\ Cardinality(own.queues \cup {id}) + Cardinality(own.metrics) <= MaxSharedNames
      BY <1>4, <2>1, OneMoreHeld
    <2>3. QED
      BY <1>3, <2>1, <2>2
  <1>7. QED
    BY <1>5, <1>6 DEF HeldOK

LEMMA ResolveHeld ==
    ASSUME NEW own \in Grants, NEW vm, NEW key \in Key, NEW q, NEW m,
           HeldOK(own, vm, q, m), ResolveStatus(q, key) = "Ok", MayHold(own, ResolvedName(key)),
           NEW new, new = [own EXCEPT !.queues = @ \cup {q.by_name[key]},
                                      !.names = @ \cup {ResolvedName(key)}]
    PROVE  HeldOK(new, vm, q, m)
  <1> DEFINE id == q.by_name[key]
  <1>1. key \in DOMAIN q.by_name
    BY DEF ResolveStatus
  <1>2. /\ new.queues = own.queues \cup {id} /\ new.metrics = own.metrics
        /\ new.names = own.names \cup {ResolvedName(key)}
    BY DEF Grants
  <1>3. id \in own.queues \/ Cardinality(own.queues) + Cardinality(own.metrics) < MaxSharedNames
    BY DEF HeldOK, KeptNames, MayHold
  <1> HIDE DEF id
  <1>4. KeptNames(new, vm, q, m)
    <2>1. \A k \in Key : ResolvedName(k) \in new.names => ResolvedName(k) \in own.names \/ k = key
      BY <1>2, NamesApart
    <2>2. /\ \A x \in Name : RegisteredName(x) \in new.names => RegisteredName(x) \in own.names
          /\ \A a \in MetricKind, x \in Name : MetricName(a, x) \in new.names => MetricName(a, x) \in own.names
      BY <1>2, NamesApart
    <2>3. q.by_name[key] \in new.queues
      BY <1>2 DEF id
    <2>4. QED
      BY <1>1, <1>2, <2>1, <2>2, <2>3 DEF HeldOK, KeptNames
  <1>5. /\ IsFiniteSet(new.queues) /\ IsFiniteSet(new.metrics)
        /\ Cardinality(new.queues) + Cardinality(new.metrics) <= MaxSharedNames
    BY <1>2, <1>3, OneMoreHeld DEF HeldOK
  <1>6. QED
    BY <1>4, <1>5 DEF HeldOK

LEMMA DefineHeld ==
    ASSUME NEW own \in Grants, NEW vm \in VmId, NEW n \in Name, NEW kind \in MetricKind, NEW q, NEW m,
           HeldOK(own, vm, q, m), MetricsOK(m), DefineStatus(m, <<vm, n>>, kind) = "Ok",
           MayHold(own, MetricName(kind, n)),
           NEW w, w = Defined(m, <<vm, n>>, kind), NEW id, id = w.by_name[<<vm, n>>],
           NEW new, new = [own EXCEPT !.metrics = @ \cup {id},
                                      !.names = @ \cup {MetricName(kind, n)}]
    PROVE  HeldOK(new, vm, q, w)
  <1> DEFINE key == <<vm, n>>
  <1>1. key \in Key
    BY DEF Key
  <1>2. /\ DOMAIN w.by_name = DOMAIN m.by_name \cup {key}
        /\ \A k \in DOMAIN m.by_name : w.by_name[k] = m.by_name[k]
    BY <1>1, DefinedOK
  <1>3. /\ new.metrics = own.metrics \cup {id} /\ new.queues = own.queues
        /\ new.names = own.names \cup {MetricName(kind, n)}
    BY DEF Grants
  <1>4. id \in own.metrics \/ Cardinality(own.metrics) + Cardinality(own.queues) < MaxSharedNames
    <2>1. CASE MetricName(kind, n) \in own.names
      BY <1>2, <2>1 DEF HeldOK, KeptNames
    <2>2. CASE MetricName(kind, n) \notin own.names
      <3>1. Cardinality(own.queues) \in Nat /\ Cardinality(own.metrics) \in Nat
        BY FS_CardinalityType DEF HeldOK
      <3>2. Cardinality(own.queues) + Cardinality(own.metrics) < MaxSharedNames
        BY <2>2 DEF MayHold
      <3>3. QED
        BY <3>1, <3>2
    <2>3. QED
      BY <2>1, <2>2
  <1>5. KeptNames(new, vm, q, w)
    <2>1. \A a \in MetricKind, x \in Name :
              MetricName(a, x) \in new.names => MetricName(a, x) \in own.names \/ x = n
      BY <1>3, NamesApart
    <2>2. /\ \A k \in Key : ResolvedName(k) \in new.names => ResolvedName(k) \in own.names
          /\ \A x \in Name : RegisteredName(x) \in new.names => RegisteredName(x) \in own.names
      BY <1>3, NamesApart
    <2>3. QED
      BY <1>2, <1>3, <2>1, <2>2 DEF HeldOK, KeptNames
  <1>6. /\ IsFiniteSet(new.queues) /\ IsFiniteSet(new.metrics)
        /\ Cardinality(new.queues) + Cardinality(new.metrics) <= MaxSharedNames
    <2>1. Cardinality(own.queues) \in Nat /\ Cardinality(own.metrics) \in Nat
      BY FS_CardinalityType DEF HeldOK
    <2>2. Cardinality(own.metrics) + Cardinality(own.queues) <= MaxSharedNames
      BY <2>1 DEF HeldOK
    <2>3. /\ IsFiniteSet(new.metrics) /\ Cardinality(new.metrics) \in Nat
          /\ Cardinality(new.metrics) + Cardinality(new.queues) <= MaxSharedNames
      BY <1>3, <1>4, <2>2, OneMoreHeld DEF HeldOK
    <2>4. QED
      BY <1>3, <2>1, <2>3 DEF HeldOK
  <1>7. QED
    BY <1>5, <1>6 DEF HeldOK

\* The names of a guest are of what it holds: two of a queue, one of a metric.
LEMMA ImageBound ==
    ASSUME NEW S, IsFiniteSet(S), NEW f, NEW T, T = {f[x] : x \in S}
    PROVE  IsFiniteSet(T) /\ Cardinality(T) <= Cardinality(S)
  <1> DEFINE h == [x \in S |-> f[x]]
  <1>1. h \in [S -> T] /\ \A t \in T : \E x \in S : h[x] = t
    OBVIOUS
  <1>2. h \in Surjection(S, T)
    BY <1>1 DEF Surjection
  <1> HIDE DEF h
  <1>3. QED
    BY <1>2, FS_Surjection

LEMMA NamesBound ==
    ASSUME NEW own, NEW q, NEW m, GrantOK(own, q, m), MetricsOK(m),
           IsFiniteSet(own.queues), IsFiniteSet(own.metrics)
    PROVE  Cardinality(own.names) <= 2 * Cardinality(own.queues) + Cardinality(own.metrics)
  <1> DEFINE key(id) == CHOOSE k \in DOMAIN m.by_name : m.by_name[k] = id
             f == [id \in own.queues |-> RegisteredName(q.owners[id][2])]
             h == [id \in own.queues |-> ResolvedName(q.owners[id])]
             j == [id \in own.metrics |-> MetricName(m.entries[id].kind, key(id)[2])]
             A == {f[id] : id \in own.queues}
             B == {h[id] : id \in own.queues}
             C == {j[id] : id \in own.metrics}
  <1>1. own.names \subseteq (A \cup B) \cup C
    <2> SUFFICES ASSUME NEW x \in own.names
                 PROVE  x \in (A \cup B) \cup C
      OBVIOUS
    <2>1. CASE \E id \in own.queues : x = RegisteredName(q.owners[id][2])
      BY <2>1
    <2>2. CASE \E id \in own.queues : x = ResolvedName(q.owners[id])
      BY <2>2
    <2>3. ASSUME NEW k \in DOMAIN m.by_name, m.by_name[k] \in own.metrics,
                 x = MetricName(m.entries[m.by_name[k]].kind, k[2])
          PROVE  x \in C
      <3>1. key(m.by_name[k]) = k
        <4>1. \E l \in DOMAIN m.by_name : m.by_name[l] = m.by_name[k]
          OBVIOUS
        <4>2. key(m.by_name[k]) \in DOMAIN m.by_name /\ m.by_name[key(m.by_name[k])] = m.by_name[k]
          BY <4>1
        <4> HIDE DEF key
        <4>3. QED
          BY <4>2 DEF MetricsOK, MetricsAgree
      <3> HIDE DEF key
      <3>2. x = j[m.by_name[k]]
        BY <2>3, <3>1
      <3>3. QED
        BY <2>3, <3>2
    <2>4. QED
      BY <2>1, <2>2, <2>3 DEF GrantOK, OfHeld
  <1>2. /\ IsFiniteSet(A) /\ Cardinality(A) <= Cardinality(own.queues)
        /\ IsFiniteSet(B) /\ Cardinality(B) <= Cardinality(own.queues)
        /\ IsFiniteSet(C) /\ Cardinality(C) <= Cardinality(own.metrics)
    <2> HIDE DEF f, h, j
    <2>1. QED
      BY ImageBound
  <1> HIDE DEF A, B, C
  <1>3. /\ IsFiniteSet(A \cup B)
        /\ Cardinality(A \cup B) = Cardinality(A) + Cardinality(B) - Cardinality(A \cap B)
        /\ IsFiniteSet(A \cap B)
    BY <1>2, FS_Union, FS_Subset
  <1>4. /\ IsFiniteSet((A \cup B) \cup C) /\ IsFiniteSet((A \cup B) \cap C)
        /\ Cardinality((A \cup B) \cup C)
              = Cardinality(A \cup B) + Cardinality(C) - Cardinality((A \cup B) \cap C)
    BY <1>2, <1>3, FS_Union, FS_Subset
  <1>5. Cardinality(own.names) <= Cardinality((A \cup B) \cup C) /\ IsFiniteSet(own.names)
    BY <1>1, <1>4, FS_Subset
  <1>6. /\ {Cardinality(A), Cardinality(B), Cardinality(C), Cardinality(own.queues),
            Cardinality(own.metrics), Cardinality(own.names), Cardinality(A \cap B),
            Cardinality((A \cup B) \cap C)} \subseteq Nat
    BY <1>2, <1>3, <1>4, <1>5, FS_CardinalityType
  <1>7. QED
    BY <1>2, <1>3, <1>4, <1>5, <1>6

\* The embedder gives a guest no other VM id while it lives.
VmIdKept == \A g \in Guest : ~poisoned[g] => services'[g].vm = services[g].vm

\* The other guests hold what they held.
LEMMA LimitsStep ==
    ASSUME StoreInv, GuestTypes, GrantInv, LimitInv, StoresGrow, NEW g \in Guest, NEW own,
           grants' = [grants EXCEPT ![g] = own],
           HeldOK(own, services'[g].vm, queues'[own.against], metrics'[own.against]),
           \A h \in Guest : h # g => services'[h].vm = services[h].vm
    PROVE  LimitInv'
  <1>1. \A h \in Guest : grants'[h] = IF h = g THEN own ELSE grants[h]
    BY DEF GuestTypes
  <1> SUFFICES ASSUME NEW h \in Guest
               PROVE  HeldOK(grants'[h], services'[h].vm, queues'[grants'[h].against],
                             metrics'[grants'[h].against])
    BY DEF LimitInv
  <1>2. CASE h = g
    BY <1>1, <1>2
  <1>3. CASE h # g /\ grants[h].against = NoStore
    <2>1. grants'[h] = NoGrants(NoStore)
      BY <1>1, <1>3 DEF GrantInv
    <2>2. QED
      BY <2>1, NoGrantsHeld
  <1>4. CASE h # g /\ grants[h].against # NoStore
    <2> DEFINE s == grants[h].against
    <2>1. s \in Store /\ grants'[h] = grants[h] /\ services'[h].vm = services[h].vm
      BY <1>1, <1>4 DEF GuestTypes, Grants
    <2>2. /\ HeldOK(grants[h], services[h].vm, queues[s], metrics[s])
          /\ QueuesGrow(queues[s], queues'[s]) /\ MetricsGrow(metrics[s], metrics'[s])
      BY <2>1 DEF LimitInv, StoresGrow
    <2>3. HeldOK(grants[h], services[h].vm, queues'[s], metrics'[s])
      BY <2>2, HeldKept
    <2>4. QED
      BY <2>1, <2>3
  <1>5. QED
    BY <1>2, <1>3, <1>4

\* What settle_grants leaves is within the limit.
LEMMA SettledHeld ==
    ASSUME GuestTypes, LimitInv, NEW g \in Guest
    PROVE  HeldOK(Settled(g), services[g].vm, queues[StoreOf(g)], metrics[StoreOf(g)])
  <1>1. CASE Current(g)
    BY <1>1 DEF Current, Settled, StoreOf, LimitInv
  <1>2. CASE ~Current(g)
    BY <1>2, NoGrantsHeld DEF Settled
  <1>3. QED
    BY <1>1, <1>2

LEMMA LimitsNext ==
    ASSUME StoreInv, GuestTypes, GrantInv, LimitInv, [Next]_vars, VmIdKept
    PROVE  LimitInv'
  <1>0. StoreInv' /\ StoresGrow
    BY StoreNext
  <1>1. ASSUME UNCHANGED grants, \A h \in Guest : services'[h].vm = services[h].vm,
               Guest # {}
        PROVE  LimitInv'
    <2>1. PICK g \in Guest : TRUE
      BY <1>1
    <2> DEFINE own == grants[g]
               s == own.against
    <2>2. grants' = [grants EXCEPT ![g] = own]
      BY <1>1 DEF GuestTypes
    <2>3. HeldOK(own, services'[g].vm, queues'[s], metrics'[s])
      <3>1. CASE s = NoStore
        BY <3>1, NoGrantsHeld DEF GrantInv
      <3>2. CASE s # NoStore
        <4>1. s \in Store
          BY <3>2 DEF GuestTypes, Grants
        <4>2. /\ HeldOK(own, services'[g].vm, queues[s], metrics[s])
              /\ QueuesGrow(queues[s], queues'[s]) /\ MetricsGrow(metrics[s], metrics'[s])
          BY <1>0, <1>1, <4>1 DEF LimitInv, StoresGrow
        <4> HIDE DEF own, s
        <4>3. QED
          BY <4>2, HeldKept
      <3>3. QED
        BY <3>1, <3>2
    <2> HIDE DEF own
    <2>4. QED
      BY <1>0, <1>1, <2>2, <2>3, LimitsStep
  <1>2. CASE UNCHANGED vars
    <2>1. CASE Guest = {}
      BY <2>1 DEF LimitInv
    <2>2. CASE Guest # {}
      BY <1>1, <1>2, <2>2 DEF vars, guestVars, embedderVars
    <2>3. QED
      BY <2>1, <2>2
  <1>3. CASE Next
    <2>1. PICK g \in Guest : \/ PlainStep(g) \/ StoreStep(g)
                             \/ Running(g) /\ Settle(g)
                             \/ \E n \in Name : GetSharedData(g, n)
      BY <1>3, NextForms
    <2> DEFINE s == StoreOf(g)
               own == Settled(g)
               vm == services[g].vm
    <2>2. /\ s \in Store /\ vm \in VmId /\ \A n \in Name : KeyOf(g, n) = <<vm, n>>
          /\ own \in Grants /\ own.against = s /\ HeldOK(own, vm, queues[s], metrics[s])
          /\ QueuesGrow(queues[s], queues'[s]) /\ MetricsGrow(metrics[s], metrics'[s])
          /\ QueuesOK(queues[s]) /\ MetricsOK(metrics[s])
      <3>1. s \in Store /\ vm \in VmId
        BY StoreOfType DEF GuestTypes, Services
      <3>2. own \in Grants /\ own.against = s /\ HeldOK(own, vm, queues[s], metrics[s])
        BY SettledType, SettledOK, SettledHeld
      <3>3. QED
        BY <1>0, <3>1, <3>2 DEF StoresGrow, StoreInv, KeyOf
    <2>3. ASSUME grants' = [grants EXCEPT ![g] = own], UNCHANGED services
          PROVE  LimitInv'
      <3>1. HeldOK(own, services'[g].vm, queues'[s], metrics'[s])
        <4> HIDE DEF own, s
        <4>1. HeldOK(own, vm, queues'[s], metrics'[s])
          BY <2>2, HeldKept
        <4>2. QED
          BY <2>3, <4>1
      <3> HIDE DEF own, s
      <3>2. QED
        BY <1>0, <2>2, <2>3, <3>1, LimitsStep
    <2>4. CASE \/ Running(g) /\ Settle(g)
               \/ \E n \in Name : GetSharedData(g, n)
      BY <2>3, <2>4 DEF Settle, GetSharedData, embedderVars
    <2>5. ASSUME NEW n \in Name, RegisterSharedQueue(g, n), Registers(g, n)
          PROVE  LimitInv'
      <3> DEFINE r == Registered(queues[s], <<vm, n>>)
                 id == r.by_name[<<vm, n>>]
                 new == [own EXCEPT !.queues = @ \cup {id}, !.names = @ \cup {RegisteredName(n)},
                                    !.registrants = @ \cup {<<id, serving[g]>>}]
      <3>1. /\ grants' = [grants EXCEPT ![g] = new] /\ UNCHANGED <<services, metrics>>
            /\ queues' = [queues EXCEPT ![s] = r]
            /\ RegisterStatus(queues[s], <<vm, n>>) = "Ok" /\ MayHold(own, RegisteredName(n))
        BY <2>2, <2>5 DEF RegisterSharedQueue, Registers, RegisteredName, embedderVars
      <3> HIDE DEF own, s, r
      <3>2. queues'[s] = r
        BY <2>2, <3>1 DEF StoreInv
      <3> HIDE DEF id
      <3>3. new.against = s
        BY <2>2 DEF Grants
      <3>4. HeldOK(new, vm, r, metrics[s])
        BY <2>2, <3>1, RegisterHeld DEF r, id
      <3> HIDE DEF new
      <3>5. HeldOK(new, services'[g].vm, queues'[new.against], metrics'[new.against])
        BY <3>1, <3>2, <3>3, <3>4
      <3>6. QED
        BY <1>0, <3>1, <3>5, LimitsStep
    <2>6. ASSUME NEW key \in Key, ResolveSharedQueue(g, key), Resolves(g, key)
          PROVE  LimitInv'
      <3> DEFINE new == [own EXCEPT !.queues = @ \cup {queues[s].by_name[key]},
                                    !.names = @ \cup {ResolvedName(key)}]
      <3>1. /\ grants' = [grants EXCEPT ![g] = new] /\ UNCHANGED <<services, queues, metrics>>
            /\ ResolveStatus(queues[s], key) = "Ok" /\ MayHold(own, ResolvedName(key))
        BY <2>6 DEF ResolveSharedQueue, Resolves, ResolvedName, embedderVars, storeVars
      <3> HIDE DEF own, s
      <3>2. new.against = s
        BY <2>2 DEF Grants
      <3>3. HeldOK(new, vm, queues[s], metrics[s])
        BY <2>2, <3>1, ResolveHeld
      <3> HIDE DEF new
      <3>4. HeldOK(new, services'[g].vm, queues'[new.against], metrics'[new.against])
        BY <3>1, <3>2, <3>3
      <3>5. QED
        BY <1>0, <3>1, <3>4, LimitsStep
    <2>7. ASSUME NEW n \in Name, NEW kind \in MetricKind,
                 DefineMetric(g, n, kind), Defines(g, n, kind)
          PROVE  LimitInv'
      <3> DEFINE w == Defined(metrics[s], <<vm, n>>, kind)
                 id == w.by_name[<<vm, n>>]
                 new == [own EXCEPT !.metrics = @ \cup {id}, !.names = @ \cup {MetricName(kind, n)}]
      <3>1. /\ grants' = [grants EXCEPT ![g] = new] /\ UNCHANGED <<services, queues>>
            /\ metrics' = [metrics EXCEPT ![s] = w]
            /\ DefineStatus(metrics[s], <<vm, n>>, kind) = "Ok" /\ MayHold(own, MetricName(kind, n))
        BY <2>2, <2>7 DEF DefineMetric, Defines, MetricName, embedderVars
      <3> HIDE DEF own, s, w
      <3>2. metrics'[s] = w
        BY <2>2, <3>1 DEF StoreInv
      <3> HIDE DEF id
      <3>3. new.against = s
        BY <2>2 DEF Grants
      <3>4. HeldOK(new, vm, queues[s], w)
        BY <2>2, <3>1, DefineHeld DEF w, id
      <3> HIDE DEF new
      <3>5. HeldOK(new, services'[g].vm, queues'[new.against], metrics'[new.against])
        BY <3>1, <3>2, <3>3, <3>4
      <3>6. QED
        BY <1>0, <3>1, <3>5, LimitsStep
    <2>8. CASE StoreStep(g)
      <3>1. \/ grants' = [grants EXCEPT ![g] = own] /\ UNCHANGED services
            \/ \E n \in Name : RegisterSharedQueue(g, n) /\ Registers(g, n)
            \/ \E key \in Key : ResolveSharedQueue(g, key) /\ Resolves(g, key)
            \/ \E n \in Name, kind \in MetricKind : DefineMetric(g, n, kind) /\ Defines(g, n, kind)
        BY <2>8 DEF StoreStep, SetSharedData, Writes, EnqueueSharedQueue, Enqueues,
           DequeueSharedQueue, Dequeues, RecordMetric, Records, IncrementMetric, Increments,
           embedderVars
      <3>2. QED
        BY <2>3, <2>5, <2>6, <2>7, <3>1
    <2>9. CASE PlainStep(g)
      <3>1. ASSUME NEW new \in Services, ReplaceServices(g, new) PROVE LimitInv'
        <4>1. UNCHANGED grants /\ ~poisoned[g] /\ \A h \in Guest : h # g => services'[h] = services[h]
          BY <3>1 DEF ReplaceServices, Idle, GuestTypes, guestVars
        <4>2. \A h \in Guest : services'[h].vm = services[h].vm
          BY <4>1 DEF VmIdKept
        <4>3. QED
          BY <1>1, <4>1, <4>2
      <3>2. ASSUME NEW new \in Services, Rebuild(g, new) PROVE LimitInv'
        <4>1. /\ grants' = [grants EXCEPT ![g] = NoGrants(NoStore)]
              /\ \A h \in Guest : h # g => services'[h] = services[h]
          BY <3>2 DEF Rebuild, GuestTypes
        <4> DEFINE none == NoGrants(NoStore)
        <4>2. HeldOK(none, services'[g].vm, queues'[none.against], metrics'[none.against])
          BY NoGrantsHeld
        <4> HIDE DEF none
        <4>3. QED
          BY <1>0, <4>1, <4>2, LimitsStep DEF none
      <3>3. ASSUME NEW r \in Root, DeleteRoot(g, r) PROVE LimitInv'
        <4> DEFINE new == [grants[g] EXCEPT !.registrants = WithoutRoot(@, r)]
        <4>1. grants' = [grants EXCEPT ![g] = new] /\ UNCHANGED <<services, queues, metrics>>
          BY <3>3 DEF DeleteRoot, GuestTypes, storeVars
        <4>2. /\ new.queues = grants[g].queues /\ new.metrics = grants[g].metrics
              /\ new.names = grants[g].names /\ new.against = grants[g].against
          BY DEF GuestTypes, Grants
        <4> HIDE DEF new
        <4>3. HeldOK(new, services'[g].vm, queues'[new.against], metrics'[new.against])
          BY <4>1, <4>2 DEF LimitInv, HeldOK, KeptNames
        <4>4. QED
          BY <1>0, <4>1, <4>3, LimitsStep
      <3>4. \/ UNCHANGED <<grants, services>>
            \/ \E new \in Services : ReplaceServices(g, new) \/ Rebuild(g, new)
            \/ \E r \in Root : DeleteRoot(g, r)
        BY <2>9 DEF PlainStep, CreateRoot, RejectRoot, RunCallback, OnQueueReady, TakeChanges,
           ReturnCallback, TrapCallback, SetTickPeriod, Observe, ReturnItem, LoseItem, guestVars,
           embedderVars
      <3>5. QED
        BY <1>1, <3>1, <3>2, <3>3, <3>4
    <2>10. QED
      BY <2>1, <2>4, <2>8, <2>9
  <1>4. QED
    BY <1>2, <1>3

\* The limits of a store on keys, queues, metrics and items hold whatever its guests
\* do, and whatever VM ids and stores embedders give them (store.rs,
\* InMemoryStoreLimits).
THEOREM StoreLimitsHold == Spec => []StoreLimits
  <1>1. SharedInv => StoreLimits
    BY DEF SharedInv, StoreInv, DataOK, QueuesOK, QueuesAgree, MetricsOK, StoreLimits
  <1>2. QED
    BY <1>1, SharedInvariant, PTL

\* A guest holds no more queues and metrics than its limit (bounds.rs,
\* within_shared_names), if no embedder gives a living guest another VM id; without
\* this a held name may be registered again under the new id, and the limit is not
\* asked.
THEOREM GuestLimitsHold == Spec /\ [][VmIdKept]_vars => []GuestLimits
  <1>1. Init => LimitInv
    <2>1. ASSUME Init PROVE LimitInv
      <3>1. \A g \in Guest : grants[g] = NoGrants(NoStore)
        BY <2>1 DEF Init
      <3>2. QED
        BY <3>1, NoGrantsHeld DEF LimitInv
    <2>2. QED
      BY <2>1
  <1>2. SharedInv /\ LimitInv /\ [Next]_vars /\ [VmIdKept]_vars => LimitInv'
    <2>1. UNCHANGED vars => VmIdKept
      BY DEF vars, embedderVars, VmIdKept
    <2>2. QED
      BY <2>1, LimitsNext DEF SharedInv
  <1>3. SharedInv /\ LimitInv => GuestLimits
    <2>1. ASSUME SharedInv, LimitInv, NEW g \in Guest
          PROVE  /\ Cardinality(grants[g].queues) + Cardinality(grants[g].metrics) <= MaxSharedNames
                 /\ Cardinality(grants[g].names)
                      <= 2 * Cardinality(grants[g].queues) + Cardinality(grants[g].metrics)
      <3> DEFINE own == grants[g]
      <3>1. /\ IsFiniteSet(own.queues) /\ IsFiniteSet(own.metrics)
            /\ Cardinality(own.queues) + Cardinality(own.metrics) <= MaxSharedNames
        BY <2>1 DEF LimitInv, HeldOK
      <3>2. CASE own.against = NoStore
        <4>1. own.queues = {} /\ own.metrics = {} /\ own.names = {}
          BY <2>1, <3>2 DEF SharedInv, GrantInv, NoGrants
        <4>2. QED
          BY <3>1, <4>1, FS_EmptySet
      <3>3. CASE own.against # NoStore
        <4>1. own.against \in Store
          BY <2>1, <3>3 DEF SharedInv, GuestTypes, Grants
        <4>2. /\ GrantOK(own, queues[own.against], metrics[own.against])
              /\ MetricsOK(metrics[own.against])
          BY <2>1, <3>3, <4>1 DEF SharedInv, GrantInv, StoreInv
        <4>3. Cardinality(own.names) <= 2 * Cardinality(own.queues) + Cardinality(own.metrics)
          BY <3>1, <4>2, NamesBound
        <4>4. QED
          BY <3>1, <4>3
      <3>4. QED
        BY <3>2, <3>3
    <2>2. QED
      BY <2>1 DEF GuestLimits
  <1>4. QED
    BY <1>1, <1>2, <1>3, SharedInvariant, PTL DEF Spec

-----------------------------------------------------------------------------
(***************************************************************************)
(* What take_changes tells                                                 *)
(***************************************************************************)
Known == [queues : SUBSET (Store \X QueueId \X Root), ticks : [Root -> Period \cup {0}]]

\* ChangesTell, of the parts of one guest, for the roots that are still to be
\* created too.
TicksTell(life, set, chg, kn) ==
    \A r \in Root :
        life[r] # "Gone" =>
            set[r] = IF r \in DOMAIN chg.ticks THEN chg.ticks[r] ELSE kn.ticks[r]
QueuesTell(own, chg, kn, s) ==
    own.against = s =>
        \A p \in own.registrants :
            \/ <<s, p[1], p[2]>> \in kn.queues
            \/ \E n \in Name : <<p[1], p[2], n>> \in chg.queues

TellInv ==
    /\ known \in [Guest -> Known]
    /\ \A g \in Guest : /\ TicksTell(roots[g], tick[g], changes[g], known[g])
                        /\ QueuesTell(grants[g], changes[g], known[g], services[g].store)

\* The embedder does not put back, under a guest that lives, the store that the
\* guest's grants are still held against.
NotPutBack ==
    \A g \in Guest :
        ~poisoned[g] /\ services'[g].store = grants[g].against => Current(g)

\* The other guests are told what they were.
LEMMA TellStep ==
    ASSUME TellInv, NEW g \in Guest, NEW life, NEW set, NEW own, NEW chg, NEW kn \in Known,
           \A h \in Guest : h # g => /\ roots'[h] = roots[h] /\ tick'[h] = tick[h]
                                     /\ grants'[h] = grants[h] /\ changes'[h] = changes[h]
                                     /\ services'[h] = services[h],
           known' = [known EXCEPT ![g] = kn],
           roots'[g] = life, tick'[g] = set, grants'[g] = own, changes'[g] = chg,
           TicksTell(life, set, chg, kn), QueuesTell(own, chg, kn, services'[g].store)
    PROVE  TellInv'
  <1>1. known' \in [Guest -> Known] /\ known'[g] = kn /\ \A h \in Guest : h # g => known'[h] = known[h]
    BY DEF TellInv
  <1>2. ASSUME NEW h \in Guest
        PROVE  /\ TicksTell(roots'[h], tick'[h], changes'[h], known'[h])
               /\ QueuesTell(grants'[h], changes'[h], known'[h], services'[h].store)
    <2>1. CASE h = g
      BY <1>1, <2>1
    <2>2. CASE h # g
      BY <1>1, <2>2 DEF TellInv
    <2>3. QED
      BY <2>1, <2>2
  <1>3. QED
    BY <1>1, <1>2 DEF TellInv

\* A host function that settles the grants and registers nobody.
LEMMA SettledTells ==
    ASSUME GuestTypes, TellInv, NEW g \in Guest, NEW own,
           own.registrants = Settled(g).registrants, own.against = StoreOf(g)
    PROVE  /\ TicksTell(roots[g], tick[g], SettledChanges(g), known[g])
           /\ QueuesTell(own, SettledChanges(g), known[g], services[g].store)
  <1>1. changes[g] \in Changes
    BY DEF GuestTypes
  <1>2. SettledChanges(g).ticks = changes[g].ticks
    BY <1>1 DEF SettledChanges, Changes
  <1>3. /\ TicksTell(roots[g], tick[g], changes[g], known[g])
        /\ QueuesTell(grants[g], changes[g], known[g], services[g].store)
    BY DEF TellInv
  <1>4. TicksTell(roots[g], tick[g], SettledChanges(g), known[g])
    BY <1>2, <1>3 DEF TicksTell
  <1>5. CASE Current(g)
    <2>1. SettledChanges(g) = changes[g] /\ own.registrants = grants[g].registrants
      BY <1>5 DEF SettledChanges, Settled
    <2>2. grants[g].against = services[g].store
      BY <1>5 DEF Current
    <2>3. QueuesTell(own, SettledChanges(g), known[g], services[g].store)
      BY <1>3, <2>1, <2>2 DEF QueuesTell
    <2>4. QED
      BY <1>4, <2>3
  <1>6. CASE ~Current(g)
    <2>1. own.registrants = {}
      BY <1>6 DEF Settled, NoGrants
    <2>2. QED
      BY <1>4, <2>1 DEF QueuesTell
  <1>7. QED
    BY <1>5, <1>6

\* register_queue notes the registration, unless it was there and is told already.
LEMMA NotedTells ==
    ASSUME NEW own \in Grants, NEW chg \in Changes, NEW kn, NEW s, own.against = s,
           QueuesTell(own, chg, kn, s), NEW q \in QueueId, NEW r \in Root, NEW n \in Name,
           NEW new, new.registrants = own.registrants \cup {<<q, r>>}
    PROVE  /\ QueuesTell(new, NoteRegistration(chg, own, q, r, n), kn, s)
           /\ NoteRegistration(chg, own, q, r, n).ticks = chg.ticks
  <1> DEFINE noted == NoteRegistration(chg, own, q, r, n)
  <1>1. noted.ticks = chg.ticks /\ chg.queues \subseteq noted.queues
    BY DEF NoteRegistration, Changes
  <1>2. <<q, r>> \in own.registrants \/ <<q, r, n>> \in noted.queues
    BY DEF NoteRegistration, Changes
  <1> HIDE DEF noted
  <1>3. ASSUME NEW p \in new.registrants
        PROVE  \/ <<s, p[1], p[2]>> \in kn.queues
               \/ \E m \in Name : <<p[1], p[2], m>> \in noted.queues
    <2>1. CASE p \in own.registrants
      BY <1>1, <2>1 DEF QueuesTell
    <2>2. CASE p \notin own.registrants
      <3>1. p = <<q, r>> /\ <<q, r, n>> \in noted.queues
        BY <1>2, <1>3, <2>2
      <3>2. QED
        BY <3>1
    <2>3. QED
      BY <2>1, <2>2
  <1>4. QED
    BY <1>1, <1>3 DEF QueuesTell, noted

\* The steps that leave the stores alone.
LEMMA PlainTells ==
    ASSUME GuestTypes, TellInv, NotPutBack, NEW g \in Guest, PlainStep(g)
    PROVE  TellInv'
  <1>0. /\ grants[g] \in Grants /\ changes[g] \in Changes /\ known[g] \in Known
        /\ known' = known => known' = [known EXCEPT ![g] = known[g]]
        /\ TicksTell(roots[g], tick[g], changes[g], known[g])
        /\ QueuesTell(grants[g], changes[g], known[g], services[g].store)
    BY DEF GuestTypes, TellInv
  <1>1. ASSUME NEW new \in Services, ReplaceServices(g, new)
        PROVE  TellInv'
    <2>1. /\ UNCHANGED <<grants, changes, tick, roots, known>> /\ ~poisoned[g]
          /\ \A h \in Guest : h # g => services'[h] = services[h]
      BY <1>1 DEF ReplaceServices, Idle, guestVars, GuestTypes
    <2>2. QueuesTell(grants[g], changes[g], known[g], services'[g].store)
      <3>1. ASSUME grants[g].against = services'[g].store
            PROVE  services'[g].store = services[g].store
        BY <2>1, <3>1 DEF NotPutBack, Current
      <3>2. QED
        BY <1>0, <3>1 DEF QueuesTell
    <2>3. QED
      BY <1>0, <2>1, <2>2, TellStep
  <1>2. ASSUME NEW new \in Services, Rebuild(g, new)
        PROVE  TellInv'
    <2> DEFINE kn == [queues |-> {}, ticks |-> [r \in Root |-> 0]]
               life == [r \in Root |-> "New"]
               set == [r \in Root |-> 0]
               own == NoGrants(NoStore)
    <2>1. /\ \A h \in Guest : h # g => /\ roots'[h] = roots[h] /\ tick'[h] = tick[h]
                                       /\ grants'[h] = grants[h] /\ changes'[h] = changes[h]
                                       /\ services'[h] = services[h]
          /\ known' = [known EXCEPT ![g] = kn]
          /\ roots'[g] = life /\ tick'[g] = set /\ grants'[g] = own /\ changes'[g] = NoChanges
      BY <1>2 DEF Rebuild, GuestTypes
    <2>2. kn \in Known
      BY DEF Known
    <2>3. own.registrants = {} /\ DOMAIN NoChanges.ticks = {}
      BY DEF NoGrants, NoChanges, NoTicks
    <2>4. TicksTell(life, set, NoChanges, kn)
      BY <2>3 DEF TicksTell
    <2>5. QueuesTell(own, NoChanges, kn, services'[g].store)
      BY <2>3 DEF QueuesTell
    <2> HIDE DEF kn, life, set, own
    <2>6. QED
      BY <2>1, <2>2, <2>4, <2>5, TellStep
  <1>3. ASSUME NEW r \in Root, CreateRoot(g, r) \/ RejectRoot(g, r)
        PROVE  TellInv'
    <2>1. /\ UNCHANGED <<grants, changes, tick, services, known>> /\ roots[g][r] # "Gone"
          /\ \A h \in Guest : h # g => roots'[h] = roots[h]
          /\ \A p \in Root : p # r => roots'[g][p] = roots[g][p]
      BY <1>3 DEF CreateRoot, RejectRoot, guestVars, GuestTypes
    <2>2. TicksTell(roots'[g], tick[g], changes[g], known[g])
      BY <1>0, <2>1 DEF TicksTell
    <2>3. QED
      BY <1>0, <2>1, <2>2, TellStep
  <1>4. ASSUME NEW r \in Root, DeleteRoot(g, r)
        PROVE  TellInv'
    <2> DEFINE own == [grants[g] EXCEPT !.registrants = WithoutRoot(@, r)]
    <2>1. /\ UNCHANGED <<changes, services, known>>
          /\ \A h \in Guest : h # g => roots'[h] = roots[h] /\ tick'[h] = tick[h] /\ grants'[h] = grants[h]
          /\ grants'[g] = own /\ roots'[g][r] = "Gone"
          /\ \A p \in Root : p # r => roots'[g][p] = roots[g][p] /\ tick'[g][p] = tick[g][p]
      BY <1>4 DEF DeleteRoot, GuestTypes
    <2>2. own.registrants \subseteq grants[g].registrants /\ own.against = grants[g].against
      BY <1>0 DEF Grants, WithoutRoot
    <2> HIDE DEF own
    <2>3. TicksTell(roots'[g], tick'[g], changes[g], known[g])
      BY <1>0, <2>1 DEF TicksTell
    <2>4. QueuesTell(own, changes[g], known[g], services[g].store)
      BY <1>0, <2>2 DEF QueuesTell
    <2>5. QED
      BY <1>0, <2>1, <2>3, <2>4, TellStep
  <1>5. ASSUME TakeChanges(g)
        PROVE  TellInv'
    <2> DEFINE told == IF Current(g) THEN changes[g].queues ELSE {}
               ticks == changes[g].ticks
               heard == known[g].queues \cup {<<services[g].store, t[1], t[2]>> : t \in told}
               periods == [r \in Root |-> IF r \in DOMAIN ticks THEN ticks[r]
                                                                ELSE known[g].ticks[r]]
               kn == [known[g] EXCEPT !.queues = heard, !.ticks = periods]
    <2>1. /\ UNCHANGED <<grants, tick, services, roots>>
          /\ \A h \in Guest : h # g => changes'[h] = changes[h]
          /\ changes'[g] = NoChanges /\ known' = [known EXCEPT ![g] = kn]
      BY <1>5 DEF TakeChanges, GuestTypes, TellInv
    <2>2. kn.queues = heard /\ kn.ticks = periods
      BY <1>0 DEF Known
    <2>3. kn \in Known
      <3>1. \A t \in changes[g].queues : t[1] \in QueueId /\ t[2] \in Root
        BY <1>0 DEF Changes
      <3>2. services[g].store \in Store
        BY DEF GuestTypes, Services
      <3>3. heard \in SUBSET (Store \X QueueId \X Root)
        BY <1>0, <3>1, <3>2 DEF Known
      <3>4. \A r \in DOMAIN ticks : ticks[r] \in Period \cup {0}
        BY <1>0 DEF Changes, PartialFcn
      <3>5. periods \in [Root -> Period \cup {0}]
        BY <1>0, <3>4 DEF Known
      <3> HIDE DEF heard, periods
      <3>6. QED
        BY <1>0, <3>3, <3>5 DEF Known
    <2> HIDE DEF kn
    <2>4. DOMAIN NoChanges.ticks = {}
      BY DEF NoChanges, NoTicks
    <2>5. TicksTell(roots[g], tick[g], NoChanges, kn)
      BY <1>0, <2>2, <2>4 DEF TicksTell
    <2>6. QueuesTell(grants[g], NoChanges, kn, services[g].store)
      <3>1. ASSUME grants[g].against = services[g].store, NEW p \in grants[g].registrants
            PROVE  <<services[g].store, p[1], p[2]>> \in kn.queues
        <4>1. told = changes[g].queues
          BY <3>1 DEF Current
        <4>2. CASE <<services[g].store, p[1], p[2]>> \in known[g].queues
          BY <2>2, <4>2
        <4>3. ASSUME NEW n \in Name, <<p[1], p[2], n>> \in changes[g].queues
              PROVE  <<services[g].store, p[1], p[2]>> \in kn.queues
          BY <2>2, <4>1, <4>3
        <4>4. QED
          BY <1>0, <3>1, <4>2, <4>3 DEF QueuesTell
      <3>2. QED
        BY <3>1 DEF QueuesTell
    <2>7. QED
      BY <2>1, <2>3, <2>5, <2>6, TellStep
  <1>6. ASSUME NEW period \in Period \cup {0}, SetTickPeriod(g, period)
        PROVE  TellInv'
    <2> DEFINE r == serving[g]
               chg == [changes[g] EXCEPT !.ticks = NotedTicks(changes[g].ticks, r, period)]
    <2>1. /\ UNCHANGED <<grants, services, roots, known>>
          /\ \A h \in Guest : h # g => changes'[h] = changes[h] /\ tick'[h] = tick[h]
          /\ \A p \in Root : tick'[g][p] = IF p = r THEN period ELSE tick[g][p]
      BY <1>6 DEF SetTickPeriod, GuestTypes, embedderVars
    <2>2. changes'[g] = chg
      BY <1>6 DEF SetTickPeriod, GuestTypes
    <2>3. /\ chg.queues = changes[g].queues
          /\ chg.ticks = NotedTicks(changes[g].ticks, r, period)
      BY <1>0 DEF Changes
    <2> HIDE DEF chg
    <2>4. TicksTell(roots[g], tick'[g], chg, known[g])
      BY <1>0, <2>1, <2>3 DEF TicksTell, NotedTicks, With
    <2>5. QueuesTell(grants[g], chg, known[g], services[g].store)
      BY <1>0, <2>3 DEF QueuesTell
    <2>6. QED
      BY <1>0, <2>1, <2>2, <2>4, <2>5, TellStep
  <1>7. ASSUME UNCHANGED <<grants, changes, tick, services, roots, known>>
        PROVE  TellInv'
    BY <1>0, <1>7, TellStep
  <1>8. QED
    BY <1>1, <1>2, <1>3, <1>4, <1>5, <1>6, <1>7
    DEF PlainStep, RunCallback, OnQueueReady, ReturnCallback, TrapCallback, Observe, ReturnItem,
        LoseItem, guestVars, embedderVars

LEMMA TellNext ==
    ASSUME StoreInv, GuestTypes, TellInv, [Next]_vars, NotPutBack
    PROVE  TellInv'
  <1>1. CASE UNCHANGED vars
    BY <1>1 DEF vars, guestVars, embedderVars, TellInv, TicksTell, QueuesTell
  <1>2. CASE Next
    <2>1. PICK g \in Guest : \/ PlainStep(g) \/ StoreStep(g)
                             \/ Running(g) /\ Settle(g)
                             \/ \E n \in Name : GetSharedData(g, n)
      BY <1>2, NextForms
    <2>2. /\ grants[g] \in Grants /\ changes[g] \in Changes /\ known[g] \in Known
          /\ known' = known => known' = [known EXCEPT ![g] = known[g]]
          /\ Settled(g) \in Grants /\ SettledChanges(g) \in Changes
          /\ Settled(g).against = StoreOf(g)
          /\ TicksTell(roots[g], tick[g], changes[g], known[g])
          /\ QueuesTell(grants[g], changes[g], known[g], services[g].store)
      BY SettledType DEF GuestTypes, TellInv, Settled, NoGrants, Current, StoreOf
    <2>3. ASSUME NEW own, own.registrants = Settled(g).registrants, own.against = StoreOf(g),
                 grants' = [grants EXCEPT ![g] = own],
                 changes' = [changes EXCEPT ![g] = SettledChanges(g)],
                 UNCHANGED <<tick, services, roots, known>>
          PROVE  TellInv'
      <3>1. /\ TicksTell(roots[g], tick[g], SettledChanges(g), known[g])
            /\ QueuesTell(own, SettledChanges(g), known[g], services[g].store)
        BY <2>3, SettledTells
      <3>2. grants'[g] = own /\ changes'[g] = SettledChanges(g)
        BY <2>3 DEF GuestTypes
      <3>3. \A h \in Guest : h # g => grants'[h] = grants[h] /\ changes'[h] = changes[h]
        BY <2>3 DEF GuestTypes
      <3>4. QED
        BY <2>2, <2>3, <3>1, <3>2, <3>3, TellStep
    <2>4. ASSUME grants' = [grants EXCEPT ![g] = Settled(g)],
                 changes' = [changes EXCEPT ![g] = SettledChanges(g)],
                 UNCHANGED <<tick, services, roots, known>>
          PROVE  TellInv'
      BY <2>2, <2>3, <2>4
    <2>5. CASE \/ Running(g) /\ Settle(g)
               \/ \E n \in Name : GetSharedData(g, n)
      BY <2>4, <2>5 DEF Settle, GetSharedData, embedderVars
    <2>6. ASSUME NEW n \in Name, RegisterSharedQueue(g, n), Registers(g, n)
          PROVE  TellInv'
      <3> DEFINE own == Settled(g)
                 s == StoreOf(g)
                 r == serving[g]
                 q == Registered(queues[s], KeyOf(g, n)).by_name[KeyOf(g, n)]
                 new == [own EXCEPT !.queues = @ \cup {q}, !.names = @ \cup {RegisteredName(n)},
                                    !.registrants = @ \cup {<<q, r>>}]
                 chg == NoteRegistration(SettledChanges(g), own, q, r, n)
      <3>1. /\ grants' = [grants EXCEPT ![g] = new] /\ changes' = [changes EXCEPT ![g] = chg]
            /\ UNCHANGED <<tick, services, roots, known>> /\ r # NoRoot
            /\ RegisterStatus(queues[s], KeyOf(g, n)) = "Ok"
        BY <2>6 DEF RegisterSharedQueue, Registers, RegisteredName, embedderVars, Running
      <3>2. r \in Root
        BY <2>6, SharedGuestsAssumption DEF RegisterSharedQueue, Running, GuestTypes, NoRoot
      <3>3. q \in QueueId
        <4>1. QueuesOK(queues[s]) /\ KeyOf(g, n) \in Key
          BY StoreOfType DEF StoreInv
        <4>2. /\ KeyOf(g, n) \in DOMAIN Registered(queues[s], KeyOf(g, n)).by_name
              /\ QueuesOK(Registered(queues[s], KeyOf(g, n)))
          BY <3>1, <4>1, RegisteredOK
        <4>3. QED
          BY <4>2, QueueIdType
      <3>4. SettledChanges(g) \in Changes /\ own \in Grants /\ own.against = s
        BY <2>2
      <3>5. /\ TicksTell(roots[g], tick[g], SettledChanges(g), known[g])
            /\ QueuesTell(own, SettledChanges(g), known[g], services[g].store)
        BY <2>2, SettledTells
      <3> HIDE DEF q, r
      <3>6. new.registrants = own.registrants \cup {<<q, r>>}
        BY <3>4 DEF Grants
      <3> HIDE DEF own, new
      <3>7. /\ QueuesTell(new, chg, known[g], services[g].store)
            /\ chg.ticks = SettledChanges(g).ticks
        BY <3>2, <3>3, <3>4, <3>5, <3>6, NotedTells DEF StoreOf
      <3> HIDE DEF chg
      <3>8. TicksTell(roots[g], tick[g], chg, known[g])
        BY <3>5, <3>7 DEF TicksTell
      <3>9. grants'[g] = new /\ changes'[g] = chg
        BY <3>1 DEF GuestTypes
      <3>10. \A h \in Guest : h # g => grants'[h] = grants[h] /\ changes'[h] = changes[h]
        BY <3>1 DEF GuestTypes
      <3>11. QED
        BY <2>2, <3>1, <3>7, <3>8, <3>9, <3>10, TellStep
    <2>7. ASSUME NEW key \in Key, ResolveSharedQueue(g, key), Resolves(g, key)
          PROVE  TellInv'
      <3> DEFINE own == Settled(g)
                 new == [own EXCEPT !.queues = @ \cup {queues[StoreOf(g)].by_name[key]},
                                    !.names = @ \cup {ResolvedName(key)}]
      <3>1. /\ grants' = [grants EXCEPT ![g] = new]
            /\ changes' = [changes EXCEPT ![g] = SettledChanges(g)]
            /\ UNCHANGED <<tick, services, roots, known>>
        BY <2>7 DEF ResolveSharedQueue, Resolves, ResolvedName, embedderVars
      <3>2. new.registrants = Settled(g).registrants /\ new.against = StoreOf(g)
        BY <2>2 DEF Grants
      <3> HIDE DEF new
      <3>3. QED
        BY <2>3, <3>1, <3>2
    <2>8. ASSUME NEW n \in Name, NEW kind \in MetricKind, DefineMetric(g, n, kind),
                 Defines(g, n, kind)
          PROVE  TellInv'
      <3> DEFINE own == Settled(g)
                 m == Defined(metrics[StoreOf(g)], KeyOf(g, n), kind).by_name[KeyOf(g, n)]
                 new == [own EXCEPT !.metrics = @ \cup {m}, !.names = @ \cup {MetricName(kind, n)}]
      <3>1. /\ grants' = [grants EXCEPT ![g] = new]
            /\ changes' = [changes EXCEPT ![g] = SettledChanges(g)]
            /\ UNCHANGED <<tick, services, roots, known>>
        BY <2>8 DEF DefineMetric, Defines, MetricName, embedderVars
      <3>2. new.registrants = Settled(g).registrants /\ new.against = StoreOf(g)
        BY <2>2 DEF Grants
      <3> HIDE DEF new
      <3>3. QED
        BY <2>3, <3>1, <3>2
    <2>9. CASE StoreStep(g)
      <3>1. \/ /\ grants' = [grants EXCEPT ![g] = Settled(g)]
               /\ changes' = [changes EXCEPT ![g] = SettledChanges(g)]
               /\ UNCHANGED <<tick, services, roots, known>>
            \/ \E n \in Name : RegisterSharedQueue(g, n) /\ Registers(g, n)
            \/ \E key \in Key : ResolveSharedQueue(g, key) /\ Resolves(g, key)
            \/ \E n \in Name, kind \in MetricKind : DefineMetric(g, n, kind) /\ Defines(g, n, kind)
        BY <2>9 DEF StoreStep, SetSharedData, Writes, EnqueueSharedQueue, Enqueues,
           DequeueSharedQueue, Dequeues, RecordMetric, Records, IncrementMetric, Increments,
           embedderVars
      <3>2. QED
        BY <2>4, <2>6, <2>7, <2>8, <3>1
    <2>10. CASE PlainStep(g)
      BY <2>10, PlainTells
    <2>11. QED
      BY <2>1, <2>5, <2>9, <2>10
  <1>3. QED
    BY <1>1, <1>2

\* What the embedder was told and would be told is what its guest holds (take_changes
\* and settle_grants), if it never puts back a store whose grants the guest still
\* holds; the run shared_swap_back shows what happens if it does.
THEOREM ChangesAreTold == Spec /\ [][NotPutBack]_vars => []ChangesTell
  <1>1. Init => TellInv
    <2>1. ASSUME Init PROVE TellInv
      <3>1. known \in [Guest -> Known]
        BY <2>1 DEF Init, Known
      <3>2. ASSUME NEW g \in Guest
            PROVE  /\ TicksTell(roots[g], tick[g], changes[g], known[g])
                   /\ QueuesTell(grants[g], changes[g], known[g], services[g].store)
        <4>1. /\ grants[g] = NoGrants(NoStore) /\ changes[g] = NoChanges
              /\ \A r \in Root : tick[g][r] = 0 /\ known[g].ticks[r] = 0
          BY <2>1 DEF Init
        <4>2. grants[g].registrants = {} /\ DOMAIN changes[g].ticks = {}
          BY <4>1 DEF NoGrants, NoChanges, NoTicks
        <4>3. QED
          BY <4>1, <4>2 DEF TicksTell, QueuesTell
      <3>3. QED
        BY <3>1, <3>2 DEF TellInv
    <2>2. QED
      BY <2>1
  <1>2. SharedInv /\ TellInv /\ [Next]_vars /\ [NotPutBack]_vars => TellInv'
    <2>1. ASSUME UNCHANGED vars PROVE NotPutBack
      BY <2>1 DEF vars, embedderVars, NotPutBack, Current
    <2>2. QED
      BY <2>1, TellNext DEF SharedInv
  <1>3. TellInv => ChangesTell
    BY DEF TellInv, TicksTell, QueuesTell, ChangesTell, Current
  <1>4. QED
    BY <1>1, <1>2, <1>3, SharedInvariant, PTL DEF Spec
=============================================================================
