--------------------------- MODULE ProcessProofs ----------------------------
(***************************************************************************)
(* Theorems about the parts of a process around its guests: the callout    *)
(* identifiers, the epoch clock, the construction of a guest, the pool of  *)
(* workers.  Each is about the specification of its part, for every value  *)
(* of that part's constants.                                               *)
(***************************************************************************)
EXTENDS CalloutIds, Engine, Building, Workers, Iteration, FiniteSetTheorems

-----------------------------------------------------------------------------
(***************************************************************************)
(* The identifiers of CalloutIds are sound for every width of the counter  *)
(* and every limit below it.                                               *)
(***************************************************************************)

TypeInv ==
    /\ open \subseteq CalloutId /\ IsFiniteSet(open)
    /\ next \in CalloutId
    /\ phase \in {"idle", "reserve", "reserved"}
    /\ candidate \in 0 .. MaxCalloutId
    /\ examined \in 0 .. MaxExamined
    /\ given \subseteq CalloutId
    /\ wrapped \in BOOLEAN

\* How many turns of the loop ago the counter stood at id, on the ring of the
\* identifiers.
Turns(id, n) == IF id < n THEN n - id ELSE n - id + MaxCalloutId

\* The identifiers of the last k turns.
Behind(n, k) == {id \in CalloutId : Turns(id, n) <= k}

\* Whoever is inside `reserve' passed the limit, and what it examined in vain
\* is open.  Until the wrap the counter is above everything it gave out.
IdsInv ==
    /\ TypeInv
    /\ Cardinality(open) <= MaxOpenCallouts
    /\ phase # "idle" => Cardinality(open) < MaxOpenCallouts
    /\ phase = "idle" => examined = 0
    /\ phase = "reserve" => Behind(next, examined) \subseteq open
    /\ phase = "reserved" => candidate \in given /\ candidate \notin open
    /\ examined <= Cardinality(open) + 1
    /\ open \subseteq given
    /\ ~wrapped => given = {id \in CalloutId : id < next}

-----------------------------------------------------------------------------
\* The counter stays in its range (checked_add, or NonZeroU32::MIN).
LEMMA SuccessorInRange ==
    ASSUME NEW n \in CalloutId
    PROVE  Successor(n) \in CalloutId
    BY CalloutIdsAssumption DEF Successor, CalloutId

\* As many identifiers are behind the counter as it made turns, up to the whole
\* ring.
LEMMA BehindCount ==
    ASSUME NEW n \in CalloutId, NEW k \in 0 .. MaxCalloutId
    PROVE  IsFiniteSet(Behind(n, k)) /\ Cardinality(Behind(n, k)) = k
  <1> DEFINE at[i \in 1 .. k] == IF i < n THEN n - i ELSE n - i + MaxCalloutId
  <1>1. at \in [1 .. k -> Behind(n, k)]
    BY CalloutIdsAssumption DEF Behind, CalloutId, Turns
  <1>2. \A i, j \in 1 .. k : at[i] = at[j] => i = j
    BY CalloutIdsAssumption DEF CalloutId
  <1>3. \A id \in Behind(n, k) : \E i \in 1 .. k : at[i] = id
    <2>1. ASSUME NEW id \in Behind(n, k)
          PROVE  Turns(id, n) \in 1 .. k /\ at[Turns(id, n)] = id
      BY CalloutIdsAssumption DEF Behind, CalloutId, Turns
    <2>2. QED
      BY <2>1
  <1>4. at \in Bijection(1 .. k, Behind(n, k))
    BY <1>1, <1>2, <1>3 DEF Bijection, Injection, Surjection, IsInjective
  <1>5. ExistsBijection(1 .. k, Behind(n, k))
    BY <1>4 DEF ExistsBijection
  <1>6. IsFiniteSet(1 .. k) /\ Cardinality(1 .. k) = k
    BY FS_Interval, CalloutIdsAssumption
  <1>7. QED
    BY <1>5, <1>6, FS_Bijection

\* One turn more is behind the successor.
LEMMA BehindSuccessor ==
    ASSUME NEW n \in CalloutId, NEW k \in 0 .. MaxCalloutId - 1
    PROVE  Behind(Successor(n), k + 1) = Behind(n, k) \cup {n}
    BY CalloutIdsAssumption DEF Behind, CalloutId, Turns, Successor

\* A loop that examined k open identifiers has met k of them.
LEMMA ExaminedAreOpen ==
    ASSUME NEW n \in CalloutId, NEW k \in 0 .. MaxCalloutId,
           IsFiniteSet(open), Behind(n, k) \subseteq open
    PROVE  k <= Cardinality(open)
    BY BehindCount, FS_Subset

-----------------------------------------------------------------------------
LEMMA IdsInit == Init => IdsInv
  <1> SUFFICES ASSUME Init PROVE IdsInv
    OBVIOUS
  <1>1. IsFiniteSet({}) /\ Cardinality({}) = 0
    BY FS_EmptySet
  <1>2. /\ open \subseteq CalloutId /\ IsFiniteSet(open)
        /\ phase \in {"idle", "reserve", "reserved"}
        /\ given \subseteq CalloutId /\ wrapped \in BOOLEAN
    BY <1>1, Zenon DEF Init
  <1>3. next \in CalloutId /\ candidate \in 0 .. MaxCalloutId /\ examined \in 0 .. MaxExamined
    BY CalloutIdsAssumption DEF Init, CalloutId, MaxExamined
  <1>4. TypeInv
    BY <1>2, <1>3, Zenon DEF TypeInv
  <1>5. Cardinality(open) = 0 /\ given = {id \in CalloutId : id < next}
    BY <1>1, CalloutIdsAssumption DEF Init, CalloutId
  <1>6. QED
    BY <1>4, <1>5, CalloutIdsAssumption DEF Init, IdsInv

LEMMA IdsNext == IdsInv /\ [Next]_vars => IdsInv'
  <1> SUFFICES ASSUME IdsInv, [Next]_vars PROVE IdsInv'
    OBVIOUS
  <1> USE CalloutIdsAssumption
  <1>0. Cardinality(open) \in Nat
    BY FS_CardinalityType DEF IdsInv, TypeInv
  <1>1. CASE Begin
    <2>1. Behind(next, 0) = {}
      BY DEF IdsInv, TypeInv, Behind, Turns, CalloutId
    <2>2. QED
      BY <1>0, <1>1, <2>1 DEF Begin, IdsInv, TypeInv, MaxExamined
  <1>2. CASE Examine
    <2>1. /\ Behind(next, examined) \subseteq open /\ open' = open
          /\ Cardinality(open) < MaxOpenCallouts
      BY <1>2 DEF Examine, IdsInv
    <2>2. examined <= Cardinality(open)
      <3>1. CASE examined = MaxExamined
        <4>1. Behind(next, MaxCalloutId) \subseteq open
          BY <2>1, <3>1 DEF IdsInv, TypeInv, Behind, Turns, CalloutId, MaxExamined
        <4>2. MaxCalloutId <= Cardinality(open)
          BY <4>1, ExaminedAreOpen DEF IdsInv, TypeInv
        <4>3. QED
          BY <1>0, <2>1, <4>2
      <3>2. CASE examined # MaxExamined
        BY <2>1, <3>2, ExaminedAreOpen DEF IdsInv, TypeInv, MaxExamined
      <3>3. QED
        BY <3>1, <3>2
    <2>3. examined \in 0 .. MaxCalloutId - 1 /\ examined' = examined + 1
      BY <1>0, <1>2, <2>1, <2>2 DEF Examine, IdsInv, TypeInv, MaxExamined
    <2>4. next' \in CalloutId /\ next' = Successor(next)
      BY <1>2, SuccessorInRange DEF Examine, IdsInv, TypeInv
    <2>5. Behind(next', examined') = Behind(next, examined) \cup {next}
      BY <2>3, <2>4, BehindSuccessor DEF IdsInv, TypeInv
    <2>6. examined' <= Cardinality(open') + 1
      BY <1>0, <2>1, <2>2, <2>3
    <2>7. ~wrapped' => given' = {id \in CalloutId : id < next'}
      <3> SUFFICES ASSUME ~wrapped' PROVE given' = {id \in CalloutId : id < next'}
        OBVIOUS
      <3>1. ~wrapped /\ next # MaxCalloutId
        BY <1>2 DEF Examine, IdsInv, TypeInv
      <3>2. given = {id \in CalloutId : id < next} /\ next' = next + 1
        BY <3>1, <2>4 DEF IdsInv, Successor
      <3>3. IsFree(next)
        BY <3>2 DEF IsFree, IdsInv, TypeInv, CalloutId
      <3>4. given' = given \cup {next}
        BY <1>2, <3>3 DEF Examine
      <3>5. QED
        BY <3>2, <3>4 DEF IdsInv, TypeInv, CalloutId
    <2>8. /\ phase' \in {"reserve", "reserved"}
          /\ phase' = "reserve" => next \in open
          /\ phase' = "reserved" => candidate' \in given' /\ candidate' \notin open'
          /\ candidate' \in 0 .. MaxCalloutId
          /\ given' \subseteq CalloutId /\ open' \subseteq given'
      <3>1. next \in 0 .. MaxCalloutId
        BY DEF IdsInv, TypeInv, CalloutId
      <3>2. CASE IsFree(next)
        BY <1>2, <3>1, <3>2 DEF Examine, IsFree, IdsInv, TypeInv
      <3>3. CASE ~IsFree(next)
        BY <1>2, <3>3 DEF Examine, IsFree, IdsInv, TypeInv
      <3>4. QED
        BY <3>2, <3>3
    <2>9. wrapped' \in BOOLEAN
      BY <1>2 DEF Examine, IdsInv, TypeInv
    <2>10. TypeInv'
      <3>1. examined' \in 0 .. MaxExamined
        BY <2>3 DEF MaxExamined
      <3>2. /\ open' \subseteq CalloutId /\ IsFiniteSet(open')
            /\ phase' \in {"idle", "reserve", "reserved"}
        BY <2>1, <2>8, Zenon DEF IdsInv, TypeInv
      <3>3. QED
        BY <2>4, <2>8, <2>9, <3>1, <3>2, Zenon DEF TypeInv, CalloutId, MaxExamined
    <2>11. phase' = "reserve" => Behind(next', examined') \subseteq open'
      BY <2>1, <2>5, <2>8
    <2>12. QED
      BY <2>1, <2>6, <2>7, <2>8, <2>10, <2>11 DEF IdsInv
  <1>3. CASE EnterReserved
    <2>1. IsFiniteSet(open') /\ Cardinality(open') = Cardinality(open) + 1
      BY <1>3, FS_AddElement DEF EnterReserved, IdsInv, TypeInv
    <2>2. QED
      BY <1>0, <1>3, <2>1 DEF EnterReserved, IdsInv, TypeInv, CalloutId, MaxExamined
  <1>4. CASE RefuseReserved
    BY <1>0, <1>4 DEF RefuseReserved, IdsInv, TypeInv, MaxExamined
  <1>5. ASSUME NEW id \in CalloutId, RemoveOpen(id)
        PROVE  IdsInv'
    <2>1. IsFiniteSet(open') /\ Cardinality(open') = Cardinality(open) - 1
      BY <1>5, FS_RemoveElement DEF RemoveOpen, IdsInv, TypeInv
    <2>2. Cardinality(open') \in Nat
      BY <2>1, FS_CardinalityType
    <2>3. QED
      BY <1>0, <1>5, <2>1, <2>2 DEF RemoveOpen, IdsInv, TypeInv
  <1>6. CASE UNCHANGED vars
    BY <1>6 DEF vars, IdsInv, TypeInv
  <1>7. QED
    BY <1>1, <1>2, <1>3, <1>4, <1>5, <1>6 DEF Next

\* The invariant has the property.
LEMMA IdsInvSound == IdsInv => IdentifiersSound
    BY CalloutIdsAssumption DEF IdsInv, TypeInv, IdentifiersSound, Issued, CalloutId

\* Identifiers are sound (reserve, enter and issued of callout.rs): for every
\* width of the counter and every limit below it, `reserve' answers an
\* identifier that is not zero and not open, after at most one turn more than
\* there are open callouts, also when the counter wrapped; and until the wrap
\* `issued' is exact.
THEOREM CalloutIdentifiers == Spec => []IdentifiersSound
  <1>1. Spec => []IdsInv
    BY IdsInit, IdsNext, PTL DEF Spec
  <1>2. QED
    BY <1>1, IdsInvSound, PTL

-----------------------------------------------------------------------------
(***************************************************************************)
(* The deadline of a call is its own, for every period, CPU time, cap and  *)
(* lateness of the ticker.                                                 *)
(***************************************************************************)

\* The longest time between two ticks.
Gap == Period + MaxLate

EngineTypes ==
    /\ external \in BOOLEAN /\ held \in BOOLEAN
    /\ ticker \in {"none", "waiting", "ended"}
    /\ clock \in Nat /\ left \in 0 .. Budget /\ spent \in Nat
    /\ running \in {"nothing", "guest", "host", "allocator"}

\* Without external ticks the ticker waits until the engine is dropped.
TickerInv ==
    ~external => /\ held => ticker = "waiting"
                 /\ ticker \in {"waiting", "ended"}
                 /\ ticker = "waiting" => clock <= Gap

\* The ticks of a call against its time.  Its first tick may come at once, every
\* other a period after the one before; and none comes later than the longest
\* gap while the ticker's thread lives.  A call may wait in the host after its
\* last tick, and then the clock says nothing any more.
TicksInv ==
    (~external /\ running # "nothing") =>
        /\ 0 < left /\ left < Budget => spent >= (Budget - left - 1) * Period + clock
        /\ left = 0 => spent >= (Budget - 1) * Period
        /\ (ticker = "waiting" /\ 0 < left) => spent <= (Budget - left) * Gap + clock

\* What is left of a call that was stopped for its time.
StoppedInv ==
    (~external /\ result = "Epoch") =>
        running = "nothing" /\ spent >= (Budget - 1) * Period

EngineInv == EngineTypes /\ TickerInv /\ TicksInv /\ StoppedInv

-----------------------------------------------------------------------------
\* Budget::new answers at least one tick, as many as cover the CPU time, and
\* no more than the cap.
LEMMA BudgetCovers ==
    ASSUME EngineAssumption
    PROVE  /\ Budget \in Nat \ {0}
           /\ Budget * Period >= Least(CpuTime, MaxTicks * Period)
  <1> DEFINE q == (CpuTime + Period - 1) \div Period
  <1>1. Period \in Nat \ {0} /\ MaxTicks \in Nat \ {0} /\ CpuTime \in Nat
    BY DEF EngineAssumption
  <1>2. q \in Nat /\ q * Period >= CpuTime
    BY <1>1
  <1>3. Budget \in Nat \ {0} /\ (Budget = MaxTicks \/ Budget = q \/ q = 0)
    BY <1>1, <1>2 DEF Budget, Least, Most
  <1>4. CASE Budget = MaxTicks
    BY <1>1, <1>3, <1>4 DEF Least
  <1>5. CASE Budget = q
    BY <1>1, <1>2, <1>3, <1>5 DEF Least
  <1>6. CASE q = 0
    BY <1>1, <1>2, <1>3, <1>6 DEF Least
  <1>7. QED
    BY <1>3, <1>4, <1>5, <1>6

\* Products of naturals.
LEMMA OneMore ==
    ASSUME NEW k \in Nat, NEW p \in Nat
    PROVE  (k + 1) * p = k * p + p /\ k * p \in Nat
    OBVIOUS

LEMMA NoSmaller ==
    ASSUME NEW j \in Nat, NEW k \in Nat, NEW p \in Nat, j <= k
    PROVE  j * p <= k * p
    OBVIOUS

LEMMA NoSmallerFactor ==
    ASSUME NEW k \in Nat, NEW p \in Nat, NEW q \in Nat, p <= q
    PROVE  k * p <= k * q
    OBVIOUS

\* Linear bounds, for sums that hold products.
LEMMA SumBelow ==
    ASSUME NEW a \in Nat, NEW b \in Nat, NEW c \in Nat, NEW g \in Nat, NEW top \in Nat,
           a <= b, c <= g, b + g <= top
    PROVE  a + c <= top
    OBVIOUS

-----------------------------------------------------------------------------
LEMMA EngineInvInit == EngineAssumption /\ EngineInit => EngineInv
  <1> SUFFICES ASSUME EngineAssumption, EngineInit PROVE EngineInv
    OBVIOUS
  <1>1. Budget \in Nat /\ Gap \in Nat
    BY BudgetCovers DEF EngineAssumption, Gap
  <1>2. EngineTypes
    BY <1>1 DEF EngineInit, EngineTypes
  <1>3. TickerInv /\ TicksInv /\ StoppedInv
    BY <1>1 DEF EngineInit, TickerInv, TicksInv, StoppedInv
  <1>4. QED
    BY <1>2, <1>3 DEF EngineInv

\* The tick counts against the call that runs.
LEMMA TickKeepsInv ==
    ASSUME EngineAssumption, EngineInv, clock >= Period, IncrementEpoch, UNCHANGED ticker
    PROVE  EngineInv'
  <1>1. /\ Budget \in Nat \ {0} /\ Period \in Nat /\ Gap \in Nat
        /\ left \in 0 .. Budget /\ spent \in Nat /\ clock \in Nat
    BY BudgetCovers DEF EngineAssumption, EngineInv, EngineTypes, Gap
  <1>2. /\ clock' = 0 /\ left' = IF left = 0 THEN 0 ELSE left - 1
        /\ UNCHANGED <<external, held, ticker, running, spent, result>>
    BY <1>1 DEF IncrementEpoch, Most
  <1>3. EngineTypes'
    BY <1>1, <1>2 DEF EngineInv, EngineTypes
  <1>4. TickerInv'
    BY <1>1, <1>2 DEF EngineInv, TickerInv
  <1>5. TicksInv'
    <2> SUFFICES ASSUME ~external', running' # "nothing"
                 PROVE  /\ 0 < left' /\ left' < Budget =>
                              spent' >= (Budget - left' - 1) * Period + clock'
                        /\ left' = 0 => spent' >= (Budget - 1) * Period
                        /\ (ticker' = "waiting" /\ 0 < left') =>
                              spent' <= (Budget - left') * Gap + clock'
      BY DEF TicksInv
    <2>1. /\ 0 < left /\ left < Budget => spent >= (Budget - left - 1) * Period + clock
          /\ left = 0 => spent >= (Budget - 1) * Period
          /\ (ticker = "waiting" /\ 0 < left) => spent <= (Budget - left) * Gap + clock
          /\ ticker = "waiting" => clock <= Gap
      BY <1>2 DEF EngineInv, TicksInv, TickerInv
    <2>2. CASE left = 0
      BY <1>1, <1>2, <2>1, <2>2
    <2>3. CASE left > 0
      <3>1. left' = left - 1 /\ Budget - left \in Nat
        BY <1>1, <1>2, <2>3
      <3>2. (Budget - left + 1) * Gap = (Budget - left) * Gap + Gap
        BY <1>1, <3>1, OneMore
      <3>3. spent >= (Budget - left) * Period
        <4>1. CASE left = Budget
          BY <1>1, <4>1
        <4>2. CASE left # Budget
          <5>1. Budget - left - 1 \in Nat
            BY <1>1, <4>2
          <5>2. (Budget - left - 1 + 1) * Period = (Budget - left - 1) * Period + Period
            BY <1>1, <5>1, OneMore
          <5>3. Budget - left - 1 + 1 = Budget - left
            BY <1>1
          <5>4. spent >= (Budget - left - 1) * Period + Period
            BY <1>1, <2>1, <2>3, <4>2, <5>1, OneMore
          <5>5. QED
            BY <5>2, <5>3, <5>4
        <4>3. QED
          BY <4>1, <4>2
      <3>4. 0 < left' => (Budget - left' - 1) * Period + clock' = (Budget - left) * Period
        <4>1. Budget - left' - 1 = Budget - left
          BY <1>1, <3>1
        <4>2. QED
          BY <1>1, <1>2, <3>1, <4>1, OneMore
      <3>5. left' = 0 => (Budget - 1) * Period = (Budget - left) * Period
        BY <1>1, <3>1
      <3>6. (Budget - left') * Gap = (Budget - left) * Gap + Gap
        <4>1. Budget - left' = Budget - left + 1
          BY <1>1, <3>1
        <4>2. QED
          BY <3>2, <4>1
      <3>7. (ticker = "waiting") => spent <= (Budget - left) * Gap + Gap
        BY <1>1, <2>1, <2>3, <3>1, OneMore
      <3>8. (Budget - left) * Gap + Gap \in Nat
        BY <1>1, <3>1, OneMore
      <3>9. QED
        BY <1>1, <1>2, <3>3, <3>4, <3>5, <3>6, <3>7, <3>8
    <2>4. QED
      BY <1>1, <2>2, <2>3
  <1>6. StoppedInv'
    BY <1>2 DEF EngineInv, StoppedInv
  <1>7. QED
    BY <1>3, <1>4, <1>5, <1>6 DEF EngineInv

\* Time that passes counts once for the call and once for the clock.
LEMMA TimeKeepsInv ==
    ASSUME EngineAssumption, EngineInv, TimePasses
    PROVE  EngineInv'
  <1>1. /\ Budget \in Nat \ {0} /\ Period \in Nat /\ Gap \in Nat /\ Period <= Gap
        /\ left \in 0 .. Budget /\ spent \in Nat /\ clock \in Nat
        /\ Longest = Budget * Gap /\ Longest \in Nat
    BY BudgetCovers, OneMore DEF EngineAssumption, EngineInv, EngineTypes, Gap, Longest
  <1>2. /\ clock' \in Nat /\ clock' <= Gap /\ clock' <= clock + 1
        /\ ticker = "waiting" => clock < Gap /\ clock' = clock + 1
        /\ running # "nothing" =>
              spent' \in Nat /\ (spent' = spent + 1 \/ spent' = Longest + 1) /\ spent' <= spent + 1
        /\ running = "nothing" => spent' = spent
        /\ UNCHANGED <<external, held, ticker, running, left, result>>
    BY <1>1 DEF TimePasses, Least, Gap
  <1>3. EngineTypes'
    BY <1>1, <1>2 DEF EngineInv, EngineTypes
  <1>4. TickerInv'
    BY <1>1, <1>2 DEF EngineInv, TickerInv
  <1>5. TicksInv'
    <2> SUFFICES ASSUME ~external', running' # "nothing"
                 PROVE  /\ 0 < left' /\ left' < Budget =>
                              spent' >= (Budget - left' - 1) * Period + clock'
                        /\ left' = 0 => spent' >= (Budget - 1) * Period
                        /\ (ticker' = "waiting" /\ 0 < left') =>
                              spent' <= (Budget - left') * Gap + clock'
      BY DEF TicksInv
    <2>1. /\ 0 < left /\ left < Budget => spent >= (Budget - left - 1) * Period + clock
          /\ left = 0 => spent >= (Budget - 1) * Period
          /\ (ticker = "waiting" /\ 0 < left) => spent <= (Budget - left) * Gap + clock
      BY <1>2 DEF EngineInv, TicksInv
    <2>2. ASSUME 0 < left, left < Budget
          PROVE  spent' >= (Budget - left - 1) * Period + clock'
      <3>1. Budget - left - 1 \in Nat /\ Budget - left \in Nat
        BY <1>1, <2>2
      <3>2. (Budget - left - 1) * Period <= (Budget - left - 1) * Gap
        BY <1>1, <3>1, NoSmallerFactor
      <3>3. (Budget - left - 1 + 1) * Gap = (Budget - left - 1) * Gap + Gap
        BY <1>1, <3>1, OneMore
      <3>4. Budget - left - 1 + 1 = Budget - left
        BY <1>1
      <3>5. (Budget - left) * Gap <= Longest
        BY <1>1, <3>1, NoSmaller
      <3>6. (Budget - left - 1) * Period \in Nat /\ (Budget - left - 1) * Gap \in Nat
        BY <1>1, <3>1, OneMore
      <3>7. spent >= (Budget - left - 1) * Period + clock /\ running # "nothing"
        BY <1>2, <2>1, <2>2
      <3> DEFINE low == (Budget - left - 1) * Period
                 high == (Budget - left - 1) * Gap
                 top == (Budget - left) * Gap
      <3>8. /\ low \in Nat /\ high \in Nat /\ low <= high
            /\ top = high + Gap /\ top <= Longest /\ spent >= low + clock
        BY <3>2, <3>3, <3>4, <3>5, <3>6, <3>7
      <3> HIDE DEF low, high, top
      <3>9. Longest \in Nat /\ Gap \in Nat /\ clock' \in Nat /\ clock' <= Gap
        BY <1>1, <1>2
      <3>10. low + clock' <= Longest
        BY <3>8, <3>9, SumBelow
      <3>11. spent' >= low + clock'
        BY <1>1, <1>2, <3>7, <3>8, <3>10
      <3>12. QED
        BY <3>11 DEF low
    <2>3. ASSUME left = 0
          PROVE  spent' >= (Budget - 1) * Period
      <3>1. Budget - 1 \in Nat
        BY <1>1
      <3>2. (Budget - 1) * Period <= (Budget - 1) * Gap /\ (Budget - 1) * Gap <= Longest
        BY <1>1, <3>1, NoSmallerFactor, NoSmaller
      <3>3. (Budget - 1) * Period \in Nat /\ (Budget - 1) * Gap \in Nat
        BY <1>1, <3>1, OneMore
      <3>4. QED
        BY <1>1, <1>2, <2>1, <2>3, <3>2, <3>3
    <2>4. ASSUME ticker = "waiting", 0 < left
          PROVE  spent' <= (Budget - left) * Gap + clock'
      <3>1. (Budget - left) * Gap \in Nat
        BY <1>1, OneMore
      <3>2. QED
        BY <1>1, <1>2, <2>1, <2>4, <3>1
    <2>5. QED
      BY <1>2, <2>2, <2>3, <2>4
  <1>6. StoppedInv'
    BY <1>2 DEF EngineInv, StoppedInv
  <1>7. QED
    BY <1>3, <1>4, <1>5, <1>6 DEF EngineInv

\* A step that leaves the clock, the ticks and the time of the call alone.
LEMMA CallKeepsInv ==
    ASSUME EngineAssumption, EngineInv, UNCHANGED <<external, held, ticker, clock, left, spent>>,
           running # "nothing",
           running' \in {"nothing", "guest", "host", "allocator"},
           \/ result' = result
           \/ result' = "Epoch" /\ running' = "nothing" /\ left = 0
           \/ result' # "Epoch"
    PROVE  EngineInv'
  <1>1. EngineTypes'
    BY DEF EngineInv, EngineTypes
  <1>2. TickerInv'
    BY DEF EngineInv, TickerInv
  <1>3. TicksInv'
    BY DEF EngineInv, TicksInv
  <1>4. StoppedInv'
    BY DEF EngineInv, StoppedInv, TicksInv
  <1>5. QED
    BY <1>1, <1>2, <1>3, <1>4 DEF EngineInv

LEMMA EngineInvNext == EngineAssumption /\ EngineInv /\ [EngineNext]_engineVars => EngineInv'
  <1> SUFFICES ASSUME EngineAssumption, EngineInv, [EngineNext]_engineVars PROVE EngineInv'
    OBVIOUS
  <1>0. Budget \in Nat \ {0} /\ Period \in Nat /\ Gap \in Nat
    BY BudgetCovers DEF EngineAssumption, Gap
  <1>1. CASE TimePasses
    BY <1>1, TimeKeepsInv
  <1>2. CASE Tick
    BY <1>2, TickKeepsInv DEF Tick
  <1>3. CASE ExternalTick
    BY <1>3, TickKeepsInv DEF ExternalTick
  <1>4. CASE DropEngine
    BY <1>4 DEF DropEngine, EngineInv, EngineTypes, TickerInv, TicksInv, StoppedInv
  <1>5. CASE TickerEnds
    BY <1>5 DEF TickerEnds, EngineInv, EngineTypes, TickerInv, TicksInv, StoppedInv
  <1>6. CASE CallOn
    <2>1. CASE poisoned
      BY <1>6, <2>1 DEF CallOn, EngineInv, EngineTypes, TickerInv, TicksInv, StoppedInv
    <2>2. CASE ~poisoned
      <3>1. /\ left' = Budget /\ spent' = 0 /\ running' = "guest" /\ result' = "None"
            /\ UNCHANGED <<external, held, ticker, clock>>
        BY <1>6, <2>2 DEF CallOn, Refill
      <3>2. EngineTypes'
        BY <1>0, <3>1 DEF EngineInv, EngineTypes
      <3>3. TicksInv'
        BY <1>0, <3>1, <3>2 DEF EngineTypes, TicksInv
      <3>4. QED
        BY <3>1, <3>2, <3>3 DEF EngineInv, TickerInv, StoppedInv
    <2>3. QED
      BY <2>1, <2>2
  <1>7. CASE Burn
    BY <1>7, CallKeepsInv DEF Burn, GuestCode
  <1>8. CASE HostFunction
    BY <1>8, CallKeepsInv DEF HostFunction
  <1>9. CASE HostReturns
    BY <1>9, CallKeepsInv DEF HostReturns
  <1>10. CASE Allocate
    BY <1>10, CallKeepsInv DEF Allocate
  <1>11. CASE AllocatorReturns
    BY <1>11, CallKeepsInv DEF AllocatorReturns
  <1>12. CASE Return
    BY <1>12, CallKeepsInv DEF Return
  <1>13. CASE Interrupt
    BY <1>13, CallKeepsInv DEF Interrupt, Fail, MapGuestError, GuestCode
  <1>14. CASE OutOfFuel
    BY <1>14, CallKeepsInv DEF OutOfFuel, Fail, MapGuestError, GuestCode
  <1>15. CASE OtherTrap
    BY <1>15, CallKeepsInv DEF OtherTrap, Fail, MapGuestError, GuestCode
  <1>16. CASE UNCHANGED engineVars
    BY <1>16 DEF engineVars, EngineInv, EngineTypes, TickerInv, TicksInv, StoppedInv
  <1>17. QED
    BY <1>1, <1>2, <1>3, <1>4, <1>5, <1>6, <1>7, <1>8, <1>9, <1>10, <1>11, <1>12, <1>13,
       <1>14, <1>15, <1>16 DEF EngineNext

\* The invariant has the property: the ticks of a budget cover the CPU time but
\* for the part of a period before the first of them.
LEMMA EngineInvKeepsCpuTime == EngineAssumption /\ EngineInv => CpuTimeKept
  <1> SUFFICES ASSUME EngineAssumption, EngineInv, ~external
               PROVE  /\ result = "Epoch" => spent >= Least(CpuTime, MaxTicks * Period) - Period
                      /\ (held /\ running \in GuestCode /\ spent > Longest) => left = 0
    BY DEF CpuTimeKept
  <1>1. /\ Budget \in Nat \ {0} /\ Period \in Nat /\ Gap \in Nat
        /\ left \in 0 .. Budget /\ spent \in Nat /\ clock \in Nat
    BY BudgetCovers DEF EngineAssumption, EngineInv, EngineTypes, Gap
  <1>2. ASSUME result = "Epoch"
        PROVE  spent >= Least(CpuTime, MaxTicks * Period) - Period
    <2>1. spent >= (Budget - 1) * Period
      BY <1>2 DEF EngineInv, StoppedInv
    <2>2. (Budget - 1 + 1) * Period = (Budget - 1) * Period + Period /\ Budget - 1 + 1 = Budget
      BY <1>1, OneMore
    <2>3. Budget * Period >= Least(CpuTime, MaxTicks * Period)
      BY BudgetCovers
    <2>4. /\ (Budget - 1) * Period \in Nat /\ Budget * Period \in Nat
          /\ Least(CpuTime, MaxTicks * Period) \in Nat
      BY <1>1, OneMore DEF Least, EngineAssumption
    <2>5. QED
      BY <1>1, <2>1, <2>2, <2>3, <2>4
  <1>3. ASSUME held, running \in GuestCode, spent > Longest
        PROVE  left = 0
    <2> SUFFICES ASSUME 0 < left PROVE FALSE
      BY <1>1
    <2>1. spent <= (Budget - left) * Gap + Gap
      <3>1. spent <= (Budget - left) * Gap + clock /\ clock <= Gap
        BY <1>3 DEF EngineInv, TickerInv, TicksInv, GuestCode
      <3>2. (Budget - left) * Gap \in Nat
        BY <1>1, OneMore
      <3>3. QED
        BY <1>1, <3>1, <3>2
    <2>2. (Budget - left + 1) * Gap = (Budget - left) * Gap + Gap
      BY <1>1, OneMore
    <2>3. (Budget - left + 1) * Gap <= Budget * Gap
      BY <1>1, NoSmaller
    <2>4. Longest = Budget * Gap /\ Longest \in Nat /\ (Budget - left) * Gap \in Nat
      BY <1>1, OneMore DEF Longest, Gap
    <2>5. QED
      BY <1>1, <1>3, <2>1, <2>2, <2>3, <2>4
  <1>4. QED
    BY <1>2, <1>3

\* The deadline is the call's own (Budget::new and refill of guest_call.rs, the
\* ticker of engine.rs, allocate of alloc.rs): for every period, CPU time, cap
\* and lateness of the ticker, a call that ends for its CPU time ran for it but
\* for one period, and a guest that ran for all its ticks is at its deadline,
\* however often its allocator was called.
THEOREM CpuTimeHolds == EngineSpec => []CpuTimeKept
  <1>1. EngineInit => EngineInv
    BY EngineAssumption, EngineInvInit
  <1>2. EngineInv /\ [EngineNext]_engineVars => EngineInv'
    BY EngineAssumption, EngineInvNext
  <1>3. EngineInv => CpuTimeKept
    BY EngineAssumption, EngineInvKeepsCpuTime
  <1>4. QED
    BY <1>1, <1>2, <1>3, PTL DEF EngineSpec

-----------------------------------------------------------------------------
(***************************************************************************)
(* The construction of a guest: at each stage, what is set up and what of  *)
(* the guest's code ran.                                                   *)
(***************************************************************************)
Stages ==
    {"spec", "detect", "limits", "instantiate", "memory", "allocator", "start", "main",
     "_start", "callbacks", "end"}
PastDetect == Stages \ {"spec", "detect", "end"}
PastLimits == PastDetect \ {"limits"}
PastLinking == PastLimits \ {"instantiate"}

\* The whole start sequence of a module whose exports have the right types.
WholeStart(starters) ==
    IF starters["_initialize"] = "absent"
    THEN IF starters["_start"] = "absent" THEN <<>> ELSE <<"_start">>
    ELSE IF starters["main"] = "absent" THEN <<"_initialize">> ELSE <<"_initialize", "main">>

\* The guest's functions that the construction runs.
GuestFunction == Starter \cup {"section"}

BuildTypes ==
    /\ module \in Modules /\ stage \in Stages
    /\ state \in [limits : BOOLEAN, memory : BOOLEAN, allocator : BOOLEAN, poisoned : BOOLEAN]
    /\ ran \in Seq(GuestFunction)

\* What runs has its version, its budget and its engine; a start function has the
\* memory and the allocator too.  This outlives a construction that fails.
CodeFinds ==
    /\ ran # <<>> => /\ refilled /\ state.limits /\ limits.metered = limits.fuel
                     /\ module.sameEngine /\ abi # "None"
    /\ StartCode(ran) \in {<<>>, <<"_initialize">>, <<"_initialize", "main">>, <<"_start">>}
    /\ StartCode(ran) # <<>> => state.memory /\ state.allocator

StageInv ==
    /\ stage # "end" => ~state.poisoned /\ outcome = "None"
    /\ stage \in {"spec", "detect", "limits", "instantiate"} => ran = <<>>
    /\ stage \in PastDetect => abi = Detect(module.abis) /\ abi # "None"
    /\ stage \in PastLimits => refilled /\ state.limits /\ limits.metered = limits.fuel
    /\ stage \in PastLinking => module.sameEngine
    /\ stage \in {"memory", "allocator", "start", "_start"} => StartCode(ran) = <<>>
    /\ stage \in {"allocator", "start", "main", "_start", "callbacks"} => state.memory
    /\ stage \in {"start", "main", "_start", "callbacks"} => state.allocator
    /\ stage = "main" =>
         StartCode(ran) = <<"_initialize">> /\ module.starters["_initialize"] = "typed"
    /\ stage = "_start" => module.starters["_initialize"] = "absent"
    /\ stage = "callbacks" => StartCode(ran) = WholeStart(module.starters)

BuiltInv ==
    outcome = "Built" =>
        /\ ~state.poisoned
        /\ abi = Detect(module.abis)
        /\ StartCode(ran) = WholeStart(module.starters)
        /\ \A c \in Callbacks : module.callbacks[c] # "mistyped"

BuildInv == BuildTypes /\ CodeFinds /\ StageInv /\ BuiltInv

\* A function that runs is the last of the start sequence, unless it is the start
\* section of the module.
LEMMA StartCodeAppend ==
    ASSUME NEW s \in Seq(GuestFunction), NEW f \in GuestFunction, f # "section"
    PROVE  StartCode(Append(s, f)) = Append(StartCode(s), f)
  <1>1. CASE s = <<>>
    BY <1>1 DEF StartCode
  <1>2. CASE s # <<>>
    <2>1. Append(s, f) # <<>> /\ Append(s, f)[1] = s[1]
      BY <1>2
    <2>2. CASE s[1] = "section"
      <3>1. StartCode(Append(s, f)) = Tail(Append(s, f)) /\ StartCode(s) = Tail(s)
        BY <1>2, <2>1, <2>2 DEF StartCode
      <3>2. Tail(Append(s, f)) = Append(Tail(s), f)
        BY <1>2
      <3>3. QED
        BY <3>1, <3>2
    <2>3. CASE s[1] # "section"
      BY <1>2, <2>1, <2>3 DEF StartCode
    <2>4. QED
      BY <2>2, <2>3
  <1>3. QED
    BY <1>1, <1>2

LEMMA StartCodeBegins ==
    /\ StartCode(<<>>) = <<>>
    /\ StartCode(Append(<<>>, "section")) = <<>>
    /\ Append(<<>>, "_initialize") = <<"_initialize">>
    /\ Append(<<>>, "_start") = <<"_start">>
    /\ Append(<<"_initialize">>, "main") = <<"_initialize", "main">>
  <1>1. StartCode(<<>>) = <<>>
    BY DEF StartCode
  <1>2. Append(<<>>, "section") = <<"section">>
    OBVIOUS
  <1>3. Tail(<<"section">>) = <<>>
    OBVIOUS
  <1>4. StartCode(<<"section">>) = <<>>
    BY <1>3 DEF StartCode
  <1>5. Append(<<"_initialize">>, "main") = <<"_initialize", "main">>
    <2> DEFINE a == Append(<<"_initialize">>, "main")
               b == <<"_initialize", "main">>
    <2>1. a \in Seq(GuestFunction) /\ b \in Seq(GuestFunction)
      BY DEF GuestFunction, Starter
    <2>2. Len(a) = 2 /\ Len(b) = 2
      OBVIOUS
    <2>3. a[1] = "_initialize" /\ b[1] = "_initialize" /\ a[2] = "main" /\ b[2] = "main"
      OBVIOUS
    <2>4. \A i \in 1 .. 2 : i = 1 \/ i = 2
      OBVIOUS
    <2> HIDE DEF a, b
    <2>5. \A i \in 1 .. Len(a) : a[i] = b[i]
      BY <2>2, <2>3, <2>4
    <2>6. a = b
      BY <2>1, <2>2, <2>5, SeqEqual
    <2>7. QED
      BY <2>6 DEF a, b
  <1>6. QED
    BY <1>1, <1>2, <1>4, <1>5

LEMMA DetectIs ==
    ASSUME NEW abis
    PROVE  "0.2.1" \in abis => Detect(abis) = "0.2.1"
  BY DEF Detect

LEMMA BuildInvInit == BuildInit => BuildInv
  <1> SUFFICES ASSUME BuildInit PROVE BuildInv
    OBVIOUS
  <1>1. BuildTypes
    <2>1. ran \in Seq(GuestFunction)
      BY DEF BuildInit
    <2>2. state \in [limits : BOOLEAN, memory : BOOLEAN, allocator : BOOLEAN, poisoned : BOOLEAN]
      BY DEF BuildInit, HostStateNew
    <2>3. QED
      BY <2>1, <2>2 DEF BuildInit, BuildTypes, Stages
  <1>2. CodeFinds
    BY StartCodeBegins DEF BuildInit, CodeFinds
  <1>3. StageInv
    BY DEF BuildInit, StageInv, HostStateNew, PastDetect, PastLimits, PastLinking
  <1>4. BuiltInv
    BY DEF BuildInit, BuiltInv
  <1>5. QED
    BY <1>1, <1>2, <1>3, <1>4 DEF BuildInv

\* A construction that fails keeps what its stage had.
LEMMA EndsKeeps ==
    ASSUME BuildInv, NEW error, Ends(error), error # "Built"
    PROVE  BuildInv'
  <1>1. BuildTypes'
    BY DEF BuildInv, Ends, BuildTypes, Stages
  <1>2. CodeFinds'
    BY DEF BuildInv, Ends, CodeFinds, StartCode
  <1>3. StageInv' /\ BuiltInv'
    BY DEF Ends, StageInv, BuiltInv, PastDetect, PastLimits, PastLinking, Stages
  <1>4. QED
    BY <1>1, <1>2, <1>3 DEF BuildInv

\* A stage that runs nothing and sets nothing up.
LEMMA SkipsKeeps ==
    ASSUME BuildInv, NEW then \in {"_start", "callbacks"}, Skips(then), ~(stage = "end"),
           stage \in {"start", "main", "_start"},
           then = "_start" => stage = "start" /\ module.starters["_initialize"] = "absent",
           then = "callbacks" => StartCode(ran) = WholeStart(module.starters)
    PROVE  BuildInv'
  <1>1. BuildTypes'
    BY DEF BuildInv, Skips, BuildTypes, Stages
  <1>2. CodeFinds'
    BY DEF BuildInv, Skips, CodeFinds, StartCode
  <1>3. StageInv'
    BY DEF BuildInv, Skips, StageInv, PastDetect, PastLimits, PastLinking, Stages, StartCode
  <1>4. BuiltInv'
    BY DEF BuildInv, Skips, StageInv, BuiltInv
  <1>5. QED
    BY <1>1, <1>2, <1>3, <1>4 DEF BuildInv

\* A start function runs with everything in its place, and is the next one.
LEMMA RunsKeeps ==
    ASSUME BuildInv, NEW name \in Starter, NEW then \in {"main", "callbacks"}, Runs(name, then),
           stage \in {"start", "main", "_start"},
           Append(StartCode(ran), name) \in
               {<<"_initialize">>, <<"_initialize", "main">>, <<"_start">>},
           then = "main" => /\ Append(StartCode(ran), name) = <<"_initialize">>
                            /\ module.starters["_initialize"] = "typed",
           then = "callbacks" => Append(StartCode(ran), name) = WholeStart(module.starters)
    PROVE  BuildInv'
  <1>1. /\ name \in GuestFunction /\ name # "section" /\ ran \in Seq(GuestFunction)
        /\ state \in [limits : BOOLEAN, memory : BOOLEAN, allocator : BOOLEAN, poisoned : BOOLEAN]
        /\ outcome = "None"
    BY DEF BuildInv, BuildTypes, StageInv, GuestFunction, Starter
  <1>2. ran' = Append(ran, name) /\ ran' \in Seq(GuestFunction) /\ ran' # <<>>
    BY <1>1 DEF Runs
  <1>3. StartCode(ran)' = Append(StartCode(ran), name)
    <2>1. StartCode(ran') = Append(StartCode(ran), name)
      BY <1>1, <1>2, StartCodeAppend
    <2>2. QED
      BY <2>1
  <1>4. /\ UNCHANGED <<module, limits, refilled, abi>>
        /\ state'.limits = state.limits /\ state'.memory = state.memory
        /\ state'.allocator = state.allocator
        /\ state' \in [limits : BOOLEAN, memory : BOOLEAN, allocator : BOOLEAN, poisoned : BOOLEAN]
        /\ \/ stage' = then /\ UNCHANGED <<outcome, state>>
           \/ stage' = "end" /\ outcome' = "Trap"
    BY <1>1 DEF Runs
  <1>5. BuildTypes'
    BY <1>2, <1>4 DEF BuildInv, BuildTypes, Stages
  <1>6. /\ refilled /\ state.limits /\ limits.metered = limits.fuel
        /\ module.sameEngine /\ abi = Detect(module.abis) /\ abi # "None"
        /\ state.memory /\ state.allocator /\ ~state.poisoned
    BY DEF BuildInv, StageInv, PastDetect, PastLimits, PastLinking, Stages
  <1>7. CodeFinds'
    BY <1>3, <1>4, <1>6 DEF CodeFinds
  <1>8. StageInv'
    <2> USE DEF StageInv, PastDetect, PastLimits, PastLinking, Stages
    <2>1. CASE stage' = "end"
      BY <2>1
    <2>2. CASE stage' = "main" /\ UNCHANGED <<outcome, state>>
      BY <1>1, <1>3, <1>4, <1>6, <2>2
    <2>3. CASE stage' = "callbacks" /\ UNCHANGED <<outcome, state>>
      BY <1>1, <1>3, <1>4, <1>6, <2>3
    <2>4. QED
      BY <1>4, <2>1, <2>2, <2>3
  <1>9. BuiltInv'
    BY <1>1, <1>4 DEF BuiltInv
  <1>10. QED
    BY <1>5, <1>7, <1>8, <1>9 DEF BuildInv

\* What the stages before the start sequence set up.
LEMMA SetupKeeps ==
    ASSUME BuildInv,
           \/ GuestSpecNew \/ GuestNewAlone \/ DetectAbi \/ CheckLimits \/ Instantiate
           \/ SetMemory \/ SetAllocator
    PROVE  BuildInv'
  <1> USE DEF Stages, PastDetect, PastLimits, PastLinking
  <1>0. /\ ran \in Seq(GuestFunction) /\ module \in Modules
        /\ state \in [limits : BOOLEAN, memory : BOOLEAN, allocator : BOOLEAN, poisoned : BOOLEAN]
    BY DEF BuildInv, BuildTypes
  <1>1. ASSUME stage # "end", stage' \in Stages \ {"end", "main", "_start", "callbacks"},
               UNCHANGED <<module, ran, outcome>>,
               state' \in [limits : BOOLEAN, memory : BOOLEAN, allocator : BOOLEAN,
                           poisoned : BOOLEAN],
               StageInv', CodeFinds'
        PROVE  BuildInv'
    <2>1. BuildTypes'
      BY <1>0, <1>1 DEF BuildTypes
    <2>2. BuiltInv'
      BY <1>1 DEF BuildInv, StageInv, BuiltInv
    <2>3. QED
      BY <1>1, <2>1, <2>2 DEF BuildInv
  <1>2. CASE stage \in {"spec", "detect"} /\ stage' = "detect"
             /\ UNCHANGED <<module, limits, refilled, state, ran, abi, outcome>>
    <2>1. StageInv' /\ CodeFinds'
      BY <1>2 DEF BuildInv, StageInv, CodeFinds, StartCode
    <2>2. QED
      BY <1>0, <1>1, <1>2, <2>1
  <1>3. CASE GuestSpecNew
    BY <1>2, <1>3, EndsKeeps DEF GuestSpecNew
  <1>4. CASE GuestNewAlone
    BY <1>2, <1>4 DEF GuestNewAlone
  <1>5. CASE DetectAbi
    <2>1. CASE Detect(module.abis) = "None"
      BY <1>5, <2>1, EndsKeeps DEF DetectAbi
    <2>2. CASE Detect(module.abis) # "None"
      <3>1. StageInv' /\ CodeFinds'
        BY <1>5, <2>2, StartCodeBegins DEF DetectAbi, BuildInv, StageInv, CodeFinds
      <3>2. QED
        BY <1>0, <1>1, <1>5, <2>2, <3>1 DEF DetectAbi
    <2>3. QED
      BY <2>1, <2>2
  <1>6. CASE CheckLimits
    <2>1. CASE limits.metered # limits.fuel
      BY <1>6, <2>1, EndsKeeps DEF CheckLimits
    <2>2. CASE limits.metered = limits.fuel
      <3>1. StageInv' /\ CodeFinds'
        BY <1>0, <1>6, <2>2, StartCodeBegins DEF CheckLimits, BuildInv, StageInv, CodeFinds
      <3>2. QED
        BY <1>0, <1>1, <1>6, <2>2, <3>1 DEF CheckLimits
    <2>3. QED
      BY <2>1, <2>2
  <1>7. CASE Instantiate
    <2>0. /\ ran = <<>> /\ stage = "instantiate" /\ outcome = "None" /\ ~state.poisoned
          /\ refilled /\ state.limits /\ limits.metered = limits.fuel
          /\ abi = Detect(module.abis) /\ abi # "None"
      BY <1>7 DEF Instantiate, BuildInv, StageInv
    <2>1. CASE Ends("Instantiate")
      BY <2>1, EndsKeeps
    <2>2. CASE /\ module.sameEngine
               /\ ran' = Append(ran, "section")
               /\ \/ stage' = "end" /\ outcome' = "Instantiate"
                  \/ stage' = "memory" /\ UNCHANGED outcome
               /\ UNCHANGED <<module, limits, refilled, state, abi>>
      <3>1. ran' = Append(<<>>, "section") /\ ran' \in Seq(GuestFunction)
        BY <2>0, <2>2, <1>0 DEF GuestFunction
      <3>2. StartCode(ran)' = <<>>
        BY <3>1, StartCodeBegins
      <3>3. StageInv'
        BY <2>0, <2>2, <3>2 DEF StageInv
      <3>4. CodeFinds'
        BY <2>0, <2>2, <3>2 DEF CodeFinds
      <3>5. BuildTypes' /\ BuiltInv'
        BY <1>0, <2>0, <2>2, <3>1 DEF BuildTypes, BuiltInv
      <3>6. QED
        BY <3>3, <3>4, <3>5 DEF BuildInv
    <2>3. CASE /\ module.sameEngine
               /\ stage' = "memory"
               /\ UNCHANGED <<module, limits, refilled, state, ran, abi, outcome>>
      <3>1. StageInv' /\ CodeFinds'
        BY <2>0, <2>3, StartCodeBegins DEF BuildInv, StageInv, CodeFinds
      <3>2. QED
        BY <1>0, <1>1, <2>0, <2>3, <3>1
    <2>4. QED
      BY <1>7, <2>1, <2>2, <2>3 DEF Instantiate
  <1>8. CASE SetMemory
    <2>1. CASE Ends("MissingMemory")
      BY <2>1, EndsKeeps
    <2>2. CASE ~Ends("MissingMemory")
      <3>1. StageInv' /\ CodeFinds'
        BY <1>0, <1>8, <2>2 DEF SetMemory, BuildInv, StageInv, CodeFinds, StartCode
      <3>2. QED
        BY <1>0, <1>1, <1>8, <2>2, <3>1 DEF SetMemory
    <2>3. QED
      BY <2>1, <2>2
  <1>9. CASE SetAllocator
    <2>1. CASE FindAllocator(module.allocators) = <<>>
      BY <1>9, <2>1, EndsKeeps DEF SetAllocator
    <2>2. CASE FindAllocator(module.allocators) # <<>>
      <3>1. StageInv' /\ CodeFinds'
        BY <1>0, <1>9, <2>2 DEF SetAllocator, BuildInv, StageInv, CodeFinds, StartCode
      <3>2. QED
        BY <1>0, <1>1, <1>9, <2>2, <3>1 DEF SetAllocator
    <2>3. QED
      BY <2>1, <2>2
  <1>10. QED
    BY <1>3, <1>4, <1>5, <1>6, <1>7, <1>8, <1>9

LEMMA BuildInvNext == BuildInv /\ [BuildNext]_buildVars => BuildInv'
  <1> SUFFICES ASSUME BuildInv, [BuildNext]_buildVars PROVE BuildInv'
    OBVIOUS
  <1>0. module \in Modules /\ stage \in Stages
    BY DEF BuildInv, BuildTypes
  <1>1. CASE \/ GuestSpecNew \/ GuestNewAlone \/ DetectAbi \/ CheckLimits \/ Instantiate
             \/ SetMemory \/ SetAllocator
    BY <1>1, SetupKeeps
  <1>2. ASSUME NEW name \in Starter
        PROVE  /\ module.starters[name] \in Typing
               /\ TypedFunc(module.starters[name]) = "Some" <=> module.starters[name] = "typed"
               /\ TypedFunc(module.starters[name]) = "None" <=> module.starters[name] = "absent"
    <2>1. module.starters[name] \in Typing
      BY <1>0 DEF Modules
    <2>2. QED
      BY <2>1 DEF Typing, TypedFunc
  <1>3. CASE Start
    <2>0. StartCode(ran) = <<>> /\ stage = "start" /\ "_initialize" \in Starter
      BY <1>3 DEF Start, BuildInv, StageInv, Starter
    <2>1. CASE TypedFunc(module.starters["_initialize"]) = "Some" /\ Runs("_initialize", "main")
      BY <1>2, <2>0, <2>1, RunsKeeps, StartCodeBegins
    <2>2. CASE TypedFunc(module.starters["_initialize"]) = "None" /\ Skips("_start")
      BY <1>2, <2>0, <2>2, SkipsKeeps
    <2>3. CASE Ends("ExportTypeMismatch")
      BY <2>3, EndsKeeps
    <2>4. QED
      BY <1>3, <2>1, <2>2, <2>3 DEF Start
  <1>4. CASE StartNamed("main")
    <2>0. /\ StartCode(ran) = <<"_initialize">> /\ stage = "main" /\ "main" \in Starter
          /\ module.starters["_initialize"] = "typed"
      BY <1>4 DEF StartNamed, BuildInv, StageInv, Starter
    <2>1. CASE TypedFunc(module.starters["main"]) = "Some" /\ Runs("main", "callbacks")
      <3>1. module.starters["main"] = "typed"
        BY <1>2, <2>0, <2>1
      <3>2. WholeStart(module.starters) = <<"_initialize", "main">>
        BY <2>0, <3>1 DEF WholeStart
      <3>3. QED
        BY <2>0, <2>1, <3>2, RunsKeeps, StartCodeBegins
    <2>2. CASE TypedFunc(module.starters["main"]) = "None" /\ Skips("callbacks")
      <3>1. module.starters["main"] = "absent"
        BY <1>2, <2>0, <2>2
      <3>2. WholeStart(module.starters) = <<"_initialize">>
        BY <2>0, <3>1 DEF WholeStart
      <3>3. QED
        BY <2>0, <2>2, <3>2, SkipsKeeps
    <2>3. CASE Ends("ExportTypeMismatch")
      BY <2>3, EndsKeeps
    <2>4. QED
      BY <1>4, <2>1, <2>2, <2>3 DEF StartNamed
  <1>5. CASE StartNamed("_start")
    <2>0. /\ StartCode(ran) = <<>> /\ stage = "_start" /\ "_start" \in Starter
          /\ module.starters["_initialize"] = "absent"
      BY <1>5 DEF StartNamed, BuildInv, StageInv, Starter
    <2>1. CASE TypedFunc(module.starters["_start"]) = "Some" /\ Runs("_start", "callbacks")
      <3>1. module.starters["_start"] = "typed"
        BY <1>2, <2>0, <2>1
      <3>2. WholeStart(module.starters) = <<"_start">>
        BY <2>0, <3>1 DEF WholeStart
      <3>3. QED
        BY <2>0, <2>1, <3>2, RunsKeeps, StartCodeBegins
    <2>2. CASE TypedFunc(module.starters["_start"]) = "None" /\ Skips("callbacks")
      <3>1. module.starters["_start"] = "absent"
        BY <1>2, <2>0, <2>2
      <3>2. WholeStart(module.starters) = <<>>
        BY <2>0, <3>1 DEF WholeStart
      <3>3. QED
        BY <2>0, <2>2, <3>2, SkipsKeeps
    <2>3. CASE Ends("ExportTypeMismatch")
      BY <2>3, EndsKeeps
    <2>4. QED
      BY <1>5, <2>1, <2>2, <2>3 DEF StartNamed
  <1>6. CASE Resolve
    <2>1. CASE Ends("ExportTypeMismatch")
      BY <2>1, EndsKeeps
    <2>2. CASE /\ ~\E c \in Callbacks : TypedFunc(module.callbacks[c]) = "ExportTypeMismatch"
               /\ Ends("Built")
      <3>1. /\ ~state.poisoned /\ abi = Detect(module.abis)
            /\ StartCode(ran) = WholeStart(module.starters)
        BY <1>6 DEF Resolve, BuildInv, StageInv, PastDetect, Stages
      <3>2. \A c \in Callbacks : module.callbacks[c] # "mistyped"
        BY <2>2 DEF TypedFunc
      <3>3. BuiltInv'
        BY <2>2, <3>1, <3>2 DEF BuiltInv, Ends, StartCode
      <3>4. StageInv'
        BY <2>2 DEF StageInv, Ends, PastDetect, PastLimits, PastLinking, Stages
      <3>5. BuildTypes' /\ CodeFinds'
        BY <2>2 DEF BuildInv, BuildTypes, CodeFinds, Ends, StartCode, Stages
      <3>6. QED
        BY <3>3, <3>4, <3>5 DEF BuildInv
    <2>3. QED
      BY <1>6, <2>1, <2>2 DEF Resolve
  <1>7. CASE UNCHANGED buildVars
    <2>1. BuildTypes' /\ CodeFinds'
      BY <1>7 DEF buildVars, BuildInv, BuildTypes, CodeFinds, StartCode
    <2>2. StageInv' /\ BuiltInv'
      BY <1>7 DEF buildVars, BuildInv, StageInv, BuiltInv, StartCode
    <2>3. QED
      BY <2>1, <2>2 DEF BuildInv
  <1>8. QED
    BY <1>1, <1>3, <1>4, <1>5, <1>6, <1>7 DEF BuildNext

\* The guest's code finds a host that is ready (instance.rs, version.rs): for every
\* set of exports and every outcome of each stage, no code of a module runs before
\* its version is accepted and its budget is set, a start function finds the memory
\* and the allocator, and what is built ran its whole start sequence in order.
THEOREM HostIsReady == BuildSpec => []GuestCodeFindsHost
  <1>1. BuildInv => GuestCodeFindsHost
    BY DetectIs DEF BuildInv, CodeFinds, BuiltInv, GuestCodeFindsHost, WholeStart
  <1>2. QED
    BY <1>1, BuildInvInit, BuildInvNext, PTL DEF BuildSpec

-----------------------------------------------------------------------------
(***************************************************************************)
(* The pool of workers.  First what Vec::retain leaves of a list.          *)
(***************************************************************************)
KeptOf(kept, v, w) == IF v # w THEN Append(kept, v) ELSE kept
WithoutNext(g, list, w, places) ==
    [s \in SUBSET places |-> IF s = {} THEN <<>> ELSE KeptOf(g[s \ {Max(s)}], list[Max(s)], w)]

\* The list after each place.
RetainChain(h, list, w, kept) ==
    /\ h[0] = <<>> /\ h[Len(list)] = kept
    /\ \A i \in 1 .. Len(list) : h[i] = KeptOf(h[i - 1], list[i], w)

LEMMA RetainIterates ==
    ASSUME NEW T, NEW list \in Seq(T), NEW w
    PROVE  \E h \in [0 .. Len(list) -> Seq(T)] : RetainChain(h, list, w, Without(list, w))
<1> DEFINE k == Len(list)
           S == Seq(T)
           step == [p \in Nat \X S |-> IF p[1] \in 1 .. k THEN KeptOf(p[2], list[p[1]], w) ELSE p[2]]
           g == CHOOSE h : h = WithoutNext(h, list, w, 1 .. k)
<1>0. k \in Nat /\ DOMAIN list = 1 .. k /\ \A i \in 1 .. k : list[i] \in T
    OBVIOUS
<1>a. Without(list, w) = (CHOOSE h : h = WithoutNext(h, list, w, DOMAIN list))[DOMAIN list]
    BY DEF Without, FoldLeft, MapThenFoldSet, WithoutNext, KeptOf
<1>b. Without(list, w) = g[1 .. k]
    BY <1>0, <1>a
<1>1. ASSUME NEW i \in 1 .. k, NEW x \in S
      PROVE  KeptOf(x, list[i], w) \in S
    BY <1>0 DEF KeptOf
<1>2. <<>> \in S
    OBVIOUS
<1> HIDE DEF k, S
<1>3. ASSUME NEW p \in Nat \X S
      PROVE  (IF p[1] \in 1 .. k THEN KeptOf(p[2], list[p[1]], w) ELSE p[2]) \in S
    <2>1. p[2] \in S
        OBVIOUS
    <2>. QED
        BY <1>1, <2>1
<1>4. step \in [Nat \X S -> S]
    BY <1>3
<1>5. ASSUME NEW i \in 1 .. k, NEW x \in S
      PROVE  step[<<i, x>>] = KeptOf(x, list[i], w)
    <2>1. <<i, x>> \in Nat \X S
        BY <1>0
    <2>. QED
        BY <2>1
<1> HIDE DEF step, g
<1>6. PICK f \in [SUBSET (1 .. k) -> S] : FoldsBy(f, k, <<>>, step)
    BY <1>0, <1>2, <1>4, FoldExists
<1>7. f = WithoutNext(f, list, w, 1 .. k)
    <2>1. ASSUME NEW s \in SUBSET (1 .. k)
          PROVE  f[s] = IF s = {} THEN <<>> ELSE KeptOf(f[s \ {Max(s)}], list[Max(s)], w)
        <3>1. CASE s = {}
            BY <1>6, <3>1 DEF FoldsBy
        <3>2. CASE s # {}
            <4>1. f[s] = step[<<Max(s), f[s \ {Max(s)}]>>]
                BY <1>6, <3>2 DEF FoldsBy
            <4>2. Max(s) \in 1 .. k /\ s \ {Max(s)} \in SUBSET (1 .. k)
                BY <1>0, <3>2, MaxIn
            <4>3. f[s \ {Max(s)}] \in S
                BY <1>6, <4>2
            <4>4. step[<<Max(s), f[s \ {Max(s)}]>>] = KeptOf(f[s \ {Max(s)}], list[Max(s)], w)
                BY <1>5, <4>2, <4>3
            <4>. QED
                BY <3>2, <4>1, <4>4, Zenon
        <3>. QED
            BY <3>1, <3>2
    <2>. QED
        BY <2>1 DEF WithoutNext
<1>8. g = WithoutNext(g, list, w, 1 .. k)
    BY <1>7 DEF g
<1>9. g[{}] = <<>>
    <2>1. {} \in SUBSET (1 .. k)
        OBVIOUS
    <2>. QED
        BY <1>8, <2>1 DEF WithoutNext
<1>10. ASSUME NEW i \in 1 .. k, g[1 .. i - 1] \in S
       PROVE  g[1 .. i] = step[<<i, g[1 .. i - 1]>>]
    <2>1. /\ Max(1 .. i) = i /\ (1 .. i) \ {Max(1 .. i)} = 1 .. i - 1
          /\ 1 .. i # {} /\ 1 .. i \in SUBSET (1 .. k)
        BY <1>0, FirstNumbers
    <2>2. g[1 .. i] = KeptOf(g[(1 .. i) \ {Max(1 .. i)}], list[Max(1 .. i)], w)
        BY <1>8, <2>1 DEF WithoutNext
    <2>3. g[1 .. i] = KeptOf(g[1 .. i - 1], list[i], w)
        BY <2>1, <2>2, Zenon
    <2>4. step[<<i, g[1 .. i - 1]>>] = KeptOf(g[1 .. i - 1], list[i], w)
        BY <1>5, <1>10
    <2>. QED
        BY <2>3, <2>4, Zenon
<1>11. PICK h \in [0 .. k -> S] : Iterates(h, k, <<>>, step) /\ h[k] = g[1 .. k]
    <2>1. FoldsFirst(g, k, S, <<>>, step)
        BY <1>9, <1>10 DEF FoldsFirst
    <2>2. Chained(g, k, S, <<>>, step)
        BY <1>0, <1>2, <1>4, <2>1, FoldChain
    <2>. QED
        BY <2>2 DEF Chained
<1>12. ASSUME NEW i \in 1 .. k
       PROVE  h[i] = KeptOf(h[i - 1], list[i], w)
    <2>1. i - 1 \in 0 .. k
        BY <1>0
    <2>2. h[i - 1] \in S
        BY <1>11, <2>1
    <2>3. h[i] = step[<<i, h[i - 1]>>]
        BY <1>11 DEF Iterates
    <2>4. step[<<i, h[i - 1]>>] = KeptOf(h[i - 1], list[i], w)
        BY <1>5, <2>2, Zenon
    <2>. QED
        BY <2>3, <2>4, Zenon
<1>13. h[0] = <<>>
    BY <1>11 DEF Iterates
<1>14. RetainChain(h, list, w, Without(list, w))
    BY <1>b, <1>11, <1>12, <1>13 DEF RetainChain, k
<1>. QED
    BY <1>11, <1>14 DEF k, S

\* A list has the worker v.
Lists(list, v) == \E i \in 1 .. Len(list) : list[i] = v
Distinct(list) == \A i, j \in 1 .. Len(list) : list[i] = list[j] => i = j

LEMMA AppendedLists ==
    ASSUME NEW T, NEW list \in Seq(T), NEW x \in T
    PROVE  /\ Append(list, x) \in Seq(T)
           /\ \A v : Lists(Append(list, x), v) <=> Lists(list, v) \/ v = x
           /\ Distinct(list) /\ ~Lists(list, x) => Distinct(Append(list, x))
<1>1. /\ Append(list, x) \in Seq(T) /\ Len(list) \in Nat
      /\ Len(Append(list, x)) = Len(list) + 1
      /\ Append(list, x)[Len(list) + 1] = x
      /\ \A i \in 1 .. Len(list) : Append(list, x)[i] = list[i]
    OBVIOUS
<1>2. ASSUME NEW v
      PROVE  Lists(Append(list, x), v) <=> Lists(list, v) \/ v = x
    <2>1. ASSUME Lists(list, v) PROVE Lists(Append(list, x), v)
        BY <1>1, <2>1 DEF Lists
    <2>2. ASSUME v = x PROVE Lists(Append(list, x), v)
        BY <1>1, <2>2 DEF Lists
    <2>3. ASSUME Lists(Append(list, x), v), v # x PROVE Lists(list, v)
        BY <1>1, <2>3 DEF Lists
    <2>. QED
        BY <2>1, <2>2, <2>3
<1>3. ASSUME Distinct(list), ~Lists(list, x)
      PROVE  Distinct(Append(list, x))
    BY <1>1, <1>3 DEF Distinct, Lists
<1>. QED
    BY <1>1, <1>2, <1>3

LEMMA EmptyLists ==
    ASSUME NEW T
    PROVE  <<>> \in Seq(T) /\ Distinct(<<>>) /\ \A v : ~Lists(<<>>, v)
    BY DEF Distinct, Lists

\* What is left of a list is the list without the worker, each as often as before.
LEMMA WithoutFacts ==
    ASSUME NEW T, NEW list \in Seq(T), NEW w
    PROVE  /\ Without(list, w) \in Seq(T)
           /\ \A v : Lists(Without(list, w), v) <=> Lists(list, v) /\ v # w
           /\ Distinct(list) => Distinct(Without(list, w))
<1> DEFINE k == Len(list)
<1>0. k \in Nat /\ \A i \in 1 .. k : list[i] \in T
    OBVIOUS
<1>1. PICK h \in [0 .. k -> Seq(T)] : RetainChain(h, list, w, Without(list, w))
    BY RetainIterates
<1> HIDE DEF k
<1>2. /\ h[0] = <<>> /\ h[k] = Without(list, w) /\ h[k] \in Seq(T)
      /\ \A i \in 1 .. k : h[i] = KeptOf(h[i - 1], list[i], w) /\ h[i - 1] \in Seq(T)
    <2>1. h[0] = <<>> /\ h[k] = Without(list, w)
        BY <1>1 DEF RetainChain, k
    <2>2. \A i \in 1 .. k : h[i] = KeptOf(h[i - 1], list[i], w)
        BY <1>1 DEF RetainChain, k
    <2>3. \A i \in 0 .. k : h[i] \in Seq(T)
        BY <1>1
    <2>4. k \in 0 .. k /\ \A i \in 1 .. k : i - 1 \in 0 .. k
        BY <1>0
    <2>. QED
        BY <2>1, <2>2, <2>3, <2>4
<1> DEFINE P == {i \in 0 .. k :
                    /\ \A v : Lists(h[i], v) <=> v # w /\ \E j \in 1 .. i : list[j] = v
                    /\ Distinct(list) => Distinct(h[i])}
<1>3. 0 \in P
    BY <1>0, <1>2, EmptyLists
<1>4. ASSUME NEW i \in 1 .. k, i - 1 \in P
      PROVE  i \in P
    <2>1. h[i - 1] \in Seq(T) /\ list[i] \in T /\ h[i] = KeptOf(h[i - 1], list[i], w)
        BY <1>0, <1>2
    <2>2. /\ \A v : Lists(h[i - 1], v) <=> v # w /\ \E j \in 1 .. i - 1 : list[j] = v
          /\ Distinct(list) => Distinct(h[i - 1])
        BY <1>4
    <2>3. \A v : (\E j \in 1 .. i : list[j] = v) <=> (v = list[i] \/ \E j \in 1 .. i - 1 : list[j] = v)
        <3>1. \A j : j \in 1 .. i <=> j = i \/ j \in 1 .. i - 1
            BY <1>0
        <3>. QED
            BY <3>1, Zenon
    <2>4. CASE list[i] = w
        <3>1. h[i] = h[i - 1]
            BY <2>1, <2>4 DEF KeptOf
        <3>2. \A v : Lists(h[i], v) <=> v # w /\ \E j \in 1 .. i : list[j] = v
            BY <2>2, <2>3, <2>4, <3>1
        <3>. QED
            BY <1>0, <2>2, <3>1, <3>2
    <2>5. CASE list[i] # w
        <3>1. h[i] = Append(h[i - 1], list[i])
            BY <2>1, <2>5 DEF KeptOf
        <3>2. \A v : Lists(h[i], v) <=> Lists(h[i - 1], v) \/ v = list[i]
            BY <2>1, <3>1, AppendedLists
        <3>3. \A v : Lists(h[i], v) <=> v # w /\ \E j \in 1 .. i : list[j] = v
            BY <2>2, <2>3, <2>5, <3>2
        <3>4. ASSUME Distinct(list)
              PROVE  ~Lists(h[i - 1], list[i])
            <4>1. \A j \in 1 .. i - 1 : list[j] # list[i]
                <5>1. \A j \in 1 .. i - 1 : j \in 1 .. k /\ j # i
                    BY <1>0
                <5>. QED
                    BY <3>4, <5>1 DEF Distinct, k
            <4>. QED
                BY <2>2, <4>1
        <3>5. Distinct(list) => Distinct(h[i])
            BY <2>1, <2>2, <3>1, <3>4, AppendedLists
        <3>. QED
            BY <1>0, <3>3, <3>5
    <2>. QED
        BY <2>4, <2>5
<1>5. \A i \in 0 .. k : i \in P
    <2> HIDE DEF P
    <2>. QED
        BY <1>0, <1>3, <1>4, UpTo
<1>6. k \in P
    <2> HIDE DEF P
    <2>. QED
        BY <1>0, <1>5
<1>7. \A v : (\E j \in 1 .. k : list[j] = v) <=> Lists(list, v)
    BY DEF Lists, k
<1>. QED
    BY <1>2, <1>6, <1>7

-----------------------------------------------------------------------------
Place ==
    {"new", "building", "starts", "started", "idle", "busy", "handled", "lost", "stopping",
     "stopped"}
GuestView ==
    [registered : SUBSET Queues, changes : SUBSET Queues, poisoned : BOOLEAN, alive : BOOLEAN]
Jobs == {RequestJob} \cup {QueueReady(q) : q \in Queues}
BuildCounters == [builds : Nat, poisoned : Nat]
Tally == [sent : Nat, answered : Nat, dropped : Nat, refused : Nat]
Notice == [queue : Queues \cup {"None"}, to : 0 .. Count]

\* The jobs that are sent are requests and queues; a notice that has its target
\* is about a queue.
PoolTypes ==
    /\ pc \in [Worker -> Place] /\ guest \in [Worker -> GuestView]
    /\ job \in [Worker -> Jobs \cup {NoJob}] /\ jobs \in [Worker -> Seq(Jobs)]
    /\ routes \in [Queues -> Seq(Worker)]
    /\ notify \in [Worker -> Notice] /\ \A w \in Worker : notify[w].to # 0 => notify[w].queue \in Queues
    /\ starting \in 0 .. Count + 1 /\ turn \in Worker
    /\ counters \in BuildCounters
    /\ tally \in Tally

\* A worker's guest against its place: while the process runs, a worker that got
\* past the build has a guest, one that lost it has a poisoned one, one that builds
\* has none, and start_workers has not come to the workers after the one it is at.
PlaceInv ==
    /\ \A w \in Worker :
        /\ pc[w] \in {"new", "building"} => guest[w] = NoGuest
        /\ pc[w] = "idle" => guest[w].changes = {}
    /\ Running => \A w \in Worker :
        /\ w > starting => pc[w] = "new"
        /\ pc[w] \in {"starts", "started", "idle", "busy", "handled", "lost"} => guest[w].alive
        /\ pc[w] = "lost" => guest[w].poisoned

LEMMA RegisterTypes ==
    ASSUME NEW table \in [Queues -> Seq(Worker)], NEW q \in Queues, NEW w \in Worker
    PROVE  /\ Register(table, q, w) \in [Queues -> Seq(Worker)]
           /\ Register(table, q, w)[q] = Append(Without(table[q], w), w)
           /\ \A p \in Queues : p # q => Register(table, q, w)[p] = table[p]
           /\ Forget(table, w) \in [Queues -> Seq(Worker)]
  <1>1. \A p \in Queues : table[p] \in Seq(Worker)
    OBVIOUS
  <1>2. \A p \in Queues : Without(table[p], w) \in Seq(Worker)
    BY <1>1, WithoutFacts
  <1>3. Append(Without(table[q], w), w) \in Seq(Worker)
    BY <1>2
  <1>4. QED
    BY <1>2, <1>3 DEF Register, Forget

LEMMA PoolTypesInit == PoolInit => PoolTypes
  <1> SUFFICES ASSUME PoolInit PROVE PoolTypes
    OBVIOUS
  <1>0. Count \in Nat \ {0}
    BY WorkersAssumption
  <1>1. pc \in [Worker -> Place] /\ starting \in 0 .. Count + 1 /\ turn \in Worker
    BY <1>0 DEF PoolInit, Place, Worker
  <1>2. guest \in [Worker -> GuestView]
    BY DEF PoolInit, GuestView, NoGuest
  <1>3. job \in [Worker -> Jobs \cup {NoJob}] /\ jobs \in [Worker -> Seq(Jobs)]
    BY DEF PoolInit
  <1>4. routes \in [Queues -> Seq(Worker)]
    BY DEF PoolInit
  <1>5. notify \in [Worker -> Notice] /\ \A w \in Worker : notify[w].to # 0 => notify[w].queue \in Queues
    BY <1>0 DEF PoolInit, Notice, Quiet
  <1>6. /\ counters \in BuildCounters
        /\ tally \in Tally
    BY DEF PoolInit, BuildCounters, Tally
  <1>7. QED
    BY <1>1, <1>2, <1>3, <1>4, <1>5, <1>6 DEF PoolTypes

\* The requests of a channel are a finite set of places in it.
LEMMA RequestsFinite ==
    ASSUME NEW T, NEW list \in Seq(T)
    PROVE  /\ IsFiniteSet(Requests(list)) /\ Cardinality(Requests(list)) \in Nat
           /\ Requests(list) \subseteq 1 .. Len(list)
  <1>1. Len(list) \in Nat /\ DOMAIN list = 1 .. Len(list)
    OBVIOUS
  <1>2. IsFiniteSet(1 .. Len(list))
    BY <1>1, FS_Interval
  <1>3. Requests(list) \subseteq 1 .. Len(list)
    BY <1>1 DEF Requests
  <1>4. IsFiniteSet(Requests(list))
    BY <1>2, <1>3, FS_Subset
  <1>5. QED
    BY <1>3, <1>4, FS_CardinalityType

\* What a worker's thread does to the types of its own parts.
LEMMA GuestTypesKept ==
    ASSUME PoolTypes, NEW w \in Worker, NEW q \in Queues
    PROVE  /\ [guest EXCEPT ![w].registered = @ \cup {q}, ![w].changes = @ \cup {q}]
                  \in [Worker -> GuestView]
           /\ [guest EXCEPT ![w].changes = @ \ {q}] \in [Worker -> GuestView]
  <1>1. guest[w] \in GuestView /\ guest \in [Worker -> GuestView]
    BY DEF PoolTypes
  <1>2. [guest[w] EXCEPT !.registered = @ \cup {q}, !.changes = @ \cup {q}] \in GuestView
    BY <1>1 DEF GuestView
  <1>3. [guest[w] EXCEPT !.changes = @ \ {q}] \in GuestView
    BY <1>1 DEF GuestView
  <1>4. QED
    BY <1>1, <1>2, <1>3

LEMMA GuestViews ==
    /\ NoGuest \in GuestView /\ NewGuest \in GuestView
    /\ NoGuest.registered = {} /\ NoGuest.changes = {} /\ ~NoGuest.alive /\ ~NoGuest.poisoned
    /\ NewGuest.registered = {} /\ NewGuest.changes = {} /\ NewGuest.alive
  BY DEF NoGuest, NewGuest, GuestView

\* A counter that goes up.
LEMMA CountsKept ==
    /\ \A c \in BuildCounters : /\ [c EXCEPT !.builds = @ + 1] \in BuildCounters
                                 /\ [c EXCEPT !.poisoned = @ + 1] \in BuildCounters
    /\ \A t \in Tally : /\ [t EXCEPT !.answered = @ + 1] \in Tally
                         /\ [t EXCEPT !.refused = @ + 1] \in Tally
                         /\ [t EXCEPT !.sent = @ + 1] \in Tally
                         /\ [t EXCEPT !.sent = @ + 1, !.dropped = @ + 1] \in Tally
    /\ \A t \in Tally, n \in Nat : [t EXCEPT !.dropped = @ + n] \in Tally
  <1>1. ASSUME NEW c \in BuildCounters
        PROVE  [c EXCEPT !.builds = @ + 1] \in BuildCounters
    BY DEF BuildCounters
  <1>2. ASSUME NEW c \in BuildCounters
        PROVE  [c EXCEPT !.poisoned = @ + 1] \in BuildCounters
    BY DEF BuildCounters
  <1>3. ASSUME NEW t \in Tally, NEW n \in Nat
        PROVE  /\ [t EXCEPT !.answered = @ + 1] \in Tally
               /\ [t EXCEPT !.refused = @ + 1] \in Tally
    BY DEF Tally
  <1>4. ASSUME NEW t \in Tally, NEW n \in Nat
        PROVE  /\ [t EXCEPT !.sent = @ + 1] \in Tally
               /\ [t EXCEPT !.dropped = @ + n] \in Tally
    BY DEF Tally
  <1>5. ASSUME NEW t \in Tally
        PROVE  [t EXCEPT !.sent = @ + 1, !.dropped = @ + 1] \in Tally
    <2>1. [t EXCEPT !.sent = @ + 1] \in Tally
      BY <1>4
    <2>2. [[t EXCEPT !.sent = @ + 1] EXCEPT !.dropped = @ + 1] \in Tally
      BY <2>1, <1>4
    <2>3. QED
      BY <2>2
  <1>6. QED
    BY <1>1, <1>2, <1>3, <1>4, <1>5

LEMMA CountersKept ==
    ASSUME PoolTypes, NEW g \in GuestView
    PROVE  DropGuest(counters, g) \in BuildCounters
  <1>1. counters \in BuildCounters
    BY DEF PoolTypes
  <1>2. QED
    BY <1>1, CountsKept DEF DropGuest

\* A callback's steps.
LEMMA CallbackTypes ==
    ASSUME PoolTypes, NEW w \in Worker,
           \/ Route(w) \/ Send(w) \/ GuestTraps(w)
           \/ \E q \in Queues : GuestRegisters(w, q) \/ GuestEnqueues(w, q) \/ GuestDequeues(w, q)
    PROVE  PoolTypes'
  <1>1. CASE Route(w)
    <2>1. notify[w].queue \in Queues /\ notify[w] \in Notice
      BY <1>1 DEF Route, PoolTypes, Notice
    <2>2. routes[notify[w].queue] \in Seq(Worker)
      BY <2>1 DEF PoolTypes
    <2>3. routes[notify[w].queue] # <<>> => Last(routes[notify[w].queue]) \in Worker
      BY <2>2 DEF Last
    <2>4. Quiet \in Notice /\ (routes[notify[w].queue] # <<>> =>
              Found(notify[w].queue, Last(routes[notify[w].queue])) \in Notice)
      BY <2>1, <2>3, WorkersAssumption DEF Quiet, Found, Notice, Worker
    <2>5. PICK n \in Notice : notify' = [notify EXCEPT ![w] = n] /\ (n.to # 0 => n.queue \in Queues)
      BY <1>1, <2>1, <2>4 DEF Route, Quiet, Found
    <2>6. notify' \in [Worker -> Notice] /\ \A v \in Worker : notify'[v].to # 0 => notify'[v].queue \in Queues
      BY <2>5 DEF PoolTypes
    <2>7. QED
      BY <1>1, <2>6 DEF Route, PoolTypes
  <1>2. CASE Send(w)
    <2>1. /\ notify[w].queue \in Queues /\ notify[w] \in Notice /\ notify[w].to \in Worker
          /\ QueueReady(notify[w].queue) \in Jobs
      BY <1>2, WorkersAssumption DEF Send, PoolTypes, Notice, Worker, Jobs
    <2>2. jobs' \in [Worker -> Seq(Jobs)]
      <3>1. Append(jobs[notify[w].to], QueueReady(notify[w].queue)) \in Seq(Jobs)
        BY <2>1 DEF PoolTypes
      <3>2. QED
        BY <1>2, <2>1, <3>1 DEF Send, PoolTypes
    <2>3. Quiet \in Notice /\ Quiet.to = 0
      BY WorkersAssumption DEF Quiet, Notice
    <2>4. notify' \in [Worker -> Notice] /\ \A v \in Worker : notify'[v].to # 0 => notify'[v].queue \in Queues
      BY <1>2, <2>3 DEF Send, PoolTypes
    <2>5. QED
      BY <1>2, <2>2, <2>4 DEF Send, PoolTypes
  <1>3. CASE GuestTraps(w)
    <2>0. guest[w] \in GuestView
      BY DEF PoolTypes
    <2>1. [guest[w] EXCEPT !.poisoned = TRUE] \in GuestView
      BY <2>0 DEF GuestView
    <2>2. guest' \in [Worker -> GuestView]
      BY <1>3, <2>1 DEF GuestTraps, PoolTypes
    <2>3. QED
      BY <1>3, <2>2 DEF GuestTraps, PoolTypes
  <1>4. ASSUME NEW q \in Queues, GuestRegisters(w, q)
        PROVE  PoolTypes'
    BY <1>4, GuestTypesKept DEF GuestRegisters, PoolTypes
  <1>5. ASSUME NEW q \in Queues, GuestEnqueues(w, q)
        PROVE  PoolTypes'
    <2>1. Found(q, 0) \in Notice /\ Found(q, 0).to = 0
      BY WorkersAssumption DEF Found, Notice
    <2>2. notify' \in [Worker -> Notice] /\ \A v \in Worker : notify'[v].to # 0 => notify'[v].queue \in Queues
      BY <1>5, <2>1 DEF GuestEnqueues, PoolTypes
    <2>3. QED
      BY <1>5, <2>2 DEF GuestEnqueues, PoolTypes
  <1>6. ASSUME NEW q \in Queues, GuestDequeues(w, q)
        PROVE  PoolTypes'
    BY <1>6 DEF GuestDequeues, PoolTypes
  <1>7. QED
    BY <1>1, <1>2, <1>3, <1>4, <1>5, <1>6

\* The steps of Worker::run.
LEMMA ThreadTypes ==
    ASSUME PoolTypes, NEW w \in Worker, Thread(w)
    PROVE  PoolTypes'
  <1>0. \A p \in Place : [pc EXCEPT ![w] = p] \in [Worker -> Place]
    BY DEF PoolTypes
  <1>1. CASE Receive(w)
    <2>1. jobs[w] \in Seq(Jobs) /\ jobs[w] # <<>>
      BY <1>1 DEF Receive, PoolTypes
    <2>2. Head(jobs[w]) \in Jobs /\ Tail(jobs[w]) \in Seq(Jobs)
      BY <2>1
    <2>3. jobs' \in [Worker -> Seq(Jobs)] /\ job' \in [Worker -> Jobs \cup {NoJob}]
      BY <1>1, <2>2 DEF Receive, PoolTypes
    <2>4. pc' \in [Worker -> Place]
      BY <1>0, <1>1 DEF Receive, Goes, Place
    <2>5. QED
      BY <1>1, <2>3, <2>4 DEF Receive, PoolTypes
  <1>2. CASE Handled(w)
    <2>1. pc' \in [Worker -> Place]
      BY <1>0, <1>2 DEF Handled, Goes, Place
    <2>2. tally' \in Tally
      BY <1>2, CountsKept DEF Handled, PoolTypes
    <2>3. QED
      BY <1>2, <2>1, <2>2 DEF Handled, PoolTypes
  <1>3. CASE Collect(w)
    <2>1. ASSUME NEW q \in guest[w].changes,
                 guest' = [guest EXCEPT ![w].changes = @ \ {q}],
                 routes' = Register(routes, q, w), UNCHANGED <<pc, job>>
          PROVE  PoolTypes'
      <3>1. q \in Queues
        BY DEF PoolTypes, GuestView
      <3>2. guest' \in [Worker -> GuestView]
        BY <2>1, <3>1, GuestTypesKept
      <3>3. routes' \in [Queues -> Seq(Worker)]
        BY <2>1, <3>1, RegisterTypes DEF PoolTypes
      <3>4. QED
        BY <1>3, <2>1, <3>2, <3>3 DEF Collect, PoolTypes
    <2>2. ASSUME Goes(w, IF guest[w].poisoned THEN "lost" ELSE "idle"),
                 job' = [job EXCEPT ![w] = NoJob], UNCHANGED <<guest, routes>>
          PROVE  PoolTypes'
      <3>1. pc' \in [Worker -> Place]
        BY <1>0, <2>2 DEF Goes, Place
      <3>2. job' \in [Worker -> Jobs \cup {NoJob}]
        BY <2>2 DEF PoolTypes
      <3>3. QED
        BY <1>3, <2>2, <3>1, <3>2 DEF Collect, PoolTypes
    <2>3. QED
      BY <1>3, <2>1, <2>2 DEF Collect
  <1>4. CASE Lose(w)
    <2>1. guest' \in [Worker -> GuestView] /\ pc' \in [Worker -> Place]
      BY <1>0, <1>4, GuestViews DEF Lose, PoolTypes, Goes, Place
    <2>2. counters' \in BuildCounters
      BY <1>4, CountersKept DEF Lose, PoolTypes
    <2>3. QED
      BY <1>4, <2>1, <2>2 DEF Lose, PoolTypes
  <1>5. CASE Build(w)
    <2>1. guest' \in [Worker -> GuestView] /\ pc' \in [Worker -> Place]
      BY <1>0, <1>5, GuestViews DEF Build, PoolTypes, Goes, Place
    <2>2. counters' \in BuildCounters
      BY <1>5, CountsKept DEF Build, PoolTypes
    <2>3. QED
      BY <1>5, <2>1, <2>2 DEF Build, PoolTypes
  <1>6. CASE Started(w)
    <2>1. pc' \in [Worker -> Place]
      BY <1>0, <1>6 DEF Started, Goes, Place
    <2>2. QED
      BY <1>6, <2>1 DEF Started, PoolTypes
  <1>7. ASSUME Fails(w)
        PROVE  /\ pc' \in [Worker -> Place] /\ routes' \in [Queues -> Seq(Worker)]
               /\ starting' \in 0 .. Count + 1
    <2>1. CASE w = starting
      BY <1>7, <2>1, WorkersAssumption DEF Fails, PoolTypes
    <2>2. CASE w # starting
      <3>1. pc' \in [Worker -> Place]
        BY <1>0, <1>7, <2>2 DEF Fails, Goes, Place
      <3>2. routes' \in [Queues -> Seq(Worker)]
        <4>1. routes' = Forget(routes, w)
          BY <1>7, <2>2 DEF Fails
        <4>2. \A p \in Queues : routes[p] \in Seq(Worker)
          BY DEF PoolTypes
        <4>3. \A p \in Queues : Without(routes[p], w) \in Seq(Worker)
          BY <4>2, WithoutFacts
        <4>4. QED
          BY <4>1, <4>3 DEF Forget
      <3>3. QED
        BY <1>7, <2>2, <3>1, <3>2 DEF Fails, PoolTypes
    <2>3. QED
      BY <2>1, <2>2
  <1>8. CASE BuildFails(w)
    BY <1>7, <1>8 DEF BuildFails, Fails, PoolTypes
  <1>9. CASE StartFails(w)
    <2>1. guest' \in [Worker -> GuestView]
      BY <1>9, GuestViews DEF StartFails, PoolTypes
    <2>2. counters' \in BuildCounters
      BY <1>9, CountersKept DEF StartFails, PoolTypes
    <2>3. tally' \in Tally
      BY <1>9, CountsKept DEF StartFails, PoolTypes
    <2>4. QED
      BY <1>7, <1>9, <2>1, <2>2, <2>3 DEF StartFails, Fails, PoolTypes
  <1>10. CASE Stop(w)
    <2>1. pc' \in [Worker -> Place] /\ jobs' \in [Worker -> Seq(Jobs)]
      BY <1>0, <1>10 DEF Stop, Goes, Place, PoolTypes
    <2>2. jobs[w] \in Seq(Jobs)
      BY DEF PoolTypes
    <2>3. Cardinality(Requests(jobs[w])) \in Nat
      BY <2>2, RequestsFinite
    <2>4. tally' \in Tally
      BY <1>10, <2>3, CountsKept DEF Stop, PoolTypes
    <2>5. QED
      BY <1>10, <2>1, <2>4 DEF Stop, PoolTypes
  <1>11. QED
    BY <1>1, <1>2, <1>3, <1>4, <1>5, <1>6, <1>8, <1>9, <1>10, CallbackTypes DEF Thread

LEMMA MainTypes ==
    ASSUME PoolTypes, StartNext \/ Dispatch
    PROVE  PoolTypes'
  <1>0. Count \in Nat \ {0}
    BY WorkersAssumption
  <1>1. CASE StartNext
    <2>1. pc' \in [Worker -> Place]
      BY <1>1 DEF StartNext, PoolTypes, Place
    <2>2. starting' \in 0 .. Count + 1
      BY <1>0, <1>1 DEF StartNext, Worker
    <2>3. QED
      BY <1>1, <2>1, <2>2 DEF StartNext, PoolTypes
  <1>2. CASE Dispatch
    <2>1. turn' \in Worker
      <3>1. turn % Count \in 0 .. Count - 1
        BY <1>0 DEF PoolTypes, Worker
      <3>2. QED
        BY <1>0, <1>2, <3>1 DEF Dispatch, Worker
    <2>2. jobs' \in [Worker -> Seq(Jobs)]
      <3>1. turn \in Worker /\ jobs[turn] \in Seq(Jobs) /\ RequestJob \in Jobs
        BY DEF PoolTypes, Jobs
      <3>2. Append(jobs[turn], RequestJob) \in Seq(Jobs)
        BY <3>1
      <3>3. QED
        BY <1>2, <3>1, <3>2 DEF Dispatch, PoolTypes
    <2>3. tally' \in Tally
      BY <1>2, CountsKept DEF Dispatch, PoolTypes
    <2>4. QED
      BY <1>2, <2>1, <2>2, <2>3 DEF Dispatch, PoolTypes
  <1>3. QED
    BY <1>1, <1>2

LEMMA PlaceInvInit == PoolInit => PlaceInv
  <1> SUFFICES ASSUME PoolInit PROVE PlaceInv
    OBVIOUS
  <1>1. \A w \in Worker : guest[w] = NoGuest /\ pc[w] = IF w = 1 THEN "building" ELSE "new"
    BY DEF PoolInit
  <1>2. starting = 1
    BY DEF PoolInit
  <1>3. QED
    BY <1>1, <1>2, WorkersAssumption DEF PlaceInv, Worker

\* A thread changes only its own place and guest.
LEMMA ThreadOwns ==
    ASSUME PoolTypes, NEW w \in Worker, Thread(w)
    PROVE  /\ \A v \in Worker : v # w => pc'[v] = pc[v] /\ guest'[v] = guest[v]
           /\ starting' = starting \/ starting' = 0
  <1> USE DEF PoolTypes
  <1>1. CASE Receive(w) \/ Handled(w) \/ Started(w) \/ Stop(w)
    BY <1>1 DEF Receive, Handled, Started, Stop, Goes
  <1>2. CASE Collect(w)
    BY <1>2 DEF Collect, Goes
  <1>3. CASE Lose(w) \/ Build(w)
    BY <1>3 DEF Lose, Build, Goes
  <1>4. CASE BuildFails(w)
    BY <1>4 DEF BuildFails, Fails, Goes
  <1>5. CASE StartFails(w)
    BY <1>5 DEF StartFails, Fails, Goes
  <1>6. CASE Route(w) \/ Send(w)
    BY <1>6 DEF Route, Send
  <1>7. CASE GuestTraps(w)
    BY <1>7 DEF GuestTraps
  <1>8. CASE \E q \in Queues : GuestRegisters(w, q) \/ GuestEnqueues(w, q) \/ GuestDequeues(w, q)
    BY <1>8 DEF GuestRegisters, GuestEnqueues, GuestDequeues
  <1>9. QED
    BY <1>1, <1>2, <1>3, <1>4, <1>5, <1>6, <1>7, <1>8 DEF Thread

\* The place and the guest of the worker that acts.
OwnPlace(p, g, w, s) ==
    /\ p \in {"new", "building"} => g = NoGuest
    /\ p = "idle" => g.changes = {}
    /\ s # 0 => /\ w > s => p = "new"
                /\ p \in {"starts", "started", "idle", "busy", "handled", "lost"} => g.alive
                /\ p = "lost" => g.poisoned

LEMMA PlaceInvIs ==
    PlaceInv <=> \A w \in Worker : OwnPlace(pc[w], guest[w], w, starting)
  BY DEF PlaceInv, OwnPlace, Running

LEMMA ThreadPlaces ==
    ASSUME PoolTypes, PlaceInv, Running, NEW w \in Worker, Thread(w)
    PROVE  PlaceInv'
  <1>0. /\ OwnPlace(pc[w], guest[w], w, starting) /\ starting # 0
        /\ pc[w] \in Place /\ guest[w] \in GuestView
    BY PlaceInvIs DEF Running, PoolTypes
  <1>1. OwnPlace(pc'[w], guest'[w], w, starting')
    <2> USE DEF PoolTypes
    <2>1. CASE Receive(w) \/ Handled(w) \/ Started(w) \/ Stop(w)
      <3>1. guest' = guest /\ starting' = starting
        BY <2>1 DEF Receive, Handled, Started, Stop
      <3>2. /\ pc'[w] \in {"handled", "busy", "started", "stopped"}
            /\ pc[w] \in {"idle", "busy", "starts", "stopping"}
            /\ pc[w] = "stopping" <=> pc'[w] = "stopped"
        BY <2>1 DEF Receive, Handled, Started, Stop, Goes
      <3>3. QED
        BY <1>0, <3>1, <3>2 DEF OwnPlace
    <2>2. CASE Collect(w)
      <3>1. pc[w] \in {"handled", "started"} /\ starting' = starting
        BY <2>2 DEF Collect
      <3>2. ASSUME NEW q \in guest[w].changes, pc' = pc,
                   guest' = [guest EXCEPT ![w].changes = @ \ {q}]
            PROVE  OwnPlace(pc'[w], guest'[w], w, starting')
        <4>1. guest'[w] = [guest[w] EXCEPT !.changes = @ \ {q}]
          BY <3>2
        <4>2. guest'[w].alive = guest[w].alive
          BY <1>0, <4>1 DEF GuestView
        <4>3. QED
          BY <1>0, <3>1, <3>2, <4>2 DEF OwnPlace
      <3>3. ASSUME guest[w].changes = {}, guest' = guest,
                   Goes(w, IF guest[w].poisoned THEN "lost" ELSE "idle")
            PROVE  OwnPlace(pc'[w], guest'[w], w, starting')
        <4>1. pc'[w] = IF guest[w].poisoned THEN "lost" ELSE "idle"
          BY <3>3 DEF Goes
        <4>2. QED
          BY <1>0, <3>1, <3>3, <4>1 DEF OwnPlace
      <3>4. QED
        BY <2>2, <3>2, <3>3 DEF Collect
    <2>3. CASE Lose(w)
      <3>1. guest'[w] = NoGuest /\ pc'[w] = "building" /\ starting' = starting /\ pc[w] = "lost"
        BY <2>3 DEF Lose, Goes
      <3>2. QED
        BY <1>0, <3>1, GuestViews DEF OwnPlace
    <2>4. CASE Build(w)
      <3>1. guest'[w] = NewGuest /\ pc'[w] = "starts" /\ starting' = starting /\ pc[w] = "building"
        BY <2>4 DEF Build, Goes
      <3>2. QED
        BY <1>0, <3>1, GuestViews DEF OwnPlace
    <2>5. CASE BuildFails(w)
      <3>1. /\ guest'[w] = guest[w] /\ pc[w] = "building"
            /\ \/ starting' = 0 /\ pc'[w] = pc[w]
               \/ starting' = starting /\ pc'[w] = "stopping"
        BY <2>5 DEF BuildFails, Fails, Goes
      <3>2. QED
        BY <1>0, <3>1 DEF OwnPlace
    <2>6. CASE StartFails(w)
      <3>1. /\ guest'[w] = NoGuest /\ pc[w] = "starts"
            /\ \/ starting' = 0 /\ pc'[w] = pc[w]
               \/ starting' = starting /\ pc'[w] = "stopping"
        BY <2>6 DEF StartFails, Fails, Goes
      <3>2. QED
        BY <1>0, <3>1 DEF OwnPlace
    <2>7. CASE Route(w) \/ Send(w) \/ \E q \in Queues : GuestEnqueues(w, q) \/ GuestDequeues(w, q)
      <3>1. guest' = guest /\ pc' = pc /\ starting' = starting
        BY <2>7 DEF Route, Send, GuestEnqueues, GuestDequeues
      <3>2. QED
        BY <1>0, <3>1
    <2>8. CASE GuestTraps(w)
      <3>1. pc' = pc /\ starting' = starting /\ pc[w] \in {"busy", "starts"}
        BY <2>8 DEF GuestTraps, InGuest
      <3>2. guest'[w] = [guest[w] EXCEPT !.poisoned = TRUE]
        BY <2>8 DEF GuestTraps
      <3>3. guest'[w].alive = guest[w].alive
        BY <1>0, <3>2 DEF GuestView
      <3>4. QED
        BY <1>0, <3>1, <3>3 DEF OwnPlace
    <2>9. ASSUME NEW q \in Queues, GuestRegisters(w, q)
          PROVE  OwnPlace(pc'[w], guest'[w], w, starting')
      <3>1. pc' = pc /\ starting' = starting /\ pc[w] \in {"busy", "starts"}
        BY <2>9 DEF GuestRegisters, InGuest
      <3>2. guest'[w] = [guest[w] EXCEPT !.registered = @ \cup {q}, !.changes = @ \cup {q}]
        BY <2>9 DEF GuestRegisters
      <3>3. guest'[w].alive = guest[w].alive
        BY <1>0, <3>2 DEF GuestView
      <3>4. QED
        BY <1>0, <3>1, <3>3 DEF OwnPlace
    <2>10. QED
      BY <2>1, <2>2, <2>3, <2>4, <2>5, <2>6, <2>7, <2>8, <2>9 DEF Thread
  <1>2. ASSUME NEW v \in Worker, v # w
        PROVE  OwnPlace(pc'[v], guest'[v], v, starting')
    <2>1. pc'[v] = pc[v] /\ guest'[v] = guest[v] /\ (starting' = starting \/ starting' = 0)
      BY <1>2, ThreadOwns
    <2>2. OwnPlace(pc[v], guest[v], v, starting)
      BY PlaceInvIs
    <2>3. QED
      BY <1>0, <2>1, <2>2 DEF OwnPlace
  <1>3. \A v \in Worker : OwnPlace(pc'[v], guest'[v], v, starting')
    BY <1>1, <1>2
  <1>4. QED
    BY <1>3 DEF PlaceInv, OwnPlace, Running

LEMMA MainPlaces ==
    ASSUME PoolTypes, PlaceInv, Running, StartNext \/ Dispatch
    PROVE  PlaceInv'
  <1>1. CASE StartNext
    <2>1. \A v \in Worker : OwnPlace(pc[v], guest[v], v, starting)
      BY PlaceInvIs
    <2>2. /\ guest' = guest /\ starting \in Worker /\ starting' = starting + 1
          /\ pc' = IF starting < Count THEN [pc EXCEPT ![starting + 1] = "building"] ELSE pc
      BY <1>1 DEF StartNext
    <2>3. \A v \in Worker : pc'[v] = IF v = starting + 1 THEN "building" ELSE pc[v]
      BY <2>2, WorkersAssumption DEF PoolTypes, Worker
    <2>4. ASSUME NEW v \in Worker
          PROVE  OwnPlace(pc'[v], guest'[v], v, starting')
      <3>1. CASE v = starting + 1
        <4>1. pc[v] = "new" /\ guest[v] = NoGuest
          BY <2>1, <2>2, <3>1 DEF OwnPlace, Worker
        <4>2. QED
          BY <2>2, <2>3, <3>1, <4>1 DEF OwnPlace, Worker
      <3>2. CASE v # starting + 1
        <4>1. pc'[v] = pc[v] /\ guest'[v] = guest[v] /\ (v > starting' => v > starting)
          BY <2>2, <2>3, <3>2 DEF Worker
        <4>2. QED
          BY <2>1, <4>1 DEF OwnPlace, Running
      <3>3. QED
        BY <3>1, <3>2
    <2>5. QED
      BY <2>4 DEF PlaceInv, OwnPlace, Running
  <1>2. CASE Dispatch
    BY <1>2 DEF Dispatch, PlaceInv, Running
  <1>3. QED
    BY <1>1, <1>2

-----------------------------------------------------------------------------
\* No list has a worker twice, or one that stops; and a queue that a guest
\* registered is to be collected or in the table.
OwnRoutes(p, g, w) ==
    \A q \in Queues :
        /\ p \in {"stopping", "stopped"} => ~Lists(routes[q], w)
        /\ q \in g.registered => q \in g.changes \/ Lists(routes[q], w)

RoutesInv ==
    /\ \A q \in Queues : Distinct(routes[q])
    /\ \A w \in Worker : OwnRoutes(pc[w], guest[w], w)

\* What registering a worker, and forgetting it, does to a list.
LEMMA RegisterLists ==
    ASSUME NEW list \in Seq(Worker), NEW w \in Worker
    PROVE  /\ \A v : Lists(Append(Without(list, w), w), v) <=> Lists(list, v) \/ v = w
           /\ \A v : Lists(Without(list, w), v) <=> Lists(list, v) /\ v # w
           /\ Distinct(list) => Distinct(Append(Without(list, w), w))
           /\ Distinct(list) => Distinct(Without(list, w))
  <1>1. /\ Without(list, w) \in Seq(Worker)
        /\ \A v : Lists(Without(list, w), v) <=> Lists(list, v) /\ v # w
        /\ Distinct(list) => Distinct(Without(list, w))
    BY WithoutFacts
  <1>2. /\ \A v : Lists(Append(Without(list, w), w), v) <=> Lists(Without(list, w), v) \/ v = w
        /\ Distinct(Without(list, w)) /\ ~Lists(Without(list, w), w)
              => Distinct(Append(Without(list, w), w))
    BY <1>1, AppendedLists
  <1>3. ~Lists(Without(list, w), w)
    BY <1>1
  <1>4. QED
    BY <1>1, <1>2, <1>3

LEMMA RoutesInvInit == PoolInit => RoutesInv
  <1> SUFFICES ASSUME PoolInit PROVE RoutesInv
    OBVIOUS
  <1>1. \A q \in Queues : Distinct(routes[q]) /\ \A v : ~Lists(routes[q], v)
    BY EmptyLists DEF PoolInit
  <1>2. \A w \in Worker : guest[w].registered = {}
    BY GuestViews DEF PoolInit
  <1>3. QED
    BY <1>1, <1>2 DEF RoutesInv, OwnRoutes

\* A step that leaves the table alone.
LEMMA RoutesStand ==
    ASSUME RoutesInv, routes' = routes,
           \A v \in Worker :
               /\ pc'[v] \in {"stopping", "stopped"} => pc[v] \in {"stopping", "stopped"}
               /\ \A q \in Queues :
                     q \in guest'[v].registered =>
                         \/ q \in guest'[v].changes
                         \/ q \in guest[v].registered /\ q \notin guest[v].changes
    PROVE  RoutesInv'
  BY DEF RoutesInv, OwnRoutes, Lists, Distinct

LEMMA ThreadRoutes ==
    ASSUME PoolTypes, PlaceInv, RoutesInv, Running, NEW w \in Worker, Thread(w)
    PROVE  RoutesInv'
  <1>0. pc[w] \in Place /\ guest[w] \in GuestView
    BY DEF PoolTypes
  <1>a. \A v \in Worker : v # w => pc'[v] = pc[v] /\ guest'[v] = guest[v]
    BY ThreadOwns
  <1>1. CASE Receive(w) \/ Handled(w) \/ Started(w) \/ Stop(w)
    <2>1. guest' = guest /\ routes' = routes
      BY <1>1 DEF Receive, Handled, Started, Stop
    <2>2. pc'[w] \in {"stopping", "stopped"} => pc[w] = "stopping"
      BY <1>1 DEF Receive, Handled, Started, Stop, Goes, PoolTypes
    <2>3. QED
      BY <1>a, <2>1, <2>2, RoutesStand
  <1>2. CASE Collect(w)
    <2>1. ASSUME NEW q \in guest[w].changes, pc' = pc, routes' = Register(routes, q, w),
                 guest' = [guest EXCEPT ![w].changes = @ \ {q}]
          PROVE  RoutesInv'
      <3>1. q \in Queues /\ pc[w] \in {"handled", "started"}
        BY <1>0, <1>2, <2>1 DEF Collect, GuestView
      <3>2. guest'[w].registered = guest[w].registered /\ guest'[w].changes = guest[w].changes \ {q}
        <4>1. guest'[w] = [guest[w] EXCEPT !.changes = @ \ {q}]
          BY <2>1 DEF PoolTypes
        <4>2. QED
          BY <1>0, <4>1 DEF GuestView
      <3>3. /\ routes'[q] = Append(Without(routes[q], w), w)
            /\ \A p \in Queues : p # q => routes'[p] = routes[p]
            /\ \A p \in Queues : routes[p] \in Seq(Worker)
        <4>1. routes \in [Queues -> Seq(Worker)]
          BY DEF PoolTypes
        <4>2. QED
          BY <2>1, <3>1, <4>1, RegisterTypes
      <3>4. /\ \A v : Lists(routes'[q], v) <=> Lists(routes[q], v) \/ v = w
            /\ Distinct(routes[q]) => Distinct(routes'[q])
        BY <3>1, <3>3, RegisterLists
      <3>5. \A p \in Queues : Distinct(routes'[p])
        BY <3>3, <3>4 DEF RoutesInv
      <3>6. ASSUME NEW v \in Worker, NEW p \in Queues
            PROVE  /\ pc'[v] \in {"stopping", "stopped"} => ~Lists(routes'[p], v)
                   /\ p \in guest'[v].registered => p \in guest'[v].changes \/ Lists(routes'[p], v)
        <4>1. /\ pc[v] \in {"stopping", "stopped"} => ~Lists(routes[p], v)
              /\ p \in guest[v].registered => p \in guest[v].changes \/ Lists(routes[p], v)
          BY DEF RoutesInv, OwnRoutes
        <4>2. Lists(routes'[p], v) <=> Lists(routes[p], v) \/ (p = q /\ v = w)
          BY <3>3, <3>4
        <4>3. QED
          BY <1>a, <2>1, <3>1, <3>2, <4>1, <4>2
      <3>7. QED
        BY <3>5, <3>6 DEF RoutesInv, OwnRoutes, Lists, Distinct
    <2>2. ASSUME guest' = guest, routes' = routes,
                 Goes(w, IF guest[w].poisoned THEN "lost" ELSE "idle")
          PROVE  RoutesInv'
      <3>1. pc'[w] \notin {"stopping", "stopped"}
        BY <2>2 DEF Goes, PoolTypes
      <3>2. QED
        BY <1>a, <2>2, <3>1, RoutesStand
    <2>3. QED
      BY <1>2, <2>1, <2>2 DEF Collect
  <1>3. CASE Lose(w) \/ Build(w)
    <2>1. guest'[w].registered = {} /\ routes' = routes
      BY <1>3, GuestViews DEF Lose, Build, PoolTypes
    <2>2. pc'[w] \in {"building", "starts"}
      BY <1>3 DEF Lose, Build, Goes, PoolTypes
    <2>3. QED
      BY <1>a, <2>1, <2>2, RoutesStand
  <1>4. CASE BuildFails(w) \/ StartFails(w)
    <2>1. guest'[w] = NoGuest
      BY <1>4 DEF BuildFails, StartFails, PoolTypes, PlaceInv
    <2>2. CASE w = starting
      <3>1. pc' = pc /\ routes' = routes
        BY <1>4, <2>2 DEF BuildFails, StartFails, Fails
      <3>2. QED
        BY <1>a, <2>1, <3>1, GuestViews, RoutesStand
    <2>3. CASE w # starting
      <3>1. routes' = Forget(routes, w)
        BY <1>4, <2>3 DEF BuildFails, StartFails, Fails
      <3>2. \A p \in Queues : routes'[p] = Without(routes[p], w) /\ routes[p] \in Seq(Worker)
        BY <3>1 DEF Forget, PoolTypes
      <3>3. ASSUME NEW p \in Queues
            PROVE  /\ \A v : Lists(routes'[p], v) <=> Lists(routes[p], v) /\ v # w
                   /\ Distinct(routes[p]) => Distinct(routes'[p])
        BY <3>2, RegisterLists
      <3>4. \A p \in Queues : Distinct(routes'[p])
        BY <3>3 DEF RoutesInv
      <3>5. ASSUME NEW v \in Worker, NEW p \in Queues
            PROVE  /\ pc'[v] \in {"stopping", "stopped"} => ~Lists(routes'[p], v)
                   /\ p \in guest'[v].registered => p \in guest'[v].changes \/ Lists(routes'[p], v)
        <4>1. /\ pc[v] \in {"stopping", "stopped"} => ~Lists(routes[p], v)
              /\ p \in guest[v].registered => p \in guest[v].changes \/ Lists(routes[p], v)
          BY DEF RoutesInv, OwnRoutes
        <4>2. Lists(routes'[p], v) <=> Lists(routes[p], v) /\ v # w
          BY <3>3
        <4>3. CASE v = w
          BY <2>1, <4>2, <4>3, GuestViews
        <4>4. CASE v # w
          BY <1>a, <4>1, <4>2, <4>4
        <4>5. QED
          BY <4>3, <4>4
      <3>6. QED
        BY <3>4, <3>5 DEF RoutesInv, OwnRoutes, Lists, Distinct
    <2>4. QED
      BY <2>2, <2>3
  <1>5. CASE Route(w) \/ Send(w) \/ \E q \in Queues : GuestEnqueues(w, q) \/ GuestDequeues(w, q)
    <2>1. guest' = guest /\ pc' = pc /\ routes' = routes
      BY <1>5 DEF Route, Send, GuestEnqueues, GuestDequeues
    <2>2. QED
      BY <2>1, RoutesStand
  <1>6. CASE GuestTraps(w)
    <2>1. pc' = pc /\ routes' = routes /\ guest'[w] = [guest[w] EXCEPT !.poisoned = TRUE]
      BY <1>6 DEF GuestTraps, PoolTypes
    <2>2. guest'[w].registered = guest[w].registered /\ guest'[w].changes = guest[w].changes
      BY <1>0, <2>1 DEF GuestView
    <2>3. QED
      BY <1>a, <2>1, <2>2, RoutesStand
  <1>7. ASSUME NEW q \in Queues, GuestRegisters(w, q)
        PROVE  RoutesInv'
    <2>1. /\ pc' = pc /\ routes' = routes
          /\ guest'[w] = [guest[w] EXCEPT !.registered = @ \cup {q}, !.changes = @ \cup {q}]
      BY <1>7 DEF GuestRegisters, PoolTypes
    <2>2. /\ guest'[w].registered = guest[w].registered \cup {q}
          /\ guest'[w].changes = guest[w].changes \cup {q}
      BY <1>0, <2>1 DEF GuestView
    <2>3. QED
      BY <1>a, <2>1, <2>2, RoutesStand
  <1>8. QED
    BY <1>1, <1>2, <1>3, <1>4, <1>5, <1>6, <1>7 DEF Thread

LEMMA MainRoutes ==
    ASSUME PoolTypes, RoutesInv, StartNext \/ Dispatch
    PROVE  RoutesInv'
  <1>1. guest' = guest /\ routes' = routes
    BY DEF StartNext, Dispatch
  <1>2. \A v \in Worker : pc'[v] = pc[v] \/ pc'[v] = "building"
    BY DEF StartNext, Dispatch, PoolTypes
  <1>3. QED
    BY <1>1, <1>2, RoutesStand

RoutingInv == PoolTypes /\ PlaceInv /\ RoutesInv

LEMMA RoutingInvNext == RoutingInv /\ [PoolNext]_poolVars => RoutingInv'
  <1> SUFFICES ASSUME RoutingInv, [PoolNext]_poolVars PROVE RoutingInv'
    OBVIOUS
  <1>1. CASE UNCHANGED poolVars
    BY <1>1 DEF RoutingInv, poolVars, PoolTypes, PlaceInv, RoutesInv, OwnRoutes, Running, Lists,
                Distinct
  <1>2. CASE Running /\ (StartNext \/ Dispatch)
    BY <1>2, MainTypes, MainPlaces, MainRoutes DEF RoutingInv
  <1>3. ASSUME NEW w \in Worker, Running, Thread(w)
        PROVE  RoutingInv'
    BY <1>3, ThreadTypes, CallbackTypes, ThreadPlaces, ThreadRoutes DEF RoutingInv
  <1>4. QED
    BY <1>1, <1>2, <1>3 DEF PoolNext

LEMMA RoutesInvLeads ==
    ASSUME PoolTypes, PlaceInv, RoutesInv
    PROVE  RoutesLead
  <1>1. ASSUME NEW q \in Queues
        PROVE  /\ \A v : Contains(routes[q], v) <=> Lists(routes[q], v)
               /\ IsInjective(routes[q])
    <2>1. routes[q] \in Seq(Worker) /\ Distinct(routes[q])
      BY DEF PoolTypes, RoutesInv
    <2>2. DOMAIN routes[q] = 1 .. Len(routes[q])
      BY <2>1
    <2>3. QED
      BY <2>1, <2>2 DEF Contains, Lists, Distinct, IsInjective
  <1>2. QED
    BY <1>1 DEF RoutesLead, RoutesInv, OwnRoutes, PlaceInv

\* The routes of the pool lead to workers that go on (routes.rs, worker.rs): no list
\* has a worker that stopped or one twice, and a worker at rest is in the list of
\* every queue that its guest registered, for any number of workers and queues.
THEOREM RoutesHold == PoolSpec => []RoutesLead
  <1>1. PoolInit => RoutingInv
    BY PoolTypesInit, PlaceInvInit, RoutesInvInit DEF RoutingInv
  <1>2. RoutingInv => RoutesLead
    BY RoutesInvLeads DEF RoutingInv
  <1>3. QED
    BY <1>1, <1>2, RoutingInvNext, PTL DEF PoolSpec

-----------------------------------------------------------------------------
\* The requests of a channel, after a send and after a receive.
LEMMA RequestsAppend ==
    ASSUME NEW T, NEW list \in Seq(T), NEW j \in T
    PROVE  /\ j = RequestJob =>
                Cardinality(Requests(Append(list, j))) = Cardinality(Requests(list)) + 1
           /\ j # RequestJob => Requests(Append(list, j)) = Requests(list)
  <1> DEFINE n == Len(list)
  <1>1. /\ n \in Nat /\ DOMAIN list = 1 .. n /\ DOMAIN Append(list, j) = 1 .. n + 1
        /\ Append(list, j)[n + 1] = j
        /\ \A i \in 1 .. n : Append(list, j)[i] = list[i]
    OBVIOUS
  <1> HIDE DEF n
  <1>2. ASSUME j # RequestJob
        PROVE  Requests(Append(list, j)) = Requests(list)
    BY <1>1, <1>2 DEF Requests
  <1>3. ASSUME j = RequestJob
        PROVE  Cardinality(Requests(Append(list, j))) = Cardinality(Requests(list)) + 1
    <2>1. Requests(Append(list, j)) = Requests(list) \cup {n + 1}
      BY <1>1, <1>3 DEF Requests
    <2>2. n + 1 \notin Requests(list)
      BY <1>1 DEF Requests
    <2>3. QED
      BY <2>1, <2>2, RequestsFinite, FS_AddElement
  <1>4. QED
    BY <1>2, <1>3

LEMMA RequestsTail ==
    ASSUME NEW T, NEW list \in Seq(T), list # <<>>
    PROVE  Cardinality(Requests(list)) =
             Cardinality(Requests(Tail(list))) + (IF Head(list) = RequestJob THEN 1 ELSE 0)
  <1> DEFINE n == Len(list)
             rest == Requests(list) \ {1}
             back == [i \in Requests(Tail(list)) |-> i + 1]
  <1>1. /\ n \in Nat \ {0} /\ DOMAIN list = 1 .. n /\ Head(list) = list[1]
        /\ Tail(list) \in Seq(T) /\ DOMAIN Tail(list) = 1 .. n - 1
        /\ \A i \in 1 .. n - 1 : Tail(list)[i] = list[i + 1]
    OBVIOUS
  <1> HIDE DEF n
  <1>2. back \in [Requests(Tail(list)) -> rest]
    BY <1>1 DEF Requests
  <1>3. \A i, k \in Requests(Tail(list)) : back[i] = back[k] => i = k
    BY <1>1 DEF Requests
  <1>4. \A i \in rest : \E k \in Requests(Tail(list)) : back[k] = i
    <2>1. ASSUME NEW i \in rest
          PROVE  i - 1 \in Requests(Tail(list)) /\ back[i - 1] = i
      BY <1>1 DEF Requests
    <2>2. QED
      BY <2>1
  <1>5. back \in Bijection(Requests(Tail(list)), rest)
    <2> HIDE DEF back, rest
    <2>1. QED
      BY <1>2, <1>3, <1>4 DEF Bijection, Injection, Surjection, IsInjective
  <1>6. Cardinality(rest) = Cardinality(Requests(Tail(list)))
    <2> HIDE DEF rest, back
    <2>1. ExistsBijection(Requests(Tail(list)), rest)
      BY <1>5 DEF ExistsBijection
    <2>2. IsFiniteSet(Requests(Tail(list)))
      BY <1>1, RequestsFinite
    <2>3. QED
      BY <2>1, <2>2, FS_Bijection
  <1>7. 1 \in Requests(list) <=> Head(list) = RequestJob
    BY <1>1 DEF Requests
  <1>8. /\ IsFiniteSet(Requests(list)) /\ Cardinality(Requests(list)) \in Nat
        /\ Cardinality(rest) = IF 1 \in Requests(list) THEN Cardinality(Requests(list)) - 1
                               ELSE Cardinality(Requests(list))
    BY RequestsFinite, FS_RemoveElement
  <1>9. QED
    <2> HIDE DEF rest
    <2>1. QED
      BY <1>6, <1>7, <1>8

\* The requests in all channels, and in all but one.
InChannels(table, owners) == UNION {{v} \X Requests(table[v]) : v \in owners}

LEMMA InChannelsFinite ==
    ASSUME NEW table \in [Worker -> Seq(Jobs)], NEW owners \in SUBSET Worker
    PROVE  /\ IsFiniteSet(InChannels(table, owners))
           /\ Cardinality(InChannels(table, owners)) \in Nat
  <1> DEFINE part == [v \in owners |-> {v} \X Requests(table[v])]
             parts == {{v} \X Requests(table[v]) : v \in owners}
  <1>1. IsFiniteSet(owners)
    <2>1. IsFiniteSet(1 .. Count)
      BY WorkersAssumption, FS_Interval
    <2>2. QED
      BY <2>1, FS_Subset DEF Worker
  <1>2. part \in Surjection(owners, parts)
    BY DEF Surjection
  <1>3. IsFiniteSet(parts)
    <2> HIDE DEF part, parts
    <2>1. QED
      BY <1>1, <1>2, FS_Surjection
  <1>4. ASSUME NEW v \in owners
        PROVE  IsFiniteSet({v} \X Requests(table[v]))
    <2>1. IsFiniteSet(Requests(table[v]))
      BY RequestsFinite
    <2>2. IsFiniteSet({v})
      BY FS_Singleton
    <2>3. QED
      BY <2>1, <2>2, FS_Product
  <1>5. \A s \in parts : IsFiniteSet(s)
    BY <1>4
  <1>6. IsFiniteSet(UNION parts)
    <2> HIDE DEF parts
    <2>1. QED
      BY <1>3, <1>5, FS_UNION
  <1>7. QED
    BY <1>6, FS_CardinalityType DEF InChannels

LEMMA OneChannel ==
    ASSUME NEW table \in [Worker -> Seq(Jobs)], NEW w \in Worker
    PROVE  Cardinality(InChannels(table, Worker)) =
             Cardinality(InChannels(table, Worker \ {w})) + Cardinality(Requests(table[w]))
  <1> DEFINE own == {w} \X Requests(table[w])
             rest == InChannels(table, Worker \ {w})
  <1>1. InChannels(table, Worker) = rest \cup own
    BY DEF InChannels
  <1>2. rest \cap own = {}
    BY DEF InChannels
  <1>3. IsFiniteSet(rest) /\ Cardinality(rest) \in Nat
    BY InChannelsFinite
  <1>4. IsFiniteSet(Requests(table[w])) /\ Cardinality(Requests(table[w])) \in Nat
    BY RequestsFinite
  <1>5. IsFiniteSet(own) /\ Cardinality(own) = Cardinality(Requests(table[w]))
    <2>1. IsFiniteSet({w}) /\ Cardinality({w}) = 1
      BY FS_Singleton
    <2>2. QED
      BY <1>4, <2>1, FS_Product
  <1>6. QED
    <2> HIDE DEF own, rest
    <2>1. Cardinality(rest \cup own) =
            Cardinality(rest) + Cardinality(own) - Cardinality(rest \cap own)
      BY <1>3, <1>5, FS_Union
    <2>2. Cardinality(rest \cap own) = 0
      BY <1>2, FS_EmptySet
    <2>3. QED
      BY <1>1, <1>3, <1>4, <1>5, <2>1, <2>2 DEF rest

\* The requests that wait, when one channel changes.
LEMMA WaitingChanges ==
    ASSUME NEW table \in [Worker -> Seq(Jobs)], NEW w \in Worker, NEW list \in Seq(Jobs)
    PROVE  /\ Cardinality(InChannels(table, Worker)) \in Nat
           /\ Cardinality(InChannels([table EXCEPT ![w] = list], Worker)) =
                Cardinality(InChannels(table, Worker)) - Cardinality(Requests(table[w]))
                + Cardinality(Requests(list))
  <1> DEFINE after == [table EXCEPT ![w] = list]
  <1>1. after \in [Worker -> Seq(Jobs)] /\ after[w] = list /\ \A v \in Worker \ {w} : after[v] = table[v]
    OBVIOUS
  <1> HIDE DEF after
  <1>2. InChannels(after, Worker \ {w}) = InChannels(table, Worker \ {w})
    BY <1>1 DEF InChannels
  <1>3. /\ Cardinality(InChannels(after, Worker)) =
              Cardinality(InChannels(after, Worker \ {w})) + Cardinality(Requests(list))
        /\ Cardinality(InChannels(table, Worker)) =
              Cardinality(InChannels(table, Worker \ {w})) + Cardinality(Requests(table[w]))
    BY <1>1, OneChannel
  <1>4. /\ Cardinality(Requests(list)) \in Nat /\ Cardinality(Requests(table[w])) \in Nat
        /\ Cardinality(InChannels(table, Worker \ {w})) \in Nat
    BY RequestsFinite, InChannelsFinite
  <1>5. QED
    BY <1>2, <1>3, <1>4 DEF after

-----------------------------------------------------------------------------
\* The first half of PoolAccounts and the second.
RequestsAccounted ==
    tally.sent = tally.answered + tally.dropped + Cardinality(Waiting) + Cardinality(Served)
Alive == {w \in Worker : guest[w].alive}
GuestsAccounted == counters.builds = Cardinality(Alive) + counters.poisoned + tally.refused

LEMMA KindOfJob ==
    /\ \A j \in Jobs \cup {NoJob} : j.kind = "Request" <=> j = RequestJob
    /\ \A q : QueueReady(q) # RequestJob
    /\ NoJob # RequestJob
  BY DEF Jobs, RequestJob, QueueReady, NoJob

LEMMA WaitingIs == Waiting = InChannels(jobs, Worker)
  BY DEF Waiting, InChannels

\* A set of workers is finite, and has one more or one less.
LEMMA WorkersCount ==
    ASSUME NEW S \in SUBSET Worker, NEW w \in Worker
    PROVE  /\ Cardinality(S) \in Nat
           /\ w \notin S => Cardinality(S \cup {w}) = Cardinality(S) + 1
           /\ w \in S => Cardinality(S \ {w}) = Cardinality(S) - 1
  <1>1. IsFiniteSet(1 .. Count)
    BY WorkersAssumption, FS_Interval
  <1>2. IsFiniteSet(S)
    BY <1>1, FS_Subset DEF Worker
  <1>3. QED
    BY <1>2, FS_CardinalityType, FS_AddElement, FS_RemoveElement

LEMMA AccountsInit == PoolInit => RequestsAccounted /\ GuestsAccounted
  <1> SUFFICES ASSUME PoolInit PROVE RequestsAccounted /\ GuestsAccounted
    OBVIOUS
  <1>1. Waiting = {}
    <2>1. \A w \in Worker : Requests(jobs[w]) = {}
      BY DEF PoolInit, Requests
    <2>2. QED
      BY <2>1 DEF Waiting
  <1>2. Served = {}
    BY KindOfJob DEF PoolInit, Served
  <1>3. Alive = {}
    BY GuestViews DEF PoolInit, Alive
  <1>4. tally = [sent |-> 0, answered |-> 0, dropped |-> 0, refused |-> 0]
        /\ counters = [builds |-> 0, poisoned |-> 0]
    BY DEF PoolInit
  <1>5. Cardinality({}) = 0
    BY FS_EmptySet
  <1>6. RequestsAccounted
    BY <1>1, <1>2, <1>4, <1>5 DEF RequestsAccounted
  <1>7. GuestsAccounted
    BY <1>3, <1>4, <1>5 DEF GuestsAccounted
  <1>8. QED
    BY <1>6, <1>7

\* The counts are numbers.
LEMMA CountsTyped ==
    ASSUME PoolTypes
    PROVE  /\ Cardinality(Waiting) \in Nat /\ Cardinality(Served) \in Nat
           /\ Cardinality(Alive) \in Nat
           /\ tally.sent \in Nat /\ tally.answered \in Nat /\ tally.dropped \in Nat
           /\ tally.refused \in Nat /\ counters.builds \in Nat /\ counters.poisoned \in Nat
  <1>1. Cardinality(Waiting) \in Nat
    <2>1. jobs \in [Worker -> Seq(Jobs)]
      BY DEF PoolTypes
    <2>2. QED
      BY <2>1, WaitingIs, InChannelsFinite
  <1>2. 1 \in Worker /\ Served \in SUBSET Worker /\ Alive \in SUBSET Worker
    BY WorkersAssumption DEF Worker, Served, Alive
  <1>3. Cardinality(Served) \in Nat /\ Cardinality(Alive) \in Nat
    BY <1>2, WorkersCount
  <1>4. tally \in Tally /\ counters \in BuildCounters
    BY DEF PoolTypes
  <1>5. QED
    BY <1>1, <1>3, <1>4 DEF Tally, BuildCounters

\* A step after which as many requests wait and are served, and as many are gone.
LEMMA RequestsStand ==
    ASSUME RequestsAccounted, jobs' = jobs, Served' = Served,
           tally'.sent = tally.sent, tally'.answered = tally.answered,
           tally'.dropped = tally.dropped
    PROVE  RequestsAccounted'
  <1>1. Waiting' = Waiting
    BY DEF Waiting
  <1>2. QED
    BY <1>1 DEF RequestsAccounted

LEMMA ReceiveAccounts ==
    ASSUME PoolTypes, RequestsAccounted, NEW w \in Worker, Receive(w)
    PROVE  RequestsAccounted'
  <1> DEFINE first == Head(jobs[w])
  <1>1. /\ jobs \in [Worker -> Seq(Jobs)] /\ jobs[w] \in Seq(Jobs) /\ jobs[w] # <<>>
        /\ first \in Jobs /\ Tail(jobs[w]) \in Seq(Jobs)
    BY DEF PoolTypes, Receive
  <1>2. /\ jobs' = [jobs EXCEPT ![w] = Tail(jobs[w])] /\ tally' = tally /\ pc[w] = "idle"
        /\ job' = [job EXCEPT ![w] = first]
        /\ pc' = [pc EXCEPT ![w] = IF first.kind = "QueueReady" /\ first.queue \notin guest[w].registered
                                   THEN "handled" ELSE "busy"]
    BY DEF Receive, Goes
  <1>3. /\ Cardinality(Requests(jobs[w])) =
             Cardinality(Requests(Tail(jobs[w]))) + (IF first = RequestJob THEN 1 ELSE 0)
        /\ Cardinality(Requests(jobs[w])) \in Nat /\ Cardinality(Requests(Tail(jobs[w]))) \in Nat
    BY <1>1, RequestsTail, RequestsFinite
  <1>4. Cardinality(Waiting') = Cardinality(Waiting) - Cardinality(Requests(jobs[w]))
                                + Cardinality(Requests(Tail(jobs[w])))
    <2>1. Waiting' = InChannels([jobs EXCEPT ![w] = Tail(jobs[w])], Worker)
      BY <1>2 DEF Waiting, InChannels
    <2>2. QED
      BY <1>1, <2>1, WaitingIs, WaitingChanges
  <1>5. job'[w] = first /\ \A v \in Worker : v # w => pc'[v] = pc[v] /\ job'[v] = job[v]
    BY <1>2 DEF PoolTypes
  <1> HIDE DEF first
  <1>6. CASE first = RequestJob
    <2>1. pc'[w] = "busy" /\ w \notin Served
      BY <1>2, <1>6 DEF RequestJob, Served, PoolTypes
    <2>2. Served' = Served \cup {w}
      BY <1>5, <1>6, <2>1 DEF Served
    <2>3. Cardinality(Served') = Cardinality(Served) + 1
      BY <2>1, <2>2, WorkersCount DEF Served
    <2>4. Cardinality(Waiting') = Cardinality(Waiting) - 1
      BY <1>3, <1>4, <1>6, CountsTyped
    <2>5. /\ Cardinality(Waiting) \in Nat /\ Cardinality(Served) \in Nat
          /\ tally.answered \in Nat /\ tally.dropped \in Nat
      BY CountsTyped
    <2>6. tally' = tally
      BY <1>2
    <2>7. QED
      BY <2>3, <2>4, <2>5, <2>6 DEF RequestsAccounted
  <1>7. CASE first # RequestJob
    <2>1. Served' = Served
      BY <1>2, <1>5, <1>7 DEF Served
    <2>2. QED
      BY <1>2, <1>3, <1>4, <1>7, <2>1, CountsTyped DEF RequestsAccounted
  <1>8. QED
    BY <1>6, <1>7

LEMMA HandledAccounts ==
    ASSUME PoolTypes, RequestsAccounted, NEW w \in Worker, Handled(w)
    PROVE  RequestsAccounted'
  <1>1. /\ pc[w] = "busy" /\ pc' = [pc EXCEPT ![w] = "handled"] /\ jobs' = jobs /\ job' = job
        /\ tally' = IF job[w].kind = "Request" THEN [tally EXCEPT !.answered = @ + 1] ELSE tally
    BY DEF Handled, Goes
  <1>2. pc'[w] = "handled" /\ \A v \in Worker : v # w => pc'[v] = pc[v]
    BY <1>1 DEF PoolTypes
  <1>3. job[w] \in Jobs \cup {NoJob} /\ tally \in Tally
    BY DEF PoolTypes
  <1>4. CASE job[w] = RequestJob
    <2>1. tally' = [tally EXCEPT !.answered = @ + 1]
      BY <1>1, <1>4 DEF RequestJob
    <2>2. /\ tally'.sent = tally.sent /\ tally'.answered = tally.answered + 1
          /\ tally'.dropped = tally.dropped
      BY <1>3, <2>1 DEF Tally
    <2>3. w \in Served /\ Served' = Served \ {w}
      BY <1>1, <1>2, <1>4 DEF Served
    <2>4. Cardinality(Served') = Cardinality(Served) - 1
      BY <2>3, WorkersCount DEF Served
    <2>5. Waiting' = Waiting
      BY <1>1 DEF Waiting
    <2>6. QED
      BY <2>2, <2>4, <2>5, CountsTyped DEF RequestsAccounted
  <1>5. CASE job[w] # RequestJob
    <2>1. tally' = tally
      BY <1>1, <1>3, <1>5, KindOfJob
    <2>2. Served' = Served
      BY <1>1, <1>2, <1>5 DEF Served
    <2>3. QED
      BY <1>1, <2>1, <2>2, RequestsStand
  <1>6. QED
    BY <1>4, <1>5

LEMMA SendAccounts ==
    ASSUME PoolTypes, RequestsAccounted, NEW w \in Worker, Send(w)
    PROVE  RequestsAccounted'
  <1> DEFINE to == notify[w].to
             ready == QueueReady(notify[w].queue)
  <1>1. to \in Worker /\ notify[w].queue \in Queues
    BY WorkersAssumption DEF Send, PoolTypes, Notice, Worker
  <1>2. Served' = Served /\ tally' = tally
    BY DEF Send, Served
  <1>3. CASE pc[to] = "stopped"
    BY <1>2, <1>3, RequestsStand DEF Send
  <1>4. CASE pc[to] # "stopped"
    <2>1. jobs' = [jobs EXCEPT ![to] = Append(jobs[to], ready)]
      BY <1>4 DEF Send
    <2>2. jobs \in [Worker -> Seq(Jobs)] /\ jobs[to] \in Seq(Jobs) /\ ready \in Jobs
      BY <1>1 DEF PoolTypes, Jobs
    <2>3. ready # RequestJob
      BY KindOfJob
    <2> HIDE DEF to, ready
    <2>4. /\ Requests(Append(jobs[to], ready)) = Requests(jobs[to])
          /\ Append(jobs[to], ready) \in Seq(Jobs)
          /\ Cardinality(Requests(jobs[to])) \in Nat
      BY <2>2, <2>3, RequestsAppend, RequestsFinite
    <2>5. Waiting' = InChannels([jobs EXCEPT ![to] = Append(jobs[to], ready)], Worker)
      BY <2>1 DEF Waiting, InChannels
    <2>6. Cardinality(Waiting') = Cardinality(Waiting)
      <3>1. Cardinality(Waiting') = Cardinality(Waiting) - Cardinality(Requests(jobs[to]))
                                    + Cardinality(Requests(Append(jobs[to], ready)))
        <4>1. to \in Worker
          BY <1>1 DEF to
        <4>2. QED
          BY <2>2, <2>4, <2>5, <4>1, WaitingIs, WaitingChanges
      <3>2. QED
        BY <2>4, <3>1, CountsTyped
    <2>7. QED
      BY <1>2, <2>6 DEF RequestsAccounted
  <1>5. QED
    BY <1>3, <1>4

LEMMA StopAccounts ==
    ASSUME PoolTypes, RequestsAccounted, NEW w \in Worker, Stop(w)
    PROVE  RequestsAccounted'
  <1>1. /\ pc[w] = "stopping" /\ pc' = [pc EXCEPT ![w] = "stopped"] /\ job' = job
        /\ jobs' = [jobs EXCEPT ![w] = <<>>]
        /\ tally' = [tally EXCEPT !.dropped = @ + Cardinality(Requests(jobs[w]))]
    BY DEF Stop, Goes
  <1>2. jobs \in [Worker -> Seq(Jobs)] /\ <<>> \in Seq(Jobs) /\ tally \in Tally
    BY DEF PoolTypes
  <1>3. Served' = Served
    BY <1>1 DEF Served, PoolTypes
  <1>4. Requests(<<>>) = {} /\ Cardinality(Requests(jobs[w])) \in Nat /\ Cardinality({}) = 0
    BY <1>2, RequestsFinite, FS_EmptySet DEF Requests
  <1>5. Waiting' = InChannels([jobs EXCEPT ![w] = <<>>], Worker)
    BY <1>1 DEF Waiting, InChannels
  <1>6. Cardinality(Waiting') = Cardinality(Waiting) - Cardinality(Requests(jobs[w]))
    <2>1. Cardinality(Waiting') = Cardinality(Waiting) - Cardinality(Requests(jobs[w]))
                                  + Cardinality(Requests(<<>>))
      BY <1>2, <1>5, WaitingIs, WaitingChanges
    <2>2. Cardinality(Requests(<<>>)) = 0
      BY <1>4
    <2>3. Cardinality(Waiting) \in Nat
      BY CountsTyped
    <2>4. QED
      BY <1>4, <2>1, <2>2, <2>3
  <1>7. /\ tally'.sent = tally.sent /\ tally'.answered = tally.answered
        /\ tally'.dropped = tally.dropped + Cardinality(Requests(jobs[w]))
    BY <1>1, <1>2 DEF Tally
  <1>8. QED
    BY <1>3, <1>4, <1>6, <1>7, CountsTyped DEF RequestsAccounted

LEMMA DispatchAccounts ==
    ASSUME PoolTypes, RequestsAccounted, Dispatch
    PROVE  RequestsAccounted'
  <1>1. Served' = Served /\ tally \in Tally /\ turn \in Worker
    BY DEF Dispatch, Served, PoolTypes
  <1>2. CASE pc[turn] = "stopped"
    <2>1. tally' = [tally EXCEPT !.sent = @ + 1, !.dropped = @ + 1] /\ jobs' = jobs
      BY <1>2 DEF Dispatch
    <2>2. /\ tally'.sent = tally.sent + 1 /\ tally'.dropped = tally.dropped + 1
          /\ tally'.answered = tally.answered
      BY <1>1, <2>1 DEF Tally
    <2>3. Waiting' = Waiting
      BY <2>1 DEF Waiting
    <2>4. QED
      BY <1>1, <2>2, <2>3, CountsTyped DEF RequestsAccounted
  <1>3. CASE pc[turn] # "stopped"
    <2>1. /\ tally' = [tally EXCEPT !.sent = @ + 1]
          /\ jobs' = [jobs EXCEPT ![turn] = Append(jobs[turn], RequestJob)]
      BY <1>3 DEF Dispatch
    <2>2. /\ tally'.sent = tally.sent + 1 /\ tally'.dropped = tally.dropped
          /\ tally'.answered = tally.answered
      BY <1>1, <2>1 DEF Tally
    <2>3. jobs \in [Worker -> Seq(Jobs)] /\ jobs[turn] \in Seq(Jobs) /\ RequestJob \in Jobs
      BY <1>1 DEF PoolTypes, Jobs
    <2>4. /\ Cardinality(Requests(Append(jobs[turn], RequestJob))) =
               Cardinality(Requests(jobs[turn])) + 1
          /\ Append(jobs[turn], RequestJob) \in Seq(Jobs)
          /\ Cardinality(Requests(jobs[turn])) \in Nat
      BY <2>3, RequestsAppend, RequestsFinite
    <2>5. Waiting' = InChannels([jobs EXCEPT ![turn] = Append(jobs[turn], RequestJob)], Worker)
      BY <2>1 DEF Waiting, InChannels
    <2>6. Cardinality(Waiting') = Cardinality(Waiting) + 1
      <3>1. Cardinality(Waiting') = Cardinality(Waiting) - Cardinality(Requests(jobs[turn]))
                                    + Cardinality(Requests(Append(jobs[turn], RequestJob)))
        BY <1>1, <2>3, <2>4, <2>5, WaitingIs, WaitingChanges
      <3>2. QED
        BY <2>4, <3>1, CountsTyped
    <2>7. QED
      BY <1>1, <2>2, <2>6, CountsTyped DEF RequestsAccounted
  <1>4. QED
    BY <1>2, <1>3

\* The requests after the other steps of a thread.
LEMMA ThreadAccountsRequests ==
    ASSUME PoolTypes, RequestsAccounted, NEW w \in Worker, Thread(w)
    PROVE  RequestsAccounted'
  <1>0. tally \in Tally
    BY DEF PoolTypes
  <1>a. \A v \in Worker : v # w => pc'[v] = pc[v]
    BY ThreadOwns
  <1>1. CASE Receive(w) \/ Handled(w) \/ Send(w) \/ Stop(w)
    BY <1>1, ReceiveAccounts, HandledAccounts, SendAccounts, StopAccounts
  <1>2. CASE Collect(w)
    <2>1. pc[w] \in {"handled", "started"} /\ jobs' = jobs /\ tally' = tally
      BY <1>2 DEF Collect
    <2>2. pc'[w] # "busy" /\ \A v \in Worker : v # w => job'[v] = job[v]
      BY <1>2, <2>1 DEF Collect, Goes, PoolTypes
    <2>3. Served' = Served
      BY <1>a, <2>1, <2>2 DEF Served
    <2>4. QED
      BY <2>1, <2>3, RequestsStand
  <1>3. CASE Lose(w) \/ Build(w) \/ Started(w) \/ BuildFails(w)
    <2>1. jobs' = jobs /\ tally' = tally /\ job' = job /\ pc[w] # "busy"
      BY <1>3 DEF Lose, Build, Started, BuildFails, Fails
    <2>2. pc'[w] # "busy"
      BY <1>3, <2>1 DEF Lose, Build, Started, BuildFails, Fails, Goes, PoolTypes
    <2>3. Served' = Served
      BY <1>a, <2>1, <2>2 DEF Served
    <2>4. QED
      BY <2>1, <2>3, RequestsStand
  <1>4. CASE StartFails(w)
    <2>1. /\ jobs' = jobs /\ job' = job /\ pc[w] # "busy"
          /\ tally' = IF guest[w].poisoned THEN tally ELSE [tally EXCEPT !.refused = @ + 1]
      BY <1>4 DEF StartFails, Fails
    <2>2. pc'[w] # "busy"
      BY <1>4, <2>1 DEF StartFails, Fails, Goes, PoolTypes
    <2>3. Served' = Served
      BY <1>a, <2>1, <2>2 DEF Served
    <2>4. /\ tally'.sent = tally.sent /\ tally'.answered = tally.answered
          /\ tally'.dropped = tally.dropped
      BY <1>0, <2>1 DEF Tally
    <2>5. QED
      BY <2>1, <2>3, <2>4, RequestsStand
  <1>5. CASE Route(w) \/ GuestTraps(w)
             \/ \E q \in Queues : GuestRegisters(w, q) \/ GuestEnqueues(w, q) \/ GuestDequeues(w, q)
    <2>1. jobs' = jobs /\ tally' = tally /\ job' = job /\ pc' = pc
      BY <1>5 DEF Route, GuestTraps, GuestRegisters, GuestEnqueues, GuestDequeues
    <2>2. Served' = Served
      BY <2>1 DEF Served
    <2>3. QED
      BY <2>1, <2>2, RequestsStand
  <1>6. QED
    BY <1>1, <1>2, <1>3, <1>4, <1>5 DEF Thread

\* A step that builds no guest and drops none.
LEMMA GuestsStand ==
    ASSUME GuestsAccounted, counters' = counters, tally'.refused = tally.refused,
           \A v \in Worker : guest'[v].alive <=> guest[v].alive
    PROVE  GuestsAccounted'
  <1>1. Alive' = Alive
    BY DEF Alive
  <1>2. QED
    BY <1>1 DEF GuestsAccounted

\* A guest is dropped, and counted if it was poisoned.
LEMMA DropAccounts ==
    ASSUME PoolTypes, GuestsAccounted, NEW w \in Worker, guest[w].alive, ~guest'[w].alive,
           \A v \in Worker : v # w => guest'[v] = guest[v],
           counters' = DropGuest(counters, guest[w]),
           tally'.refused = tally.refused + (IF guest[w].poisoned THEN 0 ELSE 1)
    PROVE  GuestsAccounted'
  <1>1. w \in Alive /\ Alive' = Alive \ {w}
    BY DEF Alive
  <1>2. Cardinality(Alive') = Cardinality(Alive) - 1
    BY <1>1, WorkersCount DEF Alive
  <1>3. counters \in BuildCounters
    BY DEF PoolTypes
  <1>4. CASE guest[w].poisoned
    <2>1. counters'.poisoned = counters.poisoned + 1 /\ counters'.builds = counters.builds
      BY <1>3, <1>4 DEF DropGuest, BuildCounters
    <2>2. QED
      BY <1>2, <1>4, <2>1, CountsTyped DEF GuestsAccounted
  <1>5. CASE ~guest[w].poisoned
    <2>1. counters' = counters
      BY <1>5 DEF DropGuest
    <2>2. QED
      BY <1>2, <1>5, <2>1, CountsTyped DEF GuestsAccounted
  <1>6. QED
    BY <1>4, <1>5

LEMMA ThreadAccountsGuests ==
    ASSUME PoolTypes, PlaceInv, Running, GuestsAccounted, NEW w \in Worker, Thread(w)
    PROVE  GuestsAccounted'
  <1>0. guest[w] \in GuestView /\ tally \in Tally /\ counters \in BuildCounters
    BY DEF PoolTypes
  <1>a. \A v \in Worker : v # w => guest'[v] = guest[v]
    BY ThreadOwns
  <1>1. CASE Receive(w) \/ Handled(w) \/ Started(w) \/ Stop(w)
    <2>1. guest' = guest /\ counters' = counters
      BY <1>1 DEF Receive, Handled, Started, Stop
    <2>2. tally'.refused = tally.refused
      BY <1>0, <1>1 DEF Receive, Handled, Started, Stop, Tally
    <2>3. QED
      BY <2>1, <2>2, GuestsStand
  <1>2. CASE Collect(w)
    <2>1. counters' = counters /\ tally' = tally
      BY <1>2 DEF Collect
    <2>2. guest' = guest \/ \E q \in guest[w].changes : guest'[w] = [guest[w] EXCEPT !.changes = @ \ {q}]
      BY <1>2 DEF Collect, PoolTypes
    <2>3. guest'[w].alive = guest[w].alive
      BY <1>0, <2>2 DEF GuestView
    <2>4. QED
      BY <1>a, <2>1, <2>3, GuestsStand
  <1>3. CASE Lose(w)
    <2>1. /\ pc[w] = "lost" /\ guest'[w] = NoGuest /\ counters' = DropGuest(counters, guest[w])
          /\ tally' = tally
      BY <1>3 DEF Lose, PoolTypes
    <2>2. guest[w].alive /\ guest[w].poisoned
      BY <2>1 DEF PlaceInv
    <2>3. tally'.refused = tally.refused + 0
      BY <1>0, <2>1 DEF Tally
    <2>4. QED
      BY <1>a, <2>1, <2>2, <2>3, GuestViews, DropAccounts
  <1>4. CASE Build(w)
    <2>1. /\ pc[w] = "building" /\ guest'[w] = NewGuest /\ tally' = tally
          /\ counters' = [counters EXCEPT !.builds = @ + 1]
      BY <1>4 DEF Build, PoolTypes
    <2>2. guest[w] = NoGuest
      BY <2>1 DEF PlaceInv
    <2>3. w \notin Alive /\ Alive' = Alive \cup {w}
      BY <1>a, <2>1, <2>2, GuestViews DEF Alive
    <2>4. Cardinality(Alive') = Cardinality(Alive) + 1
      BY <2>3, WorkersCount DEF Alive
    <2>5. counters'.builds = counters.builds + 1 /\ counters'.poisoned = counters.poisoned
      BY <1>0, <2>1 DEF BuildCounters
    <2>6. QED
      BY <2>1, <2>4, <2>5, CountsTyped DEF GuestsAccounted
  <1>5. CASE BuildFails(w)
    BY <1>5, GuestsStand DEF BuildFails
  <1>6. CASE StartFails(w)
    <2>1. /\ pc[w] = "starts" /\ guest'[w] = NoGuest /\ counters' = DropGuest(counters, guest[w])
          /\ tally' = IF guest[w].poisoned THEN tally ELSE [tally EXCEPT !.refused = @ + 1]
      BY <1>6 DEF StartFails, PoolTypes
    <2>2. guest[w].alive
      BY <2>1 DEF PlaceInv
    <2>3. tally'.refused = tally.refused + (IF guest[w].poisoned THEN 0 ELSE 1)
      BY <1>0, <2>1 DEF Tally
    <2>4. QED
      BY <1>a, <2>1, <2>2, <2>3, GuestViews, DropAccounts
  <1>7. CASE Route(w) \/ Send(w) \/ \E q \in Queues : GuestEnqueues(w, q) \/ GuestDequeues(w, q)
    BY <1>7, GuestsStand DEF Route, Send, GuestEnqueues, GuestDequeues
  <1>8. CASE GuestTraps(w)
    <2>1. /\ counters' = counters /\ tally' = tally
          /\ guest'[w] = [guest[w] EXCEPT !.poisoned = TRUE]
      BY <1>8 DEF GuestTraps, PoolTypes
    <2>2. guest'[w].alive = guest[w].alive
      BY <1>0, <2>1 DEF GuestView
    <2>3. QED
      BY <1>a, <2>1, <2>2, GuestsStand
  <1>9. ASSUME NEW q \in Queues, GuestRegisters(w, q)
        PROVE  GuestsAccounted'
    <2>1. /\ counters' = counters /\ tally' = tally
          /\ guest'[w] = [guest[w] EXCEPT !.registered = @ \cup {q}, !.changes = @ \cup {q}]
      BY <1>9 DEF GuestRegisters, PoolTypes
    <2>2. guest'[w].alive = guest[w].alive
      BY <1>0, <2>1 DEF GuestView
    <2>3. QED
      BY <1>a, <2>1, <2>2, GuestsStand
  <1>10. QED
    BY <1>1, <1>2, <1>3, <1>4, <1>5, <1>6, <1>7, <1>8, <1>9 DEF Thread

LEMMA MainAccounts ==
    ASSUME PoolTypes, PlaceInv, Running, RequestsAccounted, GuestsAccounted,
           StartNext \/ Dispatch
    PROVE  RequestsAccounted' /\ GuestsAccounted'
  <1>0. tally \in Tally
    BY DEF PoolTypes
  <1>1. CASE StartNext
    <2>1. /\ jobs' = jobs /\ job' = job /\ tally' = tally /\ counters' = counters /\ guest' = guest
          /\ starting \in Worker /\ pc[starting] = "idle"
          /\ pc' = IF starting < Count THEN [pc EXCEPT ![starting + 1] = "building"] ELSE pc
      BY <1>1 DEF StartNext
    <2>2. GuestsAccounted'
      BY <2>1, GuestsStand
    <2>3. \A v \in Worker : pc'[v] = pc[v] \/ (pc[v] = "new" /\ pc'[v] = "building")
      BY <2>1, WorkersAssumption DEF PoolTypes, PlaceInv, Worker
    <2>4. Served' = Served
      BY <2>1, <2>3 DEF Served
    <2>5. QED
      BY <2>1, <2>2, <2>4, RequestsStand
  <1>2. CASE Dispatch
    <2>1. RequestsAccounted'
      BY <1>2, DispatchAccounts
    <2>2. counters' = counters /\ guest' = guest
      BY <1>2 DEF Dispatch
    <2>3. tally'.refused = tally.refused
      BY <1>0, <1>2 DEF Dispatch, Tally
    <2>4. QED
      BY <2>1, <2>2, <2>3, GuestsStand
  <1>3. QED
    BY <1>1, <1>2

AccountsInv == PoolTypes /\ PlaceInv /\ RequestsAccounted /\ GuestsAccounted

LEMMA AccountsInvNext == AccountsInv /\ [PoolNext]_poolVars => AccountsInv'
  <1> SUFFICES ASSUME AccountsInv, [PoolNext]_poolVars PROVE AccountsInv'
    OBVIOUS
  <1>1. CASE UNCHANGED poolVars
    <2>1. PoolTypes' /\ PlaceInv'
      BY <1>1 DEF AccountsInv, poolVars, PoolTypes, PlaceInv, Running
    <2>2. RequestsAccounted' /\ GuestsAccounted'
      BY <1>1 DEF AccountsInv, poolVars, RequestsAccounted, GuestsAccounted, Waiting, Served, Alive
    <2>3. QED
      BY <2>1, <2>2 DEF AccountsInv
  <1>2. CASE Running /\ (StartNext \/ Dispatch)
    BY <1>2, MainTypes, MainPlaces, MainAccounts DEF AccountsInv
  <1>3. ASSUME NEW w \in Worker, Running, Thread(w)
        PROVE  AccountsInv'
    BY <1>3, ThreadTypes, ThreadPlaces, ThreadAccountsRequests, ThreadAccountsGuests
    DEF AccountsInv
  <1>4. QED
    BY <1>1, <1>2, <1>3 DEF PoolNext

\* Nothing is lost count of (main.rs, guest_spec.rs), for any number of workers: a
\* request was answered, is in a channel or in service, or was dropped with a worker
\* that stopped; a guest that was built is in service, was refused, or is counted as
\* poisoned.
THEOREM AccountsHold == PoolSpec => []PoolAccounts
  <1>1. PoolInit => AccountsInv
    BY PoolTypesInit, PlaceInvInit, AccountsInit DEF AccountsInv
  <1>2. AccountsInv => PoolAccounts
    BY DEF AccountsInv, RequestsAccounted, GuestsAccounted, Alive, PoolAccounts
  <1>3. QED
    BY <1>1, <1>2, AccountsInvNext, PTL DEF PoolSpec
=============================================================================
