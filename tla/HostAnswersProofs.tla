-------------------------- MODULE HostAnswersProofs --------------------------
(***************************************************************************)
(* Proofs about what a guest finds when a call has answered (HostCalls,    *)
(* Wasi): the types of the state, the log lines, and that an OK is true.   *)
(***************************************************************************)
EXTENDS HostCallsProofs

-----------------------------------------------------------------------------
(***************************************************************************)
(* Memories that grow                                                      *)
(***************************************************************************)
\* A memory and one that has at least its addresses.
Larger(m, l) ==
    \E n, k \in 0 .. WordMax + 1 : m \in MemoryOf(n) /\ l \in MemoryOf(k) /\ n <= k

LEMMA LargerTyped ==
    ASSUME NEW m, NEW l, Larger(m, l)
    PROVE  Memories(l)
    BY DEF Larger, Memories, MemoryOf

LEMMA SameLarger ==
    ASSUME NEW m, Memories(m)
    PROVE  Larger(m, m)
<1>1. PICK n \in 0 .. WordMax + 1 : m \in MemoryOf(n)
    BY DEF Memories, MemoryOf
<1>2. n <= n
    BY WordMaxFacts
<1>. QED
    BY <1>1, <1>2 DEF Larger

LEMMA WriteLarger ==
    ASSUME NEW m, Memories(m), NEW ptr \in Nat, NEW bytes \in Seq(Byte)
    PROVE  Larger(m, Write(m, ptr, bytes))
<1>1. PICK n \in 0 .. WordMax + 1 : m \in MemoryOf(n)
    BY DEF Memories, MemoryOf
<1>2. n <= n /\ n \in Nat
    BY WordMaxFacts
<1>3. Write(m, ptr, bytes) \in MemoryOf(n)
    BY <1>1, <1>2, WriteFacts
<1>. QED
    BY <1>1, <1>2, <1>3 DEF Larger

LEMMA WriteAllLarger ==
    ASSUME NEW m, Memories(m), NEW writes \in Writes
    PROVE  Larger(m, WriteAll(m, writes))
<1>1. PICK n \in 0 .. WordMax + 1 : m \in MemoryOf(n)
    BY DEF Memories, MemoryOf
<1>2. n <= n /\ n \in Nat
    BY WordMaxFacts
<1>3. WriteAll(m, writes) \in MemoryOf(n)
    BY <1>1, <1>2, WriteAllTyped
<1>. QED
    BY <1>1, <1>2, <1>3 DEF Larger

LEMMA GrownLarger ==
    ASSUME NEW m, Memories(m), Size(m) < MaxMemory
    PROVE  Larger(m, Grown(m, MaxMemory - Size(m)))
<1>1. PICK n \in 0 .. WordMax + 1 : m \in MemoryOf(n)
    BY DEF Memories, MemoryOf
<1>2. n \in Nat /\ MaxMemory \in 0 .. WordMax + 1 /\ MaxMemory \in Nat
    BY WordMaxFacts, BoundsAssumption
<1>3. Size(m) = n
    BY <1>1, <1>2, SizeIs DEF MemoryOf
<1>4. n + (MaxMemory - n) - 1 = MaxMemory - 1 /\ n <= MaxMemory
    BY <1>2, <1>3
<1>5. Grown(m, MaxMemory - Size(m))
          = [a \in 0 .. MaxMemory - 1 |-> IF a \in DOMAIN m THEN m[a] ELSE 0]
    BY <1>3, <1>4 DEF Grown
<1>6. 0 \in Byte /\ \A a \in DOMAIN m : m[a] \in Byte
    BY <1>1, Widths DEF MemoryOf, Byte
<1>7. Grown(m, MaxMemory - Size(m)) \in MemoryOf(MaxMemory)
    BY <1>5, <1>6 DEF MemoryOf
<1>. QED
    BY <1>1, <1>2, <1>4, <1>7 DEF Larger

LEMMA WordStays ==
    ASSUME NEW m, NEW l, Larger(m, l), NEW ptr \in GuestPtr, HasWord(m, ptr)
    PROVE  HasWord(l, ptr)
<1>1. PICK n, k \in 0 .. WordMax + 1 : m \in MemoryOf(n) /\ l \in MemoryOf(k) /\ n <= k
    BY DEF Larger
<1>2. n \in Nat /\ k \in Nat /\ ptr \in Nat
    BY WordMaxFacts
<1>3. Size(m) = n /\ Size(l) = k
    BY <1>1, <1>2, SizeIs DEF MemoryOf
<1>. QED
    BY <1>1, <1>2, <1>3, Widths DEF HasWord, Readable, InRangeOfWord, Inside, WordSlice

-----------------------------------------------------------------------------
(***************************************************************************)
(* A function that waits for its allocation                                *)
(***************************************************************************)
SlotIn(m, ptr) == ptr = Absent \/ (ptr \in GuestPtr /\ HasWord(m, ptr))
AfterIn(m, after) ==
    \/ after = <<>>
    \/ \E p \in GuestPtr, v \in GuestPtr : HasWord(m, p) /\ after = <<WordAt(p, v)>>

\* A frame whose places were checked, and one whose value fits in the memory.
Shaped(frame, m) ==
    /\ SlotIn(m, frame.data) /\ SlotIn(m, frame.size) /\ AfterIn(m, frame.after)
    /\ frame.value \in Seq(Byte)
    /\ frame.status \in Failing \cup {"Ok"}
    /\ frame.fn \notin Effects
Awaits(frame, m) == Shaped(frame, m) /\ Len(frame.value) <= WordMax

LEMMA AwaitsStays ==
    ASSUME NEW m, NEW l, Larger(m, l), NEW frame, Awaits(frame, m)
    PROVE  Awaits(frame, l)
<1>1. SlotIn(l, frame.data) /\ SlotIn(l, frame.size)
    BY WordStays DEF Awaits, Shaped, SlotIn
<1>2. AfterIn(l, frame.after)
    BY WordStays DEF Awaits, Shaped, AfterIn
<1>. QED
    BY <1>1, <1>2 DEF Awaits, Shaped

-----------------------------------------------------------------------------
(***************************************************************************)
(* Writes that do not overlap                                              *)
(***************************************************************************)
Disjoint(writes) ==
    \A i, j \in 1 .. Len(writes) : i # j => Reach(writes[i]) \cap Reach(writes[j]) = {}
Touches(writes) == UNION {Reach(writes[i]) : i \in 1 .. Len(writes)}
Does(writes, w) == \E k \in 1 .. Len(writes) : writes[k] = w

LEMMA NoWrites == <<>> \in Writes /\ Disjoint(<<>>) /\ Touches(<<>>) = {}
    BY DEF Writes, Disjoint, Touches

LEMMA OneWrite ==
    ASSUME NEW w \in Nat \X Seq(Byte)
    PROVE  /\ <<w>> \in Writes /\ Disjoint(<<w>>) /\ Touches(<<w>>) = Reach(w)
           /\ Does(<<w>>, w)
<1>1. Len(<<w>>) = 1 /\ <<w>>[1] = w /\ 1 .. 1 = {1}
    OBVIOUS
<1>2. <<w>> \in Writes
    BY DEF Writes
<1>. QED
    BY <1>1, <1>2 DEF Disjoint, Touches, Does

LEMMA TwoWrites ==
    ASSUME NEW v \in Nat \X Seq(Byte), NEW w \in Nat \X Seq(Byte), Reach(v) \cap Reach(w) = {}
    PROVE  /\ <<v, w>> \in Writes /\ Disjoint(<<v, w>>)
           /\ Touches(<<v, w>>) = Reach(v) \cup Reach(w)
           /\ Does(<<v, w>>, v) /\ Does(<<v, w>>, w)
<1>1. Len(<<v, w>>) = 2 /\ <<v, w>>[1] = v /\ <<v, w>>[2] = w /\ 1 .. 2 = {1, 2}
    OBVIOUS
<1>2. <<v, w>> \in Writes
    BY DEF Writes
<1>. QED
    BY <1>1, <1>2 DEF Disjoint, Touches, Does

LEMMA JoinedWrites ==
    ASSUME NEW s \in Writes, NEW t \in Writes, Disjoint(s), Disjoint(t),
           Touches(s) \cap Touches(t) = {}
    PROVE  /\ s \o t \in Writes /\ Disjoint(s \o t)
           /\ Touches(s \o t) = Touches(s) \cup Touches(t)
           /\ \A w : Does(s, w) \/ Does(t, w) => Does(s \o t, w)
<1> DEFINE st == s \o t
           n == Len(s)
           k == Len(t)
<1>1. /\ n \in Nat /\ k \in Nat /\ st \in Writes /\ Len(st) = n + k
      /\ \A i \in 1 .. n : st[i] = s[i]
      /\ \A i \in 1 .. k : st[n + i] = t[i]
    BY ConcatProperties DEF Writes
<1> HIDE DEF st
<1>2. ASSUME NEW i \in 1 .. Len(st)
      PROVE  \/ i \in 1 .. n /\ st[i] = s[i]
             \/ i - n \in 1 .. k /\ st[i] = t[i - n]
    <2>1. CASE i <= n
        BY <1>1, <2>1
    <2>2. CASE i > n
        <3>1. i - n \in 1 .. k /\ n + (i - n) = i
            BY <1>1, <2>2
        <3>. QED
            BY <1>1, <3>1
    <2>. QED
        BY <1>1, <2>1, <2>2
<1>3. (\A i \in 1 .. n : i \in 1 .. n + k) /\ (\A i \in 1 .. k : n + i \in 1 .. n + k)
    BY <1>1
<1>4. /\ \A i \in 1 .. n : Reach(s[i]) \subseteq Touches(s)
      /\ \A i \in 1 .. k : Reach(t[i]) \subseteq Touches(t)
    BY DEF Touches
<1>5. Touches(st) = Touches(s) \cup Touches(t)
    <2>1. Touches(st) \subseteq Touches(s) \cup Touches(t)
        BY <1>2, <1>4 DEF Touches
    <2>2. Touches(s) \subseteq Touches(st)
        BY <1>1, <1>3 DEF Touches
    <2>3. Touches(t) \subseteq Touches(st)
        BY <1>1, <1>3 DEF Touches
    <2>. QED
        BY <2>1, <2>2, <2>3
<1>6. ASSUME NEW i \in 1 .. Len(st), NEW j \in 1 .. Len(st), i # j
      PROVE  Reach(st[i]) \cap Reach(st[j]) = {}
    <2>1. CASE i \in 1 .. n /\ st[i] = s[i] /\ j \in 1 .. n /\ st[j] = s[j]
        BY <1>6, <2>1 DEF Disjoint
    <2>2. CASE i - n \in 1 .. k /\ st[i] = t[i - n] /\ j - n \in 1 .. k /\ st[j] = t[j - n]
        <3>1. i - n # j - n
            BY <1>1, <1>6
        <3>. QED
            BY <2>2, <3>1 DEF Disjoint
    <2>3. CASE i \in 1 .. n /\ st[i] = s[i] /\ j - n \in 1 .. k /\ st[j] = t[j - n]
        BY <1>4, <2>3
    <2>4. CASE j \in 1 .. n /\ st[j] = s[j] /\ i - n \in 1 .. k /\ st[i] = t[i - n]
        BY <1>4, <2>4
    <2>. QED
        BY <1>2, <2>1, <2>2, <2>3, <2>4
<1>7. ASSUME NEW w, Does(s, w) \/ Does(t, w)
      PROVE  Does(st, w)
    BY <1>1, <1>3, <1>7 DEF Does
<1>. QED
    BY <1>1, <1>5, <1>6, <1>7 DEF Disjoint, st

LEMMA DoneLands ==
    ASSUME NEW n \in Nat, NEW m \in MemoryOf(n), NEW writes \in Writes, Disjoint(writes),
           NEW w, Does(writes, w), Reach(w) \subseteq 0 .. n - 1
    PROVE  Has(WriteAll(m, writes), w[1], w[2])
<1>1. PICK k \in 1 .. Len(writes) : writes[k] = w
    BY DEF Does
<1>2. Reach(writes[k]) \subseteq 0 .. n - 1
    BY <1>1
<1>3. Has(WriteAll(m, writes), writes[k][1], writes[k][2])
    BY <1>2, WriteAllLands DEF Disjoint
<1>. QED
    BY <1>1, <1>3

\* A word that is written at a place of the memory.
LEMMA WordReach ==
    ASSUME NEW n \in Nat, NEW m \in MemoryOf(n), NEW ptr \in GuestPtr, HasWord(m, ptr), NEW v \in Nat
    PROVE  /\ WordAt(ptr, v) \in Nat \X Seq(Byte)
           /\ Reach(WordAt(ptr, v)) = Span4(ptr)
           /\ Span4(ptr) \subseteq 0 .. n - 1
<1>1. ptr \in Nat /\ WordBytes \in 1 .. 2 * WordBytes /\ WordBytes \in Nat
    BY WordMaxFacts, Widths
<1>2. Len(LittleEndian(v, WordBytes)) = WordBytes
    BY <1>1, LittleEndianBytes
<1>3. Size(m) = n
    BY SizeIs DEF MemoryOf
<1>4. ptr + WordBytes <= n
    BY <1>3 DEF HasWord, Readable, Inside, WordSlice
<1>5. Reach(WordAt(ptr, v)) = Span4(ptr)
    BY <1>2 DEF Reach, WordAt, Span4
<1>6. Span4(ptr) \subseteq 0 .. n - 1
    BY <1>1, <1>4 DEF Span4
<1>. QED
    BY <1>5, <1>6, WordWrite

-----------------------------------------------------------------------------
(***************************************************************************)
(* What a guest finds when a value was returned                            *)
(***************************************************************************)
\* The places of an answer, and what OkMeansDone says is there.
PlacesOf(answer) ==
    LET data == IF answer.data = Absent THEN {} ELSE Span4(answer.data)
        size == IF answer.size = Absent THEN {} ELSE Span4(answer.size)
        bytes == IF answer.data = Absent THEN {}
                 ELSE answer.address .. answer.address + Len(answer.value) - 1
        others == UNION {Span4(answer.others[i][1]) : i \in DOMAIN answer.others}
    IN  <<data, size, bytes, others>>
Finds(answer, m) ==
    /\ answer.data # Absent =>
         /\ ReadWord(m, answer.data) = answer.address
         /\ Read(m, [ptr |-> answer.address, len |-> Len(answer.value)]) = answer.value
    /\ answer.size # Absent =>
         ReadWord(m, answer.size) = Least(Len(answer.value), WordMax)
    /\ \A i \in DOMAIN answer.others :
         Read(m, WordSlice(answer.others[i][1])) = answer.others[i][2]

LEMMA ApartFour ==
    ASSUME NEW A, NEW B, NEW C, NEW D, Apart(<<A, B, C, D>>)
    PROVE  /\ A \cap B = {} /\ A \cap C = {} /\ A \cap D = {}
           /\ B \cap C = {} /\ B \cap D = {} /\ C \cap D = {}
<1> DEFINE r == <<A, B, C, D>>
<1>1. DOMAIN r = 1 .. 4 /\ r[1] = A /\ r[2] = B /\ r[3] = C /\ r[4] = D
    OBVIOUS
<1>2. \A i, j \in 1 .. 4 : i # j => r[i] \cap r[j] = {}
    BY <1>1 DEF Apart
<1> HIDE DEF r
<1>. QED
    BY <1>1, <1>2

LEMMA ReturnWritesTyped ==
    ASSUME NEW m, Memories(m), NEW frame, Shaped(frame, m), NEW address \in GuestPtr
    PROVE  ReturnWrites(frame, address) \in Writes
<1> DEFINE a == IF frame.data = Absent THEN <<>>
                ELSE <<<<address, frame.value>>, WordAt(frame.data, address)>>
           b == IF frame.size = Absent THEN <<>> ELSE <<WordAt(frame.size, Len(frame.value))>>
           c == frame.after
<1>0. /\ address \in Nat /\ Len(frame.value) \in Nat
      /\ <<address, frame.value>> \in Nat \X Seq(Byte)
    BY WordMaxFacts DEF Shaped
<1>1. a \in Writes
    <2>1. CASE frame.data = Absent
        BY <2>1, NoWrites
    <2>2. CASE frame.data # Absent
        <3>1. WordAt(frame.data, address) \in Nat \X Seq(Byte)
            BY <1>0, <2>2, WordWrite DEF Shaped, SlotIn
        <3>. QED
            BY <1>0, <2>2, <3>1 DEF Writes
    <2>. QED
        BY <2>1, <2>2
<1>2. b \in Writes
    <2>1. CASE frame.size = Absent
        BY <2>1, NoWrites
    <2>2. CASE frame.size # Absent
        <3>1. WordAt(frame.size, Len(frame.value)) \in Nat \X Seq(Byte)
            BY <1>0, <2>2, WordWrite DEF Shaped, SlotIn
        <3>. QED
            BY <2>2, <3>1 DEF Writes
    <2>. QED
        BY <2>1, <2>2
<1>3. c \in Writes
    <2>1. CASE frame.after = <<>>
        BY <2>1, NoWrites
    <2>2. ASSUME NEW p \in GuestPtr, NEW v \in GuestPtr, frame.after = <<WordAt(p, v)>>
          PROVE  c \in Writes
        <3>0. v \in Nat
            BY WordMaxFacts
        <3>1. WordAt(p, v) \in Nat \X Seq(Byte)
            BY <3>0, WordWrite
        <3>. QED
            BY <2>2, <3>1, OneWrite
    <2>. QED
        BY <2>1, <2>2 DEF Shaped, AfterIn
<1>4. ReturnWrites(frame, address) = (a \o b) \o c
    BY DEF ReturnWrites
<1> HIDE DEF a, b, c
<1>. QED
    BY <1>1, <1>2, <1>3, <1>4, ConcatProperties DEF Writes

LEMMA ReturnFound ==
    ASSUME NEW n \in Nat, NEW m \in MemoryOf(n), NEW frame, Shaped(frame, m),
           NEW address \in GuestPtr,
           frame.data # Absent => frame.value = <<>> \/ address + Len(frame.value) <= n,
           frame.data # Absent \/ frame.size # Absent => Len(frame.value) <= WordMax,
           Apart(PlacesOf(Delivered(frame, address)))
    PROVE  Finds(Delivered(frame, address), WriteAll(m, ReturnWrites(frame, address)))
<1> DEFINE w1 == <<address, frame.value>>
           w2 == WordAt(frame.data, address)
           w3 == WordAt(frame.size, Len(frame.value))
           a == IF frame.data = Absent THEN <<>> ELSE <<w1, w2>>
           b == IF frame.size = Absent THEN <<>> ELSE <<w3>>
           c == frame.after
           data == IF frame.data = Absent THEN {} ELSE Span4(frame.data)
           size == IF frame.size = Absent THEN {} ELSE Span4(frame.size)
           bytes == IF frame.data = Absent THEN {} ELSE address .. address + Len(frame.value) - 1
           others == UNION {Span4(frame.after[i][1]) : i \in DOMAIN frame.after}
           ws == (a \o b) \o c
           l == WriteAll(m, ws)
<1>0. /\ address \in Nat /\ frame.value \in Seq(Byte) /\ Len(frame.value) \in Nat
      /\ w1 \in Nat \X Seq(Byte) /\ Reach(w1) = address .. address + Len(frame.value) - 1
    BY WordMaxFacts DEF Shaped, Reach
<1>1. /\ data \cap size = {} /\ data \cap bytes = {} /\ data \cap others = {}
      /\ size \cap bytes = {} /\ size \cap others = {} /\ bytes \cap others = {}
    <2>1. PlacesOf(Delivered(frame, address)) = <<data, size, bytes, others>>
        BY DEF PlacesOf, Delivered
    <2> HIDE DEF data, size, bytes, others
    <2>. QED
        BY <2>1, ApartFour
<1>2. /\ a \in Writes /\ Disjoint(a) /\ Touches(a) = bytes \cup data
      /\ frame.data # Absent => /\ Does(a, w1) /\ Does(a, w2)
                                /\ Reach(w1) \subseteq 0 .. n - 1 /\ Reach(w2) \subseteq 0 .. n - 1
    <2>1. CASE frame.data = Absent
        BY <2>1, NoWrites
    <2>2. CASE frame.data # Absent
        <3>1. w2 \in Nat \X Seq(Byte) /\ Reach(w2) = data /\ data \subseteq 0 .. n - 1
            BY <1>0, <2>2, WordReach DEF Shaped, SlotIn
        <3>2. Reach(w1) = bytes
            BY <1>0, <2>2
        <3>3. Reach(w1) \subseteq 0 .. n - 1
            BY <1>0, <2>2
        <3>4. a = <<w1, w2>>
            BY <2>2
        <3> HIDE DEF w1, w2, a, data, bytes
        <3>5. Reach(w1) \cap Reach(w2) = {}
            BY <1>1, <3>1, <3>2
        <3>. QED
            BY <1>0, <3>1, <3>2, <3>3, <3>4, <3>5, TwoWrites
    <2>. QED
        BY <2>1, <2>2
<1>3. /\ b \in Writes /\ Disjoint(b) /\ Touches(b) = size
      /\ frame.size # Absent => Does(b, w3) /\ Reach(w3) \subseteq 0 .. n - 1
    <2>1. CASE frame.size = Absent
        BY <2>1, NoWrites
    <2>2. CASE frame.size # Absent
        <3>1. w3 \in Nat \X Seq(Byte) /\ Reach(w3) = size /\ size \subseteq 0 .. n - 1
            BY <1>0, <2>2, WordReach DEF Shaped, SlotIn
        <3>. QED
            BY <2>2, <3>1, OneWrite
    <2>. QED
        BY <2>1, <2>2
<1> DEFINE fine == /\ c \in Writes /\ Disjoint(c) /\ Touches(c) = others
                   /\ \A i \in DOMAIN c : /\ Does(c, c[i]) /\ Reach(c[i]) \subseteq 0 .. n - 1
                                          /\ \E p \in Nat, v \in GuestPtr : c[i] = WordAt(p, v)
<1>4. fine
    <2>1. CASE frame.after = <<>>
        BY <2>1, NoWrites
    <2>2. ASSUME NEW p \in GuestPtr, NEW v \in GuestPtr, HasWord(m, p), c = <<WordAt(p, v)>>
          PROVE  fine
        <3> DEFINE w == WordAt(p, v)
        <3>0. p \in Nat /\ v \in Nat
            BY WordMaxFacts
        <3>1. w \in Nat \X Seq(Byte) /\ Reach(w) = Span4(p) /\ Span4(p) \subseteq 0 .. n - 1 /\ w[1] = p
            BY <2>2, <3>0, WordReach DEF WordAt
        <3>2. c = <<w>> /\ DOMAIN c = {1} /\ c[1] = w
            BY <2>2
        <3>3. others = Span4(p)
            BY <3>1, <3>2
        <3> HIDE DEF others, c
        <3>4. c \in Writes /\ Disjoint(c) /\ Touches(c) = Reach(w) /\ Does(c, w)
            BY <3>1, <3>2, OneWrite
        <3>. QED
            BY <3>0, <3>1, <3>2, <3>3, <3>4 DEF w
    <2>3. \/ c = <<>>
          \/ \E p \in GuestPtr, v \in GuestPtr : HasWord(m, p) /\ c = <<WordAt(p, v)>>
        BY DEF Shaped, AfterIn
    <2> HIDE DEF c, others
    <2>. QED
        BY <2>1, <2>2, <2>3 DEF c
<1>5. ReturnWrites(frame, address) = ws
    BY DEF ReturnWrites
<1> HIDE DEF a, b, c, data, size, bytes, others
<1>6. /\ a \o b \in Writes /\ Disjoint(a \o b) /\ Touches(a \o b) = bytes \cup data \cup size
      /\ \A w : Does(a, w) \/ Does(b, w) => Does(a \o b, w)
    <2>1. Touches(a) \cap Touches(b) = {}
        BY <1>1, <1>2, <1>3
    <2>. QED
        BY <1>2, <1>3, <2>1, JoinedWrites
<1>7. /\ ws \in Writes /\ Disjoint(ws)
      /\ \A w : Does(a, w) \/ Does(b, w) \/ Does(c, w) => Does(ws, w)
    <2>1. Touches(a \o b) \cap Touches(c) = {}
        BY <1>1, <1>4, <1>6
    <2>. QED
        BY <1>4, <1>6, <2>1, JoinedWrites
<1> HIDE DEF ws, w1, w2, w3
<1>8. ASSUME NEW w, Does(a, w) \/ Does(b, w) \/ Does(c, w), Reach(w) \subseteq 0 .. n - 1
      PROVE  Has(l, w[1], w[2])
    BY <1>7, <1>8, DoneLands
<1> HIDE DEF l
<1>9. ASSUME frame.data # Absent
      PROVE  /\ ReadWord(l, frame.data) = address
             /\ Read(l, [ptr |-> address, len |-> Len(frame.value)]) = frame.value
    <2>1. Has(l, w1[1], w1[2]) /\ Has(l, w2[1], w2[2])
        BY <1>2, <1>8, <1>9
    <2>2. Has(l, address, frame.value) /\ Has(l, frame.data, LittleEndian(address, WordBytes))
        BY <2>1 DEF w1, w2, WordAt
    <2>3. frame.data \in Nat
        BY <1>9, WordMaxFacts DEF Shaped, SlotIn
    <2>. QED
        BY <1>0, <2>2, <2>3, ReadIs, ReadWordIs
<1>10. ASSUME frame.size # Absent
       PROVE  ReadWord(l, frame.size) = Least(Len(frame.value), WordMax)
    <2>1. Has(l, w3[1], w3[2])
        BY <1>3, <1>8, <1>10
    <2>2. Has(l, frame.size, LittleEndian(Len(frame.value), WordBytes))
        BY <2>1 DEF w3, WordAt
    <2>3. frame.size \in Nat /\ Len(frame.value) \in GuestPtr
        BY <1>0, <1>10, WordMaxFacts DEF Shaped, SlotIn
    <2>4. Least(Len(frame.value), WordMax) = Len(frame.value)
        BY <1>0, <1>10, WordMaxFacts DEF Least
    <2>. QED
        BY <2>2, <2>3, <2>4, ReadWordIs
<1>11. ASSUME NEW i \in DOMAIN frame.after
       PROVE  Read(l, WordSlice(frame.after[i][1])) = frame.after[i][2]
    <2>0. i \in DOMAIN c /\ c[i] = frame.after[i]
        BY DEF c
    <2>1. PICK p \in Nat, v \in GuestPtr : c[i] = WordAt(p, v)
        BY <1>4, <2>0
    <2>2. Has(l, c[i][1], c[i][2])
        BY <1>4, <1>8, <2>0
    <2>3. c[i][1] = p /\ c[i][2] = LittleEndian(v, WordBytes)
        BY <2>1 DEF WordAt
    <2>4. Has(l, p, LittleEndian(v, WordBytes))
        BY <2>2, <2>3
    <2>5. Read(l, WordSlice(p)) = LittleEndian(v, WordBytes)
        BY <2>4, ReadWordIs
    <2>. QED
        BY <2>0, <2>3, <2>5
<1>. QED
    BY <1>5, <1>9, <1>10, <1>11 DEF Finds, Delivered, l

-----------------------------------------------------------------------------
(***************************************************************************)
(* The invariant of the calls                                              *)
(***************************************************************************)
HostInv ==
    /\ CallsInv /\ TypeOK /\ LogIsPrefix
    /\ held \in HeldType
    /\ \A i \in DOMAIN calls : Awaits(calls[i], memory)

Statuses == Failing \cup WasiFailing \cup {"Ok", "None"}

\* OkMeansDone, of an answer, a memory and what the embedder was told.
Truthful(answer, m, tells) ==
    answer.status = "Ok" =>
        /\ Apart(PlacesOf(answer)) => Finds(answer, m)
        /\ answer.fn \in Effects => tells.fn = answer.fn

LEMMA OkIsTruthful ==
    /\ OkMeansDone <=> Truthful(last, memory, told)
    /\ OkMeansDone' <=> Truthful(last', memory', told')
    BY DEF OkMeansDone, Truthful, PlacesOf, Finds

LEMMA NoAnswerTruthful ==
    ASSUME NEW m, NEW tells
    PROVE  Truthful(NoAnswer, m, tells)
    BY DEF Truthful, NoAnswer

LEMMA AnswerTruthful ==
    ASSUME NEW f, NEW status, NEW m, NEW tells, status = "Ok" /\ f \in Effects => tells.fn = f
    PROVE  Truthful(Answer(f, status), m, tells)
<1>1. /\ Answer(f, status).fn = f /\ Answer(f, status).status = status
      /\ Answer(f, status).data = Absent /\ Answer(f, status).size = Absent
      /\ Answer(f, status).others = <<>>
    BY DEF Answer, NoAnswer
<1>2. Finds(Answer(f, status), m)
    BY <1>1 DEF Finds
<1>. QED
    BY <1>1, <1>2 DEF Truthful

\* A step that keeps the parts of the invariant.
LEMMA HostKept ==
    ASSUME HostInv, CallsInv', Larger(memory, memory'), held' \in HeldType, UNCHANGED here,
           opened' \in 0 .. MaxOpened, poisoned' \in BOOLEAN, last'.status \in Statuses,
           Len(calls') <= MaxDepth, GoodLog(logged'),
           \A i \in DOMAIN calls' : Awaits(calls'[i], memory)
    PROVE  HostInv'
<1>1. Memories(memory')
    BY LargerTyped
<1>2. TypeOK'
    BY <1>1 DEF HostInv, TypeOK, Statuses, PossiblePlace
<1>3. LogIsPrefix'
    BY DEF LogIsPrefix, GoodLog
<1>4. \A i \in DOMAIN calls' : Awaits(calls'[i], memory')
    BY AwaitsStays
<1>. QED
    BY <1>2, <1>3, <1>4 DEF HostInv

LEMMA FrameShaped ==
    ASSUME NEW f \in HostFunction, NEW a, NEW o, TypedOutcome(o, f, a), o.value # Absent
    PROVE  Shaped(Frame(f, a, o), memory) /\ Frame(f, a, o).fn = f
<1> DEFINE frame == Frame(f, a, o)
<1>1. /\ frame.data = SlotOf(f, a, "data") /\ frame.size = SlotOf(f, a, "size")
      /\ frame.value = o.value /\ frame.after = o.after /\ frame.status = o.status
      /\ frame.fn = f
    BY DEF Frame, SlotOf
<1> HIDE DEF frame
<1>2. /\ o.value \in Seq(Byte) /\ MayReturn(f, a) /\ HasAfter(o.after)
      /\ o.status \in Failing \cup {"Ok"}
    BY DEF TypedOutcome
<1>3. SlotIn(memory, frame.data) /\ SlotIn(memory, frame.size)
    BY <1>1, <1>2 DEF MayReturn, Slotted, HasSlot, SlotIn
<1>4. AfterIn(memory, frame.after)
    BY <1>1, <1>2 DEF HasAfter, AfterIn
<1>5. Shaped(frame, memory)
    BY <1>1, <1>2, <1>3, <1>4 DEF Shaped, MayReturn
<1>. QED
    BY <1>1, <1>5 DEF frame

\* A value that is delivered now is found.
LEMMA CompleteTruthful ==
    ASSUME Memories(memory), NEW frame, Shaped(frame, memory), NEW address \in GuestPtr,
           NEW tells,
           frame.data # Absent =>
               \/ frame.value = <<>>
               \/ Readable(memory, [ptr |-> address, len |-> Len(frame.value)]),
           frame.data # Absent \/ frame.size # Absent => Len(frame.value) <= WordMax,
           Complete(frame, address)
    PROVE  /\ Larger(memory, memory')
           /\ Truthful(last', memory', tells)
           /\ last'.status \in Failing \cup {"Ok"} /\ last'.fn = frame.fn
<1>1. PICK n \in 0 .. WordMax + 1 : memory \in MemoryOf(n)
    BY DEF Memories, MemoryOf
<1>2. n \in Nat /\ Size(memory) = n
    BY <1>1, WordMaxFacts, SizeIs DEF MemoryOf
<1> DEFINE ws == ReturnWrites(frame, address)
           answer == Delivered(frame, address)
<1>3. memory' = WriteAll(memory, ws) /\ last' = answer
    BY DEF Complete
<1>4. Larger(memory, memory')
    BY <1>3, ReturnWritesTyped, WriteAllLarger
<1>5. answer.status = frame.status /\ answer.fn = frame.fn
    BY DEF Delivered
<1>6. frame.data # Absent => frame.value = <<>> \/ address + Len(frame.value) <= n
    BY <1>2 DEF Readable, Inside
<1>7. Apart(PlacesOf(answer)) => Finds(answer, WriteAll(memory, ws))
    BY <1>1, <1>2, <1>6, ReturnFound
<1> HIDE DEF ws, answer
<1>8. Truthful(last', memory', tells)
    BY <1>3, <1>5, <1>7 DEF Truthful, Shaped
<1>. QED
    BY <1>3, <1>4, <1>5, <1>8 DEF Shaped

-----------------------------------------------------------------------------
(***************************************************************************)
(* Steps of the host functions                                             *)
(***************************************************************************)
LEMMA CallsTypedSeq ==
    ASSUME HostInv
    PROVE  /\ calls \in Seq(Waiting) /\ Len(calls) \in Nat /\ DOMAIN calls = 1 .. Len(calls)
           /\ Len(calls) <= MaxDepth /\ MaxDepth \in Nat \ {0}
           /\ opened \in 0 .. MaxOpened /\ opened \in Nat /\ MaxOpened \in Nat
           /\ Memories(memory) /\ held \in HeldType /\ poisoned \in BOOLEAN
           /\ GoodLog(logged) /\ last.status \in Statuses
<1>1. calls \in Seq(Waiting)
    BY DEF HostInv, CallsInv
<1>2. MaxDepth \in Nat \ {0} /\ MaxOpened \in Nat
    BY BoundsAssumption
<1>3. GoodLog(logged)
    BY DEF HostInv, LogIsPrefix, GoodLog
<1>. QED
    BY <1>1, <1>2, <1>3 DEF HostInv, TypeOK, Statuses

\* A function that answers, or begins to wait.
LEMMA ReturnBegins ==
    ASSUME HostInv, CallsInv', UNCHANGED <<here, poisoned>>, held' \in HeldType,
           opened' \in 0 .. MaxOpened, GoodLog(logged'), last = NoAnswer,
           NEW frame, Shaped(frame, memory), frame.fn \in HostFunction,
           calls = <<>> \/ Len(calls) < MaxDepth,
           BeginReturn(frame)
    PROVE  HostInv' /\ OkMeansDone'
<1>0. /\ Memories(memory) /\ 0 \in GuestPtr /\ poisoned' \in BOOLEAN
      /\ frame.value \in Seq(Byte) /\ Len(frame.value) \in Nat /\ Len(<<>>) <= WordMax
      /\ WordMax \in Nat /\ SignedMax <= WordMax
    BY CallsTypedSeq, WordMaxFacts DEF Shaped, SignedMax
<1>1. CASE ~NeedsAllocation(frame) /\ ~TooLarge(frame) /\ Complete(frame, 0) /\ UNCHANGED calls
    <2>1. frame.data # Absent => frame.value = <<>>
        BY <1>1 DEF NeedsAllocation
    <2>2. frame.data # Absent \/ frame.size # Absent => Len(frame.value) <= WordMax
        <3>1. CASE frame.data # Absent
            BY <1>0, <2>1, <3>1
        <3>2. CASE frame.data = Absent /\ frame.size # Absent
            <4>1. ~(Len(frame.value) > WordMax)
                BY <1>1, <3>2 DEF TooLarge
            <4>. QED
                BY <1>0, <4>1
        <3>. QED
            BY <3>1, <3>2
    <2>3. /\ Larger(memory, memory')
          /\ Truthful(last', memory', told')
          /\ last'.status \in Failing \cup {"Ok"}
        BY <1>0, <1>1, <2>1, <2>2, CompleteTruthful
    <2>4. \A i \in DOMAIN calls' : Awaits(calls'[i], memory)
        BY <1>1 DEF HostInv
    <2>5. HostInv'
        BY <1>0, <1>1, <2>3, <2>4, CallsTypedSeq, HostKept DEF Statuses
    <2>. QED
        BY <2>3, <2>5, OkIsTruthful
<1>2. CASE last' = Answer(frame.fn, "InternalFailure") /\ UNCHANGED <<calls, memory>>
    <2>1. last'.status \in Statuses
        BY <1>2, AnswerFields DEF Statuses, Failing
    <2>2. Larger(memory, memory')
        BY <1>0, <1>2, SameLarger
    <2>3. \A i \in DOMAIN calls' : Awaits(calls'[i], memory)
        BY <1>2 DEF HostInv
    <2>4. HostInv'
        BY <1>0, <1>2, <2>1, <2>2, <2>3, CallsTypedSeq, HostKept
    <2>5. Truthful(last', memory', told')
        BY <1>2, AnswerTruthful
    <2>. QED
        BY <2>4, <2>5, OkIsTruthful
<1>3. CASE /\ NeedsAllocation(frame) /\ ~TooLarge(frame)
           /\ calls' = Append(calls, frame) /\ UNCHANGED <<memory, last>>
    <2>1. Len(frame.value) <= WordMax
        <3>1. ~(Len(frame.value) > SignedMax)
            BY <1>3 DEF TooLarge
        <3>2. SignedMax \in Nat
            BY <1>0 DEF SignedMax
        <3>. QED
            BY <1>0, <3>1, <3>2
    <2>2. Awaits(frame, memory)
        BY <2>1 DEF Awaits
    <2>3. calls \in Seq(Waiting \cup {frame})
        BY CallsTypedSeq
    <2>4. /\ Len(calls') = Len(calls) + 1
          /\ DOMAIN calls' = 1 .. Len(calls) + 1
          /\ \A i \in 1 .. Len(calls) : calls'[i] = calls[i]
          /\ calls'[Len(calls) + 1] = frame
        BY <1>3, <2>3
    <2>5. Len(calls') <= MaxDepth
        <3>1. calls = <<>> => Len(calls) = 0
            OBVIOUS
        <3>. QED
            BY <2>4, <3>1, CallsTypedSeq
    <2>6. \A i \in DOMAIN calls' : Awaits(calls'[i], memory)
        BY <2>2, <2>4, CallsTypedSeq DEF HostInv
    <2>7. Larger(memory, memory')
        BY <1>0, <1>3, SameLarger
    <2>8. last' = NoAnswer /\ last'.status \in Statuses
        BY <1>3 DEF NoAnswer, Statuses
    <2>9. HostInv'
        BY <1>0, <2>5, <2>6, <2>7, <2>8, HostKept
    <2>. QED
        BY <2>8, <2>9, NoAnswerTruthful, OkIsTruthful
<1>. QED
    BY <1>1, <1>2, <1>3 DEF BeginReturn

LEMMA CallAnswers ==
    ASSUME HostInv, NEW f \in HostFunction, MayCall(f), NEW a \in Args[f], Call(f, a)
    PROVE  HostInv' /\ OkMeansDone'
<1>1. PICK o \in Outcomes(f, a) :
          /\ o.opens => opened < MaxOpened
          /\ held' = o.held
          /\ told' = o.told
          /\ opened' = IF o.opens THEN opened + 1 ELSE opened
          /\ logged' = IF o.message = Absent THEN logged ELSE o.message
          /\ IF o.value = Absent
             THEN /\ memory' = IF o.status = "Ok" THEN WriteAll(memory, o.writes) ELSE memory
                  /\ last' = Answer(f, o.status)
                  /\ UNCHANGED calls
             ELSE BeginReturn(Frame(f, a, o))
          /\ UNCHANGED <<here, made, poisoned>>
    BY DEF Call
<1>2. TypedOutcome(o, f, a)
    BY CallsTypedSeq, OutcomesTyped
<1>3. CallsInv'
    BY CallsInvStep DEF HostInv, CallsNext, Next
<1>4. opened' \in 0 .. MaxOpened
    BY <1>1, CallsTypedSeq
<1>5. GoodLog(logged')
    BY <1>1, <1>2, CallsTypedSeq DEF TypedOutcome
<1>6. held' \in HeldType /\ poisoned' \in BOOLEAN
    BY <1>1, <1>2, CallsTypedSeq DEF TypedOutcome
<1>7. last = NoAnswer /\ (calls = <<>> \/ Len(calls) < MaxDepth)
    BY DEF MayCall
<1>8. CASE o.value = Absent
    <2>1. /\ memory' = IF o.status = "Ok" THEN WriteAll(memory, o.writes) ELSE memory
          /\ last' = Answer(f, o.status)
          /\ UNCHANGED calls
        BY <1>1, <1>8
    <2>2. Larger(memory, memory')
        BY <1>2, <2>1, CallsTypedSeq, SameLarger, WriteAllLarger DEF TypedOutcome
    <2>3. last'.status \in Statuses
        BY <1>2, <2>1, AnswerFields DEF TypedOutcome, Statuses
    <2>4. \A i \in DOMAIN calls' : Awaits(calls'[i], memory)
        BY <2>1 DEF HostInv
    <2>5. Len(calls') <= MaxDepth
        BY <2>1, CallsTypedSeq
    <2>6. HostInv'
        BY <1>1, <1>3, <1>4, <1>5, <1>6, <2>2, <2>3, <2>4, <2>5, HostKept
    <2>7. Truthful(last', memory', told')
        BY <1>1, <1>2, <2>1, AnswerTruthful DEF TypedOutcome
    <2>. QED
        BY <2>6, <2>7, OkIsTruthful
<1>9. CASE o.value # Absent
    <2>1. BeginReturn(Frame(f, a, o))
        BY <1>1, <1>9
    <2>2. Shaped(Frame(f, a, o), memory) /\ Frame(f, a, o).fn = f
        BY <1>2, <1>9, FrameShaped
    <2>. QED
        BY <1>1, <1>3, <1>4, <1>5, <1>6, <1>7, <2>1, <2>2, ReturnBegins
<1>. QED
    BY <1>8, <1>9

LEMMA ReturnAnswers ==
    ASSUME HostInv, NEW address \in Allocations, AllocatorReturns(address)
    PROVE  HostInv' /\ OkMeansDone'
<1> DEFINE frame == Last(calls)
<1>1. /\ calls # <<>> /\ calls' = Front(calls)
      /\ UNCHANGED <<held, told, opened, logged, here, poisoned>>
      /\ IF Allocated(frame, address) = "Ok" THEN Complete(frame, address)
         ELSE last' = Answer(frame.fn, Allocated(frame, address)) /\ UNCHANGED memory
    BY DEF AllocatorReturns
<1>2. CallsInv'
    BY CallsInvStep DEF HostInv, CallsNext, Next
<1>3. /\ Len(calls) \in DOMAIN calls /\ DOMAIN calls = 1 .. Len(calls)
      /\ Len(calls') = Len(calls) - 1
      /\ DOMAIN calls' = 1 .. Len(calls) - 1
      /\ \A i \in 1 .. Len(calls) - 1 : calls'[i] = calls[i]
    BY <1>1, CallsTypedSeq, FrontFacts
<1>4. Awaits(frame, memory)
    BY <1>3 DEF Last, HostInv
<1>5. Len(calls') <= MaxDepth /\ \A i \in DOMAIN calls' : Awaits(calls'[i], memory)
    BY <1>3, CallsTypedSeq DEF HostInv
<1>6. address \in GuestPtr
    BY ArgumentsAssumption
<1> HIDE DEF frame
<1>7. CASE Allocated(frame, address) = "Ok"
    <2>1. Readable(memory, [ptr |-> address, len |-> Len(frame.value)])
        BY <1>7 DEF Allocated
    <2>2. /\ Larger(memory, memory')
          /\ Truthful(last', memory', told')
          /\ last'.status \in Failing \cup {"Ok"}
        BY <1>1, <1>4, <1>6, <1>7, <2>1, CallsTypedSeq, CompleteTruthful DEF Awaits
    <2>3. HostInv'
        BY <1>1, <1>2, <1>5, <2>2, CallsTypedSeq, HostKept DEF Statuses
    <2>. QED
        BY <2>2, <2>3, OkIsTruthful
<1>8. CASE Allocated(frame, address) # "Ok"
    <2>1. last' = Answer(frame.fn, Allocated(frame, address)) /\ UNCHANGED memory
        BY <1>1, <1>8
    <2>2. last'.status \in Statuses
        BY <2>1, AnswerFields DEF Allocated, Statuses, Failing
    <2>3. Larger(memory, memory')
        BY <2>1, CallsTypedSeq, SameLarger
    <2>4. HostInv'
        BY <1>1, <1>2, <1>5, <2>2, <2>3, CallsTypedSeq, HostKept
    <2>5. Truthful(last', memory', told')
        BY <1>8, <2>1, AnswerTruthful
    <2>. QED
        BY <2>4, <2>5, OkIsTruthful
<1>. QED
    BY <1>7, <1>8

-----------------------------------------------------------------------------
(***************************************************************************)
(* WASI                                                                    *)
(***************************************************************************)
LEMMA FullReply ==
    ASSUME HostInv, CallsInv', NEW answer, NEW m, Replies(answer, m), Larger(memory, m),
           answer.status \in Statuses, answer.fn \notin Effects, GoodLog(logged'),
           answer.status = "Ok" /\ Apart(PlacesOf(answer)) => Finds(answer, m)
    PROVE  HostInv' /\ OkMeansDone'
<1>1. /\ memory' = m /\ last' = answer /\ told' = Nothing
      /\ UNCHANGED <<calls, held, opened, here, poisoned>>
    BY DEF Replies
<1>2. \A i \in DOMAIN calls' : Awaits(calls'[i], memory)
    BY <1>1 DEF HostInv
<1>3. HostInv'
    BY <1>1, <1>2, CallsTypedSeq, HostKept
<1>4. Truthful(last', memory', told')
    BY <1>1 DEF Truthful
<1>. QED
    BY <1>3, <1>4, OkIsTruthful

LEMMA PlainReply ==
    ASSUME HostInv, CallsInv', NEW f, f \notin Effects, NEW status \in WasiFailing \cup {"Ok"},
           NEW m, Replies(Answer(f, status), m), Larger(memory, m), UNCHANGED logged
    PROVE  HostInv' /\ OkMeansDone'
<1>1. /\ Answer(f, status).status \in Statuses /\ Answer(f, status).fn = f
      /\ GoodLog(logged')
    BY AnswerFields, CallsTypedSeq DEF Statuses
<1>2. Truthful(Answer(f, status), m, Nothing)
    BY AnswerTruthful
<1>3. Answer(f, status).status = "Ok" /\ Apart(PlacesOf(Answer(f, status))) => Finds(Answer(f, status), m)
    BY <1>2 DEF Truthful
<1>. QED
    BY <1>1, <1>3, FullReply

LEMMA ClockAnswers ==
    ASSUME HostInv, CallsInv', NEW id \in {"Realtime", "Monotonic", Unknown}, NEW time \in GuestPtr,
           ClockTimeGet(id, time)
    PROVE  HostInv' /\ OkMeansDone'
<1> DEFINE f == "clock_time_get"
           v == Configuration.time[id]
           bytes == LittleEndian(v, 2 * WordBytes)
<1>0. Memories(memory) /\ Larger(memory, memory) /\ UNCHANGED logged /\ f \notin Effects
    BY CallsTypedSeq, SameLarger DEF ClockTimeGet, Effects
<1>1. CASE \E status \in WasiFailing : Replies(Answer(f, status), memory)
    BY <1>0, <1>1, PlainReply
<1>2. CASE id # Unknown /\ Replies(Answer(f, "Ok"), WriteLong(memory, time, v))
    <2>1. v \in Nat
        <3>1. v \in 0 .. Power[2 * WordBytes] - 1
            BY <1>2, ConfigurationAssumption DEF VmServices
        <3>2. Power[2 * WordBytes] \in Nat
            BY PowerFacts, Widths
        <3>. QED
            BY <3>1, <3>2
    <2>2. bytes \in Seq(Byte) /\ time \in Nat
        <3>1. 2 * WordBytes \in 1 .. 2 * WordBytes
            BY Widths
        <3>. QED
            BY <2>1, <3>1, LittleEndianBytes, WordMaxFacts
    <2>3. Larger(memory, WriteLong(memory, time, v))
        BY <1>0, <2>2, WriteLarger DEF WriteLong
    <2>. QED
        BY <1>0, <1>2, <2>3, PlainReply
<1>. QED
    BY <1>1, <1>2 DEF ClockTimeGet, Fault, WasiFailing

LEMMA RandomAnswers ==
    ASSUME HostInv, CallsInv', NEW slice \in GuestSlice, RandomGet(slice)
    PROVE  HostInv' /\ OkMeansDone'
<1> DEFINE f == "random_get"
<1>0. Memories(memory) /\ Larger(memory, memory) /\ UNCHANGED logged /\ f \notin Effects
    BY CallsTypedSeq, SameLarger DEF RandomGet, Effects
<1>1. CASE \E status \in WasiFailing : Replies(Answer(f, status), memory)
    BY <1>0, <1>1, PlainReply
<1>2. ASSUME NEW status \in WasiFailing \cup {"Ok"}, NEW fill \in Fills(slice) \cup {<<>>},
             Replies(Answer(f, status), Write(memory, slice.ptr, fill))
      PROVE  HostInv' /\ OkMeansDone'
    <2>1. slice.ptr \in Nat /\ slice.len \in Nat
        BY WordMaxFacts DEF GuestSlice
    <2>2. 0 \in Byte /\ Base - 1 \in Byte
        BY Widths DEF Byte
    <2>3. fill \in Seq(Byte)
        <3>1. \A b \in Byte : [i \in 1 .. slice.len |-> b] \in Seq(Byte)
            BY <2>1
        <3>2. fill = <<>> \/ \E b \in Byte : fill = [i \in 1 .. slice.len |-> b]
            BY <2>2 DEF Fills
        <3>3. <<>> \in Seq(Byte)
            OBVIOUS
        <3>. QED
            BY <3>1, <3>2, <3>3, Zenon
    <2>4. Larger(memory, Write(memory, slice.ptr, fill))
        BY <1>0, <2>1, <2>3, WriteLarger
    <2>. QED
        BY <1>0, <1>2, <2>4, PlainReply
<1>3. "Inval" \in WasiFailing /\ "Fault" \in WasiFailing
    BY DEF WasiFailing
<1>. QED
    BY <1>1, <1>2, <1>3 DEF RandomGet, Fault

LEMMA TwoWordsAnswers ==
    ASSUME HostInv, CallsInv', NEW f, f \notin Effects, NEW first \in GuestPtr, NEW count \in Nat,
           NEW second \in GuestPtr, NEW size \in Nat, TwoWords(f, first, count, second, size)
    PROVE  HostInv' /\ OkMeansDone'
<1> DEFINE one == WriteWord(memory, first, count)
           two == WriteWord(one, second, size)
<1>0. Memories(memory) /\ Larger(memory, memory) /\ UNCHANGED logged
    BY CallsTypedSeq, SameLarger DEF TwoWords
<1>1. /\ LittleEndian(count, WordBytes) \in Seq(Byte) /\ LittleEndian(size, WordBytes) \in Seq(Byte)
      /\ first \in Nat /\ second \in Nat
    <2>1. WordBytes \in 1 .. 2 * WordBytes
        BY Widths
    <2>. QED
        BY <2>1, LittleEndianBytes, WordMaxFacts
<1>2. PICK n \in 0 .. WordMax + 1 : memory \in MemoryOf(n)
    BY <1>0 DEF Memories, MemoryOf
<1>3. n \in Nat /\ n <= n
    BY WordMaxFacts
<1>4. one \in MemoryOf(n)
    BY <1>1, <1>2, <1>3, WriteFacts DEF WriteWord
<1> HIDE DEF one
<1>5. two \in MemoryOf(n)
    BY <1>1, <1>3, <1>4, WriteFacts DEF WriteWord
<1> HIDE DEF two
<1>6. Larger(memory, one) /\ Larger(memory, two)
    BY <1>2, <1>3, <1>4, <1>5 DEF Larger
<1>7. \/ Replies(Answer(f, "Fault"), memory) \/ Replies(Answer(f, "Fault"), one)
      \/ Replies(Answer(f, "Ok"), two)
    BY DEF TwoWords, Fault, one, two
<1>8. "Fault" \in WasiFailing
    BY DEF WasiFailing
<1>. QED
    BY <1>0, <1>6, <1>7, <1>8, PlainReply

\* A word that was read is a number.
LEMMA ReadWordNat ==
    ASSUME NEW n \in Nat, NEW m \in MemoryOf(n), NEW ptr \in Nat, ptr + WordBytes <= n
    PROVE  ReadWord(m, ptr) \in Nat
<1> DEFINE bytes == Read(m, WordSlice(ptr))
<1>1. bytes = [i \in 1 .. WordBytes |-> m[ptr + i - 1]]
    BY DEF Read, WordSlice
<1>2. \A i \in 1 .. WordBytes : ptr + i - 1 \in 0 .. n - 1
    BY Widths
<1>3. \A i \in 1 .. WordBytes : bytes[i] \in Byte
    BY <1>1, <1>2 DEF MemoryOf
<1> HIDE DEF bytes
<1>4. \A i \in 1 .. WordBytes : 0 + i = i
    BY Widths
<1>5. \A i \in 1 .. WordBytes : bytes[0 + i] \in Byte
    BY <1>3, <1>4
<1>6. WordOf(bytes, 0) \in Nat
    BY <1>5, WordNat
<1>. QED
    BY <1>6 DEF ReadWord, bytes

\* The ranges of an fd_write, when the table that holds them is readable.
LEMMA EntriesTyped ==
    ASSUME NEW n \in 0 .. WordMax + 1, memory \in MemoryOf(n), NEW iovs \in GuestPtr,
           NEW count \in GuestPtr, Readable(memory, Table(iovs, count)),
           \A i \in 1 .. count : Readable(memory, Entries(memory, iovs, count)[i])
    PROVE  Sent(Entries(memory, iovs, count)) \in Seq(Byte)
<1> DEFINE w == 2 * WordBytes
           e == Entries(memory, iovs, count)
           read == [i \in DOMAIN e |-> Read(memory, e[i])]
<1>0. /\ n \in Nat /\ iovs \in Nat /\ count \in Nat /\ WordMax \in Nat /\ WordBytes \in Nat
      /\ w \in Nat /\ w = WordBytes + WordBytes
    BY WordMaxFacts, Widths
<1>1. Size(memory) = n
    BY <1>0, SizeIs DEF MemoryOf
<1>2. iovs + count * w <= n
    BY <1>1 DEF Readable, Inside, Table, IovecSize
<1>3. DOMAIN e = 1 .. count /\ \A i \in 1 .. count :
          e[i] = [ptr |-> ReadWord(memory, iovs + (i - 1) * w),
                  len |-> ReadWord(memory, iovs + (i - 1) * w + WordBytes)]
    BY DEF Entries, IovecSize
<1> HIDE DEF w, e
<1>4. ASSUME NEW i \in 1 .. count
      PROVE  e[i] \in GuestSlice
    <2> DEFINE at == (i - 1) * w
               all == count * w
               p == ReadWord(memory, iovs + at)
               q == ReadWord(memory, iovs + at + WordBytes)
    <2>1. i \in Nat /\ i <= count /\ i - 1 \in Nat
        BY <1>0
    <2>2. at \in Nat /\ all \in Nat /\ at + w <= all
        <3>1. (i - 1) * w + w = i * w /\ i * w <= count * w
            BY <1>0, <2>1, Products
        <3>2. (i - 1) * w \in Nat /\ count * w \in Nat
            BY <1>0, <2>1, Products
        <3>. QED
            BY <3>1, <3>2
    <2>3. iovs + all <= n
        BY <1>2
    <2> HIDE DEF at, all
    <2>4. /\ iovs + at \in Nat /\ iovs + at + WordBytes <= n
          /\ iovs + at + WordBytes \in Nat /\ iovs + at + WordBytes + WordBytes <= n
        BY <1>0, <2>2, <2>3
    <2>5. p \in Nat /\ q \in Nat
        BY <1>0, <2>4, ReadWordNat
    <2>6. e[i] = [ptr |-> p, len |-> q]
        BY <1>3 DEF at
    <2> HIDE DEF p, q
    <2>7. InRangeOfWord(e[i])
        BY DEF e, Readable
    <2>8. p + q <= WordMax
        BY <2>6, <2>7 DEF InRangeOfWord
    <2>9. p \in 0 .. WordMax /\ q \in 0 .. WordMax
        BY <1>0, <2>5, <2>8
    <2>. QED
        BY <2>6, <2>9, WordMaxFacts DEF GuestSlice
<1>5. ASSUME NEW i \in 1 .. count
      PROVE  Read(memory, e[i]) \in Seq(Byte)
    <2>1. Inside(memory, e[i])
        BY DEF e, Readable
    <2>. QED
        BY <1>0, <1>4, <2>1, ReadableIn
<1>6. read \in Seq(Seq(Byte))
    BY <1>0, <1>3, <1>5
<1>7. Sent(e) = FlattenSeq(read)
    BY DEF Sent
<1> HIDE DEF read
<1>. QED
    BY <1>6, <1>7, FlattenBytes DEF e

\* What reaches the sink is the beginning of what was sent, within the limit.
LEMMA MessageGood ==
    ASSUME Memories(memory), NEW sent \in Seq(Byte), NEW level
    PROVE  GoodLog(LogContext(level, FdWriteMessage(sent), sent))
<1> DEFINE max == IF MaxLogBytes = NoLimit THEN Size(memory) ELSE MaxLogBytes
           cut == CutTo(sent, max)
           message == FdWriteMessage(sent)
<1>0. PICK n \in 0 .. WordMax + 1 : memory \in MemoryOf(n)
    BY DEF Memories, MemoryOf
<1>1. max \in Nat \cup {NoLimit}
    <2>1. n \in Nat
        BY WordMaxFacts
    <2>2. Size(memory) \in Nat
        BY <1>0, <2>1, SizeIs DEF MemoryOf
    <2>. QED
        BY <2>2, BoundsAssumption
<1>2. MaxLogBytes # NoLimit => max = MaxLogBytes
    OBVIOUS
<1>3. message = WithoutNewline(cut)
    BY DEF FdWriteMessage
<1> HIDE DEF max
<1>4. /\ cut \in Seq(Byte) /\ Len(cut) <= Len(sent)
      /\ \A i \in 1 .. Len(cut) : cut[i] = sent[i]
      /\ ~Exceeds(Len(cut), max)
    BY <1>1, CutFacts
<1> HIDE DEF cut, message
<1>5. /\ message \in Seq(Byte) /\ Len(message) <= Len(cut)
      /\ \A i \in 1 .. Len(message) : message[i] = cut[i]
    <2>1. CASE message = cut
        BY <1>4, <2>1
    <2>2. CASE cut # <<>> /\ message = Front(cut)
        <3>1. /\ Len(cut) \in Nat \ {0} /\ message \in Seq(Byte)
              /\ Len(message) = Len(cut) - 1
              /\ \A i \in 1 .. Len(cut) - 1 : message[i] = cut[i]
            BY <1>4, <2>2, FrontFacts
        <3>. QED
            BY <3>1
    <2>. QED
        BY <1>3, <2>1, <2>2 DEF WithoutNewline
<1>6. /\ Len(message) \in Nat /\ Len(cut) \in Nat /\ Len(sent) \in Nat
      /\ Len(message) <= Len(sent)
    BY <1>4, <1>5
<1>7. \A i \in 1 .. Len(message) : i \in 1 .. Len(cut)
    BY <1>5, <1>6
<1>8. \A i \in 1 .. Len(message) : message[i] = sent[i]
    BY <1>4, <1>5, <1>7
<1>9. IsPrefix(message, sent)
    BY <1>5, <1>6, <1>8, PrefixIf
<1>10. ~Exceeds(Len(message), MaxLogBytes)
    <2>1. CASE MaxLogBytes = NoLimit
        BY <2>1 DEF Exceeds
    <2>2. CASE MaxLogBytes # NoLimit
        <3>1. max = MaxLogBytes /\ MaxLogBytes \in Nat
            BY <1>2, <2>2, BoundsAssumption
        <3>2. ~(Len(cut) > MaxLogBytes)
            BY <1>4, <2>2, <3>1 DEF Exceeds
        <3>3. ~(Len(message) > MaxLogBytes)
            BY <1>5, <1>6, <3>1, <3>2
        <3>. QED
            BY <3>3 DEF Exceeds
    <2>. QED
        BY <2>1, <2>2
<1>. QED
    BY <1>9, <1>10, LogContextGood DEF message

LEMMA FdWriteAnswers ==
    ASSUME HostInv, CallsInv', NEW fd, NEW iovs \in GuestPtr, NEW count \in GuestPtr,
           NEW nwritten \in GuestPtr, FdWrite(fd, iovs, count, nwritten)
    PROVE  HostInv' /\ OkMeansDone'
<1> DEFINE f == "fd_write"
           status == FdWriteErrno(fd, iovs, count, nwritten)
           sent == Sent(Entries(memory, iovs, count))
           v == Least(Len(sent), WordMax)
           answer == [Answer(f, "Ok") EXCEPT !.size = nwritten, !.value = sent]
           m == WriteWord(memory, nwritten, v)
<1>0. Memories(memory) /\ Larger(memory, memory) /\ f \notin Effects /\ GoodLog(logged)
    BY CallsTypedSeq, SameLarger DEF Effects
<1>1. CASE status # "Success"
    <2>1. Replies(Answer(f, status), memory) /\ UNCHANGED logged
        BY <1>1 DEF FdWrite
    <2>2. status \in WasiFailing
        BY <1>1 DEF FdWriteErrno, WasiFailing
    <2> HIDE DEF status
    <2>. QED
        BY <1>0, <2>1, <2>2, PlainReply
<1>2. CASE status = "Success"
    <2>1. /\ Replies(answer, m)
          /\ logged' = IF count = 0 THEN logged ELSE LogContext(LevelOf(fd), FdWriteMessage(sent), sent)
        BY <1>2 DEF FdWrite
    <2>2. /\ HasWord(memory, nwritten) /\ Readable(memory, Table(iovs, count))
          /\ \A i \in 1 .. count : Readable(memory, Entries(memory, iovs, count)[i])
        BY <1>2 DEF FdWriteErrno
    <2>3. PICK n \in 0 .. WordMax + 1 : memory \in MemoryOf(n)
        BY <1>0 DEF Memories, MemoryOf
    <2>4. sent \in Seq(Byte)
        BY <2>2, <2>3, EntriesTyped
    <2>5. /\ answer.status = "Ok" /\ answer.fn = f /\ answer.data = Absent
          /\ answer.size = nwritten /\ answer.value = sent /\ answer.others = <<>>
        BY DEF Answer, NoAnswer
    <2> HIDE DEF sent, answer
    <2>6. GoodLog(logged')
        BY <1>0, <2>1, <2>4, MessageGood
    <2>7. n \in Nat /\ n <= n /\ v \in GuestPtr /\ v \in Nat /\ nwritten \in Nat
        <3>1. Len(sent) \in Nat
            BY <2>4
        <3>. QED
            BY <3>1, WordMaxFacts DEF Least
    <2> HIDE DEF v
    <2> DEFINE bytes == LittleEndian(v, WordBytes)
    <2>8. bytes \in Seq(Byte) /\ Len(bytes) = WordBytes
        <3>1. WordBytes \in 1 .. 2 * WordBytes
            BY Widths
        <3>. QED
            BY <2>7, <3>1, LittleEndianBytes
    <2>9. m = Write(memory, nwritten, bytes)
        BY DEF WriteWord
    <2> HIDE DEF bytes, m
    <2>10. Larger(memory, m)
        BY <1>0, <2>7, <2>8, <2>9, WriteLarger
    <2>11. Has(m, nwritten, bytes)
        <3>1. nwritten + WordBytes <= n
            <4>1. Size(memory) = n
                BY <2>3, <2>7, SizeIs DEF MemoryOf
            <4>. QED
                BY <2>2, <4>1 DEF HasWord, Readable, Inside, WordSlice
        <3>2. \A i \in 1 .. WordBytes : nwritten + i - 1 \in 0 .. n - 1
            BY <2>7, <3>1, Widths
        <3>25. Overwritten(m, memory, n, nwritten, bytes)
            BY <2>3, <2>7, <2>8, <2>9, WriteIs
        <3>3. \A i \in 1 .. Len(bytes) :
                  nwritten + i - 1 \in 0 .. n - 1 => m[nwritten + i - 1] = bytes[i]
            BY <3>25 DEF Overwritten
        <3>. QED
            BY <2>8, <3>2, <3>3 DEF Has
    <2>12. ReadWord(m, nwritten) = v
        BY <2>7, <2>11, ReadWordIs DEF bytes
    <2>13. Finds(answer, m)
        BY <2>5, <2>12 DEF Finds, v
    <2>. QED
        BY <1>0, <2>1, <2>5, <2>6, <2>10, <2>13, FullReply DEF Statuses
<1>. QED
    BY <1>1, <1>2

\* The environment as bytes: each variable with its terminator, and where it
\* begins in the block.
LEMMA VariablesTyped ==
    ASSUME NEW n \in 0 .. Len(Configuration.environment)
    PROVE  /\ FlattenSeq([i \in 1 .. n |-> Append(Configuration.environment[i], Terminator)])
                  \in Seq(Byte)
           /\ Configuration.environment \in Seq(Seq(Byte))
           /\ Len(Configuration.environment) \in Nat
           /\ DOMAIN Configuration.environment = 1 .. Len(Configuration.environment)
<1> DEFINE env == Configuration.environment
           parts == [i \in 1 .. n |-> Append(env[i], Terminator)]
<1>1. env \in Seq(Seq(Byte))
    BY ConfigurationAssumption DEF VmServices
<1>2. Terminator \in Byte
    BY Widths DEF Terminator, Byte
<1>3. n \in Nat /\ \A i \in 1 .. n : env[i] \in Seq(Byte)
    BY <1>1
<1>4. \A i \in 1 .. n : Append(env[i], Terminator) \in Seq(Byte)
    BY <1>2, <1>3
<1>5. parts \in Seq(Seq(Byte))
    BY <1>3, <1>4
<1>6. Len(env) \in Nat /\ DOMAIN env = 1 .. Len(env)
    BY <1>1
<1> HIDE DEF parts, env
<1>7. FlattenSeq(parts) \in Seq(Byte)
    BY <1>5, FlattenBytes
<1>. QED
    BY <1>1, <1>6, <1>7 DEF parts, env

LEMMA BlockTyped == EnvironmentBlock \in Seq(Byte) /\ Len(EnvironmentBlock) \in Nat
<1> DEFINE n == Len(Configuration.environment)
<1>0. 0 \in 0 .. n
    BY ConfigurationAssumption DEF VmServices
<1>1. n \in Nat /\ DOMAIN Configuration.environment = 1 .. n
    BY <1>0, VariablesTyped
<1>2. n \in 0 .. n
    BY <1>1
<1>3. FlattenSeq([i \in 1 .. n |-> Append(Configuration.environment[i], Terminator)]) \in Seq(Byte)
    BY <1>2, VariablesTyped
<1>4. EnvironmentBlock \in Seq(Byte)
    BY <1>1, <1>3 DEF EnvironmentBlock
<1>. QED
    BY <1>4

LEMMA OffsetsTyped ==
    ASSUME NEW buffer \in GuestPtr, NEW k \in 1 .. Len(Configuration.environment) + 1
    PROVE  Offsets(buffer)[k] \in Nat /\ Offsets(buffer)[1] = buffer
<1> DEFINE n == Len(Configuration.environment)
           parts(i) == [j \in 1 .. i - 1 |-> Append(Configuration.environment[j], Terminator)]
<1>0. n \in Nat /\ buffer \in Nat
    BY ConfigurationAssumption, WordMaxFacts DEF VmServices
<1>1. \A i \in 1 .. n + 1 : Offsets(buffer)[i] = buffer + Len(FlattenSeq(parts(i)))
    BY DEF Offsets
<1>2. FlattenSeq(parts(k)) \in Seq(Byte)
    <2>1. k - 1 \in 0 .. n
        BY <1>0
    <2>. QED
        BY <2>1, VariablesTyped
<1>3. Len(FlattenSeq(parts(1))) = 0
    <2>1. Len(parts(1)) = 0
        OBVIOUS
    <2>. QED
        BY <2>1 DEF FlattenSeq
<1>4. 1 \in 1 .. n + 1
    BY <1>0
<1> HIDE DEF parts, n
<1>5. Len(FlattenSeq(parts(k))) \in Nat
    BY <1>2
<1>. QED
    BY <1>0, <1>1, <1>3, <1>4, <1>5 DEF n

\* The array of pointers is one word for each variable.
LEMMA PointersAre ==
    ASSUME NEW buffer \in GuestPtr
    PROVE  LET n == Len(Configuration.environment)
               pointers == FlattenSeq([i \in DOMAIN Configuration.environment |->
                                           LittleEndian(Offsets(buffer)[i], WordBytes)])
           IN  /\ pointers \in Seq(Byte) /\ Len(pointers) = n * WordBytes
               /\ \A k \in 1 .. n :
                     /\ Offsets(buffer)[k] \in Nat
                     /\ \A j \in 1 .. WordBytes :
                           pointers[(k - 1) * WordBytes + j]
                               = LittleEndian(Offsets(buffer)[k], WordBytes)[j]
<1> DEFINE n == Len(Configuration.environment)
           words == [i \in 1 .. n |-> LittleEndian(Offsets(buffer)[i], WordBytes)]
<1>0. n \in Nat /\ DOMAIN Configuration.environment = 1 .. n
    BY ConfigurationAssumption DEF VmServices
<1>1. \A k \in 1 .. n : Offsets(buffer)[k] \in Nat
    <2>1. \A k \in 1 .. n : k \in 1 .. n + 1
        BY <1>0
    <2>. QED
        BY <2>1, OffsetsTyped
<1>2. ASSUME NEW k \in 1 .. n
      PROVE  /\ LittleEndian(Offsets(buffer)[k], WordBytes) \in Seq(Byte)
             /\ Len(LittleEndian(Offsets(buffer)[k], WordBytes)) = WordBytes
    <2>1. WordBytes \in 1 .. 2 * WordBytes
        BY Widths
    <2>. QED
        BY <1>1, <2>1, LittleEndianBytes
<1> HIDE DEF n
<1>3. /\ words \in Seq(Seq(Byte)) /\ Len(words) = n
      /\ \A k \in 1 .. n : words[k] = LittleEndian(Offsets(buffer)[k], WordBytes)
    BY <1>0, <1>2
<1> HIDE DEF words
<1>4. \A i \in 1 .. Len(words) : Len(words[i]) = WordBytes
    BY <1>2, <1>3
<1>5. WordBytes \in Nat
    BY Widths
<1>6. /\ FlattenSeq(words) \in Seq(Byte)
      /\ Len(FlattenSeq(words)) = Len(words) * WordBytes
      /\ \A k \in 1 .. Len(words), j \in 1 .. WordBytes :
            FlattenSeq(words)[(k - 1) * WordBytes + j] = words[k][j]
    BY <1>3, <1>4, <1>5, FlattenWidth
<1>7. FlattenSeq([i \in DOMAIN Configuration.environment |->
                     LittleEndian(Offsets(buffer)[i], WordBytes)]) = FlattenSeq(words)
    BY <1>0 DEF words
<1>. QED
    BY <1>1, <1>3, <1>6, <1>7 DEF n

LEMMA WrittenTwice ==
    ASSUME NEW n \in Nat, NEW m \in MemoryOf(n), NEW p \in Nat, NEW first \in Seq(Byte),
           NEW q \in Nat, NEW second \in Seq(Byte)
    PROVE  \A i \in 1 .. Len(first) :
               p + i - 1 \in 0 .. n - 1 /\ p + i - 1 \notin q .. q + Len(second) - 1
                   => Write(Write(m, p, first), q, second)[p + i - 1] = first[i]
<1> DEFINE l == Write(m, p, first)
<1>1. /\ l \in MemoryOf(n)
      /\ \A i \in 1 .. Len(first) : p + i - 1 \in 0 .. n - 1 => l[p + i - 1] = first[i]
    BY WriteFacts
<1> HIDE DEF l
<1>2. \A a \in 0 .. n - 1 : a \notin q .. q + Len(second) - 1 => Write(l, q, second)[a] = l[a]
    BY <1>1, WriteFacts
<1>. QED
    BY <1>1, <1>2 DEF l

\* A piece of what was written, which no later write touches, is found.
LEMMA PieceFound ==
    ASSUME NEW n \in Nat, NEW m \in MemoryOf(n), NEW p \in Nat, NEW first \in Seq(Byte),
           p + Len(first) <= n, NEW q \in Nat, NEW second \in Seq(Byte),
           NEW off \in Nat, NEW piece \in Seq(Byte), off + Len(piece) <= Len(first),
           \A j \in 1 .. Len(piece) : first[off + j] = piece[j],
           (p + off .. p + off + Len(piece) - 1) \cap (q .. q + Len(second) - 1) = {}
    PROVE  Has(Write(Write(m, p, first), q, second), p + off, piece)
<1> DEFINE f == Write(Write(m, p, first), q, second)
<1>0. Len(first) \in Nat /\ Len(second) \in Nat /\ Len(piece) \in Nat
    OBVIOUS
<1>1. \A i \in 1 .. Len(first) :
          p + i - 1 \in 0 .. n - 1 /\ p + i - 1 \notin q .. q + Len(second) - 1
              => f[p + i - 1] = first[i]
    BY WrittenTwice
<1> HIDE DEF f
<1>3. ASSUME NEW j \in 1 .. Len(piece)
      PROVE  f[p + off + j - 1] = piece[j]
    <2> DEFINE a == p + off + j - 1
               i == off + j
    <2>1. /\ i \in 1 .. Len(first) /\ p + i - 1 = a /\ a \in 0 .. n - 1
          /\ a \in p + off .. p + off + Len(piece) - 1
        BY <1>0
    <2>2. first[i] = piece[j]
        OBVIOUS
    <2> HIDE DEF a, i
    <2>3. f[a] = first[i]
        BY <1>1, <2>1
    <2>. QED
        BY <2>2, <2>3 DEF a
<1>. QED
    BY <1>3 DEF Has, f

LEMMA EnvironFound ==
    ASSUME NEW array \in GuestPtr, NEW buffer \in GuestPtr, NEW n \in Nat, NEW m \in MemoryOf(n),
           NEW pointers, pointers = FlattenSeq([i \in DOMAIN Configuration.environment |->
                                                   LittleEndian(Offsets(buffer)[i], WordBytes)]),
           array + Len(pointers) <= n, buffer + Len(EnvironmentBlock) <= n,
           NEW answer, answer.data = (IF pointers = <<>> THEN Absent ELSE array),
           answer.size = Absent, answer.value = EnvironmentBlock, answer.address = buffer,
           answer.others = OtherPointers(array, buffer),
           Apart(PlacesOf(answer))
    PROVE  Finds(answer, Write(Write(m, array, pointers), buffer, EnvironmentBlock))
<1> DEFINE k == Len(Configuration.environment)
           block == EnvironmentBlock
           l == Write(Write(m, array, pointers), buffer, block)
           at(i) == (i - 1) * WordBytes
           word(i) == LittleEndian(Offsets(buffer)[i], WordBytes)
           bytes == buffer .. buffer + Len(block) - 1
<1>0. /\ array \in Nat /\ buffer \in Nat /\ k \in Nat /\ WordBytes \in Nat \ {0}
      /\ WordBytes \in 1 .. 2 * WordBytes /\ block \in Seq(Byte) /\ Len(block) \in Nat
    BY BlockTyped, WordMaxFacts, Widths, ConfigurationAssumption DEF VmServices
<1>1. /\ pointers \in Seq(Byte) /\ Len(pointers) = k * WordBytes
      /\ \A i \in 1 .. k :
            /\ Offsets(buffer)[i] \in Nat
            /\ \A j \in 1 .. WordBytes : pointers[at(i) + j] = word(i)[j]
    BY PointersAre
<1>2. \A i \in 1 .. k : word(i) \in Seq(Byte) /\ Len(word(i)) = WordBytes
    BY <1>0, <1>1, LittleEndianBytes
<1>3. \A i \in 1 .. k : at(i) \in Nat /\ at(i) + WordBytes <= Len(pointers)
    <2>1. ASSUME NEW i \in 1 .. k
          PROVE  at(i) \in Nat /\ at(i) + WordBytes <= k * WordBytes
        <3>1. i \in Nat /\ i - 1 \in Nat /\ i <= k /\ WordBytes \in Nat
            BY <1>0
        <3>2. (i - 1) * WordBytes + WordBytes = i * WordBytes /\ i * WordBytes <= k * WordBytes
            BY <1>0, <3>1, Products
        <3>3. (i - 1) * WordBytes \in Nat
            BY <3>1, Products
        <3>. QED
            BY <3>2, <3>3
    <2>. QED
        BY <1>1, <2>1
<1>4. DOMAIN answer.others = 1 .. k - 1
    BY DEF OtherPointers
<1>5. ASSUME NEW i \in 1 .. k - 1
      PROVE  /\ answer.others[i][1] = array + at(i + 1)
             /\ answer.others[i][2] = word(i + 1)
             /\ i + 1 \in 1 .. k
    <2>1. i + 1 - 1 = i /\ i + 1 \in 1 .. k
        BY <1>0
    <2>2. answer.others[i] = WordAt(array + i * WordBytes, Offsets(buffer)[i + 1])
        BY DEF OtherPointers
    <2>. QED
        BY <2>1, <2>2 DEF WordAt
<1> HIDE DEF k, block
<1>6. CASE pointers = <<>>
    <2>1. k * WordBytes = 0
        BY <1>1, <1>6
    <2>2. k = 0
        <3>1. k >= 1 => k * WordBytes >= 1 * WordBytes
            BY <1>0, Products
        <3>2. 1 * WordBytes = WordBytes
            BY <1>0
        <3>. QED
            BY <1>0, <2>1, <3>1, <3>2
    <2>3. DOMAIN answer.others = {}
        BY <1>4, <2>2
    <2>. QED
        BY <1>6, <2>3 DEF Finds
<1>7. CASE pointers # <<>>
    <2>1. k >= 1
        <3>1. k = 0 => k * WordBytes = 0
            BY <1>0
        <3>2. Len(pointers) # 0
            BY <1>1, <1>7
        <3>. QED
            BY <1>0, <1>1, <3>1, <3>2
    <2>2. /\ Span4(array) \cap bytes = {}
          /\ \A i \in 1 .. k - 1 : Span4(answer.others[i][1]) \cap bytes = {}
        <3> DEFINE others == UNION {Span4(answer.others[i][1]) : i \in DOMAIN answer.others}
        <3>0. answer.data = array /\ array # Absent
            BY <1>0, <1>7, AbsentAssumption
        <3>1. PlacesOf(answer) = <<Span4(array), {}, bytes, others>>
            BY <3>0 DEF PlacesOf, block
        <3>2. \A i \in 1 .. k - 1 : Span4(answer.others[i][1]) \subseteq others
            BY <1>4
        <3> HIDE DEF others, bytes
        <3>3. Span4(array) \cap bytes = {} /\ bytes \cap others = {}
            BY <3>1, ApartFour
        <3>. QED
            BY <3>2, <3>3
    <2>3. ASSUME NEW i \in 1 .. k, Span4(array + at(i)) \cap bytes = {}
          PROVE  Has(l, array + at(i), word(i))
        <3> DEFINE off == at(i)
                   piece == word(i)
        <3>1. /\ off \in Nat /\ piece \in Seq(Byte) /\ Len(piece) = WordBytes
              /\ off + Len(piece) <= Len(pointers)
              /\ \A j \in 1 .. Len(piece) : pointers[off + j] = piece[j]
            BY <1>1, <1>2, <1>3
        <3>2. (array + off .. array + off + Len(piece) - 1) \cap (buffer .. buffer + Len(block) - 1) = {}
            BY <2>3, <3>1 DEF Span4
        <3> HIDE DEF off, piece
        <3>3. Has(l, array + off, piece)
            <4>1. /\ array \in Nat /\ buffer \in Nat
                  /\ block \in Seq(Byte) /\ pointers \in Seq(Byte)
                BY <1>0, <1>1
            <4>. QED
                BY <3>1, <3>2, <4>1, PieceFound
        <3>. QED
            BY <3>3 DEF off, piece
    <2>4. /\ Has(l, array, word(1)) /\ word(1) = LittleEndian(buffer, WordBytes)
        <3>1. 1 \in 1 .. k /\ at(1) = 0 /\ array + at(1) = array /\ 1 \in 1 .. k + 1
            BY <1>0, <2>1
        <3>2. Has(l, array + at(1), word(1))
            BY <2>2, <2>3, <3>1
        <3>3. Offsets(buffer)[1] = buffer
            BY <3>1, OffsetsTyped DEF k
        <3>. QED
            BY <3>1, <3>2, <3>3
    <2>5. ReadWord(l, array) = buffer
        BY <1>0, <2>4, ReadWordIs
    <2>6. Read(l, [ptr |-> buffer, len |-> Len(block)]) = block
        <3> DEFINE x == Write(m, array, pointers)
        <3>1. x \in MemoryOf(n)
            BY <1>0, <1>1, WriteFacts
        <3> HIDE DEF x
        <3>2. \A i \in 1 .. Len(block) :
                  buffer + i - 1 \in 0 .. n - 1 => Write(x, buffer, block)[buffer + i - 1] = block[i]
            BY <1>0, <3>1, WriteFacts
        <3>3. buffer + Len(block) <= n
            BY DEF block
        <3>4. \A i \in 1 .. Len(block) : buffer + i - 1 \in 0 .. n - 1
            BY <1>0, <3>3
        <3>5. Has(l, buffer, block)
            BY <3>2, <3>4 DEF Has, x
        <3> HIDE DEF l
        <3>. QED
            BY <1>0, <3>5, ReadIs
    <2>7. ASSUME NEW i \in 1 .. k - 1
          PROVE  Read(l, WordSlice(answer.others[i][1])) = answer.others[i][2]
        <3> DEFINE c == i + 1
                   p == array + at(c)
                   piece == word(c)
        <3>1. answer.others[i][1] = p /\ answer.others[i][2] = piece /\ c \in 1 .. k
            BY <1>5
        <3> HIDE DEF c
        <3>2. Has(l, p, piece)
            BY <2>2, <2>3, <3>1
        <3>3. p \in Nat /\ piece \in Seq(Byte) /\ Len(piece) = WordBytes
            <4>1. at(c) \in Nat
                BY <1>3, <3>1
            <4>2. word(c) \in Seq(Byte) /\ Len(word(c)) = WordBytes
                BY <1>2, <3>1
            <4> HIDE DEF at, word
            <4>. QED
                BY <1>0, <4>1, <4>2
        <3> HIDE DEF p, piece, l
        <3>4. Read(l, [ptr |-> p, len |-> Len(piece)]) = piece
            BY <3>2, <3>3, ReadIs
        <3>. QED
            BY <3>1, <3>3, <3>4 DEF WordSlice
    <2> HIDE DEF l
    <2>8. answer.data = array
        BY <1>7
    <2>. QED
        BY <1>4, <2>5, <2>6, <2>7, <2>8 DEF Finds, l, block
<1>. QED
    BY <1>6, <1>7

LEMMA EnvironAnswers ==
    ASSUME HostInv, CallsInv', NEW array \in GuestPtr, NEW buffer \in GuestPtr,
           EnvironGet(array, buffer)
    PROVE  HostInv' /\ OkMeansDone'
<1> DEFINE f == "environ_get"
           pointers == FlattenSeq([i \in DOMAIN Configuration.environment |->
                                       LittleEndian(Offsets(buffer)[i], WordBytes)])
           listed == Write(memory, array, pointers)
           l == Write(listed, buffer, EnvironmentBlock)
           answer == [Answer(f, "Ok") EXCEPT
                          !.data = IF pointers = <<>> THEN Absent ELSE array,
                          !.value = EnvironmentBlock, !.address = buffer,
                          !.others = OtherPointers(array, buffer)]
<1>0. /\ Memories(memory) /\ Larger(memory, memory) /\ f \notin Effects /\ GoodLog(logged)
      /\ UNCHANGED logged
    BY CallsTypedSeq, SameLarger DEF Effects, EnvironGet
<1>1. PICK n \in 0 .. WordMax + 1 : memory \in MemoryOf(n)
    BY <1>0 DEF Memories, MemoryOf
<1>2. n \in Nat /\ n <= n /\ array \in Nat /\ buffer \in Nat /\ Size(memory) = n
    BY <1>1, WordMaxFacts, SizeIs DEF MemoryOf
<1>3. pointers \in Seq(Byte) /\ EnvironmentBlock \in Seq(Byte)
    BY PointersAre, BlockTyped
<1>4. \/ Replies(Answer(f, "Fault"), memory)
      \/ Replies(Answer(f, "Fault"), listed)
      \/ /\ Readable(memory, Block(array, pointers))
         /\ Readable(memory, Block(buffer, EnvironmentBlock))
         /\ Replies(answer, l)
    BY DEF EnvironGet, Fault
<1>5. /\ answer.status = "Ok" /\ answer.fn = f /\ answer.size = Absent
      /\ answer.data = (IF pointers = <<>> THEN Absent ELSE array)
      /\ answer.value = EnvironmentBlock /\ answer.address = buffer
      /\ answer.others = OtherPointers(array, buffer)
    BY DEF Answer, NoAnswer
<1> HIDE DEF pointers, answer
<1>6. listed \in MemoryOf(n)
    BY <1>1, <1>2, <1>3, WriteFacts
<1> HIDE DEF listed
<1>7. l \in MemoryOf(n)
    BY <1>2, <1>3, <1>6, WriteFacts
<1> HIDE DEF l
<1>8. Larger(memory, listed) /\ Larger(memory, l)
    BY <1>1, <1>2, <1>6, <1>7 DEF Larger
<1>9. CASE Replies(Answer(f, "Fault"), memory) \/ Replies(Answer(f, "Fault"), listed)
    <2>1. "Fault" \in WasiFailing
        BY DEF WasiFailing
    <2>. QED
        BY <1>0, <1>8, <1>9, <2>1, PlainReply
<1>10. CASE /\ Readable(memory, Block(array, pointers))
            /\ Readable(memory, Block(buffer, EnvironmentBlock))
            /\ Replies(answer, l)
    <2>1. array + Len(pointers) <= n /\ buffer + Len(EnvironmentBlock) <= n
        BY <1>2, <1>10 DEF Readable, Inside, Block
    <2>2. ASSUME Apart(PlacesOf(answer))
          PROVE  Finds(answer, Write(Write(memory, array, pointers), buffer, EnvironmentBlock))
        BY <1>1, <1>2, <1>5, <2>1, <2>2, EnvironFound DEF pointers
    <2>3. answer.status = "Ok" /\ Apart(PlacesOf(answer)) => Finds(answer, l)
        BY <2>2 DEF l, listed
    <2>. QED
        BY <1>0, <1>5, <1>8, <1>10, <2>3, FullReply DEF Statuses
<1>. QED
    BY <1>4, <1>9, <1>10

-----------------------------------------------------------------------------
(***************************************************************************)
(* The theorems                                                            *)
(***************************************************************************)
LEMMA NoLogGood == GoodLog(NoLog)
<1>1. <<>> \in Seq(Byte) /\ Len(<<>>) = 0 /\ Len(<<>>) <= Len(<<>>)
    OBVIOUS
<1>2. IsPrefix(<<>>, <<>>)
    BY <1>1, PrefixIf
<1>3. ~Exceeds(0, MaxLogBytes)
    BY BoundsAssumption DEF Exceeds
<1>. QED
    BY <1>1, <1>2, <1>3 DEF GoodLog, NoLog

LEMMA HostInvInit == Init => HostInv
<1> SUFFICES ASSUME Init
             PROVE  HostInv
    OBVIOUS
<1>1. TypeOK
    <2>1. Memories(memory) /\ Len(calls) <= MaxDepth /\ opened \in 0 .. MaxOpened
        BY BoundsAssumption DEF Init
    <2>2. here \in Here /\ PossiblePlace(here)
        BY PlacesAssumption DEF Init
    <2>. QED
        BY <2>1, <2>2 DEF Init, TypeOK, NoAnswer
<1>2. LogIsPrefix
    BY NoLogGood DEF Init, GoodLog, LogIsPrefix
<1>3. held \in HeldType
    BY EmbedderAssumption DEF Init, HeldType
<1>. QED
    BY <1>1, <1>2, <1>3, CallsInvInit DEF Init, HostInv

LEMMA WasiAnswers ==
    ASSUME HostInv, WasiNext
    PROVE  HostInv' /\ OkMeansDone'
<1>0. CallsInv'
    BY CallsInvStep DEF HostInv, CallsNext
<1>1. /\ SpansOf("random") \subseteq GuestSlice
      /\ PtrsOf("iovs") \subseteq GuestPtr /\ PtrsOf("count") \subseteq GuestPtr
      /\ PtrsOf("size") \subseteq GuestPtr /\ PtrsOf("time") \subseteq GuestPtr
      /\ PtrsOf("data") \subseteq GuestPtr /\ PtrsOf("buffer") \subseteq GuestPtr
    BY WasiAssumption
<1>2. ASSUME NEW fd, NEW iovs \in PtrsOf("iovs"), NEW count \in PtrsOf("count"),
             NEW nwritten \in PtrsOf("size"), FdWrite(fd, iovs, count, nwritten)
      PROVE  HostInv' /\ OkMeansDone'
    BY <1>0, <1>1, <1>2, FdWriteAnswers
<1>3. ASSUME NEW id \in {"Realtime", "Monotonic", Unknown}, NEW time \in PtrsOf("time"),
             ClockTimeGet(id, time)
      PROVE  HostInv' /\ OkMeansDone'
    BY <1>0, <1>1, <1>3, ClockAnswers
<1>4. ASSUME NEW slice \in SpansOf("random"), RandomGet(slice)
      PROVE  HostInv' /\ OkMeansDone'
    BY <1>0, <1>1, <1>4, RandomAnswers
<1>5. ASSUME NEW first \in PtrsOf("data"), NEW second \in PtrsOf("size"),
             EnvironSizesGet(first, second) \/ ArgsSizesGet(first, second)
      PROVE  HostInv' /\ OkMeansDone'
    <2>1. /\ Len(Configuration.environment) \in Nat /\ Len(EnvironmentBlock) \in Nat
          /\ "environ_sizes_get" \notin Effects /\ "args_sizes_get" \notin Effects
        BY BlockTyped, ConfigurationAssumption DEF VmServices, Effects
    <2>. QED
        BY <1>0, <1>1, <1>5, <2>1, TwoWordsAnswers DEF EnvironSizesGet, ArgsSizesGet
<1>6. ASSUME NEW array \in PtrsOf("data"), NEW buffer \in PtrsOf("buffer"), EnvironGet(array, buffer)
      PROVE  HostInv' /\ OkMeansDone'
    BY <1>0, <1>1, <1>6, EnvironAnswers
<1>7. CASE ArgsGet
    <2>1. Larger(memory, memory) /\ "args_get" \notin Effects
        BY CallsTypedSeq, SameLarger DEF Effects
    <2>. QED
        BY <1>0, <1>7, <2>1, PlainReply DEF ArgsGet
<1>8. CASE ProcExit
    <2>1. last = NoAnswer
        BY DEF WasiNext, MayCall
    <2>2. /\ poisoned' = TRUE /\ calls' = <<>>
          /\ UNCHANGED <<memory, last, held, told, opened, logged, here>>
        BY <1>8 DEF ProcExit
    <2>3. Larger(memory, memory') /\ Len(calls') <= MaxDepth
        BY <2>2, CallsTypedSeq, SameLarger
    <2>4. HostInv'
        BY <1>0, <2>2, <2>3, CallsTypedSeq, HostKept
    <2>. QED
        BY <2>1, <2>2, <2>4, NoAnswerTruthful, OkIsTruthful
<1>. QED
    BY <1>2, <1>3, <1>4, <1>5, <1>6, <1>7, <1>8 DEF WasiNext

LEMMA HostStep ==
    ASSUME HostInv, OkMeansDone, [CallsNext]_vars
    PROVE  HostInv' /\ OkMeansDone'
<1>0. CallsInv'
    BY CallsInvStep DEF HostInv
<1>1. ASSUME NEW f \in HostFunction, MayCall(f), NEW a \in Args[f], Call(f, a)
      PROVE  HostInv' /\ OkMeansDone'
    BY <1>1, CallAnswers
<1>2. CASE WasiNext
    BY <1>2, WasiAnswers
<1>3. ASSUME NEW address \in Allocations, AllocatorReturns(address)
      PROVE  HostInv' /\ OkMeansDone'
    BY <1>3, ReturnAnswers
<1>4. CASE AllocatorTraps
    <2>1. /\ last = NoAnswer /\ poisoned' = TRUE /\ calls' = <<>>
          /\ UNCHANGED <<memory, last, held, told, opened, logged, here>>
        BY <1>4 DEF AllocatorTraps
    <2>2. Larger(memory, memory') /\ Len(calls') <= MaxDepth
        BY <2>1, CallsTypedSeq, SameLarger
    <2>3. HostInv'
        BY <1>0, <2>1, <2>2, CallsTypedSeq, HostKept
    <2>. QED
        BY <2>1, <2>3, NoAnswerTruthful, OkIsTruthful
<1>5. CASE Grow
    <2>1. /\ last = NoAnswer /\ Size(memory) < MaxMemory
          /\ memory' = Grown(memory, MaxMemory - Size(memory))
          /\ UNCHANGED <<calls, last, held, told, opened, logged, here, poisoned>>
        BY <1>5 DEF Grow
    <2>2. Larger(memory, memory')
        BY <2>1, CallsTypedSeq, GrownLarger
    <2>3. \A i \in DOMAIN calls' : Awaits(calls'[i], memory)
        BY <2>1 DEF HostInv
    <2>4. HostInv'
        BY <1>0, <2>1, <2>2, <2>3, CallsTypedSeq, HostKept
    <2>. QED
        BY <2>1, <2>4, NoAnswerTruthful, OkIsTruthful
<1>6. CASE Resume
    <2>1. /\ last' = NoAnswer /\ logged' = NoLog
          /\ UNCHANGED <<memory, calls, held, opened, here, poisoned>>
        BY <1>6 DEF Resume
    <2>2. Larger(memory, memory') /\ last'.status \in Statuses
        BY <2>1, CallsTypedSeq, SameLarger DEF NoAnswer, Statuses
    <2>3. GoodLog(logged')
        BY <2>1, NoLogGood
    <2>4. \A i \in DOMAIN calls' : Awaits(calls'[i], memory)
        BY <2>1 DEF HostInv
    <2>5. HostInv'
        BY <1>0, <2>1, <2>2, <2>3, <2>4, CallsTypedSeq, HostKept
    <2>. QED
        BY <2>1, <2>5, NoAnswerTruthful, OkIsTruthful
<1>7. CASE NextGuest
    <2>1. Init'
        BY <1>7 DEF NextGuest, Init
    <2>2. HostInv'
        BY <2>1, HostInvInit, PTL
    <2>3. last' = NoAnswer
        BY <1>7 DEF NextGuest
    <2>. QED
        BY <2>2, <2>3, NoAnswerTruthful, OkIsTruthful
<1>8. CASE UNCHANGED vars
    <2>1. HostInv'
        <3>1. Larger(memory, memory')
            BY <1>8, CallsTypedSeq, SameLarger DEF vars
        <3>2. \A i \in DOMAIN calls' : Awaits(calls'[i], memory)
            BY <1>8 DEF HostInv, vars
        <3>. QED
            BY <1>0, <1>8, <3>1, <3>2, CallsTypedSeq, HostKept DEF vars
    <2>2. Truthful(last', memory', told')
        BY <1>8, OkIsTruthful DEF vars
    <2>. QED
        BY <2>1, <2>2, OkIsTruthful
<1>. QED
    BY <1>1, <1>2, <1>3, <1>4, <1>5, <1>6, <1>7, <1>8 DEF CallsNext, Next

LEMMA HostInvAlways == CallsSpec => [](HostInv /\ OkMeansDone)
<1>1. Init => OkMeansDone
    BY NoAnswerTruthful, OkIsTruthful DEF Init
<1>2. HostInv /\ OkMeansDone /\ [CallsNext]_vars => (HostInv /\ OkMeansDone)'
    BY HostStep
<1>. QED
    BY <1>1, <1>2, HostInvInit, PTL DEF CallsSpec

\* Whatever the guest calls, the memory stays a memory of bytes, the calls that
\* wait stay within their bound, an answer has a status of its function family,
\* and the place of the callback is one the context table allows (memory.rs,
\* alloc.rs, wasi.rs).
THEOREM CallsTyped == CallsSpec => []TypeOK
    BY HostInvAlways, PTL DEF HostInv

\* Every log line is the beginning of what the guest wrote, within the limit, and
\* names a plugin only within a call (log.rs, wasi.rs fd_write): for every memory,
\* limit, list of ranges and newline.
THEOREM LogLines == CallsSpec => []LogIsPrefix
    BY HostInvAlways, PTL DEF HostInv

\* An OK is true: for every function and argument, and whatever the guest's
\* allocator did meanwhile, the guest finds at the places it gave, when they do
\* not overlap, the address, the length and every byte it was answered; and no
\* function whose work the embedder does says OK for work that was refused
\* (alloc.rs, failure.rs, call.rs, wasi.rs).
THEOREM OkIsTrue == CallsSpec => []OkMeansDone
    BY HostInvAlways, PTL
=============================================================================
