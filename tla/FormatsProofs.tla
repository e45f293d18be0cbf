---------------------------- MODULE FormatsProofs ----------------------------
(***************************************************************************)
(* Proofs about the memory of a guest and the formats of what is written   *)
(* there: words, maps, property paths and buffers (GuestMemory, Codec,     *)
(* HeaderMaps, Formats).                                                   *)
(***************************************************************************)
EXTENDS Formats, Iteration, FiniteSetTheorems

-----------------------------------------------------------------------------
(***************************************************************************)
(* FlattenSeq of SequencesExt                                              *)
(***************************************************************************)
FlattenNext(f, seqs, n) ==
    [i \in 1 .. n |-> IF i = 1 THEN seqs[i] ELSE f[i - 1] \o seqs[i]]

LEMMA FlattenExists ==
    ASSUME NEW S, NEW n \in Nat \ {0}, NEW seqs, \A i \in 1 .. n : seqs[i] \in Seq(S)
    PROVE  \E f : f = FlattenNext(f, seqs, n)
<1> DEFINE step == [p \in Nat \X Seq(S) |->
                        IF p[1] \in 1 .. n THEN p[2] \o seqs[p[1]] ELSE p[2]]
<1>1. step \in [Nat \X Seq(S) -> Seq(S)]
    OBVIOUS
<1>2. ASSUME NEW i \in 1 .. n, NEW s \in Seq(S)
      PROVE  step[<<i, s>>] = s \o seqs[i]
    <2>1. <<i, s>> \in Nat \X Seq(S)
        OBVIOUS
    <2>. QED
        BY <2>1
<1> HIDE DEF step
<1>3. <<>> \in Seq(S)
    OBVIOUS
<1>4. PICK g \in [0 .. n -> Seq(S)] : Iterates(g, n, <<>>, step)
    BY <1>1, <1>3, IterationExists
<1>5. ASSUME NEW i \in 1 .. n
      PROVE  g[i] = g[i - 1] \o seqs[i]
    <2>1. g[i - 1] \in Seq(S) /\ g[i] = step[<<i, g[i - 1]>>]
        BY <1>4 DEF Iterates
    <2>. QED
        BY <1>2, <2>1
<1>6. g[1] = seqs[1]
    <2>1. 1 \in 1 .. n /\ g[0] = <<>> /\ seqs[1] \in Seq(S)
        BY <1>4 DEF Iterates
    <2>2. ASSUME NEW i \in 1 .. n, i = 1
          PROVE  g[i] = g[0] \o seqs[i]
        <3>1. i - 1 = 0
            BY <2>2
        <3>2. g[i] = g[i - 1] \o seqs[i]
            BY <1>5
        <3>. QED
            BY <3>1, <3>2, Zenon
    <2>3. g[1] = g[0] \o seqs[1]
        BY <2>1, <2>2, Zenon
    <2>. QED
        BY <2>1, <2>3
<1> DEFINE f == [i \in 1 .. n |-> g[i]]
<1>7. ASSUME NEW i \in 1 .. n
      PROVE  f[i] = IF i = 1 THEN seqs[i] ELSE f[i - 1] \o seqs[i]
    <2>1. CASE i = 1
        BY <1>6, <2>1
    <2>2. CASE i # 1
        <3>1. i - 1 \in 1 .. n
            BY <2>2
        <3>2. f[i - 1] = g[i - 1] /\ f[i] = g[i]
            BY <3>1
        <3>. QED
            BY <1>5, <2>2, <3>2
    <2>. QED
        BY <2>1, <2>2
<1>8. f = FlattenNext(f, seqs, n)
    BY <1>7 DEF FlattenNext
<1>. QED
    BY <1>8

\* The first n sequences make the result, one after the other.
Concatenates(seqs, n, S, result) ==
    \E h \in [0 .. n -> Seq(S)] :
        /\ h[0] = <<>>
        /\ \A i \in 1 .. n : h[i] = h[i - 1] \o seqs[i]
        /\ result = h[n]

LEMMA FlattenTyped ==
    ASSUME NEW S, NEW n \in Nat \ {0}, NEW seqs, \A i \in 1 .. n : seqs[i] \in Seq(S),
           NEW f, f = FlattenNext(f, seqs, n)
    PROVE  Concatenates(seqs, n, S, f[n])
<1> DEFINE h == [i \in 0 .. n |-> IF i = 0 THEN <<>> ELSE f[i]]
<1>1. \A i \in 1 .. n : f[i] = IF i = 1 THEN seqs[i] ELSE f[i - 1] \o seqs[i]
    BY DEF FlattenNext
<1>2. ASSUME NEW i \in 1 .. n
      PROVE  h[i] = h[i - 1] \o seqs[i]
    <2>1. CASE i = 1
        <3>1. h[i] = f[i] /\ h[i - 1] = <<>> /\ f[i] = seqs[i]
            BY <1>1, <2>1
        <3>2. seqs[i] \in Seq(S)
            OBVIOUS
        <3> HIDE DEF h
        <3>. QED
            BY <3>1, <3>2
    <2>2. CASE i # 1
        <3>1. i - 1 \in 0 .. n /\ i - 1 # 0 /\ i \in 0 .. n /\ i # 0
            BY <2>2
        <3>2. h[i] = f[i] /\ h[i - 1] = f[i - 1]
            BY <3>1
        <3>3. f[i] = f[i - 1] \o seqs[i]
            BY <1>1, <2>2
        <3> HIDE DEF h
        <3>. QED
            BY <3>2, <3>3
    <2>. QED
        BY <2>1, <2>2
<1>3. h[0] = <<>> /\ h[n] = f[n]
    OBVIOUS
<1>4. h = [i \in 0 .. n |-> h[i]]
    OBVIOUS
<1> HIDE DEF h
<1> DEFINE P == {i \in 0 .. n : h[i] \in Seq(S)}
<1>5. 0 \in P
    <2>1. <<>> \in Seq(S) /\ 0 \in 0 .. n
        OBVIOUS
    <2>. QED
        BY <1>3, <2>1
<1>6. ASSUME NEW i \in 1 .. n, i - 1 \in P
      PROVE  i \in P
    <2>1. h[i - 1] \in Seq(S) /\ seqs[i] \in Seq(S)
        BY <1>6
    <2>2. h[i - 1] \o seqs[i] \in Seq(S)
        BY <2>1, ConcatProperties
    <2>3. h[i] = h[i - 1] \o seqs[i]
        BY <1>2
    <2>4. h[i] \in Seq(S)
        BY <2>2, <2>3
    <2>. QED
        BY <2>4
<1>7. \A i \in 0 .. n : i \in P
    <2> HIDE DEF P
    <2>. QED
        BY <1>5, <1>6, UpTo
<1>8. h \in [0 .. n -> Seq(S)]
    BY <1>4, <1>7
<1>. QED
    BY <1>2, <1>3, <1>8 DEF Concatenates

\* A sequence of sequences is put together from the left.
LEMMA FlattenFacts ==
    ASSUME NEW S, NEW seqs \in Seq(Seq(S))
    PROVE  Concatenates(seqs, Len(seqs), S, FlattenSeq(seqs))
<1>0. Len(seqs) \in Nat /\ \A i \in 1 .. Len(seqs) : seqs[i] \in Seq(S)
    OBVIOUS
<1>1. CASE Len(seqs) = 0
    <2>1. FlattenSeq(seqs) = <<>>
        BY <1>1 DEF FlattenSeq
    <2> DEFINE h == [i \in 0 .. 0 |-> <<>>]
    <2>2. h \in [0 .. 0 -> Seq(S)] /\ h[0] = <<>>
        OBVIOUS
    <2>3. \A i \in 1 .. 0 : h[i] = h[i - 1] \o seqs[i]
        OBVIOUS
    <2> HIDE DEF h
    <2>. QED
        BY <1>1, <2>1, <2>2, <2>3 DEF Concatenates
<1>2. CASE Len(seqs) # 0
    <2> DEFINE n == Len(seqs)
               flatten == CHOOSE f : f = FlattenNext(f, seqs, n)
    <2>0. n \in Nat \ {0} /\ \A i \in 1 .. n : seqs[i] \in Seq(S)
        BY <1>0, <1>2
    <2>1. FlattenSeq(seqs) = flatten[n]
        BY <1>2 DEF FlattenSeq, FlattenNext
    <2> HIDE DEF n
    <2>2. flatten = FlattenNext(flatten, seqs, n)
        BY <2>0, FlattenExists
    <2> HIDE DEF flatten
    <2>3. Concatenates(seqs, n, S, flatten[n])
        BY <2>0, <2>2, FlattenTyped
    <2>. QED
        BY <2>1, <2>3 DEF n
<1>. QED
    BY <1>1, <1>2

-----------------------------------------------------------------------------
(***************************************************************************)
(* Words                                                                   *)
(***************************************************************************)
LEMMA Widths ==
    /\ Base \in Nat \ {0} /\ Base > 1 /\ WordBytes \in Nat \ {0}
    /\ 2 * WordBytes \in Nat \ {0} /\ WordBytes <= 2 * WordBytes
    /\ Byte \subseteq Nat /\ 0 \in Byte
    BY WidthAssumption DEF Byte

PowerNext(g) == [i \in 0 .. 2 * WordBytes |-> IF i = 0 THEN 1 ELSE Base * g[i - 1]]

LEMMA PowerExists == Power = PowerNext(Power)
<1> DEFINE S == Nat \ {0}
           step == [p \in Nat \X S |-> Base * p[2]]
           n == 2 * WordBytes
<1>1. step \in [Nat \X S -> S]
    <2>1. ASSUME NEW p \in Nat \X S
          PROVE  Base * p[2] \in S
        <3>1. p[2] \in S
            OBVIOUS
        <3>. QED
            BY <3>1, Widths
    <2>. QED
        BY <2>1
<1>2. ASSUME NEW i \in Nat, NEW s \in S
      PROVE  step[<<i, s>>] = Base * s
    <2>1. <<i, s>> \in Nat \X S
        OBVIOUS
    <2>. QED
        BY <2>1
<1>3. 1 \in S /\ n \in Nat
    BY Widths
<1> HIDE DEF step, S
<1>4. PICK g \in [0 .. n -> S] : Iterates(g, n, 1, step)
    BY <1>1, <1>3, IterationExists
<1>5. ASSUME NEW i \in 1 .. n
      PROVE  g[i] = Base * g[i - 1]
    <2>1. g[i] = step[<<i, g[i - 1]>>] /\ g[i - 1] \in S /\ i \in Nat
        BY <1>3, <1>4 DEF Iterates
    <2>. QED
        BY <1>2, <2>1
<1>6. g = PowerNext(g)
    <2>1. ASSUME NEW i \in 0 .. n
          PROVE  g[i] = IF i = 0 THEN 1 ELSE Base * g[i - 1]
        <3>1. CASE i = 0
            BY <1>4, <3>1 DEF Iterates
        <3>2. CASE i # 0
            <4>1. i \in 1 .. n
                BY <1>3, <3>2
            <4>. QED
                BY <1>5, <3>2, <4>1
        <3>. QED
            BY <3>1, <3>2
    <2>. QED
        BY <2>1 DEF PowerNext
<1>7. Power = CHOOSE h : h = PowerNext(h)
    BY DEF Power, PowerNext
<1>. QED
    BY <1>6, <1>7

LEMMA PowerFacts ==
    /\ Power \in [0 .. 2 * WordBytes -> Nat \ {0}]
    /\ Power[0] = 1
    /\ \A i \in 1 .. 2 * WordBytes : Power[i] = Base * Power[i - 1]
<1> DEFINE n == 2 * WordBytes
           P == {i \in 0 .. n : Power[i] \in Nat \ {0}}
<1>0. n \in Nat
    BY Widths
<1>1. \A i \in 0 .. n : Power[i] = IF i = 0 THEN 1 ELSE Base * Power[i - 1]
    BY PowerExists DEF PowerNext
<1>2. Power = [i \in 0 .. n |-> Power[i]]
    BY PowerExists, Zenon DEF PowerNext
<1> HIDE DEF n
<1>3. 0 \in P /\ Power[0] = 1
    BY <1>0, <1>1
<1>4. ASSUME NEW i \in 1 .. n
      PROVE  Power[i] = Base * Power[i - 1]
    BY <1>1
<1>5. ASSUME NEW i \in 1 .. n, i - 1 \in P
      PROVE  i \in P
    <2>1. Power[i - 1] \in Nat \ {0}
        BY <1>5
    <2>2. Base * Power[i - 1] \in Nat \ {0}
        BY <2>1, Widths
    <2>. QED
        BY <1>4, <2>2
<1>6. \A i \in 0 .. n : i \in P
    <2> HIDE DEF P
    <2>. QED
        BY <1>0, <1>3, <1>5, UpTo
<1>7. Power \in [0 .. n -> Nat \ {0}]
    BY <1>2, <1>6
<1>. QED
    BY <1>3, <1>4, <1>7 DEF n

LEMMA WordMaxFacts == WordMax \in Nat \ {0} /\ GuestPtr = 0 .. WordMax /\ WordMax + 1 = Power[WordBytes]
<1>1. WordBytes \in 1 .. 2 * WordBytes /\ WordBytes - 1 \in 0 .. 2 * WordBytes
    BY Widths
<1>2. Power[WordBytes] = Base * Power[WordBytes - 1] /\ Power[WordBytes - 1] \in Nat \ {0}
    BY <1>1, PowerFacts
<1>3. Base * Power[WordBytes - 1] > 1
    BY <1>2, Widths
<1>4. Power[WordBytes] \in Nat /\ Power[WordBytes] > 1
    <2>1. WordBytes \in 0 .. 2 * WordBytes
        BY <1>1
    <2>. QED
        BY <1>2, <1>3, <2>1, PowerFacts
<1>. QED
    BY <1>4 DEF WordMax, GuestPtr

\* A number below the modulus is what is left of it.
LEMMA ModIs ==
    ASSUME NEW d \in Nat \ {0}, NEW k \in Nat, NEW s \in 0 .. d - 1
    PROVE  (d * k + s) % d = s
<1> DEFINE v == d * k + s
           q == v \div d
           r == v % d
<1>1. v \in Nat
    OBVIOUS
<1>2. q \in Int /\ r \in 0 .. d - 1 /\ v = d * q + r
    BY <1>1
<1> HIDE DEF q, r
<1>3. d * (q - k) = s - r
    BY <1>2
<1>4. s - r < d /\ s - r > -d
    BY <1>2
<1>5. q - k = 0
    <2>1. CASE q - k >= 1
        <3>1. d * (q - k) >= d
            BY <1>2, <2>1
        <3>. QED
            BY <1>2, <1>3, <1>4, <3>1
    <2>2. CASE q - k <= -1
        <3>1. d * (q - k) <= -d
            BY <1>2, <2>2
        <3>. QED
            BY <1>2, <1>3, <1>4, <3>1
    <2>. QED
        BY <1>2, <2>1, <2>2
<1>6. d * (q - k) = 0
    BY <1>5
<1>. QED
    BY <1>2, <1>3, <1>6 DEF r

\* The digit of a number at one place more.
LEMMA NextDigit ==
    ASSUME NEW v \in Nat, NEW p \in Nat \ {0}, NEW b \in Nat \ {0}
    PROVE  v % (b * p) = (v % p) + ((v \div p) % b) * p
<1> DEFINE q == v \div p
           r == v % p
           k == q \div b
           t == q % b
<1>1. q \in Nat /\ r \in 0 .. p - 1 /\ v = p * q + r
    OBVIOUS
<1> HIDE DEF q, r
<1>2. k \in Nat /\ t \in 0 .. b - 1 /\ q = b * k + t
    BY <1>1
<1> HIDE DEF k, t
<1>3. v = (b * p) * k + (r + t * p)
    <2>1. p * q = p * (b * k) + p * t
        BY <1>1, <1>2
    <2>2. p * (b * k) = (b * p) * k /\ p * t = t * p
        BY <1>1, <1>2
    <2>. QED
        BY <1>1, <1>2, <2>1, <2>2
<1>4. t * p + p <= b * p
    <2>1. (t + 1) * p <= b * p
        BY <1>2
    <2>. QED
        BY <1>2, <2>1
<1>5. r + t * p \in 0 .. (b * p) - 1 /\ b * p \in Nat \ {0}
    BY <1>1, <1>2, <1>4
<1>6. v % (b * p) = r + t * p
    <2> DEFINE d == b * p
               s == r + t * p
    <2>1. d \in Nat \ {0} /\ s \in 0 .. d - 1 /\ v = d * k + s
        BY <1>3, <1>5
    <2> HIDE DEF d, s
    <2>2. v % d = s
        BY <1>2, <2>1, ModIs
    <2>. QED
        BY <2>2 DEF d, s
<1>. QED
    BY <1>6 DEF r, t, q

\* The bytes of a number.
LEMMA LittleEndianBytes ==
    ASSUME NEW v \in Nat, NEW w \in 1 .. 2 * WordBytes
    PROVE  /\ LittleEndian(v, w) \in Seq(Byte) /\ Len(LittleEndian(v, w)) = w
           /\ \A i \in 1 .. w : LittleEndian(v, w)[i] = (v \div Power[i - 1]) % Base
           /\ \A i \in 1 .. w : LittleEndian(v, w)[i] \in Byte
<1>1. ASSUME NEW i \in 1 .. w
      PROVE  (v \div Power[i - 1]) % Base \in Byte
    <2>1. Power[i - 1] \in Nat \ {0}
        <3>1. i - 1 \in 0 .. 2 * WordBytes
            BY Widths
        <3>. QED
            BY <3>1, PowerFacts
    <2>2. v \div Power[i - 1] \in Nat
        BY <2>1
    <2>. QED
        BY <2>2, Widths DEF Byte
<1>2. w \in Nat
    BY Widths
<1>. QED
    BY <1>1, <1>2 DEF LittleEndian

DigitNext(g, bytes, at) ==
    [i \in 0 .. WordBytes |-> IF i = 0 THEN 0 ELSE g[i - 1] + bytes[at + i] * Power[i - 1]]

\* A word is a number, and it is read by its digits.
LEMMA WordDigits ==
    ASSUME NEW bytes, NEW at \in Nat, \A i \in 1 .. WordBytes : bytes[at + i] \in Byte
    PROVE  \E g \in [0 .. WordBytes -> Nat] :
              /\ g[0] = 0
              /\ \A i \in 1 .. WordBytes : g[i] = g[i - 1] + bytes[at + i] * Power[i - 1]
              /\ WordOf(bytes, at) = g[WordBytes]
<1> DEFINE n == WordBytes
           step == [p \in Nat \X Nat |->
                       IF p[1] \in 1 .. n THEN p[2] + bytes[at + p[1]] * Power[p[1] - 1] ELSE p[2]]
<1>0. n \in Nat
    BY Widths
<1>1. ASSUME NEW i \in 1 .. n, NEW s \in Nat
      PROVE  s + bytes[at + i] * Power[i - 1] \in Nat
    <2>1. i - 1 \in 0 .. 2 * WordBytes
        BY Widths
    <2>2. Power[i - 1] \in Nat /\ bytes[at + i] \in Nat
        BY <2>1, PowerFacts, Widths
    <2>. QED
        BY <2>2
<1>2. step \in [Nat \X Nat -> Nat]
    <2>1. ASSUME NEW p \in Nat \X Nat
          PROVE  (IF p[1] \in 1 .. n THEN p[2] + bytes[at + p[1]] * Power[p[1] - 1] ELSE p[2]) \in Nat
        <3>1. p[1] \in Nat /\ p[2] \in Nat
            OBVIOUS
        <3>. QED
            BY <1>1, <3>1
    <2>. QED
        BY <2>1
<1>3. ASSUME NEW i \in 1 .. n, NEW s \in Nat
      PROVE  step[<<i, s>>] = s + bytes[at + i] * Power[i - 1]
    <2>1. <<i, s>> \in Nat \X Nat
        BY <1>0
    <2>. QED
        BY <2>1
<1> HIDE DEF step
<1>4. PICK g0 \in [0 .. n -> Nat] : Iterates(g0, n, 0, step)
    BY <1>0, <1>2, IterationExists
<1>5. ASSUME NEW i \in 1 .. n
      PROVE  g0[i] = g0[i - 1] + bytes[at + i] * Power[i - 1]
    <2>1. g0[i] = step[<<i, g0[i - 1]>>] /\ g0[i - 1] \in Nat
        BY <1>0, <1>4 DEF Iterates
    <2>. QED
        BY <1>3, <2>1
<1>6. g0 = DigitNext(g0, bytes, at)
    <2>1. ASSUME NEW i \in 0 .. n
          PROVE  g0[i] = IF i = 0 THEN 0 ELSE g0[i - 1] + bytes[at + i] * Power[i - 1]
        <3>1. CASE i = 0
            BY <1>4, <3>1 DEF Iterates
        <3>2. CASE i # 0
            <4>1. i \in 1 .. n
                BY <1>0, <3>2
            <4>. QED
                BY <1>5, <3>2, <4>1
        <3>. QED
            BY <3>1, <3>2
    <2>. QED
        BY <2>1 DEF DigitNext
<1> DEFINE g == CHOOSE h : h = DigitNext(h, bytes, at)
<1>7. WordOf(bytes, at) = g[n]
    BY DEF WordOf, DigitNext
<1>8. g = DigitNext(g, bytes, at)
    BY <1>6
<1> HIDE DEF g
<1>9. /\ g = [i \in 0 .. n |-> g[i]]
      /\ \A i \in 0 .. n : g[i] = IF i = 0 THEN 0 ELSE g[i - 1] + bytes[at + i] * Power[i - 1]
    BY <1>8 DEF DigitNext
<1>10. g[0] = 0
    <2>1. 0 \in 0 .. n
        BY <1>0
    <2>. QED
        BY <1>9, <2>1, Zenon
<1>11. ASSUME NEW i \in 1 .. n
       PROVE  g[i] = g[i - 1] + bytes[at + i] * Power[i - 1]
    <2>1. i \in 0 .. n /\ i # 0
        OBVIOUS
    <2>. QED
        BY <1>9, <2>1
<1> DEFINE P == {i \in 0 .. n : g[i] \in Nat}
<1>12. 0 \in P
    BY <1>0, <1>10
<1>13. ASSUME NEW i \in 1 .. n, i - 1 \in P
       PROVE  i \in P
    <2>1. g[i - 1] \in Nat
        BY <1>13
    <2>2. g[i - 1] + bytes[at + i] * Power[i - 1] \in Nat
        BY <1>1, <2>1
    <2>. QED
        BY <1>11, <2>2
<1>14. \A i \in 0 .. n : i \in P
    <2> HIDE DEF P
    <2>. QED
        BY <1>0, <1>12, <1>13, UpTo
<1>15. g \in [0 .. n -> Nat]
    BY <1>9, <1>14
<1>. QED
    BY <1>7, <1>10, <1>11, <1>15

\* What is written as a word is read back.
LEMMA WordRoundTrip ==
    ASSUME NEW v \in GuestPtr, NEW bytes, NEW at \in Nat,
           \A i \in 1 .. WordBytes : bytes[at + i] = LittleEndian(v, WordBytes)[i]
    PROVE  WordOf(bytes, at) = v
<1> DEFINE n == WordBytes
<1>0. /\ n \in Nat \ {0} /\ n \in 1 .. 2 * WordBytes /\ v \in Nat
      /\ v < Power[n]
    BY Widths, WordMaxFacts
<1>1. \A i \in 1 .. n : bytes[at + i] = (v \div Power[i - 1]) % Base /\ bytes[at + i] \in Byte
    BY <1>0, LittleEndianBytes
<1>2. PICK g \in [0 .. n -> Nat] :
          /\ g[0] = 0
          /\ \A i \in 1 .. n : g[i] = g[i - 1] + bytes[at + i] * Power[i - 1]
          /\ WordOf(bytes, at) = g[n]
    BY <1>1, WordDigits
<1> DEFINE P == {i \in 0 .. n : g[i] = v % Power[i]}
<1>3. 0 \in P
    <2>1. v % 1 = 0
        BY <1>0
    <2>. QED
        BY <1>0, <1>2, <2>1, PowerFacts
<1>4. ASSUME NEW i \in 1 .. n, i - 1 \in P
      PROVE  i \in P
    <2>1. i - 1 \in 0 .. 2 * WordBytes /\ i \in 1 .. 2 * WordBytes
        BY Widths
    <2>2. Power[i - 1] \in Nat \ {0} /\ Power[i] = Base * Power[i - 1]
        BY <2>1, PowerFacts
    <2>3. v % (Base * Power[i - 1])
              = (v % Power[i - 1]) + ((v \div Power[i - 1]) % Base) * Power[i - 1]
        BY <1>0, <2>2, NextDigit, Widths
    <2>4. g[i - 1] = v % Power[i - 1]
        BY <1>4
    <2>5. g[i] = v % Power[i]
        BY <1>1, <1>2, <2>2, <2>3, <2>4
    <2>. QED
        BY <2>5
<1>5. \A i \in 0 .. n : i \in P
    <2> HIDE DEF P
    <2>. QED
        BY <1>0, <1>3, <1>4, UpTo
<1>6. g[n] = v % Power[n]
    BY <1>0, <1>5
<1>7. v % Power[n] = v
    <2> DEFINE p == Power[n]
    <2>0. p \in Nat \ {0} /\ v \in Nat /\ v < p
        BY <1>0, PowerFacts
    <2> HIDE DEF p
    <2>1. p \in Nat \ {0} /\ v \in 0 .. p - 1
        BY <2>0
    <2>2. (p * 0 + v) % p = v
        BY <2>1, ModIs
    <2>3. p * 0 + v = v
        BY <1>0, <2>1
    <2>. QED
        BY <2>2, <2>3 DEF p
<1>. QED
    BY <1>2, <1>6, <1>7

-----------------------------------------------------------------------------
(***************************************************************************)
(* Memories                                                                *)
(***************************************************************************)
\* A memory of n addresses.
MemoryOf(n) == [0 .. n - 1 -> Byte]

LEMMA SizeIs ==
    ASSUME NEW n \in Nat, NEW m, DOMAIN m = 0 .. n - 1
    PROVE  Size(m) = n
<1>1. Cardinality(0 .. n - 1) = IF 0 > n - 1 THEN 0 ELSE n - 1 - 0 + 1
    BY FS_Interval
<1>. QED
    BY <1>1 DEF Size

LEMMA WriteFacts ==
    ASSUME NEW n \in Nat, NEW m \in MemoryOf(n), NEW ptr \in Nat, NEW bytes \in Seq(Byte)
    PROVE  /\ Write(m, ptr, bytes) \in MemoryOf(n)
           /\ \A i \in 1 .. Len(bytes) :
                 ptr + i - 1 \in 0 .. n - 1 => Write(m, ptr, bytes)[ptr + i - 1] = bytes[i]
           /\ \A a \in 0 .. n - 1 :
                 a \notin ptr .. ptr + Len(bytes) - 1 => Write(m, ptr, bytes)[a] = m[a]
<1>0. Len(bytes) \in Nat /\ \A i \in 1 .. Len(bytes) : bytes[i] \in Byte
    OBVIOUS
<1>1. DOMAIN m = 0 .. n - 1
    BY DEF MemoryOf
<1>2. \A a \in ptr .. ptr + Len(bytes) - 1 : a - ptr + 1 \in 1 .. Len(bytes)
    BY <1>0
<1>3. \A a \in 0 .. n - 1 : m[a] \in Byte
    BY DEF MemoryOf
<1>4. Write(m, ptr, bytes) \in MemoryOf(n)
    BY <1>0, <1>1, <1>2, <1>3 DEF Write, MemoryOf
<1>5. ASSUME NEW i \in 1 .. Len(bytes), ptr + i - 1 \in 0 .. n - 1
      PROVE  Write(m, ptr, bytes)[ptr + i - 1] = bytes[i]
    <2> DEFINE a == ptr + i - 1
    <2>1. a \in ptr .. ptr + Len(bytes) - 1 /\ a - ptr + 1 = i /\ a \in 0 .. n - 1
        BY <1>0, <1>5
    <2> HIDE DEF a
    <2>2. Write(m, ptr, bytes)[a] = bytes[a - ptr + 1]
        BY <1>1, <2>1 DEF Write
    <2>. QED
        BY <2>1, <2>2 DEF a
<1>6. ASSUME NEW a \in 0 .. n - 1, a \notin ptr .. ptr + Len(bytes) - 1
      PROVE  Write(m, ptr, bytes)[a] = m[a]
    BY <1>1, <1>6 DEF Write
<1>. QED
    BY <1>4, <1>5, <1>6

\* The memory out is m with bytes at an address.
Overwritten(out, m, n, ptr, bytes) ==
    /\ \A i \in 1 .. Len(bytes) : ptr + i - 1 \in 0 .. n - 1 => out[ptr + i - 1] = bytes[i]
    /\ \A a \in 0 .. n - 1 : a \notin ptr .. ptr + Len(bytes) - 1 => out[a] = m[a]

LEMMA WriteIs ==
    ASSUME NEW n \in Nat, NEW m \in MemoryOf(n), NEW ptr \in Nat, NEW bytes \in Seq(Byte)
    PROVE  Overwritten(Write(m, ptr, bytes), m, n, ptr, bytes)
    BY WriteFacts DEF Overwritten

\* The bytes at an address.
Has(m, ptr, bytes) == \A i \in 1 .. Len(bytes) : m[ptr + i - 1] = bytes[i]

LEMMA ReadIs ==
    ASSUME NEW m, NEW ptr \in Nat, NEW bytes \in Seq(Byte), Has(m, ptr, bytes)
    PROVE  Read(m, [ptr |-> ptr, len |-> Len(bytes)]) = bytes
<1>1. Len(bytes) \in Nat /\ bytes = [i \in 1 .. Len(bytes) |-> bytes[i]]
    OBVIOUS
<1>2. Read(m, [ptr |-> ptr, len |-> Len(bytes)]) = [i \in 1 .. Len(bytes) |-> m[ptr + i - 1]]
    BY DEF Read
<1>. QED
    BY <1>1, <1>2 DEF Has

LEMMA ReadWordIs ==
    ASSUME NEW m, NEW ptr \in Nat, NEW v \in GuestPtr, Has(m, ptr, LittleEndian(v, WordBytes))
    PROVE  /\ Read(m, WordSlice(ptr)) = LittleEndian(v, WordBytes)
           /\ ReadWord(m, ptr) = v
<1> DEFINE bytes == LittleEndian(v, WordBytes)
<1>1. bytes \in Seq(Byte) /\ Len(bytes) = WordBytes
    BY LittleEndianBytes, Widths, WordMaxFacts
<1>2. Read(m, WordSlice(ptr)) = bytes
    <2> HIDE DEF bytes
    <2>1. Has(m, ptr, bytes)
        BY DEF bytes
    <2>. QED
        BY <1>1, <2>1, ReadIs DEF WordSlice
<1> HIDE DEF bytes
<1>3. \A i \in 1 .. WordBytes : 0 + i = i
    BY Widths
<1>4. WordOf(bytes, 0) = v
    BY <1>3, WordRoundTrip DEF bytes
<1>. QED
    BY <1>2, <1>4 DEF ReadWord, bytes

\* A range of the guest that the host may use.
LEMMA ReadableIn ==
    ASSUME NEW n \in Nat, NEW m \in MemoryOf(n), NEW slice \in GuestSlice
    PROVE  /\ Size(m) = n
           /\ Inside(m, slice) => slice.ptr .. slice.ptr + slice.len - 1 \subseteq 0 .. n - 1
           /\ Inside(m, slice) => Read(m, slice) \in Seq(Byte) /\ Len(Read(m, slice)) = slice.len
<1>0. slice.ptr \in Nat /\ slice.len \in Nat
    BY WordMaxFacts DEF GuestSlice
<1>1. Size(m) = n
    BY SizeIs DEF MemoryOf
<1>2. ASSUME Inside(m, slice)
      PROVE  slice.ptr .. slice.ptr + slice.len - 1 \subseteq 0 .. n - 1
    BY <1>0, <1>1, <1>2 DEF Inside
<1>3. ASSUME Inside(m, slice)
      PROVE  Read(m, slice) \in Seq(Byte) /\ Len(Read(m, slice)) = slice.len
    <2>1. \A i \in 1 .. slice.len : slice.ptr + i - 1 \in 0 .. n - 1
        BY <1>0, <1>2, <1>3
    <2>2. \A i \in 1 .. slice.len : m[slice.ptr + i - 1] \in Byte
        BY <2>1 DEF MemoryOf
    <2>. QED
        BY <1>0, <2>2 DEF Read
<1>. QED
    BY <1>1, <1>2, <1>3

-----------------------------------------------------------------------------
(***************************************************************************)
(* Sequences of pieces of one width                                        *)
(***************************************************************************)
LEMMA Products ==
    ASSUME NEW w \in Nat, NEW k \in Nat, NEW c \in Nat
    PROVE  /\ k * w \in Nat
           /\ (k + 1) * w = k * w + w
           /\ k <= c => k * w <= c * w
           /\ (k - 1) * w + w = k * w
           /\ 1 * w = w /\ 0 * w = 0
<1>1. k * w \in Nat
    OBVIOUS
<1>2. (k + 1) * w = k * w + w /\ (k - 1) * w + w = k * w
    OBVIOUS
<1>3. ASSUME k <= c
      PROVE  k * w <= c * w
    <2> DEFINE d == c - k
    <2>1. d \in Nat /\ c = k + d
        BY <1>3
    <2> HIDE DEF d
    <2>2. c * w = k * w + d * w /\ d * w \in Nat
        BY <2>1
    <2> DEFINE x == k * w  y == d * w
    <2>3. x \in Nat /\ y \in Nat
        BY <1>1, <2>2
    <2> HIDE DEF x, y
    <2>4. x <= x + y
        BY <2>3
    <2>. QED
        BY <2>2, <2>4 DEF x, y
<1>4. 1 * w = w /\ 0 * w = 0
    OBVIOUS
<1>. QED
    BY <1>1, <1>2, <1>3, <1>4

LEMMA FlattenWidth ==
    ASSUME NEW S, NEW seqs \in Seq(Seq(S)), NEW w \in Nat, \A i \in 1 .. Len(seqs) : Len(seqs[i]) = w
    PROVE  /\ FlattenSeq(seqs) \in Seq(S)
           /\ Len(FlattenSeq(seqs)) = Len(seqs) * w
           /\ \A k \in 1 .. Len(seqs), j \in 1 .. w :
                 FlattenSeq(seqs)[(k - 1) * w + j] = seqs[k][j]
<1> DEFINE n == Len(seqs)
<1>0. n \in Nat /\ \A i \in 1 .. n : seqs[i] \in Seq(S)
    OBVIOUS
<1>1. Concatenates(seqs, n, S, FlattenSeq(seqs))
    BY FlattenFacts
<1>2. PICK h \in [0 .. n -> Seq(S)] :
          /\ h[0] = <<>>
          /\ \A i \in 1 .. n : h[i] = h[i - 1] \o seqs[i]
          /\ FlattenSeq(seqs) = h[n]
    BY <1>1 DEF Concatenates
<1> DEFINE at == [k \in 0 .. n |-> k * w]
<1>3. /\ \A k \in 0 .. n : at[k] \in Nat /\ at[k] = k * w
      /\ at[0] = 0
      /\ \A k \in 1 .. n : at[k] = at[k - 1] + w
      /\ \A k, c \in 0 .. n : k <= c => at[k] <= at[c]
    <2>1. \A k \in 0 .. n : k \in Nat /\ k * w \in Nat
        BY <1>0, Products
    <2>2. 0 * w = 0 /\ 0 \in 0 .. n
        BY <1>0
    <2>3. \A k \in 1 .. n : k - 1 \in 0 .. n /\ k \in Nat /\ k * w = (k - 1) * w + w
        BY <1>0, Products
    <2>4. \A k, c \in 0 .. n : k <= c => k * w <= c * w
        BY <1>0, Products
    <2>5. \A k \in 0 .. n : at[k] = k * w
        OBVIOUS
    <2> HIDE DEF at, n
    <2>6. \A k \in 1 .. n : k \in 0 .. n
        BY <1>0
    <2>7. \A k \in 1 .. n : at[k] = at[k - 1] + w
        BY <2>3, <2>5, <2>6
    <2>. QED
        BY <2>1, <2>2, <2>4, <2>5, <2>7
<1> HIDE DEF at, n
<1> DEFINE P == {i \in 0 .. n : /\ Len(h[i]) = at[i]
                                /\ \A k \in 1 .. i, j \in 1 .. w : h[i][at[k - 1] + j] = seqs[k][j]}
<1>4. 0 \in P
    <2>1. Len(h[0]) = at[0]
        BY <1>2, <1>3
    <2>2. 0 \in 0 .. n /\ 1 .. 0 = {}
        BY <1>0
    <2>. QED
        BY <2>1, <2>2
<1>5. ASSUME NEW i \in 1 .. n, i - 1 \in P
      PROVE  i \in P
    <2> DEFINE x == h[i - 1]
               y == seqs[i]
    <2>0. i - 1 \in 0 .. n /\ i \in 0 .. n /\ i \in Nat
        BY <1>0
    <2>1. x \in Seq(S) /\ y \in Seq(S) /\ h[i] = x \o y /\ Len(x) = at[i - 1] /\ Len(y) = w
        BY <1>0, <1>2, <1>5, <2>0 DEF n
    <2>2. \A k \in 1 .. i - 1, j \in 1 .. w : x[at[k - 1] + j] = seqs[k][j]
        BY <1>5
    <2> HIDE DEF x, y
    <2> DEFINE z == x \o y
    <2>3. /\ Len(z) = Len(x) + Len(y)
          /\ \A q \in 1 .. Len(x) : z[q] = x[q]
          /\ \A q \in 1 .. Len(y) : z[Len(x) + q] = y[q]
        <3>1. x \in Seq(S) /\ y \in Seq(S)
            BY <2>1
        <3>. QED
            BY <3>1, ConcatProperties
    <2> HIDE DEF z
    <2>4. Len(z) = at[i]
        BY <1>3, <2>1, <2>3
    <2>5. ASSUME NEW k \in 1 .. i, NEW j \in 1 .. w
          PROVE  z[at[k - 1] + j] = seqs[k][j]
        <3>1. CASE k = i
            BY <2>1, <2>3, <3>1 DEF y
        <3>2. CASE k # i
            <4>1. k \in 1 .. i - 1 /\ k \in 1 .. n /\ k \in 0 .. n /\ k - 1 \in 0 .. n /\ k <= i - 1
                BY <1>0, <2>0, <3>2
            <4>2. at[k] = at[k - 1] + w /\ at[k] <= at[i - 1] /\ at[k - 1] \in Nat /\ at[i - 1] \in Nat
                BY <1>3, <2>0, <4>1
            <4>3. at[k - 1] + j \in 1 .. Len(x)
                <5> DEFINE a == at[k - 1]
                           b == at[k]
                           c == at[i - 1]
                <5>1. /\ a \in Nat /\ b \in Nat /\ c \in Nat /\ w \in Nat
                      /\ b = a + w /\ b <= c /\ Len(x) = c
                    BY <2>1, <4>2
                <5> HIDE DEF a, b, c
                <5>2. a + j \in 1 .. c
                    BY <5>1
                <5>. QED
                    BY <5>1, <5>2 DEF a
            <4>. QED
                BY <2>2, <2>3, <4>1, <4>3
        <3>. QED
            BY <3>1, <3>2
    <2>6. h[i] = z
        BY <2>1 DEF z
    <2>. QED
        BY <2>0, <2>4, <2>5, <2>6
<1>6. \A i \in 0 .. n : i \in P
    <2> HIDE DEF P
    <2>. QED
        BY <1>0, <1>4, <1>5, UpTo
<1>7. n \in P /\ n \in 0 .. n
    BY <1>0, <1>6
<1>8. \A k \in 1 .. n : at[k - 1] = (k - 1) * w
    <2>1. \A k \in 1 .. n : k - 1 \in 0 .. n
        BY <1>0
    <2>. QED
        BY <1>3, <2>1
<1>. QED
    BY <1>2, <1>3, <1>7, <1>8 DEF n

-----------------------------------------------------------------------------
(***************************************************************************)
(* Maps.  Sizes, removals and sets are folds over the pairs.               *)
(***************************************************************************)
LEMMA PairFacts ==
    ASSUME NEW pair \in Pair
    PROVE  pair[1] \in Seq(Byte) /\ pair[2] \in Seq(Byte) /\ PairEncodedSize(pair) \in Nat
<1>1. pair[1] \in Seq(Byte) /\ pair[2] \in Seq(Byte)
    BY DEF Pair
<1> DEFINE a == Len(pair[1])
           b == Len(pair[2])
<1>2. a \in Nat /\ b \in Nat
    BY <1>1
<1>3. PairEncodedSize(pair) = 2 * WordBytes + a + 1 + b + 1
    BY DEF PairEncodedSize
<1> HIDE DEF a, b
<1>4. 2 * WordBytes + a + 1 + b + 1 \in Nat
    BY <1>2, Widths
<1>. QED
    BY <1>1, <1>3, <1>4

Summed(sum, pair) == sum + PairEncodedSize(pair)
SizeNext(g, map, places) ==
    [s \in SUBSET places |-> IF s = {} THEN WordBytes ELSE Summed(g[s \ {Max(s)}], map[Max(s)])]

\* The sums of the sizes, one pair after the other.
Sums(h, map) ==
    /\ h \in [0 .. Len(map) -> Nat]
    /\ h[0] = WordBytes
    /\ \A i \in 1 .. Len(map) : h[i] = Summed(h[i - 1], map[i])

LEMMA SizeFold ==
    ASSUME NEW map \in Seq(Pair)
    PROVE  \E h : /\ Sums(h, map)
                  /\ (CHOOSE g : g = SizeNext(g, map, DOMAIN map))[DOMAIN map] = h[Len(map)]
<1> DEFINE k == Len(map)
           S == Nat
           step == [p \in Nat \X S |-> IF p[1] \in 1 .. k THEN Summed(p[2], map[p[1]]) ELSE p[2]]
           g == CHOOSE h : h = SizeNext(h, map, 1 .. k)
<1>0. k \in Nat /\ DOMAIN map = 1 .. k /\ \A i \in 1 .. k : map[i] \in Pair
    OBVIOUS
<1>1. ASSUME NEW i \in 1 .. k, NEW x \in S
      PROVE  Summed(x, map[i]) \in S
    BY <1>0, PairFacts DEF Summed
<1>2. WordBytes \in S
    BY Widths
<1> HIDE DEF k, S
<1>3. ASSUME NEW p \in Nat \X S
      PROVE  (IF p[1] \in 1 .. k THEN Summed(p[2], map[p[1]]) ELSE p[2]) \in S
    <2>1. p[2] \in S
        OBVIOUS
    <2>. QED
        BY <1>1, <2>1
<1>4. step \in [Nat \X S -> S]
    BY <1>3
<1>5. ASSUME NEW i \in 1 .. k, NEW x \in S
      PROVE  step[<<i, x>>] = Summed(x, map[i])
    <2>1. <<i, x>> \in Nat \X S
        BY <1>0
    <2>. QED
        BY <2>1
<1> HIDE DEF step, g
<1>6. PICK f \in [SUBSET (1 .. k) -> S] : FoldsBy(f, k, WordBytes, step)
    BY <1>0, <1>2, <1>4, FoldExists
<1>7. f = SizeNext(f, map, 1 .. k)
    <2>1. ASSUME NEW s \in SUBSET (1 .. k)
          PROVE  f[s] = IF s = {} THEN WordBytes ELSE Summed(f[s \ {Max(s)}], map[Max(s)])
        <3>1. CASE s = {}
            BY <1>6, <3>1 DEF FoldsBy
        <3>2. CASE s # {}
            <4>1. f[s] = step[<<Max(s), f[s \ {Max(s)}]>>]
                BY <1>6, <3>2 DEF FoldsBy
            <4>2. Max(s) \in 1 .. k /\ s \ {Max(s)} \in SUBSET (1 .. k)
                BY <1>0, <3>2, MaxIn
            <4>3. f[s \ {Max(s)}] \in S
                BY <1>6, <4>2
            <4>4. step[<<Max(s), f[s \ {Max(s)}]>>] = Summed(f[s \ {Max(s)}], map[Max(s)])
                BY <1>5, <4>2, <4>3
            <4>. QED
                BY <3>2, <4>1, <4>4, Zenon
        <3>. QED
            BY <3>1, <3>2
    <2>. QED
        BY <2>1 DEF SizeNext
<1>8. g = SizeNext(g, map, 1 .. k)
    BY <1>7 DEF g
<1>9. g[{}] = WordBytes
    <2>1. {} \in SUBSET (1 .. k)
        OBVIOUS
    <2>. QED
        BY <1>8, <2>1 DEF SizeNext
<1>10. ASSUME NEW i \in 1 .. k, g[1 .. i - 1] \in S
       PROVE  g[1 .. i] = step[<<i, g[1 .. i - 1]>>]
    <2>1. /\ Max(1 .. i) = i /\ (1 .. i) \ {Max(1 .. i)} = 1 .. i - 1
          /\ 1 .. i # {} /\ 1 .. i \in SUBSET (1 .. k)
        BY <1>0, FirstNumbers
    <2>2. g[1 .. i] = Summed(g[(1 .. i) \ {Max(1 .. i)}], map[Max(1 .. i)])
        BY <1>8, <2>1 DEF SizeNext
    <2>3. g[1 .. i] = Summed(g[1 .. i - 1], map[i])
        BY <2>1, <2>2, Zenon
    <2>4. step[<<i, g[1 .. i - 1]>>] = Summed(g[1 .. i - 1], map[i])
        BY <1>5, <1>10
    <2>. QED
        BY <2>3, <2>4, Zenon
<1>11. Chained(g, k, S, WordBytes, step)
    <2>1. FoldsFirst(g, k, S, WordBytes, step)
        BY <1>9, <1>10 DEF FoldsFirst
    <2>. QED
        BY <1>0, <1>2, <1>4, <2>1, FoldChain
<1>12. PICK h \in [0 .. k -> S] : Iterates(h, k, WordBytes, step) /\ h[k] = g[1 .. k]
    BY <1>11 DEF Chained
<1>13. ASSUME NEW i \in 1 .. k
       PROVE  h[i] = Summed(h[i - 1], map[i])
    <2>1. h[i - 1] \in S /\ h[i] = step[<<i, h[i - 1]>>]
        BY <1>0, <1>12 DEF Iterates
    <2>. QED
        BY <1>5, <2>1
<1>14. Sums(h, map)
    BY <1>12, <1>13 DEF Sums, Iterates, k, S
<1>15. (CHOOSE e : e = SizeNext(e, map, 1 .. k))[1 .. k] = h[k]
    BY <1>12 DEF g
<1>. QED
    BY <1>0, <1>14, <1>15, Zenon DEF k

LEMMA TotalSizeIs ==
    ASSUME NEW map \in Seq(Pair), map # <<>>
    PROVE  \E h : Sums(h, map) /\ TotalSize(map) = h[Len(map)]
<1>1. TotalSize(map) = (CHOOSE h : h = SizeNext(h, map, DOMAIN map))[DOMAIN map]
    BY DEF TotalSize, FoldLeft, MapThenFoldSet, SizeNext, Summed
<1>. QED
    BY <1>1, SizeFold

LEMMA TotalSizeNat ==
    ASSUME NEW map \in Seq(Pair)
    PROVE  TotalSize(map) \in Nat
<1>1. CASE map = <<>>
    BY <1>1 DEF TotalSize
<1>2. CASE map # <<>>
    <2>1. PICK h : Sums(h, map) /\ TotalSize(map) = h[Len(map)]
        BY <1>2, TotalSizeIs
    <2>2. Len(map) \in 0 .. Len(map)
        OBVIOUS
    <2>. QED
        BY <2>1, <2>2 DEF Sums
<1>. QED
    BY <1>1, <1>2

Retained(kept, pair, key) == IF pair[1] # key THEN Append(kept, pair) ELSE kept
DeleteNext(g, map, key, places) ==
    [s \in SUBSET places |-> IF s = {} THEN <<>> ELSE Retained(g[s \ {Max(s)}], map[Max(s)], key)]

LEMMA DeleteFold ==
    ASSUME NEW map \in Seq(Pair), NEW key
    PROVE  (CHOOSE h : h = DeleteNext(h, map, key, DOMAIN map))[DOMAIN map] \in Seq(Pair)
<1> DEFINE k == Len(map)
           S == Seq(Pair)
           step == [p \in Nat \X S |-> IF p[1] \in 1 .. k THEN Retained(p[2], map[p[1]], key) ELSE p[2]]
           g == CHOOSE h : h = DeleteNext(h, map, key, 1 .. k)
<1>0. k \in Nat /\ DOMAIN map = 1 .. k /\ \A i \in 1 .. k : map[i] \in Pair
    OBVIOUS
<1>1. ASSUME NEW i \in 1 .. k, NEW x \in S
      PROVE  Retained(x, map[i], key) \in S
    BY <1>0 DEF Retained
<1>2. <<>> \in S
    OBVIOUS
<1> HIDE DEF k, S
<1>3. ASSUME NEW p \in Nat \X S
      PROVE  (IF p[1] \in 1 .. k THEN Retained(p[2], map[p[1]], key) ELSE p[2]) \in S
    <2>1. p[2] \in S
        OBVIOUS
    <2>. QED
        BY <1>1, <2>1
<1>4. step \in [Nat \X S -> S]
    BY <1>3
<1>5. ASSUME NEW i \in 1 .. k, NEW x \in S
      PROVE  step[<<i, x>>] = Retained(x, map[i], key)
    <2>1. <<i, x>> \in Nat \X S
        BY <1>0
    <2>. QED
        BY <2>1
<1> HIDE DEF step, g
<1>6. PICK f \in [SUBSET (1 .. k) -> S] : FoldsBy(f, k, <<>>, step)
    BY <1>0, <1>2, <1>4, FoldExists
<1>7. f = DeleteNext(f, map, key, 1 .. k)
    <2>1. ASSUME NEW s \in SUBSET (1 .. k)
          PROVE  f[s] = IF s = {} THEN <<>> ELSE Retained(f[s \ {Max(s)}], map[Max(s)], key)
        <3>1. CASE s = {}
            BY <1>6, <3>1 DEF FoldsBy
        <3>2. CASE s # {}
            <4>1. f[s] = step[<<Max(s), f[s \ {Max(s)}]>>]
                BY <1>6, <3>2 DEF FoldsBy
            <4>2. Max(s) \in 1 .. k /\ s \ {Max(s)} \in SUBSET (1 .. k)
                BY <1>0, <3>2, MaxIn
            <4>3. f[s \ {Max(s)}] \in S
                BY <1>6, <4>2
            <4>4. step[<<Max(s), f[s \ {Max(s)}]>>] = Retained(f[s \ {Max(s)}], map[Max(s)], key)
                BY <1>5, <4>2, <4>3
            <4>. QED
                BY <3>2, <4>1, <4>4, Zenon
        <3>. QED
            BY <3>1, <3>2
    <2>. QED
        BY <2>1 DEF DeleteNext
<1>8. g = DeleteNext(g, map, key, 1 .. k)
    BY <1>7 DEF g
<1>9. g[{}] = <<>>
    <2>1. {} \in SUBSET (1 .. k)
        OBVIOUS
    <2>. QED
        BY <1>8, <2>1 DEF DeleteNext
<1>10. ASSUME NEW i \in 1 .. k, g[1 .. i - 1] \in S
       PROVE  g[1 .. i] = step[<<i, g[1 .. i - 1]>>]
    <2>1. /\ Max(1 .. i) = i /\ (1 .. i) \ {Max(1 .. i)} = 1 .. i - 1
          /\ 1 .. i # {} /\ 1 .. i \in SUBSET (1 .. k)
        BY <1>0, FirstNumbers
    <2>2. g[1 .. i] = Retained(g[(1 .. i) \ {Max(1 .. i)}], map[Max(1 .. i)], key)
        BY <1>8, <2>1 DEF DeleteNext
    <2>3. g[1 .. i] = Retained(g[1 .. i - 1], map[i], key)
        BY <2>1, <2>2, Zenon
    <2>4. step[<<i, g[1 .. i - 1]>>] = Retained(g[1 .. i - 1], map[i], key)
        BY <1>5, <1>10
    <2>. QED
        BY <2>3, <2>4, Zenon
<1>11. Chained(g, k, S, <<>>, step)
    <2>1. FoldsFirst(g, k, S, <<>>, step)
        BY <1>9, <1>10 DEF FoldsFirst
    <2>. QED
        BY <1>0, <1>2, <1>4, <2>1, FoldChain
<1>12. g[1 .. k] \in S
    BY <1>0, <1>11 DEF Chained
<1>13. (CHOOSE h : h = DeleteNext(h, map, key, 1 .. k))[1 .. k] \in S
    BY <1>12 DEF g
<1>. QED
    BY <1>0, <1>13, Zenon DEF S

LEMMA DeleteTyped ==
    ASSUME NEW map \in Seq(Pair), NEW key
    PROVE  Delete(map, key) \in Seq(Pair)
<1>1. Delete(map, key) = (CHOOSE h : h = DeleteNext(h, map, key, DOMAIN map))[DOMAIN map]
    BY DEF Delete, FoldLeft, MapThenFoldSet, DeleteNext, Retained
<1>. QED
    BY <1>1, DeleteFold

Kept == [pairs : Seq(Pair), one : BOOLEAN]
NothingKept == [pairs |-> <<>>, one |-> FALSE]
Visited(kept, pair, key, value) ==
    IF pair[1] # key THEN [kept EXCEPT !.pairs = Append(@, pair)]
    ELSE IF kept.one THEN kept
    ELSE [pairs |-> Append(kept.pairs, <<key, value>>), one |-> TRUE]
SetNext(g, map, key, value, places) ==
    [s \in SUBSET places |-> IF s = {} THEN NothingKept ELSE Visited(g[s \ {Max(s)}], map[Max(s)], key, value)]

\* The visits of a set, one pair after the other.
Visits(h, map, key, value) ==
    /\ h \in [0 .. Len(map) -> Kept]
    /\ h[0] = NothingKept
    /\ \A i \in 1 .. Len(map) : h[i] = Visited(h[i - 1], map[i], key, value)

LEMMA SetFold ==
    ASSUME NEW map \in Seq(Pair), NEW key \in Seq(Byte), NEW value \in Seq(Byte)
    PROVE  \E h : /\ Visits(h, map, key, value)
                  /\ (CHOOSE g : g = SetNext(g, map, key, value, DOMAIN map))[DOMAIN map] = h[Len(map)]
<1> DEFINE k == Len(map)
           S == Kept
           step == [p \in Nat \X S |-> IF p[1] \in 1 .. k THEN Visited(p[2], map[p[1]], key, value) ELSE p[2]]
           g == CHOOSE h : h = SetNext(h, map, key, value, 1 .. k)
<1>0. k \in Nat /\ DOMAIN map = 1 .. k /\ \A i \in 1 .. k : map[i] \in Pair
    OBVIOUS
<1>1. ASSUME NEW i \in 1 .. k, NEW x \in S
      PROVE  Visited(x, map[i], key, value) \in S
    <2>1. map[i] \in Pair /\ <<key, value>> \in Pair
        BY <1>0 DEF Pair
    <2>2. x.pairs \in Seq(Pair) /\ x.one \in BOOLEAN
        BY DEF Kept
    <2>3. Append(x.pairs, map[i]) \in Seq(Pair) /\ Append(x.pairs, <<key, value>>) \in Seq(Pair)
        BY <2>1, <2>2
    <2>4. CASE map[i][1] # key
        BY <2>3, <2>4 DEF Kept, Visited
    <2>5. CASE map[i][1] = key
        BY <2>3, <2>5 DEF Kept, Visited
    <2>. QED
        BY <2>4, <2>5
<1>2. NothingKept \in S
    BY DEF NothingKept, Kept
<1> HIDE DEF k, S
<1>3. ASSUME NEW p \in Nat \X S
      PROVE  (IF p[1] \in 1 .. k THEN Visited(p[2], map[p[1]], key, value) ELSE p[2]) \in S
    <2>1. p[2] \in S
        OBVIOUS
    <2>. QED
        BY <1>1, <2>1
<1>4. step \in [Nat \X S -> S]
    BY <1>3
<1>5. ASSUME NEW i \in 1 .. k, NEW x \in S
      PROVE  step[<<i, x>>] = Visited(x, map[i], key, value)
    <2>1. <<i, x>> \in Nat \X S
        BY <1>0
    <2>. QED
        BY <2>1
<1> HIDE DEF step, g
<1>6. PICK f \in [SUBSET (1 .. k) -> S] : FoldsBy(f, k, NothingKept, step)
    BY <1>0, <1>2, <1>4, FoldExists
<1>7. f = SetNext(f, map, key, value, 1 .. k)
    <2>1. ASSUME NEW s \in SUBSET (1 .. k)
          PROVE  f[s] = IF s = {} THEN NothingKept ELSE Visited(f[s \ {Max(s)}], map[Max(s)], key, value)
        <3>1. CASE s = {}
            BY <1>6, <3>1 DEF FoldsBy
        <3>2. CASE s # {}
            <4>1. f[s] = step[<<Max(s), f[s \ {Max(s)}]>>]
                BY <1>6, <3>2 DEF FoldsBy
            <4>2. Max(s) \in 1 .. k /\ s \ {Max(s)} \in SUBSET (1 .. k)
                BY <1>0, <3>2, MaxIn
            <4>3. f[s \ {Max(s)}] \in S
                BY <1>6, <4>2
            <4>4. step[<<Max(s), f[s \ {Max(s)}]>>] = Visited(f[s \ {Max(s)}], map[Max(s)], key, value)
                BY <1>5, <4>2, <4>3
            <4>. QED
                BY <3>2, <4>1, <4>4, Zenon
        <3>. QED
            BY <3>1, <3>2
    <2>. QED
        BY <2>1 DEF SetNext
<1>8. g = SetNext(g, map, key, value, 1 .. k)
    BY <1>7 DEF g
<1>9. g[{}] = NothingKept
    <2>1. {} \in SUBSET (1 .. k)
        OBVIOUS
    <2>. QED
        BY <1>8, <2>1 DEF SetNext
<1>10. ASSUME NEW i \in 1 .. k, g[1 .. i - 1] \in S
       PROVE  g[1 .. i] = step[<<i, g[1 .. i - 1]>>]
    <2>1. /\ Max(1 .. i) = i /\ (1 .. i) \ {Max(1 .. i)} = 1 .. i - 1
          /\ 1 .. i # {} /\ 1 .. i \in SUBSET (1 .. k)
        BY <1>0, FirstNumbers
    <2>2. g[1 .. i] = Visited(g[(1 .. i) \ {Max(1 .. i)}], map[Max(1 .. i)], key, value)
        BY <1>8, <2>1 DEF SetNext
    <2>3. g[1 .. i] = Visited(g[1 .. i - 1], map[i], key, value)
        BY <2>1, <2>2, Zenon
    <2>4. step[<<i, g[1 .. i - 1]>>] = Visited(g[1 .. i - 1], map[i], key, value)
        BY <1>5, <1>10
    <2>. QED
        BY <2>3, <2>4, Zenon
<1>11. Chained(g, k, S, NothingKept, step)
    <2>1. FoldsFirst(g, k, S, NothingKept, step)
        BY <1>9, <1>10 DEF FoldsFirst
    <2>. QED
        BY <1>0, <1>2, <1>4, <2>1, FoldChain
<1>12. PICK h \in [0 .. k -> S] : Iterates(h, k, NothingKept, step) /\ h[k] = g[1 .. k]
    BY <1>11 DEF Chained
<1>13. ASSUME NEW i \in 1 .. k
       PROVE  h[i] = Visited(h[i - 1], map[i], key, value)
    <2>1. h[i - 1] \in S /\ h[i] = step[<<i, h[i - 1]>>]
        BY <1>0, <1>12 DEF Iterates
    <2>. QED
        BY <1>5, <2>1
<1>14. Visits(h, map, key, value)
    BY <1>12, <1>13 DEF Visits, Iterates, k, S
<1>15. (CHOOSE e : e = SetNext(e, map, key, value, 1 .. k))[1 .. k] = h[k]
    BY <1>12 DEF g
<1>. QED
    BY <1>0, <1>14, <1>15, Zenon DEF k

LEMMA SetIs ==
    ASSUME NEW map \in Seq(Pair), NEW key \in Seq(Byte), NEW value \in Seq(Byte)
    PROVE  \E h : /\ Visits(h, map, key, value)
                  /\ Set(map, key, value) = IF h[Len(map)].one THEN h[Len(map)].pairs
                                            ELSE Add(h[Len(map)].pairs, key, value)
<1> DEFINE kept == (CHOOSE h : h = SetNext(h, map, key, value, DOMAIN map))[DOMAIN map]
<1>1. Set(map, key, value) = IF kept.one THEN kept.pairs ELSE Add(kept.pairs, key, value)
    BY DEF Set, FoldLeft, MapThenFoldSet, SetNext, Visited, NothingKept
<1>2. PICK h : Visits(h, map, key, value) /\ kept = h[Len(map)]
    BY SetFold
<1> HIDE DEF kept
<1>. QED
    BY <1>1, <1>2

LEMMA SetTyped ==
    ASSUME NEW map \in Seq(Pair), NEW key \in Seq(Byte), NEW value \in Seq(Byte)
    PROVE  Set(map, key, value) \in Seq(Pair)
<1>1. PICK h : /\ Visits(h, map, key, value)
               /\ Set(map, key, value) = IF h[Len(map)].one THEN h[Len(map)].pairs
                                         ELSE Add(h[Len(map)].pairs, key, value)
    BY SetIs
<1>2. h[Len(map)] \in Kept
    <2>1. Len(map) \in 0 .. Len(map)
        OBVIOUS
    <2>. QED
        BY <1>1, <2>1 DEF Visits
<1>3. h[Len(map)].pairs \in Seq(Pair) /\ <<key, value>> \in Pair
    BY <1>2 DEF Kept, Pair
<1>. QED
    BY <1>1, <1>3 DEF Add

LEMMA MinIn ==
    ASSUME NEW s \in SUBSET Nat, s # {}
    PROVE  Min(s) \in s
<1> DEFINE less == OpToRel(<, Nat)
<1>1. IsWellFoundedOn(less, Nat)
    BY NatLessThanWellFounded
<1>2. PICK i \in s : \A j \in s : <<j, i>> \notin less
    <2> HIDE DEF less
    <2>. QED
        BY <1>1, WFMin
<1>3. \A j \in s : ~(j < i)
    BY <1>2 DEF OpToRel
<1>4. \A j \in s : i <= j
    BY <1>3
<1>. QED
    BY <1>4 DEF Min

LEMMA GetTyped ==
    ASSUME NEW map \in Seq(Pair), NEW key
    PROVE  Get(map, key) \in Seq(Byte) \cup {Absent}
<1>1. CASE WithKey(map, key) = {}
    BY <1>1 DEF Get
<1>2. CASE WithKey(map, key) # {}
    <2> DEFINE i == Min(WithKey(map, key))
    <2>1. WithKey(map, key) \in SUBSET (DOMAIN map) /\ DOMAIN map \in SUBSET Nat
        BY DEF WithKey
    <2>2. i \in DOMAIN map
        BY <1>2, <2>1, MinIn
    <2> HIDE DEF i
    <2>3. map[i] \in Pair
        BY <2>2
    <2>. QED
        BY <1>2, <2>3, PairFacts DEF Get, i
<1>. QED
    BY <1>1, <1>2

-----------------------------------------------------------------------------
(***************************************************************************)
(* The codec                                                               *)
(***************************************************************************)
LEMMA FlattenBytes ==
    ASSUME NEW seqs \in Seq(Seq(Byte))
    PROVE  FlattenSeq(seqs) \in Seq(Byte)
<1>1. Concatenates(seqs, Len(seqs), Byte, FlattenSeq(seqs))
    BY FlattenFacts
<1>2. Len(seqs) \in 0 .. Len(seqs)
    OBVIOUS
<1>. QED
    BY <1>1, <1>2 DEF Concatenates

LEMMA EncodeTyped ==
    ASSUME NEW map \in Seq(Pair)
    PROVE  EncodeMap(map).value \in Seq(Byte)
<1> DEFINE table == LengthTable(map)
           data == DataSection(map, Len(map))
           head == LittleEndian(Len(map), WordBytes)
           out == head \o table \o data
<1>0. /\ Len(map) \in Nat /\ DOMAIN map = 1 .. Len(map)
      /\ WordBytes \in 1 .. 2 * WordBytes
    BY Widths
<1>00. ASSUME NEW i \in 1 .. Len(map)
       PROVE  map[i][1] \in Seq(Byte) /\ map[i][2] \in Seq(Byte)
    BY PairFacts
<1>1. head \in Seq(Byte)
    BY <1>0, LittleEndianBytes
<1>2. table \in Seq(Byte)
    <2> DEFINE seqs == [i \in DOMAIN map |-> LittleEndian(Len(map[i][1]), WordBytes)
                                                 \o LittleEndian(Len(map[i][2]), WordBytes)]
    <2>1. ASSUME NEW i \in 1 .. Len(map)
          PROVE  LittleEndian(Len(map[i][1]), WordBytes)
                     \o LittleEndian(Len(map[i][2]), WordBytes) \in Seq(Byte)
        <3>1. Len(map[i][1]) \in Nat /\ Len(map[i][2]) \in Nat
            BY <1>00
        <3>2. /\ LittleEndian(Len(map[i][1]), WordBytes) \in Seq(Byte)
              /\ LittleEndian(Len(map[i][2]), WordBytes) \in Seq(Byte)
            BY <1>0, <3>1, LittleEndianBytes
        <3>. QED
            BY <3>2, ConcatProperties
    <2>2. seqs \in Seq(Seq(Byte))
        BY <1>0, <2>1
    <2> HIDE DEF seqs
    <2>. QED
        BY <2>2, FlattenBytes DEF LengthTable, seqs
<1>3. data \in Seq(Byte)
    <2> DEFINE seqs == [i \in 1 .. Len(map) |->
                           Append(map[i][1], Terminator) \o Append(map[i][2], Terminator)]
    <2>1. ASSUME NEW i \in 1 .. Len(map)
          PROVE  Append(map[i][1], Terminator) \o Append(map[i][2], Terminator) \in Seq(Byte)
        <3>1. Append(map[i][1], Terminator) \in Seq(Byte) /\ Append(map[i][2], Terminator) \in Seq(Byte)
            BY <1>00, Widths DEF Terminator
        <3>. QED
            BY <3>1, ConcatProperties
    <2>2. seqs \in Seq(Seq(Byte))
        BY <1>0, <2>1
    <2>3. data = FlattenSeq(seqs)
        <3>1. ~(Len(map) < Len(map))
            BY <1>0
        <3>. QED
            BY <3>1 DEF DataSection
    <2> HIDE DEF seqs, data
    <2>. QED
        BY <2>2, <2>3, FlattenBytes
<1>4. out \in Seq(Byte)
    <2> HIDE DEF head, table, data
    <2>1. head \o table \in Seq(Byte)
        BY <1>1, <1>2, ConcatProperties
    <2>. QED
        BY <1>3, <2>1, ConcatProperties
<1>5. \/ \E e : EncodeMap(map) = Failed(e)
      \/ EncodeMap(map) = Decoded(<<>>)
      \/ EncodeMap(map) = Decoded(out)
    BY DEF EncodeMap, EncodeVisited
<1>6. (\A e : Failed(e).value = <<>>) /\ (\A v : Decoded(v).value = v) /\ <<>> \in Seq(Byte)
    BY DEF Failed, Decoded
<1> HIDE DEF out
<1>. QED
    BY <1>4, <1>5, <1>6

DecodeCursor == [pos : Nat, value : Seq(Seq(Byte)), error : DecodeError \cup {NoError}]

LEMMA TakeTyped ==
    ASSUME NEW data \in Seq(Byte), NEW cursor \in DecodeCursor, NEW len \in Nat,
           NEW truncated \in DecodeError
    PROVE  Take(data, cursor, len, truncated) \in DecodeCursor
<1> DEFINE end == cursor.pos + len
           field == SubSeq(data, cursor.pos + 1, end)
<1>1. /\ cursor.pos \in Nat /\ cursor.value \in Seq(Seq(Byte))
      /\ cursor.error \in DecodeError \cup {NoError} /\ end \in Nat /\ Len(data) \in Nat
    BY DEF DecodeCursor
<1>2. "MissingTerminator" \in DecodeError \cup {NoError} /\ truncated \in DecodeError \cup {NoError}
    BY DEF DecodeError
<1>3. CASE cursor.error # NoError
    BY <1>3 DEF Take
<1>4. CASE cursor.error = NoError /\ end >= Len(data)
    BY <1>2, <1>4 DEF Take, DecodeCursor
<1>5. CASE cursor.error = NoError /\ ~(end >= Len(data)) /\ data[end + 1] # Terminator
    BY <1>2, <1>5 DEF Take, DecodeCursor
<1>6. CASE cursor.error = NoError /\ ~(end >= Len(data)) /\ data[end + 1] = Terminator
    <2>1. field \in Seq(Byte)
        <3>1. \A i \in cursor.pos + 1 .. end : i \in 1 .. Len(data)
            BY <1>1, <1>6
        <3>2. \A i \in cursor.pos + 1 .. end : data[i] \in Byte
            BY <3>1
        <3>. QED
            BY <1>1, <3>1, SubSeqProperties
    <2>2. Append(cursor.value, field) \in Seq(Seq(Byte))
        BY <1>1, <2>1
    <2>3. Take(data, cursor, len, truncated)
              = [cursor EXCEPT !.pos = end + 1, !.value = Append(cursor.value, field)]
        BY <1>6 DEF Take
    <2> DEFINE taken == Append(cursor.value, field)
               past == end + 1
    <2>4. past \in Nat
        <3>1. \A x \in Nat : x + len + 1 \in Nat
            OBVIOUS
        <3>. QED
            BY <1>1, <3>1, Zenon
    <2> HIDE DEF field, taken, past
    <2>5. [cursor EXCEPT !.pos = past, !.value = taken] \in DecodeCursor
        BY <2>2, <2>4 DEF DecodeCursor, taken
    <2>. QED
        BY <2>3, <2>5 DEF taken, past
<1>. QED
    BY <1>3, <1>4, <1>5, <1>6

LEMMA WordNat ==
    ASSUME NEW data, NEW at \in Nat, \A i \in 1 .. WordBytes : data[at + i] \in Byte
    PROVE  WordOf(data, at) \in Nat
<1>1. PICK g \in [0 .. WordBytes -> Nat] : WordOf(data, at) = g[WordBytes]
    BY WordDigits
<1>2. WordBytes \in 0 .. WordBytes
    BY Widths
<1>. QED
    BY <1>1, <1>2

TakeNext(g, data, count, table_end) ==
    [i \in 0 .. 2 * count |->
        IF i = 0 THEN Cursor(table_end)
        ELSE Take(data, g[i - 1], WordOf(data, i * WordBytes),
                  IF i % 2 = 1 THEN "TruncatedKey" ELSE "TruncatedValue")]

\* The takes of a decode, one field after the other.
Takes(g, data, count, table_end) ==
    /\ g \in [0 .. 2 * count -> DecodeCursor]
    /\ g[0] = Cursor(table_end)
    /\ \A i \in 1 .. 2 * count :
          g[i] = Take(data, g[i - 1], WordOf(data, i * WordBytes),
                      IF i % 2 = 1 THEN "TruncatedKey" ELSE "TruncatedValue")

LEMMA TakeAllIs ==
    ASSUME NEW data \in Seq(Byte), NEW count \in Nat, NEW table_end \in Nat,
           table_end = WordBytes + count * 2 * WordBytes, table_end <= Len(data)
    PROVE  \E g : Takes(g, data, count, table_end) /\ TakeAll(data, count, table_end) = g[2 * count]
<1> DEFINE n == 2 * count
           S == DecodeCursor
           truncated(i) == IF i % 2 = 1 THEN "TruncatedKey" ELSE "TruncatedValue"
           taken(i, c) == Take(data, c, WordOf(data, i * WordBytes), truncated(i))
           step == [p \in Nat \X S |-> IF p[1] \in 1 .. n THEN taken(p[1], p[2]) ELSE p[2]]
           g == CHOOSE h : h = TakeNext(h, data, count, table_end)
<1>0. n \in Nat
    OBVIOUS
<1>1. TakeAll(data, count, table_end) = g[n]
    BY DEF TakeAll, TakeNext
<1>2. ASSUME NEW i \in 1 .. n
      PROVE  WordOf(data, i * WordBytes) \in Nat
    <2> DEFINE at == i * WordBytes
    <2>1. at \in Nat
        BY Widths
    <2>2. at <= n * WordBytes
        BY Widths
    <2>3. n * WordBytes = count * 2 * WordBytes
        BY Widths
    <2>4. n * WordBytes \in Nat
        BY Widths
    <2> HIDE DEF at, n
    <2>5. at + WordBytes <= Len(data)
        BY <2>1, <2>2, <2>3, <2>4, Widths
    <2>6. \A j \in 1 .. WordBytes : at + j \in 1 .. Len(data)
        BY <2>1, <2>5, Widths
    <2>7. \A j \in 1 .. WordBytes : data[at + j] \in Byte
        BY <2>6
    <2>. QED
        BY <2>1, <2>7, WordNat DEF at
<1>3. ASSUME NEW i \in 1 .. n, NEW c \in S
      PROVE  taken(i, c) \in S
    <2>1. truncated(i) \in DecodeError
        BY DEF DecodeError
    <2> HIDE DEF truncated
    <2>. QED
        BY <1>2, <2>1, TakeTyped
<1>4. Cursor(table_end) \in S
    BY DEF Cursor, DecodeCursor
<1>5. \A h, i : h = TakeNext(h, data, count, table_end) /\ i \in 1 .. n => h[i] = taken(i, h[i - 1])
    BY DEF TakeNext
<1>6. ASSUME NEW h, h = [i \in 0 .. n |-> h[i]], h[0] = Cursor(table_end),
             \A i \in 1 .. n : h[i] = taken(i, h[i - 1])
      PROVE  h = TakeNext(h, data, count, table_end)
    <2>1. ASSUME NEW i \in 0 .. n
          PROVE  h[i] = IF i = 0 THEN Cursor(table_end) ELSE taken(i, h[i - 1])
        <3>1. i = 0 \/ i \in 1 .. n
            OBVIOUS
        <3> HIDE DEF taken
        <3>. QED
            BY <1>6, <3>1
    <2>. QED
        BY <1>6, <2>1 DEF TakeNext
<1> HIDE DEF taken, S, n
<1>7. ASSUME NEW p \in Nat \X S
      PROVE  (IF p[1] \in 1 .. n THEN taken(p[1], p[2]) ELSE p[2]) \in S
    <2>1. p[2] \in S
        OBVIOUS
    <2>. QED
        BY <1>3, <2>1
<1>8. step \in [Nat \X S -> S]
    BY <1>7
<1>9. ASSUME NEW i \in 1 .. n, NEW c \in S
      PROVE  step[<<i, c>>] = taken(i, c)
    <2>1. <<i, c>> \in Nat \X S
        BY <1>0
    <2>. QED
        BY <2>1
<1> HIDE DEF step
<1>10. PICK f \in [0 .. n -> S] : Iterates(f, n, Cursor(table_end), step)
    BY <1>0, <1>4, <1>8, IterationExists
<1>11. f = TakeNext(f, data, count, table_end)
    <2>1. ASSUME NEW i \in 1 .. n
          PROVE  f[i] = taken(i, f[i - 1])
        <3>1. f[i - 1] \in S /\ f[i] = step[<<i, f[i - 1]>>]
            BY <1>0, <1>10 DEF Iterates
        <3>. QED
            BY <1>9, <3>1
    <2>2. f = [i \in 0 .. n |-> f[i]] /\ f[0] = Cursor(table_end)
        BY <1>10 DEF Iterates
    <2>. QED
        BY <1>6, <2>1, <2>2
<1>12. g = TakeNext(g, data, count, table_end)
    BY <1>11
<1> HIDE DEF g
<1>13. \A i \in 1 .. n : g[i] = taken(i, g[i - 1])
    BY <1>5, <1>12
<1>14. g[0] = Cursor(table_end)
    <2>1. 0 \in 0 .. 2 * count
        OBVIOUS
    <2>. QED
        BY <1>12, <2>1 DEF TakeNext
<1> DEFINE P == {i \in 0 .. n : g[i] \in S}
<1>15. 0 \in P
    BY <1>0, <1>4, <1>14
<1>16. ASSUME NEW i \in 1 .. n, i - 1 \in P
       PROVE  i \in P
    <2>1. g[i - 1] \in S
        BY <1>16
    <2>2. g[i] \in S
        BY <1>3, <1>13, <2>1
    <2>. QED
        BY <2>2
<1>17. \A i \in 0 .. n : i \in P
    <2> HIDE DEF P
    <2>. QED
        BY <1>0, <1>15, <1>16, UpTo
<1>18. g \in [0 .. n -> S]
    <2>1. g = [i \in 0 .. 2 * count |-> g[i]]
        BY <1>12 DEF TakeNext
    <2>. QED
        BY <1>17, <2>1 DEF n
<1>19. Takes(g, data, count, table_end)
    BY <1>13, <1>14, <1>18 DEF Takes, n, S, taken
<1>. QED
    BY <1>1, <1>19 DEF n

LEMMA TakeAllTyped ==
    ASSUME NEW data \in Seq(Byte), NEW count \in Nat, NEW table_end \in Nat,
           table_end = WordBytes + count * 2 * WordBytes, table_end <= Len(data)
    PROVE  TakeAll(data, count, table_end) \in DecodeCursor
<1>1. PICK g : Takes(g, data, count, table_end) /\ TakeAll(data, count, table_end) = g[2 * count]
    BY TakeAllIs
<1>2. 2 * count \in 0 .. 2 * count
    OBVIOUS
<1>. QED
    BY <1>1, <1>2 DEF Takes

LEMMA DecodeTyped ==
    ASSUME NEW data \in Seq(Byte), NEW limits
    PROVE  DecodePairs(data, limits).value \in Seq(Pair)
<1>0. (\A e : Failed(e).value = <<>>) /\ Decoded(<<>>).value = <<>> /\ <<>> \in Seq(Pair)
    BY DEF Failed, Decoded
<1>1. CASE DecodePairs(data, limits) = Decoded(<<>>) \/ \E e : DecodePairs(data, limits) = Failed(e)
    BY <1>0, <1>1
<1> DEFINE count == WordOf(data, 0)
           table_end == WordBytes + count * 2 * WordBytes
           cursor == TakeAll(data, count, table_end)
<1>2. CASE ~(Len(data) < WordBytes) /\ ~(table_end > Len(data)) /\ DecodePairs(data, limits) = Finish(data, cursor)
    <2>1. \A i \in 1 .. WordBytes : 0 + i \in 1 .. Len(data)
        BY <1>2, Widths
    <2>2. \A i \in 1 .. WordBytes : data[0 + i] \in Byte
        BY <2>1
    <2>3. count \in Nat
        BY <2>2, WordNat
    <2> HIDE DEF count
    <2>4. table_end \in Nat
        BY <2>3, Widths
    <2>5. cursor \in DecodeCursor
        BY <1>2, <2>3, <2>4, TakeAllTyped
    <2> HIDE DEF cursor
    <2> DEFINE fields == cursor.value
               pairs == [i \in 1 .. Len(fields) \div 2 |-> <<fields[2 * i - 1], fields[2 * i]>>]
    <2>6. fields \in Seq(Seq(Byte)) /\ Len(fields) \in Nat
        BY <2>5 DEF DecodeCursor
    <2>7. \/ \E e : Finish(data, cursor) = Failed(e)
          \/ Finish(data, cursor) = Decoded(pairs)
        BY DEF Finish, FinishAnywhere
    <2> HIDE DEF fields
    <2>8. Len(fields) \div 2 \in Nat /\ 2 * (Len(fields) \div 2) <= Len(fields)
        BY <2>6
    <2>9. ASSUME NEW i \in 1 .. Len(fields) \div 2
          PROVE  <<fields[2 * i - 1], fields[2 * i]>> \in Pair
        <3>1. 2 * i - 1 \in 1 .. Len(fields) /\ 2 * i \in 1 .. Len(fields)
            BY <2>6, <2>8
        <3>2. fields[2 * i - 1] \in Seq(Byte) /\ fields[2 * i] \in Seq(Byte)
            BY <2>6, <3>1
        <3>. QED
            BY <3>2 DEF Pair
    <2>10. pairs \in Seq(Pair)
        BY <2>8, <2>9
    <2> HIDE DEF pairs
    <2>11. Decoded(pairs).value = pairs
        BY DEF Decoded
    <2>. QED
        BY <1>0, <1>2, <2>7, <2>10, <2>11
<1>. QED
    BY <1>1, <1>2 DEF DecodePairs

-----------------------------------------------------------------------------
(***************************************************************************)
(* Buffers and log lines                                                   *)
(***************************************************************************)
LEMMA PieceTyped ==
    ASSUME NEW s \in Seq(Byte), NEW i \in Nat, NEW j \in Nat, i >= 1, j <= Len(s)
    PROVE  /\ SubSeq(s, i, j) \in Seq(Byte)
           /\ Len(SubSeq(s, i, j)) = IF i <= j THEN j - i + 1 ELSE 0
           /\ \A k \in 1 .. j - i + 1 : SubSeq(s, i, j)[k] = s[i + k - 1]
<1>1. \A k \in i .. j : k \in 1 .. Len(s)
    OBVIOUS
<1>2. \A k \in i .. j : s[k] \in Byte
    BY <1>1
<1>. QED
    BY <1>2, SubSeqProperties

LEMMA RangeFacts ==
    ASSUME NEW len \in Nat, NEW start \in Nat, NEW size \in Nat
    PROVE  /\ ClampRange(len, start, size).start \in 0 .. len
           /\ ClampRange(len, start, size).end \in 0 .. len
    BY DEF ClampRange, Least

LEMMA CopyTyped ==
    ASSUME NEW buffer \in Seq(Byte), NEW start \in Nat, NEW size \in Nat
    PROVE  CopyRange(buffer, start, size) \in Seq(Byte)
<1> DEFINE range == ClampRange(Len(buffer), start, size)
<1>1. range.start \in 0 .. Len(buffer) /\ range.end \in 0 .. Len(buffer) /\ Len(buffer) \in Nat
    BY RangeFacts
<1> HIDE DEF range
<1>2. SubSeq(buffer, range.start + 1, range.end) \in Seq(Byte)
    BY <1>1, PieceTyped
<1>. QED
    BY <1>2 DEF CopyRange, range

LEMMA ReplaceTyped ==
    ASSUME NEW buffer \in Seq(Byte), NEW start \in Nat, NEW size \in Nat, NEW value \in Seq(Byte)
    PROVE  Replace(buffer, start, size, value) \in Seq(Byte)
<1> DEFINE range == ClampRange(Len(buffer), start, size)
           head == SubSeq(buffer, 1, range.start)
           tail == SubSeq(buffer, range.end + 1, Len(buffer))
<1>1. range.start \in 0 .. Len(buffer) /\ range.end \in 0 .. Len(buffer) /\ Len(buffer) \in Nat
    BY RangeFacts
<1> HIDE DEF range
<1>2. head \in Seq(Byte) /\ tail \in Seq(Byte)
    BY <1>1, PieceTyped
<1>3. Replace(buffer, start, size, value) = head \o value \o tail
    BY DEF Replace, range
<1> HIDE DEF head, tail
<1>4. head \o value \in Seq(Byte)
    BY <1>2, ConcatProperties
<1>5. (head \o value) \o tail \in Seq(Byte)
    BY <1>2, <1>4, ConcatProperties
<1>. QED
    BY <1>3, <1>5

-----------------------------------------------------------------------------
(***************************************************************************)
(* The filters of a map.  Removals, get_all and the pairs of other keys     *)
(* are folds that append some of what they visit.                           *)
(***************************************************************************)
PickOne(x, i, picked, out) == IF i \in picked THEN Append(x, out[i]) ELSE x
PickNext(g, n, picked, out) ==
    [s \in SUBSET (1 .. n) |-> IF s = {} THEN <<>> ELSE PickOne(g[s \ {Max(s)}], Max(s), picked, out)]

Typed(out, n, S) == \A i \in 1 .. n : out[i] \in S

Picks(h, n, S, picked, out) ==
    /\ h \in [0 .. n -> Seq(S)]
    /\ h[0] = <<>>
    /\ \A i \in 1 .. n : h[i] = PickOne(h[i - 1], i, picked, out)
Picked(result, n, S, picked, out) ==
    \E h : Picks(h, n, S, picked, out) /\ result = h[n]

LEMMA PickExists ==
    ASSUME NEW n \in Nat, NEW S, NEW picked, NEW out, Typed(out, n, S)
    PROVE  \E g : g = PickNext(g, n, picked, out)
<1> DEFINE T == Seq(S)
           step == [p \in Nat \X T |-> IF p[1] \in 1 .. n THEN PickOne(p[2], p[1], picked, out) ELSE p[2]]
<1>1. ASSUME NEW i \in 1 .. n, NEW x \in T
      PROVE  PickOne(x, i, picked, out) \in T
    BY DEF PickOne, Typed
<1>2. <<>> \in T
    OBVIOUS
<1> HIDE DEF T
<1>3. ASSUME NEW p \in Nat \X T
      PROVE  (IF p[1] \in 1 .. n THEN PickOne(p[2], p[1], picked, out) ELSE p[2]) \in T
    <2>1. p[2] \in T
        OBVIOUS
    <2>. QED
        BY <1>1, <2>1
<1>4. step \in [Nat \X T -> T]
    BY <1>3
<1>5. ASSUME NEW i \in 1 .. n, NEW x \in T
      PROVE  step[<<i, x>>] = PickOne(x, i, picked, out)
    <2>1. <<i, x>> \in Nat \X T
        OBVIOUS
    <2>. QED
        BY <2>1
<1> HIDE DEF step
<1>6. PICK f \in [SUBSET (1 .. n) -> T] : FoldsBy(f, n, <<>>, step)
    BY <1>2, <1>4, FoldExists
<1>7. ASSUME NEW s \in SUBSET (1 .. n)
      PROVE  f[s] = IF s = {} THEN <<>> ELSE PickOne(f[s \ {Max(s)}], Max(s), picked, out)
    <2>1. CASE s = {}
        BY <1>6, <2>1 DEF FoldsBy
    <2>2. CASE s # {}
        <3>1. f[s] = step[<<Max(s), f[s \ {Max(s)}]>>]
            BY <1>6, <2>2 DEF FoldsBy
        <3>2. Max(s) \in 1 .. n /\ s \ {Max(s)} \in SUBSET (1 .. n)
            BY <2>2, MaxIn
        <3>3. f[s \ {Max(s)}] \in T
            BY <1>6, <3>2
        <3>4. step[<<Max(s), f[s \ {Max(s)}]>>] = PickOne(f[s \ {Max(s)}], Max(s), picked, out)
            BY <1>5, <3>2, <3>3
        <3>. QED
            BY <2>2, <3>1, <3>4, Zenon
    <2>. QED
        BY <2>1, <2>2
<1>8. f = PickNext(f, n, picked, out)
    BY <1>7 DEF PickNext
<1>. QED
    BY <1>8

LEMMA PickFold ==
    ASSUME NEW n \in Nat, NEW S, NEW picked, NEW out, Typed(out, n, S),
           NEW g, g = PickNext(g, n, picked, out)
    PROVE  Picked(g[1 .. n], n, S, picked, out)
<1> DEFINE h == [i \in 0 .. n |-> g[1 .. i]]
           P == {i \in 0 .. n : h[i] \in Seq(S)}
<1>1. g[{}] = <<>>
    <2>1. {} \in SUBSET (1 .. n)
        OBVIOUS
    <2>. QED
        BY <2>1 DEF PickNext
<1>2. h[0] = <<>>
    <2>1. 1 .. 0 = {} /\ h[0] = g[1 .. 0]
        OBVIOUS
    <2>. QED
        BY <1>1, <2>1
<1>3. ASSUME NEW i \in 1 .. n
      PROVE  h[i] = PickOne(h[i - 1], i, picked, out)
    <2>1. /\ Max(1 .. i) = i /\ (1 .. i) \ {Max(1 .. i)} = 1 .. i - 1
          /\ 1 .. i # {} /\ 1 .. i \in SUBSET (1 .. n)
        BY FirstNumbers
    <2>2. g[1 .. i] = PickOne(g[(1 .. i) \ {Max(1 .. i)}], Max(1 .. i), picked, out)
        BY <2>1 DEF PickNext
    <2>3. h[i] = g[1 .. i] /\ h[i - 1] = g[1 .. i - 1]
        OBVIOUS
    <2> HIDE DEF h
    <2>. QED
        BY <2>1, <2>2, <2>3, Zenon
<1>4. h = [i \in 0 .. n |-> h[i]] /\ h[n] = g[1 .. n]
    OBVIOUS
<1> HIDE DEF h
<1>5. 0 \in P
    <2>1. <<>> \in Seq(S) /\ 0 \in 0 .. n
        OBVIOUS
    <2>. QED
        BY <1>2, <2>1
<1>6. ASSUME NEW i \in 1 .. n, i - 1 \in P
      PROVE  i \in P
    <2>1. h[i - 1] \in Seq(S)
        BY <1>6
    <2>2. out[i] \in S
        BY DEF Typed
    <2>3. PickOne(h[i - 1], i, picked, out) \in Seq(S)
        BY <2>1, <2>2 DEF PickOne
    <2>4. h[i] \in Seq(S)
        BY <1>3, <2>3
    <2>. QED
        BY <2>4
<1>7. \A i \in 0 .. n : i \in P
    <2> HIDE DEF P
    <2>. QED
        BY <1>5, <1>6, UpTo
<1>8. h \in [0 .. n -> Seq(S)]
    BY <1>4, <1>7
<1>. QED
    BY <1>2, <1>3, <1>4, <1>8 DEF Picked, Picks

\* A filter has one result, and a longer sequence goes on where it ended.
LEMMA PickedSame ==
    ASSUME NEW n \in Nat, NEW S, NEW picked, NEW out, NEW k \in 0 .. n,
           NEW more, \A i \in 1 .. k : i \in picked <=> i \in more,
           NEW others, \A i \in 1 .. k : out[i] = others[i],
           NEW h, Picks(h, n, S, picked, out),
           NEW r, Picked(r, k, S, more, others)
    PROVE  r = h[k]
<1>1. PICK e : Picks(e, k, S, more, others) /\ r = e[k]
    BY DEF Picked
<1> DEFINE P == {i \in 0 .. k : e[i] = h[i]}
<1>2. 0 \in P
    BY <1>1 DEF Picks
<1>3. ASSUME NEW i \in 1 .. k, i - 1 \in P
      PROVE  i \in P
    <2>1. i \in 1 .. n /\ e[i - 1] = h[i - 1]
        BY <1>3
    <2>2. e[i] = PickOne(e[i - 1], i, more, others) /\ h[i] = PickOne(h[i - 1], i, picked, out)
        BY <1>1, <2>1 DEF Picks
    <2>3. PickOne(e[i - 1], i, more, others) = PickOne(h[i - 1], i, picked, out)
        BY <2>1 DEF PickOne
    <2>. QED
        BY <2>2, <2>3
<1>4. k \in P
    <2>1. k \in Nat /\ k \in 0 .. k
        OBVIOUS
    <2> HIDE DEF P
    <2>. QED
        BY <1>2, <1>3, <2>1, UpTo
<1>. QED
    BY <1>1, <1>4

-----------------------------------------------------------------------------
KeyIn(map, key) == {i \in 1 .. Len(map) : map[i][1] = key}
KeyOut(map, key) == {i \in 1 .. Len(map) : map[i][1] # key}
ValuesOf(map) == [i \in 1 .. Len(map) |-> map[i][2]]

LEMMA MapTyped ==
    ASSUME NEW map \in Seq(Pair)
    PROVE  /\ Len(map) \in Nat /\ DOMAIN map = 1 .. Len(map)
           /\ \A i \in 1 .. Len(map) : map[i] \in Pair
           /\ \A i \in 1 .. Len(map) : ValuesOf(map)[i] \in Seq(Byte)
    BY PairFacts DEF ValuesOf

LEMMA OthersIs ==
    ASSUME NEW map \in Seq(Pair), NEW key
    PROVE  Picked(Others(map, key), Len(map), Pair, KeyOut(map, key), map)
<1> DEFINE n == Len(map)
           next(g) == [s \in SUBSET (1 .. n) |->
                          IF s = {} THEN <<>>
                          ELSE IF map[Max(s)][1] = key THEN g[s \ {Max(s)}]
                               ELSE Append(g[s \ {Max(s)}], map[Max(s)])]
           g == CHOOSE h : h = next(h)
<1>0. n \in Nat /\ DOMAIN map = 1 .. n /\ Typed(map, n, Pair)
    BY MapTyped DEF Typed
<1>1. Others(map, key) = g[1 .. n]
    BY <1>0 DEF Others, FoldLeft, MapThenFoldSet
<1>2. ASSUME NEW h
      PROVE  next(h) = PickNext(h, n, KeyOut(map, key), map)
    <2>1. ASSUME NEW s \in SUBSET (1 .. n), s # {}
          PROVE  Max(s) \in KeyOut(map, key) <=> map[Max(s)][1] # key
        BY <1>0, <2>1, MaxIn DEF KeyOut
    <2>. QED
        BY <2>1 DEF PickNext, PickOne
<1> HIDE DEF n, next
<1>3. PICK f : f = PickNext(f, n, KeyOut(map, key), map)
    BY <1>0, PickExists
<1>4. g = next(g)
    BY <1>2, <1>3
<1>5. g = PickNext(g, n, KeyOut(map, key), map)
    BY <1>2, <1>4
<1> HIDE DEF g
<1>. QED
    BY <1>0, <1>1, <1>5, PickFold DEF n

LEMMA DeleteIs ==
    ASSUME NEW map \in Seq(Pair), NEW key
    PROVE  Picked(Delete(map, key), Len(map), Pair, KeyOut(map, key), map)
<1> DEFINE n == Len(map)
           next(g) == DeleteNext(g, map, key, 1 .. n)
           g == CHOOSE h : h = next(h)
<1>0. n \in Nat /\ DOMAIN map = 1 .. n /\ Typed(map, n, Pair)
    BY MapTyped DEF Typed
<1>1. Delete(map, key) = g[1 .. n]
    BY <1>0 DEF Delete, FoldLeft, MapThenFoldSet, DeleteNext, Retained
<1>2. ASSUME NEW h
      PROVE  next(h) = PickNext(h, n, KeyOut(map, key), map)
    <2>1. ASSUME NEW s \in SUBSET (1 .. n), s # {}
          PROVE  Max(s) \in KeyOut(map, key) <=> map[Max(s)][1] # key
        BY <1>0, <2>1, MaxIn DEF KeyOut
    <2>. QED
        BY <2>1 DEF PickNext, PickOne, DeleteNext, Retained
<1> HIDE DEF n, next
<1>3. PICK f : f = PickNext(f, n, KeyOut(map, key), map)
    BY <1>0, PickExists
<1>4. g = next(g)
    BY <1>2, <1>3
<1>5. g = PickNext(g, n, KeyOut(map, key), map)
    BY <1>2, <1>4
<1> HIDE DEF g
<1>. QED
    BY <1>0, <1>1, <1>5, PickFold DEF n

LEMMA GetAllIs ==
    ASSUME NEW map \in Seq(Pair), NEW key
    PROVE  Picked(GetAll(map, key), Len(map), Seq(Byte), KeyIn(map, key), ValuesOf(map))
<1> DEFINE n == Len(map)
           next(g) == [s \in SUBSET (1 .. n) |->
                          IF s = {} THEN <<>>
                          ELSE IF map[Max(s)][1] = key THEN Append(g[s \ {Max(s)}], map[Max(s)][2])
                               ELSE g[s \ {Max(s)}]]
           g == CHOOSE h : h = next(h)
<1>0. n \in Nat /\ DOMAIN map = 1 .. n /\ Typed(ValuesOf(map), n, Seq(Byte))
    BY MapTyped DEF Typed
<1>1. GetAll(map, key) = g[1 .. n]
    BY <1>0 DEF GetAll, FoldLeft, MapThenFoldSet
<1>2. ASSUME NEW h
      PROVE  next(h) = PickNext(h, n, KeyIn(map, key), ValuesOf(map))
    <2>1. ASSUME NEW s \in SUBSET (1 .. n), s # {}
          PROVE  /\ Max(s) \in KeyIn(map, key) <=> map[Max(s)][1] = key
                 /\ ValuesOf(map)[Max(s)] = map[Max(s)][2]
        BY <1>0, <2>1, MaxIn DEF KeyIn, ValuesOf
    <2>. QED
        BY <2>1 DEF PickNext, PickOne
<1> HIDE DEF n, next
<1>3. PICK f : f = PickNext(f, n, KeyIn(map, key), ValuesOf(map))
    BY <1>0, PickExists
<1>4. g = next(g)
    BY <1>2, <1>3
<1>5. g = PickNext(g, n, KeyIn(map, key), ValuesOf(map))
    BY <1>2, <1>4
<1> HIDE DEF g
<1>. QED
    BY <1>0, <1>1, <1>5, PickFold DEF n

\* What they are of a map with one more pair.
LEMMA OthersAppend ==
    ASSUME NEW map \in Seq(Pair), NEW key, NEW pair \in Pair
    PROVE  /\ Others(map, key) \in Seq(Pair)
           /\ Others(Append(map, pair), key) =
                 IF pair[1] # key THEN Append(Others(map, key), pair) ELSE Others(map, key)
<1> DEFINE m == Append(map, pair)
           k == Len(map)
           n == k + 1
<1>0. k \in Nat /\ n \in Nat /\ k \in 0 .. n /\ n \in 1 .. n /\ n - 1 = k /\ Len(m) = n /\ m \in Seq(Pair)
    OBVIOUS
<1>1. m[n] = pair /\ \A i \in 1 .. k : m[i] = map[i]
    OBVIOUS
<1> HIDE DEF m, n, k
<1>2. PICK h : Picks(h, n, Pair, KeyOut(m, key), m) /\ Others(m, key) = h[n]
    BY <1>0, OthersIs DEF Picked
<1>3. Picked(Others(map, key), k, Pair, KeyOut(map, key), map)
    BY OthersIs DEF k
<1>4. \A i \in 1 .. k : i \in KeyOut(m, key) <=> i \in KeyOut(map, key)
    BY <1>0, <1>1 DEF KeyOut, k
<1>5. Others(map, key) = h[k]
    BY <1>0, <1>1, <1>2, <1>3, <1>4, PickedSame
<1>6. h[n] = PickOne(h[k], n, KeyOut(m, key), m) /\ h[k] \in Seq(Pair)
    BY <1>0, <1>2 DEF Picks
<1>7. n \in KeyOut(m, key) <=> pair[1] # key
    BY <1>0, <1>1 DEF KeyOut
<1>. QED
    BY <1>1, <1>2, <1>5, <1>6, <1>7 DEF PickOne, m

LEMMA GetAllAppend ==
    ASSUME NEW map \in Seq(Pair), NEW key, NEW pair \in Pair
    PROVE  /\ GetAll(map, key) \in Seq(Seq(Byte))
           /\ GetAll(Append(map, pair), key) =
                 IF pair[1] = key THEN Append(GetAll(map, key), pair[2]) ELSE GetAll(map, key)
<1> DEFINE m == Append(map, pair)
           k == Len(map)
           n == k + 1
<1>0. k \in Nat /\ n \in Nat /\ k \in 0 .. n /\ n \in 1 .. n /\ n - 1 = k /\ Len(m) = n /\ m \in Seq(Pair)
    OBVIOUS
<1>1. m[n] = pair /\ \A i \in 1 .. k : m[i] = map[i]
    OBVIOUS
<1> HIDE DEF m, n, k
<1>2. PICK h : Picks(h, n, Seq(Byte), KeyIn(m, key), ValuesOf(m)) /\ GetAll(m, key) = h[n]
    BY <1>0, GetAllIs DEF Picked
<1>3. Picked(GetAll(map, key), k, Seq(Byte), KeyIn(map, key), ValuesOf(map))
    BY GetAllIs DEF k
<1>4. \A i \in 1 .. k : i \in KeyIn(m, key) <=> i \in KeyIn(map, key)
    BY <1>0, <1>1 DEF KeyIn, k
<1>44. \A i \in 1 .. k : ValuesOf(m)[i] = ValuesOf(map)[i]
    BY <1>0, <1>1 DEF ValuesOf, k
<1>5. GetAll(map, key) = h[k]
    BY <1>0, <1>2, <1>3, <1>4, <1>44, PickedSame
<1>6. h[n] = PickOne(h[k], n, KeyIn(m, key), ValuesOf(m)) /\ h[k] \in Seq(Seq(Byte))
    BY <1>0, <1>2 DEF Picks
<1>7. (n \in KeyIn(m, key) <=> pair[1] = key) /\ ValuesOf(m)[n] = pair[2]
    BY <1>0, <1>1 DEF KeyIn, ValuesOf
<1>. QED
    BY <1>1, <1>2, <1>5, <1>6, <1>7 DEF PickOne, m

LEMMA FiltersOfNothing ==
    ASSUME NEW key
    PROVE  Others(<<>>, key) = <<>> /\ GetAll(<<>>, key) = <<>>
<1>1. <<>> \in Seq(Pair) /\ Len(<<>>) = 0
    OBVIOUS
<1>2. PICK h : Picks(h, 0, Pair, KeyOut(<<>>, key), <<>>) /\ Others(<<>>, key) = h[0]
    BY <1>1, OthersIs DEF Picked
<1>3. PICK e : Picks(e, 0, Seq(Byte), KeyIn(<<>>, key), ValuesOf(<<>>)) /\ GetAll(<<>>, key) = e[0]
    BY <1>1, GetAllIs DEF Picked
<1>. QED
    BY <1>2, <1>3 DEF Picks

-----------------------------------------------------------------------------
(***************************************************************************)
(* Buffer::replace and copy_range                                          *)
(***************************************************************************)
LEMMA PrefixIs ==
    ASSUME NEW S, NEW s \in Seq(S), NEW t \in Seq(S), Len(s) <= Len(t),
           \A i \in 1 .. Len(s) : t[i] = s[i]
    PROVE  IsPrefix(s, t)
<1>1. SubSeq(s, 1, Len(s)) = SubSeq(t, 1, Len(s))
    <2>1. \A i \in 1 .. Len(s) : s[i] \in S /\ t[i] \in S
        OBVIOUS
    <2>2. /\ SubSeq(s, 1, Len(s)) \in Seq(S) /\ Len(SubSeq(s, 1, Len(s))) = Len(s)
          /\ \A i \in 1 .. Len(s) : SubSeq(s, 1, Len(s))[i] = s[i]
        BY <2>1, SubSeqProperties
    <2>3. /\ SubSeq(t, 1, Len(s)) \in Seq(S) /\ Len(SubSeq(t, 1, Len(s))) = Len(s)
          /\ \A i \in 1 .. Len(s) : SubSeq(t, 1, Len(s))[i] = t[i]
        BY <2>1, SubSeqProperties
    <2>. QED
        BY <2>2, <2>3, SeqEqual
<1>. QED
    BY <1>1 DEF IsPrefix

LEMMA SuffixIs ==
    ASSUME NEW S, NEW s \in Seq(S), NEW t \in Seq(S), Len(s) <= Len(t),
           \A i \in 1 .. Len(s) : t[Len(t) - Len(s) + i] = s[i]
    PROVE  IsSuffix(s, t)
<1>1. ASSUME NEW u \in Seq(S)
      PROVE  /\ Reverse(u) \in Seq(S) /\ Len(Reverse(u)) = Len(u)
             /\ \A i \in 1 .. Len(u) : Reverse(u)[i] = u[Len(u) - i + 1]
    <2>1. \A i \in 1 .. Len(u) : Len(u) - i + 1 \in 1 .. Len(u)
        OBVIOUS
    <2>2. \A i \in 1 .. Len(u) : u[Len(u) - i + 1] \in S
        BY <2>1
    <2>. QED
        BY <2>2 DEF Reverse
<1>2. ASSUME NEW i \in 1 .. Len(s)
      PROVE  Reverse(t)[i] = Reverse(s)[i]
    <2>1. i \in 1 .. Len(t) /\ Len(s) - i + 1 \in 1 .. Len(s)
        OBVIOUS
    <2>2. t[Len(t) - Len(s) + (Len(s) - i + 1)] = s[Len(s) - i + 1]
        BY <2>1
    <2>3. Len(t) - Len(s) + (Len(s) - i + 1) = Len(t) - i + 1
        OBVIOUS
    <2>. QED
        BY <1>1, <2>1, <2>2, <2>3
<1>3. /\ Reverse(s) \in Seq(S) /\ Reverse(t) \in Seq(S)
      /\ Len(Reverse(s)) = Len(s) /\ Len(Reverse(t)) = Len(t)
    BY <1>1
<1>4. IsPrefix(Reverse(s), Reverse(t))
    BY <1>2, <1>3, PrefixIs
<1>. QED
    BY <1>4 DEF IsSuffix

\* One sequence after another.
Joins(joined, S, s, t) ==
    /\ joined \in Seq(S) /\ Len(joined) = Len(s) + Len(t)
    /\ \A i \in 1 .. Len(s) : joined[i] = s[i]
    /\ \A i \in 1 .. Len(t) : joined[Len(s) + i] = t[i]

LEMMA JoinIs ==
    ASSUME NEW S, NEW s \in Seq(S), NEW t \in Seq(S)
    PROVE  Joins(s \o t, S, s, t)
<1> DEFINE joined == s \o t
<1>1. /\ joined \in Seq(S) /\ Len(joined) = Len(s) + Len(t)
      /\ \A i \in 1 .. Len(s) + Len(t) : joined[i] = IF i <= Len(s) THEN s[i] ELSE t[i - Len(s)]
    BY ConcatProperties
<1>2. Len(s) \in Nat /\ Len(t) \in Nat
    OBVIOUS
<1> HIDE DEF joined
<1>3. \A i \in 1 .. Len(s) : joined[i] = s[i]
    BY <1>1, <1>2
<1>4. ASSUME NEW i \in 1 .. Len(t)
      PROVE  joined[Len(s) + i] = t[i]
    <2>1. Len(s) + i \in 1 .. Len(s) + Len(t) /\ ~(Len(s) + i <= Len(s)) /\ Len(s) + i - Len(s) = i
        BY <1>2
    <2>. QED
        BY <1>1, <2>1
<1>. QED
    BY <1>1, <1>3, <1>4 DEF joined, Joins

LEMMA LeastIs ==
    ASSUME NEW a \in Nat, NEW b \in Nat
    PROVE  /\ Least(a, b) \in Nat /\ Least(a, b) <= a /\ Least(a, b) <= b
           /\ a <= b => Least(a, b) = a
           /\ b <= a => Least(a, b) = b
    BY DEF Least

\* The bounds of the range that an edit selects.
From(buffer, start) == Least(start, Len(buffer))
End(buffer, start, size) == Least(From(buffer, start) + size, Len(buffer))

\* What a replacement leaves and puts where.
Spliced(result, buffer, from, end, value) ==
    /\ result \in Seq(Byte)
    /\ from \in 0 .. Len(buffer) /\ end \in from .. Len(buffer)
    /\ Len(result) = from + Len(value) + (Len(buffer) - end)
    /\ \A i \in 1 .. from : result[i] = buffer[i]
    /\ \A i \in 1 .. Len(value) : result[from + i] = value[i]
    /\ \A i \in 1 .. Len(buffer) - end : result[from + Len(value) + i] = buffer[end + i]
Copied(copy, buffer, from, end) ==
    /\ copy \in Seq(Byte) /\ Len(copy) = end - from
    /\ \A i \in 1 .. end - from : copy[i] = buffer[from + i]

LEMMA ReplaceIs ==
    ASSUME NEW buffer \in Seq(Byte), NEW start \in Nat, NEW size \in Nat, NEW value \in Seq(Byte)
    PROVE  Spliced(Replace(buffer, start, size, value), buffer, From(buffer, start),
                   End(buffer, start, size), value)
<1> DEFINE from == From(buffer, start)
           end == End(buffer, start, size)
           head == SubSeq(buffer, 1, from)
           tail == SubSeq(buffer, end + 1, Len(buffer))
           joined == head \o value
           result == joined \o tail
<1>1. from \in 0 .. Len(buffer) /\ end \in from .. Len(buffer) /\ Len(buffer) \in Nat /\ Len(value) \in Nat
    BY DEF Least, From, End
<1>2. Replace(buffer, start, size, value) = result
    BY DEF Replace, ClampRange, From, End
<1> HIDE DEF from, end
<1>3. /\ head \in Seq(Byte) /\ Len(head) = from /\ \A i \in 1 .. from : head[i] = buffer[i]
    BY <1>1, PieceTyped
<1>4. /\ tail \in Seq(Byte) /\ Len(tail) = Len(buffer) - end
      /\ \A i \in 1 .. Len(buffer) - end : tail[i] = buffer[end + i]
    BY <1>1, PieceTyped
<1> HIDE DEF head, tail
<1>5. /\ joined \in Seq(Byte) /\ Len(joined) = Len(head) + Len(value)
      /\ \A i \in 1 .. Len(head) : joined[i] = head[i]
      /\ \A i \in 1 .. Len(value) : joined[Len(head) + i] = value[i]
    <2>1. Joins(joined, Byte, head, value)
        BY <1>3, JoinIs
    <2> HIDE DEF joined
    <2>. QED
        BY <2>1 DEF Joins
<1> HIDE DEF joined
<1>6. /\ result \in Seq(Byte) /\ Len(result) = Len(joined) + Len(tail)
      /\ \A i \in 1 .. Len(joined) : result[i] = joined[i]
      /\ \A i \in 1 .. Len(tail) : result[Len(joined) + i] = tail[i]
    <2>1. Joins(result, Byte, joined, tail)
        BY <1>4, <1>5, JoinIs
    <2> HIDE DEF result
    <2>. QED
        BY <2>1 DEF Joins
<1> HIDE DEF result
<1>7. /\ Len(joined) = from + Len(value)
      /\ \A i \in 1 .. from : i \in 1 .. Len(joined)
      /\ \A i \in 1 .. Len(value) : from + i \in 1 .. Len(joined)
    BY <1>1, <1>3, <1>5
<1>8. \A i \in 1 .. from : result[i] = buffer[i]
    BY <1>3, <1>5, <1>6, <1>7
<1>9. \A i \in 1 .. Len(value) : result[from + i] = value[i]
    BY <1>3, <1>5, <1>6, <1>7
<1>10. \A i \in 1 .. Len(buffer) - end : result[from + Len(value) + i] = buffer[end + i]
    BY <1>4, <1>6, <1>7
<1>11. Len(result) = from + Len(value) + (Len(buffer) - end)
    BY <1>4, <1>6, <1>7
<1>12. Spliced(result, buffer, from, end, value)
    BY <1>1, <1>6, <1>8, <1>9, <1>10, <1>11 DEF Spliced
<1>. QED
    BY <1>2, <1>12 DEF from, end

LEMMA CopyIs ==
    ASSUME NEW buffer \in Seq(Byte), NEW start \in Nat, NEW size \in Nat
    PROVE  Copied(CopyRange(buffer, start, size), buffer, From(buffer, start),
                  End(buffer, start, size))
<1> DEFINE from == From(buffer, start)
           end == End(buffer, start, size)
           piece == SubSeq(buffer, from + 1, end)
<1>1. from \in 0 .. Len(buffer) /\ end \in from .. Len(buffer) /\ Len(buffer) \in Nat
    BY DEF Least, From, End
<1>2. CopyRange(buffer, start, size) = piece
    BY DEF CopyRange, ClampRange, From, End
<1> HIDE DEF from, end
<1>3. from + 1 \in Nat /\ end \in Nat /\ from + 1 >= 1 /\ end <= Len(buffer)
    BY <1>1
<1>4. /\ piece \in Seq(Byte) /\ Len(piece) = IF from + 1 <= end THEN end - (from + 1) + 1 ELSE 0
      /\ \A i \in 1 .. end - (from + 1) + 1 : piece[i] = buffer[from + 1 + i - 1]
    BY <1>3, PieceTyped
<1> HIDE DEF piece
<1>5. Len(piece) = end - from
    BY <1>1, <1>4
<1>6. ASSUME NEW i \in 1 .. end - from
      PROVE  piece[i] = buffer[from + i]
    <2>1. i \in 1 .. end - (from + 1) + 1 /\ from + 1 + i - 1 = from + i
        BY <1>1
    <2>. QED
        BY <1>4, <2>1
<1>7. Copied(piece, buffer, from, end)
    BY <1>4, <1>5, <1>6 DEF Copied
<1>. QED
    BY <1>2, <1>7 DEF from, end

LEMMA CopyPut ==
    ASSUME NEW buffer \in Seq(Byte), NEW from \in Nat, NEW value \in Seq(Byte),
           from + Len(value) <= Len(buffer),
           \A i \in 1 .. Len(value) : buffer[from + i] = value[i]
    PROVE  CopyRange(buffer, from, Len(value)) = value
<1> DEFINE copy == CopyRange(buffer, from, Len(value))
           len == Len(buffer)
           end == from + Len(value)
<1>1. len \in Nat /\ Len(value) \in Nat
    OBVIOUS
<1>2. end \in Nat /\ from <= len /\ end <= len /\ end - from = Len(value)
    BY <1>1
<1>3. Copied(copy, buffer, From(buffer, from), End(buffer, from, Len(value)))
    BY <1>1, CopyIs
<1> HIDE DEF copy, len, end
<1>4. Least(from, len) = from /\ Least(end, len) = end
    BY <1>1, <1>2, LeastIs
<1>5. From(buffer, from) = from /\ End(buffer, from, Len(value)) = end
    BY <1>4 DEF From, End, len, end
<1>6. Copied(copy, buffer, from, end)
    BY <1>3, <1>5
<1>7. copy \in Seq(Byte) /\ Len(copy) = Len(value) /\ \A i \in 1 .. Len(copy) : copy[i] = value[i]
    BY <1>2, <1>6 DEF Copied
<1>. QED
    BY <1>7, SeqEqual DEF copy

LEMMA CopyWhole ==
    ASSUME NEW buffer \in Seq(Byte), NEW size \in Nat, Len(buffer) <= size
    PROVE  CopyRange(buffer, 0, size) = buffer
<1> DEFINE copy == CopyRange(buffer, 0, size)
           len == Len(buffer)
<1>1. len \in Nat /\ 0 \in Nat /\ 0 <= len /\ 0 + size = size
    OBVIOUS
<1>2. Copied(copy, buffer, From(buffer, 0), End(buffer, 0, size))
    BY <1>1, CopyIs
<1>3. Least(0, len) = 0 /\ Least(size, len) = len
    BY <1>1, LeastIs
<1> HIDE DEF copy
<1>4. From(buffer, 0) = 0 /\ End(buffer, 0, size) = len
    BY <1>1, <1>3 DEF From, End
<1>5. Copied(copy, buffer, 0, len)
    BY <1>2, <1>4
<1>6. copy \in Seq(Byte) /\ Len(copy) = len /\ \A i \in 1 .. len : copy[i] = buffer[i]
    BY <1>1, <1>5 DEF Copied
<1>. QED
    BY <1>6, SeqEqual DEF copy

LEMMA Gap ==
    ASSUME NEW x \in Nat, NEW y \in Nat, NEW s \in Nat, NEW n \in Nat,
           NEW r, r = x - n + y, NEW t, t = x - (s + n)
    PROVE  r - t = s + y
    OBVIOUS

\* A replacement that begins at or after the end of the buffer, or at its start
\* with no bytes to replace, adds its value there; every other one replaces
\* exactly its range; and what was put somewhere is read from there
\* (buffer.rs, Buffer::replace and copy_range).
LEMMA BuffersExact ==
    ASSUME NEW buffer \in Seq(Byte), NEW start \in Nat, NEW size \in Nat, NEW value \in Seq(Byte)
    PROVE  BufferEdits(buffer, start, size, value)
<1> DEFINE len == Len(buffer)
           result == Replace(buffer, start, size, value)
           from == From(buffer, start)
           end == End(buffer, start, size)
<1>0. len \in Nat /\ Len(value) \in Nat
    OBVIOUS
<1>1. /\ result \in Seq(Byte)
      /\ from \in 0 .. len /\ end \in from .. len
      /\ Len(result) = from + Len(value) + (len - end)
      /\ \A i \in 1 .. from : result[i] = buffer[i]
      /\ \A i \in 1 .. Len(value) : result[from + i] = value[i]
      /\ \A i \in 1 .. len - end : result[from + Len(value) + i] = buffer[end + i]
    <2>1. Spliced(result, buffer, from, end, value)
        BY ReplaceIs
    <2> HIDE DEF result, from, end
    <2>. QED
        BY <2>1 DEF Spliced
<1>2. ASSUME start = 0, size = 0
      PROVE  result = value \o buffer
    <2>1. from = 0 /\ end = 0
        BY <1>0, <1>2 DEF Least, From, End
    <2> DEFINE joined == value \o buffer
    <2>2. /\ joined \in Seq(Byte) /\ Len(joined) = Len(value) + len
          /\ \A i \in 1 .. Len(value) + len :
                joined[i] = IF i <= Len(value) THEN value[i] ELSE buffer[i - Len(value)]
        BY ConcatProperties
    <2> HIDE DEF result, joined, from, end, len
    <2>3. Len(result) = Len(joined)
        BY <1>0, <1>1, <2>1, <2>2
    <2>4. ASSUME NEW i \in 1 .. Len(result)
          PROVE  result[i] = joined[i]
        <3>1. CASE i <= Len(value)
            BY <1>0, <1>1, <2>1, <2>2, <2>3, <3>1
        <3>2. CASE ~(i <= Len(value))
            <4> DEFINE j == i - Len(value)
            <4>1. j \in 1 .. len - end /\ i = from + Len(value) + j /\ end + j = j
                BY <1>0, <1>1, <2>1, <2>2, <2>3, <3>2
            <4>2. result[from + Len(value) + j] = buffer[end + j]
                BY <1>1, <4>1
            <4>. QED
                BY <2>2, <2>3, <3>2, <4>1, <4>2
        <3>. QED
            BY <1>0, <3>1, <3>2
    <2>. QED
        BY <1>1, <2>2, <2>3, <2>4, SeqEqual DEF joined
<1>3. ASSUME start >= len
      PROVE  result = buffer \o value
    <2>1. from = len /\ end = len
        BY <1>0, <1>3 DEF Least, From, End
    <2> DEFINE joined == buffer \o value
    <2>2. /\ joined \in Seq(Byte) /\ Len(joined) = len + Len(value)
          /\ \A i \in 1 .. len + Len(value) :
                joined[i] = IF i <= len THEN buffer[i] ELSE value[i - len]
        BY ConcatProperties
    <2> HIDE DEF result, joined, from, end, len
    <2>3. Len(result) = Len(joined)
        BY <1>0, <1>1, <2>1, <2>2
    <2>4. ASSUME NEW i \in 1 .. Len(result)
          PROVE  result[i] = joined[i]
        <3>1. CASE i <= len
            BY <1>0, <1>1, <2>1, <2>2, <2>3, <3>1
        <3>2. CASE ~(i <= len)
            <4> DEFINE j == i - len
            <4>1. j \in 1 .. Len(value) /\ i = from + j
                BY <1>0, <1>1, <2>1, <2>2, <2>3, <3>2
            <4>2. result[from + j] = value[j]
                BY <1>1, <4>1
            <4>. QED
                BY <2>2, <2>3, <3>2, <4>1, <4>2
        <3>. QED
            BY <1>0, <3>1, <3>2
    <2>. QED
        BY <1>1, <2>2, <2>3, <2>4, SeqEqual DEF joined
<1>4. ASSUME start < len, start + size <= len
      PROVE  /\ IsPrefix(SubSeq(buffer, 1, start), result)
             /\ IsSuffix(SubSeq(buffer, start + size + 1, len), result)
             /\ Len(result) = len - size + Len(value)
    <2> DEFINE head == SubSeq(buffer, 1, start)
               tail == SubSeq(buffer, start + size + 1, len)
    <2>1. from = start /\ end = start + size
        BY <1>0, <1>4 DEF Least, From, End
    <2>2. head \in Seq(Byte) /\ Len(head) = start /\ \A i \in 1 .. start : head[i] = buffer[i]
        BY <1>0, <1>4, PieceTyped
    <2>3. /\ tail \in Seq(Byte) /\ Len(tail) = len - (start + size)
          /\ \A i \in 1 .. len - (start + size) : tail[i] = buffer[start + size + i]
        BY <1>0, <1>4, PieceTyped
    <2> HIDE DEF result, head, tail, from, end, len
    <2>4. Len(result) = len - size + Len(value)
        BY <1>0, <1>1, <2>1
    <2>5. IsPrefix(head, result)
        <3>1. Len(head) <= Len(result)
            BY <1>0, <1>4, <2>2, <2>4
        <3>2. \A i \in 1 .. Len(head) : result[i] = head[i]
            BY <1>1, <2>1, <2>2
        <3>. QED
            BY <1>1, <2>2, <3>1, <3>2, PrefixIs
    <2>6. IsSuffix(tail, result)
        <3>1. Len(tail) <= Len(result)
            BY <1>0, <1>4, <2>3, <2>4
        <3>2. ASSUME NEW i \in 1 .. Len(tail)
              PROVE  result[Len(result) - Len(tail) + i] = tail[i]
            <4>1. i \in 1 .. len - end
                BY <2>1, <2>3
            <4>2. Len(result) - Len(tail) = from + Len(value)
                <5>1. Len(result) - Len(tail) = start + Len(value)
                    BY <1>0, <2>3, <2>4, Gap
                <5>. QED
                    BY <2>1, <5>1
            <4>. QED
                BY <1>1, <2>1, <2>3, <4>1, <4>2
        <3>. QED
            BY <1>1, <2>3, <3>1, <3>2, SuffixIs
    <2>. QED
        BY <2>4, <2>5, <2>6 DEF head, tail
<1>5. CopyRange(Replace(buffer, start, 0, value), Least(start, len), Len(value)) = value
    <2> DEFINE grown == Replace(buffer, start, 0, value)
               last == End(buffer, start, 0)
    <2>1. Spliced(grown, buffer, from, last, value)
        BY ReplaceIs
    <2> HIDE DEF grown, last
    <2>2. /\ grown \in Seq(Byte) /\ Len(grown) = from + Len(value) + (len - last)
          /\ last \in from .. len /\ from \in Nat
          /\ \A i \in 1 .. Len(value) : grown[from + i] = value[i]
        BY <1>0, <1>1, <2>1 DEF Spliced
    <2>3. Len(grown) \in Nat /\ from + Len(value) <= Len(grown) /\ from <= Len(grown)
        BY <1>0, <2>2
    <2>4. CopyRange(grown, from, Len(value)) = value
        <3> HIDE DEF from
        <3>. QED
            BY <2>2, <2>3, CopyPut
    <2>. QED
        BY <2>4 DEF grown, From
<1>6. CopyRange(buffer, 0, len + size) = buffer
    <2>1. len + size \in Nat /\ Len(buffer) <= len + size
        BY <1>0
    <2>. QED
        BY <2>1, CopyWhole
<1>. QED
    BY <1>2, <1>3, <1>4, <1>5, <1>6 DEF BufferEdits

-----------------------------------------------------------------------------
(***************************************************************************)
(* The edits of a map                                                      *)
(***************************************************************************)
NoKey(map, key) == \A i \in 1 .. Len(map) : map[i][1] # key
FirstAt(map, key, f) ==
    f \in 1 .. Len(map) /\ map[f][1] = key /\ \A i \in 1 .. f - 1 : map[i][1] # key

LEMMA MinIs ==
    ASSUME NEW s \in SUBSET Nat, NEW f \in s, \A j \in s : f <= j
    PROVE  Min(s) = f
<1>1. \E x \in s : \A y \in s : x <= y
    OBVIOUS
<1>2. Min(s) \in s /\ \A y \in s : Min(s) <= y
    BY <1>1 DEF Min
<1>3. f \in Nat /\ Min(s) \in Nat /\ Min(s) <= f /\ f <= Min(s)
    BY <1>2
<1>. QED
    BY <1>3

LEMMA WithKeyIs ==
    ASSUME NEW map \in Seq(Pair), NEW key
    PROVE  /\ NoKey(map, key) <=> WithKey(map, key) = {}
           /\ \A f : FirstAt(map, key, f) => WithKey(map, key) # {} /\ Min(WithKey(map, key)) = f
           /\ WithKey(map, key) # {} => FirstAt(map, key, Min(WithKey(map, key)))
<1>0. Len(map) \in Nat /\ DOMAIN map = 1 .. Len(map)
    OBVIOUS
<1>1. NoKey(map, key) <=> WithKey(map, key) = {}
    BY <1>0 DEF NoKey, WithKey
<1> DEFINE s == WithKey(map, key)
<1>2. s = {i \in 1 .. Len(map) : map[i][1] = key} /\ s \in SUBSET Nat
    BY <1>0 DEF WithKey
<1> HIDE DEF s
<1>3. ASSUME NEW f, FirstAt(map, key, f)
      PROVE  s # {} /\ Min(s) = f
    <2>1. f \in s
        BY <1>2, <1>3 DEF FirstAt
    <2>2. \A j \in s : f <= j
        BY <1>0, <1>2, <1>3 DEF FirstAt
    <2>. QED
        BY <1>2, <2>1, <2>2, MinIs
<1>4. ASSUME s # {}
      PROVE  FirstAt(map, key, Min(s))
    <2>1. Min(s) \in s
        BY <1>2, <1>4, MinIn
    <2>2. ASSUME NEW i \in 1 .. Min(s) - 1
          PROVE  map[i][1] # key
        <3>1. Min(s) \in 1 .. Len(map)
            BY <1>2, <2>1
        <3>2. i \in 1 .. Len(map) /\ i < Min(s)
            BY <1>0, <3>1
        <3>3. i \notin s
            <4>1. \A y \in s : Min(s) <= y
                <5> DEFINE less == OpToRel(<, Nat)
                <5>1. PICK x \in s : \A y \in s : <<y, x>> \notin less
                    <6>1. IsWellFoundedOn(less, Nat)
                        BY NatLessThanWellFounded
                    <6> HIDE DEF less
                    <6>. QED
                        BY <1>2, <1>4, <6>1, WFMin
                <5>2. \A y \in s : ~(y < x)
                    BY <1>2, <5>1 DEF OpToRel
                <5>3. \A y \in s : x <= y
                    BY <1>2, <5>2
                <5>4. Min(s) = x
                    BY <1>2, <5>3, MinIs
                <5>. QED
                    BY <5>3, <5>4
            <4>. QED
                BY <3>1, <3>2, <4>1
        <3>. QED
            BY <1>2, <3>2, <3>3
    <2>. QED
        BY <1>2, <2>1, <2>2 DEF FirstAt
<1>. QED
    BY <1>1, <1>3, <1>4 DEF s

\* The pairs of other keys have no value of the key.
LEMMA OthersNoKey ==
    ASSUME NEW map \in Seq(Pair), NEW key
    PROVE  Others(map, key) \in Seq(Pair) /\ NoKey(Others(map, key), key)
<1> DEFINE n == Len(map)
<1>0. n \in Nat /\ \A i \in 1 .. n : map[i] \in Pair
    OBVIOUS
<1>1. PICK o : Picks(o, n, Pair, KeyOut(map, key), map) /\ Others(map, key) = o[n]
    BY OthersIs DEF Picked
<1> DEFINE P == {i \in 0 .. n : NoKey(o[i], key)}
<1> HIDE DEF n
<1>2. 0 \in P
    BY <1>0, <1>1 DEF Picks, NoKey
<1>3. ASSUME NEW i \in 1 .. n, i - 1 \in P
      PROVE  i \in P
    <2> DEFINE x == o[i - 1]
    <2>1. x \in Seq(Pair) /\ i \in 0 .. n /\ o[i] = PickOne(x, i, KeyOut(map, key), map)
        BY <1>0, <1>1 DEF Picks
    <2>2. NoKey(x, key)
        BY <1>3
    <2> HIDE DEF x
    <2>3. i \in KeyOut(map, key) <=> map[i][1] # key
        BY DEF KeyOut, n
    <2>4. CASE map[i][1] = key
        BY <2>1, <2>2, <2>3, <2>4 DEF PickOne
    <2>5. CASE map[i][1] # key
        <3>1. o[i] = Append(x, map[i])
            BY <2>1, <2>3, <2>5 DEF PickOne
        <3>2. NoKey(Append(x, map[i]), key)
            BY <1>0, <2>1, <2>2, <2>5 DEF NoKey
        <3>. QED
            BY <2>1, <3>1, <3>2
    <2>. QED
        BY <2>4, <2>5
<1>4. \A i \in 0 .. n : i \in P
    <2> HIDE DEF P
    <2>. QED
        BY <1>0, <1>2, <1>3, UpTo
<1>5. n \in 0 .. n
    BY <1>0
<1>. QED
    BY <1>1, <1>4, <1>5 DEF Picks

\* A map without the key is the map of its other pairs.
LEMMA NoKeyFilters ==
    ASSUME NEW map \in Seq(Pair), NEW key, NoKey(map, key)
    PROVE  Others(map, key) = map /\ GetAll(map, key) = <<>>
<1> DEFINE n == Len(map)
<1>0. n \in Nat /\ \A i \in 1 .. n : map[i] \in Pair
    OBVIOUS
<1>1. PICK o : Picks(o, n, Pair, KeyOut(map, key), map) /\ Others(map, key) = o[n]
    BY OthersIs DEF Picked
<1>2. PICK e : Picks(e, n, Seq(Byte), KeyIn(map, key), ValuesOf(map)) /\ GetAll(map, key) = e[n]
    BY GetAllIs DEF Picked
<1>3. \A i \in 1 .. n : i \in KeyOut(map, key) /\ i \notin KeyIn(map, key)
    BY DEF NoKey, KeyOut, KeyIn
<1> DEFINE P == {i \in 0 .. n : /\ e[i] = <<>> /\ Len(o[i]) = i
                                /\ \A j \in 1 .. i : o[i][j] = map[j]}
<1>4. n \in 0 .. n
    BY <1>0
<1>44. map \in Seq(Pair) /\ Len(map) = n
    OBVIOUS
<1> HIDE DEF n
<1>5. 0 \in P
    BY <1>0, <1>1, <1>2 DEF Picks
<1>6. ASSUME NEW i \in 1 .. n, i - 1 \in P
      PROVE  i \in P
    <2> DEFINE x == o[i - 1]
    <2>1. /\ x \in Seq(Pair) /\ i \in 0 .. n
          /\ o[i] = PickOne(x, i, KeyOut(map, key), map)
          /\ e[i] = PickOne(e[i - 1], i, KeyIn(map, key), ValuesOf(map))
        <3>1. i - 1 \in 0 .. n /\ i \in 0 .. n
            BY <1>0
        <3>2. x \in Seq(Pair) /\ o[i] = PickOne(x, i, KeyOut(map, key), map)
            BY <1>1, <3>1 DEF Picks
        <3>3. e[i] = PickOne(e[i - 1], i, KeyIn(map, key), ValuesOf(map))
            BY <1>2 DEF Picks
        <3>. QED
            BY <3>1, <3>2, <3>3
    <2>2. e[i - 1] = <<>> /\ Len(x) = i - 1 /\ \A j \in 1 .. i - 1 : x[j] = map[j]
        BY <1>6
    <2> HIDE DEF x
    <2>3. o[i] = Append(x, map[i]) /\ e[i] = <<>>
        BY <1>3, <2>1, <2>2 DEF PickOne
    <2>4. Len(Append(x, map[i])) = i /\ \A j \in 1 .. i : Append(x, map[i])[j] = map[j]
        BY <1>0, <2>1, <2>2
    <2>. QED
        BY <2>1, <2>3, <2>4
<1>7. \A i \in 0 .. n : i \in P
    <2> HIDE DEF P
    <2>. QED
        BY <1>0, <1>5, <1>6, UpTo
<1>8. /\ e[n] = <<>> /\ o[n] \in Seq(Pair) /\ Len(o[n]) = n
      /\ \A j \in 1 .. n : o[n][j] = map[j]
    BY <1>1, <1>4, <1>7 DEF Picks
<1>9. o[n] = map
    BY <1>8, <1>44, SeqEqual
<1>. QED
    BY <1>1, <1>2, <1>8, <1>9

LEMMA DeleteOthers ==
    ASSUME NEW map \in Seq(Pair), NEW key
    PROVE  Delete(map, key) = Others(map, key)
<1>0. Len(map) \in 0 .. Len(map) /\ Len(map) \in Nat
    OBVIOUS
<1>1. PICK h : Picks(h, Len(map), Pair, KeyOut(map, key), map) /\ Delete(map, key) = h[Len(map)]
    BY DeleteIs DEF Picked
<1>2. Picked(Others(map, key), Len(map), Pair, KeyOut(map, key), map)
    BY OthersIs
<1>3. Others(map, key) = h[Len(map)]
    BY <1>0, <1>1, <1>2, PickedSame
<1>. QED
    BY <1>1, <1>3

\* Get is the first of get_all.
LEMMA GetIsFirst ==
    ASSUME NEW map \in Seq(Pair), NEW key
    PROVE  /\ NoKey(map, key) => Get(map, key) = Absent /\ GetAll(map, key) = <<>>
           /\ ~NoKey(map, key) => /\ GetAll(map, key) \in Seq(Seq(Byte))
                                  /\ GetAll(map, key) # <<>>
                                  /\ Get(map, key) = GetAll(map, key)[1]
<1>1. CASE NoKey(map, key)
    BY <1>1, WithKeyIs, NoKeyFilters DEF Get
<1>2. CASE ~NoKey(map, key)
    <2> DEFINE n == Len(map)
               f == Min(WithKey(map, key))
    <2>0. n \in Nat /\ \A i \in 1 .. n : ValuesOf(map)[i] = map[i][2] /\ map[i][2] \in Seq(Byte)
        BY MapTyped DEF ValuesOf
    <2>1. FirstAt(map, key, f) /\ Get(map, key) = map[f][2]
        BY <1>2, WithKeyIs DEF Get
    <2> HIDE DEF f
    <2>2. PICK e : Picks(e, n, Seq(Byte), KeyIn(map, key), ValuesOf(map)) /\ GetAll(map, key) = e[n]
        BY GetAllIs DEF Picked
    <2>3. /\ f \in 1 .. n /\ f \in KeyIn(map, key)
          /\ \A i \in 1 .. f - 1 : i \notin KeyIn(map, key)
        BY <2>1 DEF FirstAt, KeyIn
    <2> HIDE DEF n
    <2> DEFINE P == {i \in 0 .. n : /\ i < f => e[i] = <<>>
                                    /\ i >= f => Len(e[i]) >= 1 /\ e[i][1] = map[f][2]}
    <2>4. 0 \in P
        BY <2>0, <2>2, <2>3 DEF Picks
    <2>5. ASSUME NEW i \in 1 .. n, i - 1 \in P
          PROVE  i \in P
        <3> DEFINE x == e[i - 1]
        <3>1. /\ x \in Seq(Seq(Byte)) /\ i \in 0 .. n
              /\ e[i] = PickOne(x, i, KeyIn(map, key), ValuesOf(map))
            BY <2>0, <2>2 DEF Picks
        <3>2. (i - 1 < f => x = <<>>) /\ (i - 1 >= f => Len(x) >= 1 /\ x[1] = map[f][2])
            BY <2>5
        <3> HIDE DEF x
        <3>3. CASE i < f
            <4>1. i \notin KeyIn(map, key) /\ x = <<>> /\ ~(i >= f)
                BY <2>3, <3>2, <3>3
            <4>2. e[i] = <<>>
                BY <3>1, <4>1 DEF PickOne
            <4>. QED
                BY <3>1, <4>1, <4>2
        <3>4. CASE i = f
            <4>1. x = <<>> /\ e[i] = Append(x, map[f][2])
                BY <2>0, <2>3, <3>1, <3>2, <3>4 DEF PickOne
            <4>2. Len(e[i]) = 1 /\ e[i][1] = map[f][2]
                BY <4>1
            <4>. QED
                BY <2>3, <3>1, <3>4, <4>2
        <3>5. CASE i > f
            <4>1. Len(x) >= 1 /\ x[1] = map[f][2] /\ ~(i < f)
                BY <2>3, <3>2, <3>5
            <4>2. e[i] = x \/ e[i] = Append(x, map[i][2])
                BY <2>0, <3>1 DEF PickOne
            <4>3. Len(e[i]) >= 1 /\ e[i][1] = map[f][2]
                BY <2>0, <3>1, <4>1, <4>2
            <4>. QED
                BY <3>1, <4>1, <4>3
        <3>. QED
            BY <2>0, <2>3, <3>3, <3>4, <3>5
    <2>6. \A i \in 0 .. n : i \in P
        <3> HIDE DEF P
        <3>. QED
            BY <2>0, <2>4, <2>5, UpTo
    <2>7. n \in 0 .. n /\ n >= f
        BY <2>0, <2>3
    <2>8. Len(e[n]) >= 1 /\ e[n][1] = map[f][2] /\ e[n] \in Seq(Seq(Byte))
        BY <2>2, <2>6, <2>7 DEF Picks
    <2>. QED
        BY <1>2, <2>1, <2>2, <2>8
<1>. QED
    BY <1>1, <1>2

\* A set leaves the map before the first pair of the key, that pair with the
\* new value, and no other pair of the key.
SetExact(set, map, key, value) ==
    /\ set \in Seq(Pair)
    /\ Others(set, key) = Others(map, key)
    /\ GetAll(set, key) = <<value>>

Visiting(next, kept, pair, key, value) ==
    /\ pair[1] # key => next.pairs = Append(kept.pairs, pair) /\ next.one = kept.one
    /\ pair[1] = key /\ kept.one => next = kept
    /\ pair[1] = key /\ ~kept.one => next.pairs = Append(kept.pairs, <<key, value>>) /\ next.one = TRUE

LEMMA VisitIs ==
    ASSUME NEW kept \in Kept, NEW pair, NEW key, NEW value
    PROVE  Visiting(Visited(kept, pair, key, value), kept, pair, key, value)
<1>1. CASE pair[1] # key
    <2>1. Visited(kept, pair, key, value) = [kept EXCEPT !.pairs = Append(kept.pairs, pair)]
        BY <1>1 DEF Visited
    <2>. QED
        BY <1>1, <2>1 DEF Kept, Visiting
<1>2. CASE pair[1] = key
    BY <1>2 DEF Visited, Visiting
<1>. QED
    BY <1>1, <1>2

LEMMA VisitsAre ==
    ASSUME NEW map \in Seq(Pair), NEW key, NEW value, NEW h, Visits(h, map, key, value)
    PROVE  /\ h[0].pairs = <<>> /\ h[0].one = FALSE
           /\ \A i \in 0 .. Len(map) : h[i].pairs \in Seq(Pair)
           /\ \A i \in 1 .. Len(map) : Visiting(h[i], h[i - 1], map[i], key, value)
<1>1. /\ h[0].pairs = <<>> /\ h[0].one = FALSE
      /\ \A i \in 0 .. Len(map) : h[i] \in Kept
    BY DEF Visits, NothingKept
<1>2. \A i \in 0 .. Len(map) : h[i].pairs \in Seq(Pair)
    BY <1>1 DEF Kept
<1>3. ASSUME NEW i \in 1 .. Len(map)
      PROVE  Visiting(h[i], h[i - 1], map[i], key, value)
    <2>1. i - 1 \in 0 .. Len(map) /\ h[i] = Visited(h[i - 1], map[i], key, value)
        BY DEF Visits
    <2>2. Visiting(Visited(h[i - 1], map[i], key, value), h[i - 1], map[i], key, value)
        BY <1>1, <2>1, VisitIs
    <2>. QED
        BY <2>1, <2>2
<1>. QED
    BY <1>1, <1>2, <1>3

LEMMA SetWithout ==
    ASSUME NEW map \in Seq(Pair), NEW key \in Seq(Byte), NEW value \in Seq(Byte), NoKey(map, key)
    PROVE  Set(map, key, value) = Append(map, <<key, value>>)
<1> DEFINE n == Len(map)
<1>0. n \in Nat /\ n \in 0 .. n /\ Others(map, key) = map
    BY NoKeyFilters
<1>1. PICK h : /\ Visits(h, map, key, value)
               /\ Set(map, key, value) = IF h[n].one THEN h[n].pairs
                                         ELSE Add(h[n].pairs, key, value)
    BY SetIs
<1>2. PICK o : Picks(o, n, Pair, KeyOut(map, key), map) /\ map = o[n]
    BY <1>0, OthersIs DEF Picked
<1>3. \A i \in 1 .. n : i \in KeyOut(map, key) /\ map[i][1] # key
    BY DEF NoKey, KeyOut
<1>4. /\ h[0].pairs = <<>> /\ h[0].one = FALSE
      /\ \A i \in 0 .. n : h[i].pairs \in Seq(Pair)
      /\ \A i \in 1 .. n : Visiting(h[i], h[i - 1], map[i], key, value)
    BY <1>1, VisitsAre
<1>44. o[0] = <<>> /\ \A i \in 1 .. n : o[i] = PickOne(o[i - 1], i, KeyOut(map, key), map)
    BY <1>2 DEF Picks
<1> HIDE DEF n
<1> DEFINE P == {i \in 0 .. n : h[i].pairs = o[i] /\ h[i].one = FALSE}
<1>5. 0 \in P
    BY <1>0, <1>4, <1>44
<1>6. ASSUME NEW i \in 1 .. n, i - 1 \in P
      PROVE  i \in P
    <2>1. h[i - 1].pairs = o[i - 1] /\ h[i - 1].one = FALSE /\ i - 1 \in 0 .. n /\ i \in 0 .. n
        BY <1>0, <1>6
    <2>2. h[i].pairs = Append(h[i - 1].pairs, map[i]) /\ h[i].one = h[i - 1].one
        BY <1>3, <1>4, <2>1 DEF Visiting
    <2>3. o[i] = Append(o[i - 1], map[i])
        BY <1>3, <1>44 DEF PickOne
    <2>. QED
        BY <2>1, <2>2, <2>3
<1>7. \A i \in 0 .. n : i \in P
    <2> HIDE DEF P
    <2>. QED
        BY <1>0, <1>5, <1>6, UpTo
<1>8. h[n].pairs = map /\ h[n].one = FALSE
    BY <1>0, <1>2, <1>7
<1>. QED
    BY <1>1, <1>8 DEF Add

LEMMA SetWith ==
    ASSUME NEW map \in Seq(Pair), NEW key \in Seq(Byte), NEW value \in Seq(Byte),
           NEW f, FirstAt(map, key, f)
    PROVE  /\ SetExact(Set(map, key, value), map, key, value)
           /\ FirstAt(Set(map, key, value), key, f)
           /\ \A i \in 1 .. f - 1 : Set(map, key, value)[i] = map[i]
<1> DEFINE n == Len(map)
           new == <<key, value>>
<1>0. n \in Nat /\ n \in 0 .. n /\ \A i \in 1 .. n : map[i] \in Pair
    OBVIOUS
<1>00. new \in Pair /\ new[1] = key /\ new[2] = value
    BY DEF Pair
<1>1. PICK h : /\ Visits(h, map, key, value)
               /\ Set(map, key, value) = IF h[n].one THEN h[n].pairs
                                         ELSE Add(h[n].pairs, key, value)
    BY SetIs
<1>2. PICK o : Picks(o, n, Pair, KeyOut(map, key), map) /\ Others(map, key) = o[n]
    BY OthersIs DEF Picked
<1>3. \A i \in 1 .. n : i \in KeyOut(map, key) <=> map[i][1] # key
    BY DEF KeyOut
<1>4. /\ h[0].pairs = <<>> /\ h[0].one = FALSE
      /\ \A i \in 0 .. n : h[i].pairs \in Seq(Pair)
      /\ \A i \in 1 .. n : Visiting(h[i], h[i - 1], map[i], key, value)
    BY <1>1, VisitsAre
<1>5. /\ f \in 1 .. n /\ map[f][1] = key /\ \A i \in 1 .. f - 1 : map[i][1] # key
    BY DEF FirstAt
<1>55. /\ o[0] = <<>> /\ \A i \in 0 .. n : o[i] \in Seq(Pair)
       /\ \A i \in 1 .. n : o[i] = PickOne(o[i - 1], i, KeyOut(map, key), map)
    BY <1>2 DEF Picks
<1> HIDE DEF n, new
<1> DEFINE B(i) == /\ h[i].pairs = o[i] /\ h[i].one = FALSE
                   /\ Len(o[i]) = i
                   /\ \A j \in 1 .. i : o[i][j] = map[j]
           A(i) == /\ h[i].one = TRUE
                   /\ Others(h[i].pairs, key) = o[i]
                   /\ GetAll(h[i].pairs, key) = <<value>>
                   /\ Len(h[i].pairs) >= f
                   /\ h[i].pairs[f] = new
                   /\ \A j \in 1 .. f - 1 : h[i].pairs[j] = map[j]
           P == {i \in 0 .. n : (i < f => B(i)) /\ (i >= f => A(i))}
<1>6. 0 \in P
    <2>1. B(0)
        BY <1>4, <1>55
    <2>2. 0 < f /\ ~(0 >= f) /\ 0 \in 0 .. n
        BY <1>0, <1>5
    <2> HIDE DEF A, B
    <2>. QED
        BY <2>1, <2>2
<1>7. ASSUME NEW i \in 1 .. n, i - 1 < f, B(i - 1), i < f
      PROVE  B(i)
    <2>1. map[i][1] # key /\ i \in KeyOut(map, key) /\ map[i] \in Pair /\ i - 1 \in 0 .. n
        BY <1>0, <1>3, <1>5, <1>7
    <2> DEFINE x == o[i - 1]
    <2>2. /\ h[i - 1].pairs = x /\ h[i - 1].one = FALSE /\ Len(x) = i - 1 /\ x \in Seq(Pair)
          /\ \A j \in 1 .. i - 1 : x[j] = map[j]
        BY <1>7, <1>55, <2>1
    <2>3. o[i] = PickOne(x, i, KeyOut(map, key), map) /\ Visiting(h[i], h[i - 1], map[i], key, value)
        BY <1>4, <1>55
    <2> HIDE DEF x
    <2>4. o[i] = Append(x, map[i])
        BY <2>1, <2>3 DEF PickOne
    <2>5. h[i].pairs = Append(x, map[i]) /\ h[i].one = FALSE
        BY <2>1, <2>2, <2>3 DEF Visiting
    <2>6. Len(Append(x, map[i])) = i /\ \A j \in 1 .. i : Append(x, map[i])[j] = map[j]
        BY <2>1, <2>2
    <2>. QED
        BY <2>4, <2>5, <2>6
<1>8. ASSUME NEW i \in 1 .. n, i = f, B(i - 1)
      PROVE  A(i)
    <2> DEFINE x == o[i - 1]
    <2>1. map[i][1] = key /\ i \notin KeyOut(map, key) /\ i - 1 \in 0 .. n /\ f \in Nat
        BY <1>0, <1>3, <1>5, <1>8
    <2>2. /\ h[i - 1].pairs = x /\ h[i - 1].one = FALSE /\ Len(x) = i - 1 /\ x \in Seq(Pair)
          /\ \A j \in 1 .. i - 1 : x[j] = map[j]
        BY <1>8, <1>55, <2>1
    <2>3. o[i] = PickOne(x, i, KeyOut(map, key), map) /\ Visiting(h[i], h[i - 1], map[i], key, value)
        BY <1>4, <1>55
    <2> HIDE DEF x
    <2> DEFINE y == Append(x, new)
    <2>4. o[i] = x
        BY <2>1, <2>3 DEF PickOne
    <2>5. h[i].pairs = y /\ h[i].one = TRUE
        BY <1>4, <2>1, <2>2, <2>3 DEF Visiting, new
    <2>6. NoKey(x, key)
        BY <1>5, <1>8, <2>2 DEF NoKey
    <2>7. Others(x, key) = x /\ GetAll(x, key) = <<>>
        BY <2>2, <2>6, NoKeyFilters
    <2>8. Others(y, key) = x /\ GetAll(y, key) = <<value>>
        <3>1. Others(y, key) = Others(x, key)
            BY <1>00, <2>2, OthersAppend
        <3>2. GetAll(y, key) = Append(GetAll(x, key), value)
            BY <1>00, <2>2, GetAllAppend
        <3>3. Append(<<>>, value) = <<value>>
            OBVIOUS
        <3>. QED
            BY <2>7, <3>1, <3>2, <3>3
    <2>9. Len(y) = f /\ y[f] = new /\ \A j \in 1 .. f - 1 : y[j] = map[j]
        BY <1>00, <1>8, <2>1, <2>2
    <2> HIDE DEF y
    <2>10. h[i].one = TRUE /\ h[i].pairs = y
        BY <2>5
    <2>11. Len(h[i].pairs) >= f
        BY <2>1, <2>9, <2>10
    <2>12. Others(h[i].pairs, key) = o[i] /\ GetAll(h[i].pairs, key) = <<value>>
        BY <2>4, <2>8, <2>10
    <2>13. h[i].pairs[f] = new /\ \A j \in 1 .. f - 1 : h[i].pairs[j] = map[j]
        BY <2>9, <2>10
    <2>. QED
        BY <2>10, <2>11, <2>12, <2>13
<1>9. ASSUME NEW i \in 1 .. n, i > f, A(i - 1)
      PROVE  A(i)
    <2> DEFINE x == h[i - 1].pairs
    <2>1. map[i] \in Pair /\ i - 1 \in 0 .. n /\ f \in Nat \ {0}
        BY <1>0, <1>5
    <2>2. /\ h[i - 1].one = TRUE /\ x \in Seq(Pair) /\ Others(x, key) = o[i - 1]
          /\ GetAll(x, key) = <<value>> /\ Len(x) >= f /\ x[f] = new
          /\ \A j \in 1 .. f - 1 : x[j] = map[j]
        BY <1>4, <1>9, <2>1
    <2>3. /\ o[i] = PickOne(o[i - 1], i, KeyOut(map, key), map)
          /\ Visiting(h[i], h[i - 1], map[i], key, value)
        BY <1>4, <1>55
    <2>4. CASE map[i][1] = key
        <3>1. o[i] = o[i - 1]
            BY <1>3, <2>3, <2>4 DEF PickOne
        <3>2. h[i] = h[i - 1]
            BY <1>4, <2>1, <2>2, <2>3, <2>4 DEF Visiting
        <3> HIDE DEF A
        <3>3. A(i - 1)
            BY <1>9
        <3>. QED
            BY <3>1, <3>2, <3>3 DEF A
    <2>5. CASE map[i][1] # key
        <3> DEFINE y == Append(x, map[i])
        <3>1. o[i] = Append(o[i - 1], map[i])
            BY <1>3, <2>3, <2>5 DEF PickOne
        <3>2. h[i].pairs = y /\ h[i].one = TRUE
            BY <1>4, <2>1, <2>2, <2>3, <2>5 DEF Visiting
        <3> HIDE DEF x
        <3>3. Others(y, key) = Append(Others(x, key), map[i])
            <4> DEFINE q == map[i]
            <4>1. q \in Pair /\ x \in Seq(Pair) /\ q[1] # key /\ y = Append(x, q)
                BY <2>1, <2>2, <2>5
            <4> HIDE DEF q, y
            <4>2. Others(Append(x, q), key) =
                      IF q[1] # key THEN Append(Others(x, key), q) ELSE Others(x, key)
                BY <4>1, OthersAppend
            <4>. QED
                BY <4>1, <4>2 DEF q
        <3>4. Others(y, key) = o[i]
            BY <2>2, <3>1, <3>3
        <3>5. GetAll(y, key) = <<value>>
            <4> DEFINE q == map[i]
            <4>1. q \in Pair /\ x \in Seq(Pair) /\ q[1] # key /\ y = Append(x, q)
                BY <2>1, <2>2, <2>5 DEF y
            <4> HIDE DEF q, y
            <4>2. GetAll(Append(x, q), key) =
                      IF q[1] = key THEN Append(GetAll(x, key), q[2]) ELSE GetAll(x, key)
                BY <4>1, GetAllAppend
            <4>. QED
                BY <2>2, <4>1, <4>2
        <3>6. Len(y) >= f /\ y[f] = new /\ \A j \in 1 .. f - 1 : y[j] = map[j]
            BY <2>1, <2>2
        <3> HIDE DEF y
        <3>. QED
            BY <3>2, <3>4, <3>5, <3>6
    <2>. QED
        BY <2>4, <2>5
<1>10. ASSUME NEW i \in 1 .. n, i - 1 \in P
       PROVE  i \in P
    <2> HIDE DEF A, B
    <2>1. (i - 1 < f => B(i - 1)) /\ (i - 1 >= f => A(i - 1)) /\ i \in 0 .. n /\ f \in Nat
        BY <1>0, <1>5, <1>10
    <2>2. CASE i < f
        BY <1>7, <2>1, <2>2
    <2>3. CASE i = f
        BY <1>8, <2>1, <2>3
    <2>4. CASE i > f
        BY <1>9, <2>1, <2>4
    <2>. QED
        BY <2>1, <2>2, <2>3, <2>4
<1>11. \A i \in 0 .. n : i \in P
    <2> HIDE DEF P
    <2>. QED
        BY <1>0, <1>6, <1>10, UpTo
<1>12. A(n)
    <2>1. n >= f
        BY <1>0, <1>5
    <2> HIDE DEF A, B
    <2>. QED
        BY <1>0, <1>11, <2>1
<1> DEFINE set == h[n].pairs
<1>13. Set(map, key, value) = set
    BY <1>1, <1>12 DEF Add
<1>14. /\ set \in Seq(Pair) /\ Others(set, key) = o[n] /\ GetAll(set, key) = <<value>>
       /\ Len(set) >= f /\ set[f] = new /\ \A j \in 1 .. f - 1 : set[j] = map[j]
    BY <1>0, <1>4, <1>12
<1> HIDE DEF set, A, B, P
<1>15. FirstAt(set, key, f)
    <2>1. f \in 1 .. Len(set)
        BY <1>0, <1>5, <1>14
    <2>2. \A i \in 1 .. f - 1 : set[i][1] # key
        BY <1>5, <1>14
    <2>. QED
        BY <1>00, <1>14, <2>1, <2>2 DEF FirstAt
<1>. QED
    BY <1>2, <1>13, <1>14, <1>15 DEF SetExact

LEMMA StartsSame ==
    ASSUME NEW s \in Seq(Pair), NEW t \in Seq(Pair), NEW n \in Nat, n <= Len(s), n <= Len(t),
           \A i \in 1 .. n : s[i] = t[i]
    PROVE  SubSeq(s, 1, n) = SubSeq(t, 1, n)
<1>1. \A i \in 1 .. n : s[i] \in Pair /\ t[i] \in Pair
    OBVIOUS
<1>2. /\ SubSeq(s, 1, n) \in Seq(Pair) /\ Len(SubSeq(s, 1, n)) = n
      /\ \A i \in 1 .. n : SubSeq(s, 1, n)[i] = s[i]
    BY <1>1, SubSeqProperties
<1>3. /\ SubSeq(t, 1, n) \in Seq(Pair) /\ Len(SubSeq(t, 1, n)) = n
      /\ \A i \in 1 .. n : SubSeq(t, 1, n)[i] = t[i]
    BY <1>1, SubSeqProperties
<1>. QED
    BY <1>2, <1>3, SeqEqual

Before(m, key) ==
    IF WithKey(m, key) = {} THEN Others(m, key) ELSE SubSeq(m, 1, Min(WithKey(m, key)) - 1)

LEMMA SetHolds ==
    ASSUME NEW map \in Seq(Pair), NEW key \in Seq(Byte), NEW value \in Seq(Byte)
    PROVE  /\ SetExact(Set(map, key, value), map, key, value)
           /\ Before(Set(map, key, value), key) = Before(map, key)
<1> DEFINE new == <<key, value>>
           set == Set(map, key, value)
<1>0. new \in Pair /\ new[1] = key /\ new[2] = value
    BY DEF Pair
<1>1. CASE NoKey(map, key)
    <2>1. set = Append(map, new)
        BY <1>1, SetWithout
    <2>2. Others(map, key) = map /\ GetAll(map, key) = <<>> /\ WithKey(map, key) = {}
        BY <1>1, NoKeyFilters, WithKeyIs
    <2> HIDE DEF new, set
    <2>3. Others(set, key) = map
        BY <1>0, <2>1, <2>2, OthersAppend
    <2>4. GetAll(set, key) = <<value>>
        <3>1. GetAll(set, key) = Append(<<>>, value)
            BY <1>0, <2>1, <2>2, GetAllAppend
        <3>. QED
            BY <3>1
    <2>5. set \in Seq(Pair)
        BY <1>0, <2>1
    <2> DEFINE n == Len(map)
    <2>6. n \in Nat /\ Len(set) = n + 1 /\ set[n + 1] = new /\ \A i \in 1 .. n : set[i] = map[i]
        BY <1>0, <2>1
    <2>7. FirstAt(set, key, n + 1)
        <3>1. \A i \in 1 .. n : map[i][1] # key
            BY <1>1 DEF NoKey
        <3> HIDE DEF n
        <3>2. n + 1 \in 1 .. Len(set) /\ n + 1 - 1 = n
            BY <2>6
        <3>. QED
            BY <1>0, <2>6, <3>1, <3>2 DEF FirstAt
    <2> DEFINE f == Min(WithKey(set, key))
    <2>8. WithKey(set, key) # {} /\ f = n + 1
        <3> HIDE DEF n
        <3>. QED
            BY <2>5, <2>7, WithKeyIs
    <2>9. SubSeq(set, 1, n) = map
        <3>1. SubSeq(set, 1, n) = SubSeq(map, 1, n)
            BY <2>5, <2>6, StartsSame
        <3>2. SubSeq(map, 1, n) = map
            BY SubSeqFull
        <3>. QED
            BY <3>1, <3>2
    <2>10. Before(set, key) = map
        <3>1. Before(set, key) = SubSeq(set, 1, f - 1)
            BY <2>8 DEF Before
        <3> HIDE DEF n, f
        <3>2. f - 1 = n
            BY <2>6, <2>8
        <3>. QED
            BY <2>9, <3>1, <3>2
    <2>11. Before(map, key) = map
        BY <2>2 DEF Before
    <2>. QED
        BY <2>2, <2>3, <2>4, <2>5, <2>10, <2>11 DEF SetExact, set
<1>2. CASE ~NoKey(map, key)
    <2> DEFINE f == Min(WithKey(map, key))
    <2>1. FirstAt(map, key, f) /\ WithKey(map, key) # {}
        BY <1>2, WithKeyIs
    <2> HIDE DEF f
    <2>2. /\ SetExact(set, map, key, value) /\ FirstAt(set, key, f)
          /\ \A i \in 1 .. f - 1 : set[i] = map[i]
        BY <2>1, SetWith
    <2> HIDE DEF set
    <2>3. set \in Seq(Pair)
        BY <2>2 DEF SetExact
    <2>4. WithKey(set, key) # {} /\ Min(WithKey(set, key)) = f
        BY <2>2, <2>3, WithKeyIs
    <2>5. f \in 1 .. Len(map) /\ f \in 1 .. Len(set)
        BY <2>1, <2>2 DEF FirstAt
    <2>6. f - 1 \in Nat /\ f - 1 <= Len(map) /\ f - 1 <= Len(set)
        BY <2>3, <2>5
    <2>7. SubSeq(set, 1, f - 1) = SubSeq(map, 1, f - 1)
        BY <2>2, <2>3, <2>6, StartsSame
    <2>8. Before(set, key) = Before(map, key)
        BY <2>1, <2>4, <2>7 DEF Before, f
    <2>. QED
        BY <2>2, <2>8 DEF set
<1>. QED
    BY <1>1, <1>2

LEMMA GetJoinedIs ==
    ASSUME NEW map \in Seq(Pair), NEW key
    PROVE  GetJoined(map, key, <<>>) # Absent <=> Get(map, key) # Absent
<1>0. Absent \notin Seq(Byte)
    BY AbsentAssumption
<1>1. CASE NoKey(map, key)
    BY <1>1, GetIsFirst DEF GetJoined
<1>2. CASE ~NoKey(map, key)
    <2> DEFINE values == GetAll(map, key)
               pieces == [i \in DOMAIN values |-> IF i = 1 THEN values[i] ELSE <<>> \o values[i]]
    <2>1. values \in Seq(Seq(Byte)) /\ values # <<>> /\ Get(map, key) = values[1]
        BY <1>2, GetIsFirst
    <2>2. GetJoined(map, key, <<>>) = FlattenSeq(pieces)
        BY <2>1 DEF GetJoined
    <2> HIDE DEF values
    <2>3. ASSUME NEW i \in DOMAIN values
          PROVE  (IF i = 1 THEN values[i] ELSE <<>> \o values[i]) \in Seq(Byte)
        <3>1. values[i] \in Seq(Byte) /\ <<>> \in Seq(Byte)
            BY <2>1
        <3>2. <<>> \o values[i] \in Seq(Byte)
            BY <3>1, ConcatProperties
        <3>. QED
            BY <3>1, <3>2
    <2>4. DOMAIN values = 1 .. Len(values) /\ Len(values) \in Nat
        BY <2>1
    <2>5. pieces \in Seq(Seq(Byte))
        BY <2>3, <2>4
    <2> HIDE DEF pieces
    <2>6. FlattenSeq(pieces) \in Seq(Byte)
        BY <2>5, FlattenBytes
    <2>7. values[1] \in Seq(Byte)
        BY <2>1
    <2>. QED
        BY <1>0, <2>1, <2>2, <2>6, <2>7
<1>. QED
    BY <1>1, <1>2

LEMMA MapsExact ==
    ASSUME NEW map \in Seq(Pair), NEW key \in Seq(Byte), NEW value \in Seq(Byte)
    PROVE  MapEdits(map, key, value)
<1> DEFINE new == <<key, value>>
<1>0. new \in Pair /\ new[1] = key /\ new[2] = value
    BY DEF Pair
<1>1. /\ Others(Set(map, key, value), key) = Others(map, key)
      /\ GetAll(Set(map, key, value), key) = <<value>>
      /\ Before(Set(map, key, value), key) = Before(map, key)
    BY SetHolds DEF SetExact
<1>2. Others(Delete(map, key), key) = Others(map, key) /\ GetAll(Delete(map, key), key) = <<>>
    BY DeleteOthers, OthersNoKey, NoKeyFilters
<1>3. /\ Others(Add(map, key, value), key) = Others(map, key)
      /\ GetAll(Add(map, key, value), key) = Append(GetAll(map, key), value)
    <2> HIDE DEF new
    <2>1. Add(map, key, value) = Append(map, new)
        BY DEF Add, new
    <2>. QED
        BY <1>0, <2>1, OthersAppend, GetAllAppend
<1>4. Get(map, key) = IF GetAll(map, key) = <<>> THEN Absent ELSE GetAll(map, key)[1]
    BY GetIsFirst
<1>5. GetJoined(map, key, <<>>) # Absent <=> Get(map, key) # Absent
    BY GetJoinedIs
<1>. QED
    BY <1>1, <1>2, <1>3, <1>4, <1>5 DEF MapEdits, Before

-----------------------------------------------------------------------------
\* The edits of a header map and of a buffer do what their traits say, for every
\* map, buffer, key, value and range (header_map.rs, VecHeaderMap; buffer.rs,
\* Buffer for Vec<u8>).
THEOREM EditsHold == sample \in Inputs => EditsAreExact
<1> SUFFICES ASSUME sample \in Inputs
             PROVE  EditsAreExact
    OBVIOUS
<1>1. /\ sample.data \in Seq(Byte) /\ sample.map \in Seq(Pair) /\ sample.key \in Seq(Byte)
      /\ sample.value \in Seq(Byte) /\ sample.start \in Nat /\ sample.size \in Nat
    BY DEF Inputs
<1>2. MapEdits(sample.map, sample.key, sample.value)
    BY <1>1, MapsExact
<1>3. BufferEdits(sample.data, sample.start, sample.size, sample.value)
    BY <1>1, BuffersExact
<1>. QED
    BY <1>2, <1>3 DEF EditsAreExact

-----------------------------------------------------------------------------
(***************************************************************************)
(* Where the pieces of a concatenation are                                 *)
(***************************************************************************)
ChainOf(h, seqs, n, S) ==
    /\ h \in [0 .. n -> Seq(S)]
    /\ h[0] = <<>>
    /\ \A i \in 1 .. n : h[i] = h[i - 1] \o seqs[i]

LEMMA FlattenChain ==
    ASSUME NEW S, NEW seqs \in Seq(Seq(S))
    PROVE  \E h : ChainOf(h, seqs, Len(seqs), S) /\ FlattenSeq(seqs) = h[Len(seqs)]
    BY FlattenFacts DEF Concatenates, ChainOf

\* Piece k begins where the first k - 1 pieces end.
Placed(whole, h, seqs, n) ==
    /\ \A k \in 1 .. n : Len(h[k]) = Len(h[k - 1]) + Len(seqs[k]) /\ Len(h[k]) <= Len(whole)
    /\ \A k \in 1 .. n : \A j \in 1 .. Len(seqs[k]) : whole[Len(h[k - 1]) + j] = seqs[k][j]

LEMMA ChainPlaces ==
    ASSUME NEW S, NEW n \in Nat, NEW seqs, Typed(seqs, n, Seq(S)),
           NEW h, ChainOf(h, seqs, n, S)
    PROVE  Placed(h[n], h, seqs, n)
<1> DEFINE P == {i \in 0 .. n : Placed(h[i], h, seqs, i)}
<1>0. /\ \A i \in 0 .. n : h[i] \in Seq(S)
      /\ \A i \in 1 .. n : seqs[i] \in Seq(S) /\ h[i] = h[i - 1] \o seqs[i]
    BY DEF ChainOf, Typed
<1>1. 0 \in P
    <2>1. Placed(h[0], h, seqs, 0)
        BY DEF Placed
    <2>. QED
        BY <2>1
<1>2. ASSUME NEW i \in 1 .. n, i - 1 \in P
      PROVE  i \in P
    <2> DEFINE x == h[i - 1]
               y == seqs[i]
               z == h[i]
    <2>0. i - 1 \in 0 .. n /\ i \in 0 .. n /\ i \in Nat
        OBVIOUS
    <2>1. x \in Seq(S) /\ y \in Seq(S) /\ z = x \o y
        BY <1>0, <2>0
    <2>2. Joins(z, S, x, y)
        BY <2>1, JoinIs
    <2>3. Placed(x, h, seqs, i - 1)
        BY <1>2
    <2>4. Len(x) \in Nat /\ Len(y) \in Nat
        BY <2>1
    <2> HIDE DEF x, y, z
    <2>5. ASSUME NEW k \in 1 .. i
          PROVE  /\ Len(h[k]) = Len(h[k - 1]) + Len(seqs[k]) /\ Len(h[k]) <= Len(z)
                 /\ \A j \in 1 .. Len(seqs[k]) : z[Len(h[k - 1]) + j] = seqs[k][j]
        <3>1. CASE k = i
            <4>1. h[k] = z /\ h[k - 1] = x /\ seqs[k] = y
                BY <3>1 DEF x, y, z
            <4>2. Len(z) = Len(x) + Len(y) /\ \A j \in 1 .. Len(y) : z[Len(x) + j] = y[j]
                BY <2>2 DEF Joins
            <4>. QED
                BY <2>4, <4>1, <4>2
        <3>2. CASE k # i
            <4>1. k \in 1 .. i - 1 /\ k \in 1 .. n /\ k \in 0 .. n /\ k - 1 \in 0 .. n
                BY <3>2
            <4>2. /\ Len(h[k]) = Len(h[k - 1]) + Len(seqs[k]) /\ Len(h[k]) <= Len(x)
                  /\ \A j \in 1 .. Len(seqs[k]) : x[Len(h[k - 1]) + j] = seqs[k][j]
                BY <2>3, <4>1 DEF Placed
            <4>3. Len(z) = Len(x) + Len(y) /\ \A j \in 1 .. Len(x) : z[j] = x[j]
                BY <2>2 DEF Joins
            <4>4. h[k] \in Seq(S) /\ h[k - 1] \in Seq(S) /\ seqs[k] \in Seq(S)
                BY <1>0, <4>1
            <4> DEFINE a == Len(h[k - 1])
                       b == Len(h[k])
                       c == Len(seqs[k])
            <4>5. a \in Nat /\ b \in Nat /\ c \in Nat
                BY <4>4
            <4>6. b = a + c /\ b <= Len(x) /\ \A j \in 1 .. c : x[a + j] = seqs[k][j]
                BY <4>2
            <4>7. Len(z) = Len(x) + Len(y) /\ \A j \in 1 .. Len(x) : z[j] = x[j]
                BY <4>3
            <4> HIDE DEF a, b, c
            <4>8. \A j \in 1 .. c : a + j \in 1 .. Len(x)
                BY <2>4, <4>5, <4>6
            <4>85. b <= Len(z)
                BY <2>4, <4>5, <4>6, <4>7
            <4>9. \A j \in 1 .. c : z[a + j] = seqs[k][j]
                BY <4>6, <4>7, <4>8
            <4>. QED
                BY <4>6, <4>85, <4>9 DEF a, b, c
        <3>. QED
            BY <3>1, <3>2
    <2>6. Placed(z, h, seqs, i)
        BY <2>5 DEF Placed
    <2>. QED
        BY <2>0, <2>6 DEF z
<1>3. n \in P
    <2>1. n \in 0 .. n
        OBVIOUS
    <2> HIDE DEF P
    <2>. QED
        BY <1>1, <1>2, <2>1, UpTo
<1>. QED
    BY <1>3

\* Bytes that have each piece at its place, from `at' on.
HasPieces(data, at, h, seqs, n) ==
    \A k \in 1 .. n : \A j \in 1 .. Len(seqs[k]) : data[at + Len(h[k - 1]) + j] = seqs[k][j]

LEMMA ChainAgrees ==
    ASSUME NEW S, NEW n \in Nat, NEW seqs, Typed(seqs, n, Seq(S)),
           NEW h, ChainOf(h, seqs, n, S),
           NEW data, NEW at \in Nat, HasPieces(data, at, h, seqs, n)
    PROVE  \A j \in 1 .. Len(h[n]) : data[at + j] = h[n][j]
<1> DEFINE P == {i \in 0 .. n : \A j \in 1 .. Len(h[i]) : data[at + j] = h[i][j]}
<1>0. /\ \A i \in 0 .. n : h[i] \in Seq(S)
      /\ \A i \in 1 .. n : seqs[i] \in Seq(S) /\ h[i] = h[i - 1] \o seqs[i]
      /\ h[0] = <<>>
    BY DEF ChainOf, Typed
<1>1. 0 \in P
    BY <1>0
<1>2. ASSUME NEW i \in 1 .. n, i - 1 \in P
      PROVE  i \in P
    <2> DEFINE x == h[i - 1]
               y == seqs[i]
               z == h[i]
    <2>0. i - 1 \in 0 .. n /\ i \in 0 .. n /\ i \in Nat
        OBVIOUS
    <2>1. x \in Seq(S) /\ y \in Seq(S) /\ z = x \o y
        BY <1>0, <2>0
    <2>2. Joins(z, S, x, y)
        BY <2>1, JoinIs
    <2>3. \A j \in 1 .. Len(x) : data[at + j] = x[j]
        BY <1>2
    <2>4. Len(x) \in Nat /\ Len(y) \in Nat
        BY <2>1
    <2>5. \A j \in 1 .. Len(y) : data[at + Len(x) + j] = y[j]
        BY DEF HasPieces
    <2> HIDE DEF x, y, z
    <2>6. ASSUME NEW j \in 1 .. Len(z)
          PROVE  data[at + j] = z[j]
        <3>1. Len(z) = Len(x) + Len(y)
            BY <2>2 DEF Joins
        <3>2. CASE j <= Len(x)
            <4>1. j \in 1 .. Len(x)
                BY <2>4, <3>1, <3>2
            <4>2. z[j] = x[j]
                BY <2>2, <4>1 DEF Joins
            <4>. QED
                BY <2>3, <4>1, <4>2
        <3>3. CASE ~(j <= Len(x))
            <4> DEFINE d == j - Len(x)
            <4>1. d \in 1 .. Len(y) /\ Len(x) + d = j /\ at + Len(x) + d = at + j
                BY <2>4, <3>1, <3>3
            <4> HIDE DEF d
            <4>2. z[Len(x) + d] = y[d]
                BY <2>2, <4>1 DEF Joins
            <4>3. data[at + Len(x) + d] = y[d]
                BY <2>5, <4>1
            <4>. QED
                BY <4>1, <4>2, <4>3
        <3>. QED
            BY <3>2, <3>3
    <2>. QED
        BY <2>0, <2>6 DEF z
<1>3. n \in P
    <2>1. n \in 0 .. n
        OBVIOUS
    <2> HIDE DEF P
    <2>. QED
        BY <1>1, <1>2, <2>1, UpTo
<1>. QED
    BY <1>3

-----------------------------------------------------------------------------
(***************************************************************************)
(* A word that is read has the digits of its bytes                         *)
(***************************************************************************)
LEMMA DivIs ==
    ASSUME NEW d \in Nat \ {0}, NEW k \in Nat, NEW s \in 0 .. d - 1
    PROVE  (d * k + s) \div d = k
<1> DEFINE v == d * k + s
           q == v \div d
           r == v % d
<1>1. v \in Nat
    OBVIOUS
<1>2. q \in Int /\ v = d * q + r
    BY <1>1
<1>3. r = s
    BY ModIs
<1>4. d * (q - k) = 0
    <2> HIDE DEF q, r
    <2>. QED
        BY <1>2, <1>3
<1> HIDE DEF q, r, v
<1>5. ASSUME q - k >= 1
      PROVE  FALSE
    <2>1. d * (q - k) >= d
        BY <1>2, <1>5
    <2>. QED
        BY <1>4, <2>1
<1>6. ASSUME q - k <= -1
      PROVE  FALSE
    <2>1. d * (q - k) <= -d
        BY <1>2, <1>6
    <2>. QED
        BY <1>4, <2>1
<1>7. q = k
    BY <1>2, <1>5, <1>6
<1>. QED
    BY <1>7 DEF q, v

\* One digit more is still below the next power.
LEMMA DigitBound ==
    ASSUME NEW p \in Nat \ {0}, NEW b \in Nat \ {0}, NEW g \in 0 .. p - 1, NEW x \in 0 .. b - 1
    PROVE  g + x * p \in 0 .. (b * p) - 1
<1>1. (x + 1) * p <= b * p
    BY Products
<1>2. (x + 1) * p = x * p + p /\ x * p \in Nat /\ b * p \in Nat
    BY Products
<1> DEFINE m == x * p
           n == b * p
<1>3. m \in Nat /\ n \in Nat /\ m + p <= n
    BY <1>1, <1>2
<1> HIDE DEF m, n
<1>4. g + m \in 0 .. n - 1
    BY <1>3
<1>. QED
    BY <1>4 DEF m, n

LEMMA WordBack ==
    ASSUME NEW bytes, NEW at \in Nat, \A i \in 1 .. WordBytes : bytes[at + i] \in Byte
    PROVE  /\ WordOf(bytes, at) \in GuestPtr
           /\ \A i \in 1 .. WordBytes :
                 LittleEndian(WordOf(bytes, at), WordBytes)[i] = bytes[at + i]
<1> DEFINE n == WordBytes
           v == WordOf(bytes, at)
<1>0. n \in Nat \ {0} /\ n \in 1 .. 2 * WordBytes
    BY Widths
<1>1. PICK g \in [0 .. n -> Nat] :
          /\ g[0] = 0
          /\ \A i \in 1 .. n : g[i] = g[i - 1] + bytes[at + i] * Power[i - 1]
          /\ v = g[n]
    BY WordDigits
<1>2. \A i \in 1 .. n : /\ Power[i - 1] \in Nat \ {0} /\ Power[i] = Base * Power[i - 1]
                        /\ bytes[at + i] \in 0 .. Base - 1
    <2>1. \A i \in 1 .. n : i - 1 \in 0 .. 2 * WordBytes /\ i \in 1 .. 2 * WordBytes
        BY Widths
    <2>. QED
        BY <2>1, PowerFacts DEF Byte
<1> HIDE DEF v
<1> DEFINE P == {i \in 0 .. n : g[i] \in 0 .. Power[i] - 1}
<1>3. 0 \in P
    BY <1>0, <1>1, PowerFacts
<1>4. ASSUME NEW i \in 1 .. n, i - 1 \in P
      PROVE  i \in P
    <2>1. g[i - 1] \in 0 .. Power[i - 1] - 1
        BY <1>4
    <2>2. g[i - 1] + bytes[at + i] * Power[i - 1] \in 0 .. (Base * Power[i - 1]) - 1
        BY <1>2, <2>1, DigitBound, Widths
    <2>3. g[i] \in 0 .. Power[i] - 1
        BY <1>1, <1>2, <2>2
    <2>. QED
        BY <2>3
<1>5. \A i \in 0 .. n : i \in P
    <2> HIDE DEF P
    <2>. QED
        BY <1>0, <1>3, <1>4, UpTo
<1>6. v \in 0 .. Power[n] - 1
    BY <1>0, <1>1, <1>5
<1>7. v \in GuestPtr
    BY <1>6, WordMaxFacts DEF WordMax
<1> DEFINE Rest(i) == \E r \in Nat : v = g[i] + Power[i] * r
           Q == {j \in 0 .. n : Rest(n - j)}
<1>8. 0 \in Q
    <2>1. n - 0 = n /\ 0 \in 0 .. n /\ Power[n] \in Nat
        BY <1>0, PowerFacts
    <2>2. v = g[n] + Power[n] * 0
        BY <1>1, <1>6, <2>1
    <2>. QED
        BY <2>1, <2>2
<1>9. ASSUME NEW i \in 1 .. n, Rest(i)
      PROVE  Rest(i - 1) /\ LittleEndian(v, n)[i] = bytes[at + i]
    <2> DEFINE p == Power[i - 1]
               x == bytes[at + i]
               y == g[i - 1]
    <2>1. PICK r \in Nat : v = g[i] + Power[i] * r
        BY <1>9
    <2>2. /\ p \in Nat \ {0} /\ Power[i] = Base * p /\ x \in 0 .. Base - 1
          /\ g[i] = y + x * p
        BY <1>1, <1>2
    <2>3. y \in 0 .. p - 1
        <3>1. i - 1 \in 0 .. n
            BY <1>0
        <3>. QED
            BY <1>5, <3>1
    <2> HIDE DEF p, x, y
    <2> DEFINE s == Base * r + x
    <2>4. s \in Nat
        BY <2>2, Widths
    <2>5. v = p * s + y
        <3>1. v = y + x * p + (Base * p) * r
            BY <2>1, <2>2
        <3>2. (Base * p) * r = p * (Base * r) /\ x * p = p * x
            BY <2>2, Widths
        <3>3. p * s = p * (Base * r) + p * x
            BY <2>2, Widths
        <3>. QED
            BY <2>2, <2>3, <3>1, <3>2, <3>3, Widths
    <2>6. s % Base = x
        BY <2>2, ModIs, Widths
    <2> HIDE DEF s
    <2>7. v \div p = s
        BY <2>2, <2>3, <2>4, <2>5, DivIs
    <2>8. LittleEndian(v, n)[i] = (v \div Power[i - 1]) % Base
        BY <1>0, <1>6, LittleEndianBytes
    <2>9. Rest(i - 1)
        <3>1. v = y + p * s
            BY <2>2, <2>3, <2>4, <2>5
        <3>. QED
            BY <2>4, <3>1, Zenon DEF p, y
    <2>. QED
        BY <2>6, <2>7, <2>8, <2>9 DEF p, x
<1>10. ASSUME NEW j \in 1 .. n, j - 1 \in Q
       PROVE  j \in Q
    <2> DEFINE i == n - (j - 1)
    <2>1. i \in 1 .. n /\ i - 1 = n - j /\ Rest(i)
        BY <1>0, <1>10
    <2> HIDE DEF i, Rest
    <2>2. Rest(i - 1)
        BY <1>9, <2>1
    <2>. QED
        BY <2>1, <2>2
<1>11. \A j \in 0 .. n : j \in Q
    <2> HIDE DEF Q
    <2>. QED
        BY <1>0, <1>8, <1>10, UpTo
<1>12. ASSUME NEW i \in 1 .. n
       PROVE  LittleEndian(v, n)[i] = bytes[at + i]
    <2>1. n - i \in 0 .. n /\ n - (n - i) = i
        BY <1>0
    <2>2. Rest(i)
        <3> HIDE DEF Rest
        <3>1. n - i \in Q
            BY <1>11, <2>1
        <3>2. Rest(n - (n - i))
            BY <3>1
        <3>. QED
            BY <2>1, <3>2
    <2>. QED
        BY <1>9, <2>2
<1>. QED
    BY <1>7, <1>12 DEF v

-----------------------------------------------------------------------------
(***************************************************************************)
(* The fields of an encoded map: their lengths are the words after the     *)
(* count, and each of them ends before a terminator.                       *)
(***************************************************************************)
HasLength(data, i, field) ==
    \A j \in 1 .. WordBytes : data[i * WordBytes + j] = LittleEndian(Len(field), WordBytes)[j]
HasField(data, field, from, to) ==
    /\ to = from + Len(field) + 1
    /\ \A j \in 1 .. Len(field) : data[from + j] = field[j]
    /\ data[to] = Terminator
FieldAt(data, i, field, from, to) ==
    /\ field \in Seq(Byte) /\ Len(field) <= WordMax
    /\ HasLength(data, i, field) /\ HasField(data, field, from, to)

Laid(data, fields, n, p) ==
    /\ p \in [0 .. n -> Nat]
    /\ p[0] = WordBytes + n * WordBytes /\ p[n] = Len(data)
    /\ \A i \in 1 .. n : FieldAt(data, i, fields[i], p[i - 1], p[i])

\* The bytes of the length table.
LEMMA TableBytes ==
    ASSUME NEW data \in Seq(Byte), NEW n \in Nat, WordBytes + n * WordBytes <= Len(data),
           NEW i \in 0 .. n
    PROVE  i * WordBytes \in Nat /\ \A j \in 1 .. WordBytes : data[i * WordBytes + j] \in Byte
<1> DEFINE at == i * WordBytes
           end == n * WordBytes
<1>1. at \in Nat /\ end \in Nat /\ at <= end
    BY Products, Widths
<1> HIDE DEF at, end
<1>2. \A j \in 1 .. WordBytes : at + j \in 1 .. Len(data)
    BY <1>1, Widths DEF end
<1>3. \A j \in 1 .. WordBytes : data[at + j] \in Byte
    BY <1>2
<1>. QED
    BY <1>1, <1>3 DEF at

\* Every field moves the place on.
LEMMA PlacesRise ==
    ASSUME NEW n \in Nat, NEW p \in [0 .. n -> Nat], \A i \in 1 .. n : p[i] > p[i - 1]
    PROVE  \A i \in 0 .. n : p[i] >= p[0] + i /\ p[i] <= p[n]
<1> DEFINE P == {i \in 0 .. n : p[i] >= p[0] + i /\ \A j \in 0 .. i : p[j] <= p[i]}
<1>0. \A i \in 0 .. n : p[i] \in Nat
    OBVIOUS
<1>1. 0 \in P
    BY <1>0
<1>2. ASSUME NEW i \in 1 .. n, i - 1 \in P
      PROVE  i \in P
    <2>1. i - 1 \in 0 .. n /\ i \in 0 .. n
        OBVIOUS
    <2>2. p[i - 1] >= p[0] + (i - 1) /\ \A j \in 0 .. i - 1 : p[j] <= p[i - 1]
        BY <1>2
    <2>3. p[i] >= p[0] + i
        BY <1>0, <2>1, <2>2
    <2>4. ASSUME NEW j \in 0 .. i
          PROVE  p[j] <= p[i]
        <3>1. CASE j = i
            BY <1>0, <2>1, <3>1
        <3>2. CASE j # i
            <4>1. j \in 0 .. i - 1 /\ j \in 0 .. n
                BY <3>2
            <4>2. p[j] <= p[i - 1]
                BY <2>2, <4>1
            <4>. QED
                BY <1>0, <2>1, <4>1, <4>2
        <3>. QED
            BY <3>1, <3>2
    <2>. QED
        BY <2>1, <2>3, <2>4
<1>3. \A i \in 0 .. n : i \in P
    <2> HIDE DEF P
    <2>. QED
        BY <1>1, <1>2, UpTo
<1>4. n \in P /\ \A i \in 0 .. n : i \in 0 .. n
    BY <1>3
<1>. QED
    BY <1>3, <1>4

\* The part of the bytes that a field is.
LEMMA FieldIs ==
    ASSUME NEW data \in Seq(Byte), NEW field \in Seq(Byte), NEW from \in Nat,
           from + Len(field) <= Len(data), \A j \in 1 .. Len(field) : data[from + j] = field[j]
    PROVE  SubSeq(data, from + 1, from + Len(field)) = field
<1> DEFINE l == Len(field)
           s == SubSeq(data, from + 1, from + l)
<1>0. l \in Nat /\ Len(data) \in Nat
    OBVIOUS
<1> HIDE DEF l
<1>1. \A i \in from + 1 .. from + l : i \in 1 .. Len(data)
    BY <1>0 DEF l
<1>2. \A i \in from + 1 .. from + l : data[i] \in Byte
    BY <1>1
<1>3. /\ s \in Seq(Byte)
      /\ Len(s) = IF from + 1 <= from + l THEN from + l - (from + 1) + 1 ELSE 0
      /\ \A i \in 1 .. from + l - (from + 1) + 1 : s[i] = data[from + 1 + i - 1]
    BY <1>0, <1>2, SubSeqProperties
<1> HIDE DEF s
<1>4. Len(s) = l
    BY <1>0, <1>3
<1>5. ASSUME NEW i \in 1 .. l
      PROVE  s[i] = field[i]
    <2>1. i \in 1 .. from + l - (from + 1) + 1 /\ from + 1 + i - 1 = from + i
        BY <1>0
    <2>. QED
        BY <1>3, <2>1 DEF l
<1>6. s = field
    BY <1>3, <1>4, <1>5, SeqEqual DEF l
<1>. QED
    BY <1>6 DEF s, l

\* A cursor that stands at a field takes it.
TookField(next, cursor, field, to) ==
    /\ next.pos = to /\ next.error = NoError
    /\ next.value = Append(cursor.value, field)

LEMMA TakeField ==
    ASSUME NEW data \in Seq(Byte), NEW cursor \in DecodeCursor, cursor.error = NoError,
           NEW i \in Nat, NEW field, NEW to \in Nat, FieldAt(data, i, field, cursor.pos, to),
           to <= Len(data), NEW truncated, i * WordBytes \in Nat
    PROVE  TookField(Take(data, cursor, WordOf(data, i * WordBytes), truncated), cursor, field, to)
<1> DEFINE from == cursor.pos
           l == Len(field)
           end == from + l
<1>0. from \in Nat /\ field \in Seq(Byte) /\ l \in Nat /\ Len(data) \in Nat /\ l <= WordMax
    BY DEF DecodeCursor, FieldAt
<1>1. WordOf(data, i * WordBytes) = l
    <2>1. l \in GuestPtr
        BY <1>0, WordMaxFacts
    <2>. QED
        BY <2>1, WordRoundTrip DEF FieldAt, HasLength
<1>2. /\ to = from + l + 1 /\ data[to] = Terminator
      /\ \A j \in 1 .. l : data[from + j] = field[j]
    BY DEF FieldAt, HasField
<1> HIDE DEF from, l
<1>3. end + 1 = to /\ ~(end >= Len(data)) /\ end <= Len(data)
    BY <1>0, <1>2
<1>4. SubSeq(data, from + 1, end) = field
    BY <1>0, <1>2, <1>3, FieldIs DEF l
<1>5. Take(data, cursor, l, truncated)
          = [cursor EXCEPT !.pos = end + 1, !.value = Append(cursor.value, field)]
    BY <1>2, <1>3, <1>4 DEF Take, from
<1> HIDE DEF end
<1>6. Take(data, cursor, l, truncated).pos = end + 1
      /\ Take(data, cursor, l, truncated).value = Append(cursor.value, field)
      /\ Take(data, cursor, l, truncated).error = cursor.error
    BY <1>5 DEF DecodeCursor
<1>. QED
    BY <1>1, <1>3, <1>6 DEF TookField

\* The first i fields have been taken.
TookFirst(cursor, fields, i, p) ==
    /\ cursor.pos = p[i] /\ cursor.error = NoError /\ Len(cursor.value) = i
    /\ \A j \in 1 .. i : cursor.value[j] = fields[j]

LEMMA TakeAllUp ==
    ASSUME NEW data \in Seq(Byte), NEW count \in Nat, NEW table_end \in Nat,
           table_end = WordBytes + (2 * count) * WordBytes, table_end <= Len(data),
           NEW g, Takes(g, data, count, table_end),
           NEW fields, NEW p, Laid(data, fields, 2 * count, p)
    PROVE  TookFirst(g[2 * count], fields, 2 * count, p)
<1> DEFINE n == 2 * count
           P == {i \in 0 .. n : TookFirst(g[i], fields, i, p)}
<1>0. n \in Nat
    OBVIOUS
<1>1. /\ p \in [0 .. n -> Nat] /\ p[0] = table_end /\ p[n] = Len(data)
      /\ \A i \in 1 .. n : FieldAt(data, i, fields[i], p[i - 1], p[i])
    BY DEF Laid
<1>2. /\ \A i \in 0 .. n : g[i] \in DecodeCursor
      /\ g[0] = Cursor(table_end)
      /\ \A i \in 1 .. n : \E t : g[i] = Take(data, g[i - 1], WordOf(data, i * WordBytes), t)
    BY Zenon DEF Takes
<1> HIDE DEF n
<1>3. \A i \in 0 .. n : p[i] <= Len(data)
    <2>1. ASSUME NEW i \in 1 .. n
          PROVE  p[i] > p[i - 1]
        <3>1. p[i - 1] \in Nat /\ p[i] \in Nat
            BY <1>0, <1>1
        <3>2. p[i] = p[i - 1] + Len(fields[i]) + 1 /\ fields[i] \in Seq(Byte)
            BY <1>1 DEF FieldAt, HasField
        <3>3. Len(fields[i]) \in Nat
            BY <3>2
        <3>. QED
            BY <3>1, <3>2, <3>3
    <2>. QED
        BY <1>0, <1>1, <2>1, PlacesRise
<1>4. 0 \in P
    BY <1>0, <1>1, <1>2 DEF Cursor, TookFirst
<1>5. ASSUME NEW i \in 1 .. n, i - 1 \in P
      PROVE  i \in P
    <2> DEFINE c == g[i - 1]
               d == g[i]
               field == fields[i]
    <2>0. i - 1 \in 0 .. n /\ i \in 0 .. n /\ i \in Nat /\ i * WordBytes \in Nat
        BY <1>0, Products, Widths
    <2>1. TookFirst(c, fields, i - 1, p) /\ c \in DecodeCursor
        BY <1>2, <1>5, <2>0
    <2>2. FieldAt(data, i, field, c.pos, p[i]) /\ p[i] \in Nat /\ p[i] <= Len(data)
        BY <1>1, <1>3, <2>0, <2>1 DEF TookFirst
    <2>3. PICK t : d = Take(data, c, WordOf(data, i * WordBytes), t)
        BY <1>2
    <2>4. c.error = NoError /\ Len(c.value) = i - 1 /\ \A j \in 1 .. i - 1 : c.value[j] = fields[j]
        BY <2>1 DEF TookFirst
    <2>5. c.value \in Seq(Seq(Byte)) /\ field \in Seq(Byte)
        BY <2>1, <2>2 DEF DecodeCursor, FieldAt
    <2> HIDE DEF c, d, field
    <2>6. TookField(d, c, field, p[i])
        BY <2>0, <2>1, <2>2, <2>3, <2>4, TakeField
    <2>7. d.pos = p[i] /\ d.error = NoError /\ d.value = Append(c.value, field)
        BY <2>6 DEF TookField
    <2>8. Len(d.value) = i /\ d.value[i] = field /\ \A j \in 1 .. i - 1 : d.value[j] = c.value[j]
        BY <2>0, <2>4, <2>5, <2>7
    <2>9. \A j \in 1 .. i : d.value[j] = fields[j]
        BY <2>0, <2>4, <2>8 DEF field
    <2>10. TookFirst(d, fields, i, p)
        BY <2>7, <2>8, <2>9 DEF TookFirst
    <2>. QED
        BY <2>0, <2>10 DEF d
<1>6. n \in P
    <2>1. n \in 0 .. n
        BY <1>0
    <2> HIDE DEF P
    <2>. QED
        BY <1>0, <1>4, <1>5, <2>1, UpTo
<1>. QED
    BY <1>6 DEF n

\* A cursor without an error took its last field.
FieldTaken(data, next, cursor, i) ==
    \E field : /\ FieldAt(data, i, field, cursor.pos, next.pos)
               /\ cursor.error = NoError /\ next.pos <= Len(data)
               /\ next.value = Append(cursor.value, field)

LEMMA TakeBack ==
    ASSUME NEW data \in Seq(Byte), NEW cursor \in DecodeCursor, NEW i \in Nat,
           i * WordBytes \in Nat, \A j \in 1 .. WordBytes : data[i * WordBytes + j] \in Byte,
           NEW truncated \in DecodeError, NEW next,
           next = Take(data, cursor, WordOf(data, i * WordBytes), truncated),
           next.error = NoError
    PROVE  FieldTaken(data, next, cursor, i)
<1> DEFINE len == WordOf(data, i * WordBytes)
           from == cursor.pos
           end == from + len
           field == SubSeq(data, from + 1, end)
<1>1. /\ len \in GuestPtr
      /\ \A j \in 1 .. WordBytes : LittleEndian(len, WordBytes)[j] = data[i * WordBytes + j]
    BY WordBack
<1>2. len \in Nat /\ len <= WordMax /\ from \in Nat /\ end \in Nat /\ Len(data) \in Nat
    BY <1>1, WordMaxFacts DEF DecodeCursor
<1> HIDE DEF len
<1>3. cursor.error = NoError
    BY DEF Take, len
<1>4. ~(end >= Len(data))
    <2>1. ASSUME end >= Len(data)
          PROVE  FALSE
        <3>1. next = [cursor EXCEPT !.error = truncated]
            BY <1>3, <2>1 DEF Take, len
        <3>2. next.error = truncated
            BY <3>1 DEF DecodeCursor
        <3>. QED
            BY <3>2 DEF DecodeError, NoError
    <2>. QED
        BY <2>1
<1>5. data[end + 1] = Terminator
    <2>1. ASSUME data[end + 1] # Terminator
          PROVE  FALSE
        <3>1. next = [cursor EXCEPT !.error = "MissingTerminator"]
            BY <1>3, <1>4, <2>1 DEF Take, len
        <3>2. next.error = "MissingTerminator"
            BY <3>1 DEF DecodeCursor
        <3>. QED
            BY <3>2 DEF NoError
    <2>. QED
        BY <2>1
<1>6. next.pos = end + 1 /\ next.value = Append(cursor.value, field)
    <2>1. next = [cursor EXCEPT !.pos = end + 1, !.value = Append(cursor.value, field)]
        BY <1>3, <1>4, <1>5 DEF Take, len
    <2>. QED
        BY <2>1 DEF DecodeCursor
<1> HIDE DEF from
<1>7. \A j \in from + 1 .. end : j \in 1 .. Len(data)
    BY <1>2, <1>4
<1>8. \A j \in from + 1 .. end : data[j] \in Byte
    BY <1>7
<1>9. /\ field \in Seq(Byte)
      /\ Len(field) = IF from + 1 <= end THEN end - (from + 1) + 1 ELSE 0
      /\ \A j \in 1 .. end - (from + 1) + 1 : field[j] = data[from + 1 + j - 1]
    BY <1>2, <1>8, SubSeqProperties
<1> HIDE DEF field
<1>10. Len(field) = len
    BY <1>2, <1>9
<1>11. \A j \in 1 .. len : data[from + j] = field[j]
    <2>1. ASSUME NEW j \in 1 .. len
          PROVE  j \in 1 .. end - (from + 1) + 1 /\ from + 1 + j - 1 = from + j
        BY <1>2
    <2>. QED
        BY <1>9, <2>1
<1>12. HasField(data, field, from, end + 1)
    BY <1>2, <1>5, <1>10, <1>11 DEF HasField
<1>13. HasLength(data, i, field)
    BY <1>1, <1>10 DEF HasLength
<1>14. FieldAt(data, i, field, cursor.pos, next.pos)
    BY <1>2, <1>6, <1>9, <1>10, <1>12, <1>13 DEF FieldAt, from
<1>15. next.pos <= Len(data)
    BY <1>2, <1>4, <1>6
<1>. QED
    BY <1>3, <1>6, <1>14, <1>15 DEF FieldTaken

\* The places where the fields end.
FieldEnds(g, n) == [i \in 0 .. n |-> g[i].pos]

LEMMA TakeAllDown ==
    ASSUME NEW data \in Seq(Byte), NEW count \in Nat, NEW table_end \in Nat,
           table_end = WordBytes + (2 * count) * WordBytes, table_end <= Len(data),
           NEW g, Takes(g, data, count, table_end), g[2 * count].error = NoError
    PROVE  /\ Len(g[2 * count].value) = 2 * count
           /\ g[2 * count].pos = Len(data) =>
                 Laid(data, g[2 * count].value, 2 * count, FieldEnds(g, 2 * count))
<1> DEFINE n == 2 * count
           Q == {j \in 0 .. n : g[n - j].error = NoError}
           Taken(i) == /\ Len(g[i].value) = i
                      /\ \A j \in 1 .. i :
                            FieldAt(data, j, g[i].value[j], g[j - 1].pos, g[j].pos)
           R == {i \in 0 .. n : Taken(i)}
<1>0. n \in Nat
    OBVIOUS
<1>1. /\ \A i \in 0 .. n : g[i] \in DecodeCursor
      /\ g[0] = Cursor(table_end)
    BY DEF Takes
<1>2. ASSUME NEW i \in 1 .. n
      PROVE  \E t \in DecodeError : g[i] = Take(data, g[i - 1], WordOf(data, i * WordBytes), t)
    <2>1. "TruncatedKey" \in DecodeError /\ "TruncatedValue" \in DecodeError
        BY DEF DecodeError
    <2>2. g[i] = Take(data, g[i - 1], WordOf(data, i * WordBytes),
                      IF i % 2 = 1 THEN "TruncatedKey" ELSE "TruncatedValue")
        BY DEF Takes
    <2>. QED
        BY <2>1, <2>2, Zenon
<1> HIDE DEF n
<1>3. ASSUME NEW i \in 1 .. n, g[i].error = NoError
      PROVE  FieldTaken(data, g[i], g[i - 1], i)
    <2>1. i \in 0 .. n /\ i \in Nat /\ i - 1 \in 0 .. n
        BY <1>0
    <2>2. i * WordBytes \in Nat /\ \A j \in 1 .. WordBytes : data[i * WordBytes + j] \in Byte
        BY <1>0, <2>1, TableBytes DEF n
    <2>3. g[i - 1] \in DecodeCursor
        BY <1>1, <2>1
    <2>. QED
        BY <1>2, <1>3, <2>1, <2>2, <2>3, TakeBack
<1>4. 0 \in Q
    BY <1>0 DEF n
<1>5. ASSUME NEW j \in 1 .. n, j - 1 \in Q
      PROVE  j \in Q
    <2> DEFINE i == n - (j - 1)
    <2>1. i \in 1 .. n /\ i - 1 = n - j
        BY <1>0
    <2>2. g[i].error = NoError
        BY <1>5
    <2> HIDE DEF i
    <2>3. g[i - 1].error = NoError
        BY <1>3, <2>1, <2>2 DEF FieldTaken
    <2>. QED
        BY <2>1, <2>3
<1>6. \A j \in 0 .. n : j \in Q
    <2> HIDE DEF Q
    <2>. QED
        BY <1>0, <1>4, <1>5, UpTo
<1>7. \A i \in 1 .. n : FieldTaken(data, g[i], g[i - 1], i)
    <2>1. ASSUME NEW i \in 1 .. n
          PROVE  g[i].error = NoError
        <3>1. n - i \in 0 .. n /\ n - (n - i) = i
            BY <1>0
        <3>2. g[n - (n - i)].error = NoError
            BY <1>6, <3>1
        <3>. QED
            BY <3>1, <3>2
    <2>. QED
        BY <1>3, <2>1
<1>8. 0 \in R
    BY <1>0, <1>1 DEF Cursor
<1>9. ASSUME NEW i \in 1 .. n, i - 1 \in R
      PROVE  i \in R
    <2> DEFINE x == g[i - 1].value
               y == g[i].value
    <2>0. i \in 0 .. n /\ i \in Nat /\ i - 1 \in 0 .. n
        BY <1>0
    <2>1. /\ Len(x) = i - 1
          /\ \A j \in 1 .. i - 1 : FieldAt(data, j, x[j], g[j - 1].pos, g[j].pos)
        BY <1>9
    <2>2. PICK field : FieldAt(data, i, field, g[i - 1].pos, g[i].pos) /\ y = Append(x, field)
        BY <1>7 DEF FieldTaken
    <2>3. x \in Seq(Seq(Byte))
        BY <1>1, <2>0 DEF DecodeCursor
    <2> HIDE DEF x, y
    <2>4. field \in Seq(Byte)
        BY <2>2 DEF FieldAt
    <2>5. Len(y) = i /\ y[i] = field /\ \A j \in 1 .. i - 1 : y[j] = x[j]
        BY <2>0, <2>1, <2>2, <2>3, <2>4
    <2>6. ASSUME NEW j \in 1 .. i
          PROVE  FieldAt(data, j, y[j], g[j - 1].pos, g[j].pos)
        <3>1. j = i \/ j \in 1 .. i - 1
            BY <2>0
        <3>2. CASE j = i
            BY <2>2, <2>5, <3>2
        <3>3. CASE j \in 1 .. i - 1
            BY <2>1, <2>5, <3>3
        <3>. QED
            BY <3>1, <3>2, <3>3
    <2>. QED
        BY <2>0, <2>5, <2>6 DEF y
<1>10. n \in R
    <2>1. n \in 0 .. n
        BY <1>0
    <2> HIDE DEF R
    <2>. QED
        BY <1>0, <1>8, <1>9, <2>1, UpTo
<1>11. Taken(n)
    BY <1>10
<1> DEFINE fields == g[n].value
           p == FieldEnds(g, n)
<1>12. ASSUME g[n].pos = Len(data)
       PROVE  Laid(data, fields, n, p)
    <2>1. \A i \in 0 .. n : p[i] = g[i].pos /\ p[i] \in Nat
        BY <1>1 DEF FieldEnds, DecodeCursor
    <2>2. p \in [0 .. n -> Nat]
        BY <2>1 DEF FieldEnds
    <2>3. p[0] = WordBytes + n * WordBytes /\ p[n] = Len(data)
        BY <1>0, <1>1, <1>12, <2>1 DEF Cursor, n
    <2> HIDE DEF p
    <2>4. ASSUME NEW i \in 1 .. n
          PROVE  FieldAt(data, i, fields[i], p[i - 1], p[i])
        <3>1. p[i - 1] = g[i - 1].pos /\ p[i] = g[i].pos
            BY <1>0, <2>1
        <3>2. FieldAt(data, i, g[n].value[i], g[i - 1].pos, g[i].pos)
            BY <1>11
        <3>. QED
            BY <3>1, <3>2
    <2>. QED
        BY <2>2, <2>3, <2>4 DEF Laid
<1>. QED
    BY <1>11, <1>12 DEF n

-----------------------------------------------------------------------------
(***************************************************************************)
(* A map that is laid out in bytes is what they decode to, and no other    *)
(***************************************************************************)
\* The count of the pairs is the first word.
Counted(data, count) ==
    \A j \in 1 .. WordBytes : data[0 + j] = LittleEndian(count, WordBytes)[j]
IsFields(fields, map) ==
    \A k \in 1 .. Len(map) : map[k] = <<fields[2 * k - 1], fields[2 * k]>>

\* The encoding of a map that is not empty.
Encodes(data, map) ==
    /\ Len(map) \in 1 .. WordMax /\ Counted(data, Len(map))
    /\ \E fields, p : Laid(data, fields, 2 * Len(map), p) /\ IsFields(fields, map)

LEMMA TableEnd ==
    ASSUME NEW count \in Nat
    PROVE  /\ count * 2 * WordBytes = (2 * count) * WordBytes
           /\ 2 * WordBytes * count = (2 * count) * WordBytes
           /\ (2 * count) * WordBytes \in Nat
           /\ count >= 1 => (2 * count) * WordBytes >= 2
<1>1. count * 2 * WordBytes = (2 * count) * WordBytes /\ 2 * WordBytes * count = (2 * count) * WordBytes
    BY Widths
<1>2. (2 * count) * WordBytes \in Nat
    BY Products, Widths
<1>3. ASSUME count >= 1
      PROVE  (2 * count) * WordBytes >= 2
    <2>1. 2 * WordBytes <= (2 * count) * WordBytes
        BY <1>3, Products, Widths
    <2>. QED
        BY <1>2, <2>1, Widths
<1>. QED
    BY <1>1, <1>2, <1>3

LEMMA LaidLong ==
    ASSUME NEW data \in Seq(Byte), NEW n \in Nat, NEW fields, NEW p, Laid(data, fields, n, p)
    PROVE  Len(data) >= WordBytes + n * WordBytes + n
<1>1. /\ p \in [0 .. n -> Nat] /\ p[0] = WordBytes + n * WordBytes /\ p[n] = Len(data)
      /\ \A i \in 1 .. n : FieldAt(data, i, fields[i], p[i - 1], p[i])
    BY DEF Laid
<1>2. ASSUME NEW i \in 1 .. n
      PROVE  p[i] > p[i - 1]
    <2>1. p[i - 1] \in Nat /\ p[i] \in Nat
        BY <1>1
    <2>2. p[i] = p[i - 1] + Len(fields[i]) + 1 /\ fields[i] \in Seq(Byte)
        BY <1>1 DEF FieldAt, HasField
    <2>3. Len(fields[i]) \in Nat
        BY <2>2
    <2>. QED
        BY <2>1, <2>2, <2>3
<1>3. p[n] >= p[0] + n
    <2>1. n \in 0 .. n
        OBVIOUS
    <2>. QED
        BY <1>1, <1>2, <2>1, PlacesRise
<1>. QED
    BY <1>1, <1>3

\* The decoder finds the map in its encoding.
LEMMA DecodeUp ==
    ASSUME NEW data \in Seq(Byte), NEW map \in Seq(Pair), Encodes(data, map)
    PROVE  DecodePairs(data, Unlimited) = Decoded(map)
<1> DEFINE count == Len(map)
           n == 2 * count
           table == n * WordBytes
           table_end == WordBytes + table
<1>1. PICK fields, p : Laid(data, fields, n, p) /\ IsFields(fields, map)
    BY DEF Encodes
<1>2. count \in Nat /\ count >= 1 /\ count <= WordMax /\ n \in Nat /\ count \in GuestPtr
    BY WordMaxFacts DEF Encodes
<1>3. table \in Nat /\ table >= 2 /\ count * 2 * WordBytes = table
    BY <1>2, TableEnd
<1>4. Len(data) >= table_end + n
    <2>1. Len(data) >= WordBytes + n * WordBytes + n
        BY <1>1, <1>2, LaidLong
    <2>. QED
        BY <2>1
<1>5. WordOf(data, 0) = count
    BY <1>2, WordRoundTrip DEF Encodes, Counted
<1>6. p[n] = Len(data)
    BY <1>1 DEF Laid
<1>7. IsFields(fields, map)
    BY <1>1
<1>8. map = [k \in 1 .. count |-> map[k]]
    OBVIOUS
<1>80. Len(data) \in Nat
    OBVIOUS
<1>9. table_end = WordBytes + (2 * count) * WordBytes
    OBVIOUS
<1>10. Laid(data, fields, 2 * count, p)
    BY <1>1
<1> HIDE DEF count, table
<1>11. table_end \in Nat /\ table_end <= Len(data) /\ ~(Len(data) < WordBytes)
    BY <1>2, <1>3, <1>4, <1>80, Widths
<1>12. data \notin {<<>>, <<Terminator>>}
    <2>1. Len(<<>>) = 0 /\ Len(<<Terminator>>) = 1
        OBVIOUS
    <2>2. Len(data) > 1
        <3>1. WordBytes \in Nat /\ WordBytes >= 1
            BY Widths
        <3>. QED
            BY <1>2, <1>3, <1>4, <1>80, <3>1
    <2>3. \A l \in Nat : l > 1 => l # 0 /\ l # 1
        OBVIOUS
    <2>4. Len(data) # 0 /\ Len(data) # 1
        BY <1>80, <2>2, <2>3, Zenon
    <2>. QED
        BY <2>1, <2>4, Zenon
<1> DEFINE cursor == TakeAll(data, count, table_end)
<1>13. TookFirst(cursor, fields, n, p)
    <2>1. WordBytes + count * 2 * WordBytes = table_end
        BY <1>3
    <2> HIDE DEF table_end
    <2>2. PICK g : Takes(g, data, count, table_end) /\ cursor = g[2 * count]
        BY <1>2, <1>11, <2>1, TakeAllIs
    <2>3. TookFirst(g[2 * count], fields, 2 * count, p)
        BY <1>2, <1>9, <1>10, <1>11, <2>2, TakeAllUp
    <2>. QED
        BY <2>2, <2>3
<1>14. DecodePairs(data, Unlimited) = Finish(data, cursor)
    <2> HIDE DEF cursor
    <2>1. \A x : ~Exceeds(x, NoLimit)
        BY DEF Exceeds
    <2>2. Unlimited.pairs = NoLimit /\ Unlimited.bytes = NoLimit
        BY DEF Unlimited
    <2>3. ~(table_end > Len(data))
        BY <1>80, <1>11
    <2>4. table_end = WordBytes + count * 2 * WordBytes
        BY <1>3
    <2> HIDE DEF table_end
    <2>. QED
        BY <1>5, <1>11, <1>12, <2>1, <2>2, <2>3, <2>4 DEF DecodePairs, cursor
<1> HIDE DEF cursor
<1>15. /\ cursor.error = NoError /\ cursor.pos = Len(data) /\ Len(cursor.value) = n
       /\ \A j \in 1 .. n : cursor.value[j] = fields[j]
    BY <1>6, <1>13 DEF TookFirst
<1>16. n \div 2 = count
    BY <1>2
<1>17. \A k \in 1 .. count : <<cursor.value[2 * k - 1], cursor.value[2 * k]>> = map[k]
    <2>1. ASSUME NEW k \in 1 .. count
          PROVE  2 * k - 1 \in 1 .. n /\ 2 * k \in 1 .. n
        BY <1>2
    <2>2. \A k \in 1 .. count : map[k] = <<fields[2 * k - 1], fields[2 * k]>>
        BY <1>7 DEF IsFields, count
    <2>. QED
        BY <1>15, <2>1, <2>2
<1>18. [k \in 1 .. Len(cursor.value) \div 2 |->
           <<cursor.value[2 * k - 1], cursor.value[2 * k]>>] = map
    BY <1>8, <1>15, <1>16, <1>17
<1>19. Finish(data, cursor) = Decoded(map)
    BY <1>15, <1>18 DEF Finish, FinishAnywhere
<1>. QED
    BY <1>14, <1>19

LEMMA FinishDown ==
    ASSUME NEW data \in Seq(Byte), NEW count \in Nat, NEW table_end \in Nat,
           table_end = WordBytes + (2 * count) * WordBytes, table_end <= Len(data),
           NEW result, result = Finish(data, TakeAll(data, count, table_end)),
           result.error = NoError
    PROVE  /\ Len(result.value) = count /\ result = Decoded(result.value)
           /\ \E fields, p : Laid(data, fields, 2 * count, p) /\ IsFields(fields, result.value)
<1> DEFINE n == 2 * count
           cursor == TakeAll(data, count, table_end)
           fields == cursor.value
           pairs == [i \in 1 .. Len(fields) \div 2 |-> <<fields[2 * i - 1], fields[2 * i]>>]
<1>1. PICK g : Takes(g, data, count, table_end) /\ cursor = g[n]
    <2>1. table_end = WordBytes + count * 2 * WordBytes
        BY TableEnd
    <2>. QED
        BY <2>1, TakeAllIs
<1>2. cursor.error = NoError /\ cursor.pos = Len(data) /\ result = Decoded(pairs)
    <2>1. CASE cursor.error # NoError
        <3>1. result = Failed(cursor.error)
            BY <2>1 DEF Finish, FinishAnywhere
        <3> HIDE DEF cursor
        <3>. QED
            BY <2>1, <3>1 DEF Failed
    <2>2. CASE cursor.error = NoError /\ cursor.pos # Len(data)
        <3>1. result = Failed("TrailingBytes")
            BY <2>2 DEF Finish
        <3>. QED
            BY <3>1 DEF Failed, NoError
    <2>3. CASE cursor.error = NoError /\ cursor.pos = Len(data)
        <3>1. result = Decoded(pairs)
            BY <2>3 DEF Finish, FinishAnywhere
        <3>. QED
            BY <2>3, <3>1
    <2>. QED
        BY <2>1, <2>2, <2>3
<1> HIDE DEF cursor
<1>3. Len(fields) = n /\ Laid(data, fields, n, FieldEnds(g, n))
    <2>1. g[2 * count].error = NoError /\ g[2 * count].pos = Len(data)
        BY <1>1, <1>2
    <2>. QED
        BY <1>1, <2>1, TakeAllDown
<1>4. n \div 2 = count
    OBVIOUS
<1>5. pairs = [i \in 1 .. count |-> <<fields[2 * i - 1], fields[2 * i]>>]
    BY <1>3, <1>4
<1> HIDE DEF fields, pairs
<1>6. Len(pairs) = count /\ \A k \in 1 .. count : pairs[k] = <<fields[2 * k - 1], fields[2 * k]>>
    BY <1>5
<1>7. result.value = pairs
    BY <1>2 DEF Decoded
<1>8. IsFields(fields, pairs)
    BY <1>6 DEF IsFields
<1>. QED
    BY <1>2, <1>3, <1>6, <1>7, <1>8 DEF fields

\* What a decode without an error has found.
LEMMA DecodeDown ==
    ASSUME NEW data \in Seq(Byte), NEW limits, DecodePairs(data, limits).error = NoError
    PROVE  LET map == DecodePairs(data, limits).value
               count == WordOf(data, 0)
           IN  /\ DecodePairs(data, limits) = Decoded(map)
               /\ ~Exceeds(Len(data), limits.bytes)
               /\ map # <<>> => /\ ~Exceeds(Len(map), limits.pairs)
                                /\ Encodes(data, map) /\ Len(map) = count
                                /\ Len(data) >= WordBytes + 2 * WordBytes * count + 2 * count
               /\ map = <<>> => \A i \in 1 .. Len(data) : data[i] = Terminator
<1> DEFINE result == DecodePairs(data, limits)
           map == result.value
           count == WordOf(data, 0)
           table_end == WordBytes + count * 2 * WordBytes
<1>0. /\ \A e : Failed(e).error = e
      /\ Decoded(<<>>).value = <<>>
    BY DEF Failed, Decoded
<1>00. NoError \notin {"ByteLimit", "TruncatedCount", "PairLimit", "TruncatedLengths"}
    BY DEF NoError
<1>1. ~Exceeds(Len(data), limits.bytes)
    BY <1>0, <1>00 DEF DecodePairs
<1>2. CASE data \in {<<>>, <<Terminator>>}
    <2>1. result = Decoded(<<>>)
        BY <1>1, <1>2 DEF DecodePairs
    <2>2. \A i \in 1 .. Len(data) : data[i] = Terminator
        BY <1>2
    <2> HIDE DEF result
    <2>. QED
        BY <1>0, <1>1, <2>1, <2>2 DEF result
<1>3. CASE data \notin {<<>>, <<Terminator>>}
    <2>1. ~(Len(data) < WordBytes)
        BY <1>0, <1>00, <1>1, <1>3 DEF DecodePairs
    <2>2. ~Exceeds(count, limits.pairs)
        BY <1>0, <1>00, <1>1, <1>3, <2>1 DEF DecodePairs
    <2>3. ~(table_end > Len(data))
        BY <1>0, <1>00, <1>1, <1>3, <2>1, <2>2 DEF DecodePairs
    <2>4. result = Finish(data, TakeAll(data, count, table_end))
        BY <1>1, <1>3, <2>1, <2>2, <2>3 DEF DecodePairs
    <2>5. result.error = NoError
        OBVIOUS
    <2> HIDE DEF result
    <2>6. \A i \in 1 .. WordBytes : data[0 + i] \in Byte
        <3>1. \A i \in 1 .. WordBytes : 0 + i \in 1 .. Len(data)
            BY <2>1, Widths
        <3>. QED
            BY <3>1
    <2>7. /\ count \in GuestPtr
          /\ \A i \in 1 .. WordBytes : LittleEndian(count, WordBytes)[i] = data[0 + i]
        BY <2>6, WordBack
    <2> HIDE DEF count
    <2>8. count \in Nat /\ count <= WordMax
        BY <2>7, WordMaxFacts
    <2>9. /\ table_end \in Nat /\ table_end = WordBytes + (2 * count) * WordBytes
          /\ table_end <= Len(data)
        <3>1. count * 2 * WordBytes = (2 * count) * WordBytes /\ (2 * count) * WordBytes \in Nat
            BY <2>8, TableEnd
        <3> DEFINE table == (2 * count) * WordBytes
        <3>2. table_end = WordBytes + table /\ table \in Nat
            BY <3>1
        <3> HIDE DEF table
        <3>3. table_end \in Nat /\ Len(data) \in Nat
            BY <3>2, Widths
        <3>. QED
            BY <2>3, <3>2, <3>3 DEF table
    <2> HIDE DEF table_end
    <2>10. /\ Len(map) = count /\ result = Decoded(map)
           /\ \E fields, p : Laid(data, fields, 2 * count, p) /\ IsFields(fields, map)
        BY <2>4, <2>5, <2>8, <2>9, FinishDown
    <2>11. PICK fields, p : Laid(data, fields, 2 * count, p) /\ IsFields(fields, map)
        BY <2>10
    <2>12. Counted(data, count)
        BY <2>7 DEF Counted
    <2>13. Len(data) >= WordBytes + 2 * WordBytes * count + 2 * count
        <3>1. 2 * count \in Nat /\ 2 * WordBytes * count = (2 * count) * WordBytes
            BY <2>8, TableEnd
        <3>2. Len(data) >= WordBytes + (2 * count) * WordBytes + 2 * count
            BY <2>11, <3>1, LaidLong
        <3>. QED
            BY <3>1, <3>2
    <2>14. ASSUME map # <<>>
           PROVE  Encodes(data, map)
        <3>1. count # 0
            <4>1. Len(map) # 0
                BY <2>10, <2>14 
            <4>. QED
                BY <2>10, <4>1
        <3>2. count \in 1 .. WordMax
            BY <2>8, <3>1, WordMaxFacts
        <3>. QED
            BY <2>10, <2>11, <2>12, <3>2 DEF Encodes
    <2>15. ASSUME map = <<>>
           PROVE  \A i \in 1 .. Len(data) : data[i] = Terminator
        <3>1. count = 0
            BY <2>10, <2>15
        <3>2. Len(data) = WordBytes
            <4>1. p[0] = WordBytes + 0 * WordBytes /\ p[0] = Len(data)
                BY <2>11, <3>1 DEF Laid
            <4>. QED
                BY <4>1, Widths
        <3>3. ASSUME NEW i \in 1 .. WordBytes
              PROVE  data[i] = Terminator
            <4>1. LittleEndian(count, WordBytes)[i] = (0 \div Power[i - 1]) % Base
                BY <3>1, LittleEndianBytes, Widths
            <4>2. 0 \div Power[i - 1] = 0
                <5>1. i - 1 \in 0 .. 2 * WordBytes
                    BY Widths
                <5>2. Power[i - 1] \in Nat \ {0}
                    BY <5>1, PowerFacts
                <5>3. (Power[i - 1] * 0 + 0) \div Power[i - 1] = 0
                    <6>1. 0 \in 0 .. Power[i - 1] - 1
                        BY <5>2
                    <6>. QED
                        BY <5>2, <6>1, DivIs
                <5>4. Power[i - 1] * 0 + 0 = 0
                    BY <5>2
                <5>. QED
                    BY <5>3, <5>4
            <4>3. 0 % Base = 0
                BY Widths
            <4>4. 0 + i = i
                BY Widths
            <4>. QED
                BY <2>7, <4>1, <4>2, <4>3, <4>4 DEF Terminator
        <3>. QED
            BY <3>2, <3>3
    <2>. QED
        BY <1>1, <2>2, <2>10, <2>13, <2>14, <2>15 DEF result, count
<1>. QED
    BY <1>2, <1>3

-----------------------------------------------------------------------------
(***************************************************************************)
(* The encoding of a map, piece by piece                                   *)
(***************************************************************************)
TablePiece(pair) ==
    LittleEndian(Len(pair[1]), WordBytes) \o LittleEndian(Len(pair[2]), WordBytes)
DataPiece(pair) == Append(pair[1], Terminator) \o Append(pair[2], Terminator)
TablePieces(map) == [i \in 1 .. Len(map) |-> TablePiece(map[i])]
DataPieces(map) == [i \in 1 .. Len(map) |-> DataPiece(map[i])]

LEMMA TablePieceIs ==
    ASSUME NEW pair \in Pair
    PROVE  /\ TablePiece(pair) \in Seq(Byte) /\ Len(TablePiece(pair)) = 2 * WordBytes
           /\ \A j \in 1 .. WordBytes :
                 /\ TablePiece(pair)[j] = LittleEndian(Len(pair[1]), WordBytes)[j]
                 /\ TablePiece(pair)[WordBytes + j] = LittleEndian(Len(pair[2]), WordBytes)[j]
<1> DEFINE x == LittleEndian(Len(pair[1]), WordBytes)
           y == LittleEndian(Len(pair[2]), WordBytes)
<1>1. pair[1] \in Seq(Byte) /\ pair[2] \in Seq(Byte)
    BY PairFacts
<1>2. x \in Seq(Byte) /\ y \in Seq(Byte) /\ Len(x) = WordBytes /\ Len(y) = WordBytes
    <2>1. Len(pair[1]) \in Nat /\ Len(pair[2]) \in Nat /\ WordBytes \in 1 .. 2 * WordBytes
        BY <1>1, Widths
    <2>. QED
        BY <2>1, LittleEndianBytes
<1>3. TablePiece(pair) = x \o y
    BY DEF TablePiece
<1> HIDE DEF x, y
<1>4. Joins(x \o y, Byte, x, y)
    BY <1>2, JoinIs
<1>5. \A j \in 1 .. WordBytes : (x \o y)[j] = x[j] /\ (x \o y)[WordBytes + j] = y[j]
    BY <1>2, <1>4 DEF Joins
<1>6. Len(x \o y) = 2 * WordBytes /\ x \o y \in Seq(Byte)
    BY <1>2, <1>4, Widths DEF Joins
<1>. QED
    BY <1>3, <1>5, <1>6 DEF x, y

LEMMA DataPieceIs ==
    ASSUME NEW pair \in Pair
    PROVE  /\ DataPiece(pair) \in Seq(Byte)
           /\ Len(pair[1]) \in Nat /\ Len(pair[2]) \in Nat
           /\ Len(DataPiece(pair)) = Len(pair[1]) + 1 + Len(pair[2]) + 1
           /\ \A j \in 1 .. Len(pair[1]) : DataPiece(pair)[j] = pair[1][j]
           /\ DataPiece(pair)[Len(pair[1]) + 1] = Terminator
           /\ \A j \in 1 .. Len(pair[2]) : DataPiece(pair)[Len(pair[1]) + 1 + j] = pair[2][j]
           /\ DataPiece(pair)[Len(pair[1]) + 1 + Len(pair[2]) + 1] = Terminator
<1> DEFINE k == pair[1]
           v == pair[2]
           x == Append(k, Terminator)
           y == Append(v, Terminator)
           a == Len(k)
           b == Len(v)
<1>1. k \in Seq(Byte) /\ v \in Seq(Byte) /\ Terminator \in Byte
    BY PairFacts, Widths DEF Terminator
<1> HIDE DEF k, v
<1>2. /\ x \in Seq(Byte) /\ y \in Seq(Byte) /\ Len(x) = a + 1 /\ Len(y) = b + 1
      /\ \A j \in 1 .. a : x[j] = k[j]
      /\ \A j \in 1 .. b : y[j] = v[j]
      /\ x[a + 1] = Terminator /\ y[b + 1] = Terminator
      /\ a \in Nat /\ b \in Nat
    BY <1>1
<1> DEFINE z == x \o y
<1>3. DataPiece(pair) = z
    BY DEF DataPiece, k, v
<1> HIDE DEF x, y, a, b
<1>4. Joins(z, Byte, x, y)
    BY <1>2, JoinIs
<1> HIDE DEF z
<1>5. /\ z \in Seq(Byte) /\ Len(z) = a + 1 + b + 1
      /\ \A j \in 1 .. a + 1 : z[j] = x[j]
      /\ \A j \in 1 .. b + 1 : z[a + 1 + j] = y[j]
    BY <1>2, <1>4 DEF Joins
<1>6. \A j \in 1 .. a : z[j] = k[j]
    BY <1>2, <1>5
<1>7. z[a + 1] = Terminator
    BY <1>2, <1>5
<1>8. \A j \in 1 .. b : z[a + 1 + j] = v[j]
    BY <1>2, <1>5
<1>9. z[a + 1 + b + 1] = Terminator
    <2>1. b + 1 \in 1 .. b + 1 /\ a + 1 + (b + 1) = a + 1 + b + 1
        BY <1>2
    <2>. QED
        BY <1>2, <1>5, <2>1
<1>. QED
    BY <1>2, <1>3, <1>5, <1>6, <1>7, <1>8, <1>9 DEF a, b, k, v

LEMMA PiecesTyped ==
    ASSUME NEW map \in Seq(Pair)
    PROVE  /\ TablePieces(map) \in Seq(Seq(Byte)) /\ Len(TablePieces(map)) = Len(map)
           /\ Typed(TablePieces(map), Len(map), Seq(Byte))
           /\ \A i \in 1 .. Len(map) : TablePieces(map)[i] = TablePiece(map[i])
           /\ DataPieces(map) \in Seq(Seq(Byte)) /\ Len(DataPieces(map)) = Len(map)
           /\ Typed(DataPieces(map), Len(map), Seq(Byte))
           /\ \A i \in 1 .. Len(map) : DataPieces(map)[i] = DataPiece(map[i])
           /\ LengthTable(map) = FlattenSeq(TablePieces(map))
           /\ DataSection(map, Len(map)) = FlattenSeq(DataPieces(map))
<1>1. Len(map) \in Nat /\ DOMAIN map = 1 .. Len(map)
    BY MapTyped
<1>2. \A i \in 1 .. Len(map) : TablePiece(map[i]) \in Seq(Byte) /\ DataPiece(map[i]) \in Seq(Byte)
    BY MapTyped, TablePieceIs, DataPieceIs
<1>3. LengthTable(map) = FlattenSeq(TablePieces(map))
    BY <1>1 DEF LengthTable, TablePieces, TablePiece
<1>4. DataSection(map, Len(map)) = FlattenSeq(DataPieces(map))
    <2>1. ~(Len(map) < Len(map))
        BY <1>1
    <2>. QED
        BY <2>1 DEF DataSection, DataPieces, DataPiece
<1>5. /\ TablePieces(map) \in Seq(Seq(Byte)) /\ Len(TablePieces(map)) = Len(map)
      /\ \A i \in 1 .. Len(map) : TablePieces(map)[i] = TablePiece(map[i])
    BY <1>1, <1>2 DEF TablePieces
<1>6. /\ DataPieces(map) \in Seq(Seq(Byte)) /\ Len(DataPieces(map)) = Len(map)
      /\ \A i \in 1 .. Len(map) : DataPieces(map)[i] = DataPiece(map[i])
    BY <1>1, <1>2 DEF DataPieces
<1>. QED
    BY <1>2, <1>3, <1>4, <1>5, <1>6 DEF Typed

\* The encoding of a map that has one.
Encoding(map) ==
    LittleEndian(Len(map), WordBytes) \o LengthTable(map) \o DataSection(map, Len(map))

\* The chains behind an encoding.
Chains(t, d, map) ==
    /\ ChainOf(t, TablePieces(map), Len(map), Byte)
    /\ ChainOf(d, DataPieces(map), Len(map), Byte)
    /\ LengthTable(map) = t[Len(map)] /\ DataSection(map, Len(map)) = d[Len(map)]

LEMMA ChainsExist ==
    ASSUME NEW map \in Seq(Pair)
    PROVE  \E t, d : Chains(t, d, map)
<1>1. PICK t : ChainOf(t, TablePieces(map), Len(map), Byte) /\ FlattenSeq(TablePieces(map)) = t[Len(map)]
    <2> DEFINE pieces == TablePieces(map)
    <2>1. pieces \in Seq(Seq(Byte)) /\ Len(pieces) = Len(map)
        BY PiecesTyped
    <2> HIDE DEF pieces
    <2>2. PICK t : ChainOf(t, pieces, Len(pieces), Byte) /\ FlattenSeq(pieces) = t[Len(pieces)]
        BY <2>1, FlattenChain
    <2>3. ChainOf(t, pieces, Len(map), Byte) /\ FlattenSeq(pieces) = t[Len(map)]
        BY <2>1, <2>2
    <2>. QED
        BY <2>3 DEF pieces
<1>2. PICK d : ChainOf(d, DataPieces(map), Len(map), Byte) /\ FlattenSeq(DataPieces(map)) = d[Len(map)]
    <2> DEFINE pieces == DataPieces(map)
    <2>1. pieces \in Seq(Seq(Byte)) /\ Len(pieces) = Len(map)
        BY PiecesTyped
    <2> HIDE DEF pieces
    <2>2. PICK d : ChainOf(d, pieces, Len(pieces), Byte) /\ FlattenSeq(pieces) = d[Len(pieces)]
        BY <2>1, FlattenChain
    <2>3. ChainOf(d, pieces, Len(map), Byte) /\ FlattenSeq(pieces) = d[Len(map)]
        BY <2>1, <2>2
    <2>. QED
        BY <2>3 DEF pieces
<1>3. Chains(t, d, map)
    BY <1>1, <1>2, PiecesTyped DEF Chains
<1>. QED
    BY <1>3

\* The table grows by two words with every pair.
LEMMA TableLengths ==
    ASSUME NEW map \in Seq(Pair), NEW t, NEW d, Chains(t, d, map)
    PROVE  \A i \in 0 .. Len(map) : Len(t[i]) = i * (2 * WordBytes)
<1> DEFINE n == Len(map)
           w == 2 * WordBytes
           P == {i \in 0 .. n : Len(t[i]) = i * w}
<1>0. n \in Nat /\ w \in Nat
    BY Widths
<1>1. Placed(t[n], t, TablePieces(map), n)
    BY <1>0, PiecesTyped, ChainPlaces DEF Chains
<1>2. \A i \in 1 .. n : Len(t[i]) = Len(t[i - 1]) + w
    <2>1. \A i \in 1 .. n : Len(TablePieces(map)[i]) = w
        BY PiecesTyped, MapTyped, TablePieceIs
    <2>. QED
        BY <1>1, <2>1 DEF Placed
<1> HIDE DEF n, w
<1>3. 0 \in P
    <2>1. Len(t[0]) = 0 /\ 0 * w = 0
        BY <1>0, Products DEF Chains, ChainOf
    <2>. QED
        BY <1>0, <2>1
<1>4. ASSUME NEW i \in 1 .. n, i - 1 \in P
      PROVE  i \in P
    <2>1. i \in Nat /\ i \in 0 .. n /\ Len(t[i - 1]) = (i - 1) * w
        BY <1>0, <1>4
    <2>2. (i - 1) * w + w = i * w
        BY <1>0, <2>1, Products
    <2>. QED
        BY <1>2, <2>1, <2>2
<1>. QED
    <2>1. \A i \in 0 .. n : i \in P
        <3> HIDE DEF P
        <3>. QED
            BY <1>0, <1>3, <1>4, UpTo
    <2>. QED
        BY <2>1 DEF n, w

TableEndOf(map) == WordBytes + (2 * Len(map)) * WordBytes

\* An encoding is its count, its table and its data.
EncodedAs(out, map, t, d) ==
    /\ out \in Seq(Byte) /\ Len(out) = TableEndOf(map) + Len(d[Len(map)])
    /\ \A j \in 1 .. WordBytes : out[j] = LittleEndian(Len(map), WordBytes)[j]
    /\ \A j \in 1 .. Len(t[Len(map)]) : out[WordBytes + j] = t[Len(map)][j]
    /\ \A j \in 1 .. Len(d[Len(map)]) : out[TableEndOf(map) + j] = d[Len(map)][j]

LEMMA ChainsTyped ==
    ASSUME NEW map \in Seq(Pair), NEW t, NEW d, Chains(t, d, map)
    PROVE  /\ Len(map) \in Nat
           /\ \A i \in 0 .. Len(map) : t[i] \in Seq(Byte) /\ d[i] \in Seq(Byte)
           /\ \A i \in 0 .. Len(map) : Len(t[i]) \in Nat /\ Len(d[i]) \in Nat
           /\ Len(t[Len(map)]) = (2 * Len(map)) * WordBytes
           /\ TableEndOf(map) \in Nat /\ TableEndOf(map) = WordBytes + Len(t[Len(map)])
           /\ Len(d[0]) = 0
<1> DEFINE n == Len(map)
<1>1. n \in Nat
    BY MapTyped
<1>2. \A i \in 0 .. n : t[i] \in Seq(Byte) /\ d[i] \in Seq(Byte)
    BY DEF Chains, ChainOf
<1>3. \A i \in 0 .. n : Len(t[i]) \in Nat /\ Len(d[i]) \in Nat
    BY <1>2
<1>4. Len(t[n]) = (2 * n) * WordBytes
    <2>1. Len(t[n]) = n * (2 * WordBytes)
        BY <1>1, TableLengths
    <2>2. n * (2 * WordBytes) = (2 * n) * WordBytes
        BY <1>1, Widths
    <2>. QED
        BY <2>1, <2>2
<1>5. TableEndOf(map) = WordBytes + Len(t[n])
    BY <1>4 DEF TableEndOf
<1>6. TableEndOf(map) \in Nat
    <2>1. Len(t[n]) \in Nat
        BY <1>1, <1>3
    <2>. QED
        BY <1>5, <2>1, Widths
<1>7. Len(d[0]) = 0
    BY DEF Chains, ChainOf
<1>. QED
    BY <1>1, <1>2, <1>3, <1>4, <1>5, <1>6, <1>7

LEMMA EncodingShaped ==
    ASSUME NEW map \in Seq(Pair), NEW t, NEW d, Chains(t, d, map)
    PROVE  EncodedAs(Encoding(map), map, t, d)
<1> DEFINE n == Len(map)
           head == LittleEndian(n, WordBytes)
           x == t[n]
           y == d[n]
           w == head \o x
           out == w \o y
<1>1. /\ n \in Nat /\ x \in Seq(Byte) /\ y \in Seq(Byte)
      /\ TableEndOf(map) = WordBytes + Len(x)
    BY ChainsTyped
<1>2. head \in Seq(Byte) /\ Len(head) = WordBytes
    BY <1>1, LittleEndianBytes, Widths
<1>3. Encoding(map) = out
    BY DEF Encoding, Chains
<1>4. TableEndOf(map) \in Nat /\ Len(x) \in Nat /\ Len(y) \in Nat /\ WordBytes \in Nat
    BY <1>1, ChainsTyped, Widths
<1> HIDE DEF head, x, y, n
<1>5. Joins(w, Byte, head, x)
    BY <1>1, <1>2, JoinIs
<1> HIDE DEF w
<1>6. Joins(out, Byte, w, y)
    <2>1. w \in Seq(Byte)
        BY <1>5 DEF Joins
    <2>. QED
        BY <1>1, <2>1, JoinIs
<1> HIDE DEF out
<1>7. /\ w \in Seq(Byte) /\ Len(w) = TableEndOf(map)
      /\ \A j \in 1 .. WordBytes : w[j] = head[j]
      /\ \A j \in 1 .. Len(x) : w[WordBytes + j] = x[j]
    BY <1>1, <1>2, <1>5 DEF Joins
<1>8. /\ out \in Seq(Byte) /\ Len(out) = TableEndOf(map) + Len(y)
      /\ \A j \in 1 .. TableEndOf(map) : out[j] = w[j]
      /\ \A j \in 1 .. Len(y) : out[TableEndOf(map) + j] = y[j]
    BY <1>6, <1>7 DEF Joins
<1> DEFINE e == TableEndOf(map)
           l == Len(x)
<1>9. e = WordBytes + l /\ l \in Nat
    BY <1>1, <1>4
<1> HIDE DEF e, l
<1>10. \A j \in 1 .. WordBytes : j \in 1 .. e
    BY <1>4, <1>9
<1>11. \A j \in 1 .. l : WordBytes + j \in 1 .. e
    BY <1>4, <1>9
<1>12. \A j \in 1 .. WordBytes : out[j] = head[j]
    BY <1>7, <1>8, <1>10 DEF e
<1>13. \A j \in 1 .. Len(x) : out[WordBytes + j] = x[j]
    BY <1>7, <1>8, <1>11 DEF e, l
<1>. QED
    BY <1>3, <1>8, <1>12, <1>13 DEF EncodedAs, head, x, y, n

\* The size that was counted is the size of the encoding.
LEMMA EncodingSize ==
    ASSUME NEW map \in Seq(Pair), map # <<>>
    PROVE  Len(Encoding(map)) = TotalSize(map)
<1> DEFINE n == Len(map)
           w == 2 * WordBytes
<1>1. PICK t, d : Chains(t, d, map)
    BY ChainsExist
<1>2. Len(Encoding(map)) = WordBytes + n * w + Len(d[n])
    <2>1. Len(Encoding(map)) = TableEndOf(map) + Len(d[n])
        BY <1>1, EncodingShaped DEF EncodedAs
    <2>2. TableEndOf(map) = WordBytes + Len(t[n]) /\ n \in Nat
        BY <1>1, ChainsTyped
    <2>3. Len(t[n]) = n * w
        BY <1>1, <2>2, TableLengths
    <2>. QED
        BY <2>1, <2>2, <2>3
<1>3. PICK h : Sums(h, map) /\ TotalSize(map) = h[n]
    BY TotalSizeIs
<1>4. /\ h[0] = WordBytes /\ \A i \in 1 .. n : h[i] = h[i - 1] + PairEncodedSize(map[i])
      /\ \A i \in 0 .. n : h[i] \in Nat
    BY <1>3 DEF Sums, Summed
<1>5. Placed(d[n], d, DataPieces(map), n)
    BY <1>1, MapTyped, PiecesTyped, ChainPlaces DEF Chains
<1>6. ASSUME NEW i \in 1 .. n
      PROVE  PairEncodedSize(map[i]) = w + Len(DataPieces(map)[i]) /\ Len(DataPieces(map)[i]) \in Nat
    <2>1. map[i] \in Pair /\ DataPieces(map)[i] = DataPiece(map[i])
        BY MapTyped, PiecesTyped
    <2> DEFINE a == Len(map[i][1])
               b == Len(map[i][2])
    <2>2. a \in Nat /\ b \in Nat /\ Len(DataPiece(map[i])) = a + 1 + b + 1
        BY <2>1, DataPieceIs
    <2>3. PairEncodedSize(map[i]) = 2 * WordBytes + a + 1 + b + 1
        BY DEF PairEncodedSize
    <2> HIDE DEF a, b
    <2>. QED
        BY <2>1, <2>2, <2>3, Widths
<1>7. \A i \in 1 .. n : Len(d[i]) = Len(d[i - 1]) + Len(DataPieces(map)[i])
    BY <1>5 DEF Placed
<1>8. n \in Nat /\ w \in Nat /\ Len(d[0]) = 0 /\ \A i \in 0 .. n : Len(d[i]) \in Nat
    BY <1>1, ChainsTyped, Widths
<1> HIDE DEF n, w
<1> DEFINE P == {i \in 0 .. n : h[i] = WordBytes + i * w + Len(d[i])}
<1>9. 0 \in P
    <2>1. 0 * w = 0 /\ 0 \in 0 .. n
        BY <1>8
    <2>2. h[0] = WordBytes + 0 * w + Len(d[0])
        BY <1>4, <1>8, <2>1, Widths
    <2>. QED
        BY <2>1, <2>2
<1>10. ASSUME NEW i \in 1 .. n, i - 1 \in P
       PROVE  i \in P
    <2> DEFINE x == (i - 1) * w
               y == i * w
               l == Len(DataPieces(map)[i])
               r == Len(d[i - 1])
    <2>1. i - 1 \in 0 .. n /\ i \in 0 .. n /\ i \in Nat
        BY <1>8
    <2>2. x \in Nat /\ y = x + w
        BY <1>8, <2>1, Products
    <2>3. h[i - 1] = WordBytes + x + r
        BY <1>10
    <2>4. r \in Nat /\ l \in Nat /\ Len(d[i]) = r + l /\ PairEncodedSize(map[i]) = w + l
        BY <1>6, <1>7, <1>8, <2>1
    <2>5. h[i] = h[i - 1] + PairEncodedSize(map[i])
        BY <1>4
    <2> HIDE DEF x, y, l, r
    <2>6. h[i] = WordBytes + y + Len(d[i])
        BY <1>8, <2>2, <2>3, <2>4, <2>5, Widths
    <2>. QED
        BY <2>1, <2>6 DEF y
<1>11. n \in P
    <2>1. n \in 0 .. n
        BY <1>8
    <2> HIDE DEF P
    <2>. QED
        BY <1>8, <1>9, <1>10, <2>1, UpTo
<1>. QED
    BY <1>2, <1>3, <1>11 DEF n

LEMMA TablePlace ==
    ASSUME NEW k \in Nat \ {0}
    PROVE  /\ WordBytes + (k - 1) * (2 * WordBytes) = (2 * k - 1) * WordBytes
           /\ WordBytes + (k - 1) * (2 * WordBytes) + WordBytes = (2 * k) * WordBytes
           /\ WordBytes + (k - 1) * (2 * WordBytes) \in Nat
<1>1. WordBytes \in Nat /\ 2 * k - 1 \in Nat
    BY Widths
<1>2. /\ WordBytes + (k - 1) * (2 * WordBytes) = (2 * k - 1) * WordBytes
      /\ WordBytes + (k - 1) * (2 * WordBytes) + WordBytes = (2 * k) * WordBytes
    BY <1>1
<1>3. (2 * k - 1) * WordBytes \in Nat
    BY <1>1, Products
<1>. QED
    BY <1>2, <1>3

\* The words of a pair in the table, and its bytes in the data.
LEMMA TableAt ==
    ASSUME NEW pair \in Pair, NEW k \in Nat \ {0}, NEW data
    PROVE  (\A j \in 1 .. Len(TablePiece(pair)) :
                data[WordBytes + (k - 1) * (2 * WordBytes) + j] = TablePiece(pair)[j])
           <=> HasLength(data, 2 * k - 1, pair[1]) /\ HasLength(data, 2 * k, pair[2])
<1> DEFINE piece == TablePiece(pair)
           at == WordBytes + (k - 1) * (2 * WordBytes)
           a == LittleEndian(Len(pair[1]), WordBytes)
           b == LittleEndian(Len(pair[2]), WordBytes)
           x == (2 * k - 1) * WordBytes
           y == (2 * k) * WordBytes
<1>1. /\ Len(piece) = 2 * WordBytes
      /\ \A j \in 1 .. WordBytes : piece[j] = a[j] /\ piece[WordBytes + j] = b[j]
    BY TablePieceIs
<1>2. at = x /\ at + WordBytes = y /\ at \in Nat
    BY TablePlace
<1>3. HasLength(data, 2 * k - 1, pair[1]) <=> \A j \in 1 .. WordBytes : data[x + j] = a[j]
    BY DEF HasLength
<1>4. HasLength(data, 2 * k, pair[2]) <=> \A j \in 1 .. WordBytes : data[y + j] = b[j]
    BY DEF HasLength
<1>5. WordBytes \in Nat
    BY Widths
<1> HIDE DEF piece, at, a, b, x, y
<1>6. ASSUME \A j \in 1 .. Len(piece) : data[at + j] = piece[j], NEW j \in 1 .. WordBytes
      PROVE  data[x + j] = a[j] /\ data[y + j] = b[j]
    <2>1. /\ j \in 1 .. Len(piece) /\ WordBytes + j \in 1 .. Len(piece)
          /\ at + (WordBytes + j) = y + j
        BY <1>1, <1>2, <1>5
    <2>2. data[at + j] = piece[j] /\ data[at + (WordBytes + j)] = piece[WordBytes + j]
        BY <1>6, <2>1
    <2>. QED
        BY <1>1, <1>2, <2>1, <2>2
<1>7. ASSUME \A j \in 1 .. WordBytes : data[x + j] = a[j] /\ data[y + j] = b[j],
             NEW j \in 1 .. Len(piece)
      PROVE  data[at + j] = piece[j]
    <2>1. CASE j <= WordBytes
        <3>1. j \in 1 .. WordBytes
            BY <1>1, <1>5, <2>1
        <3>. QED
            BY <1>1, <1>2, <1>7, <3>1
    <2>2. CASE ~(j <= WordBytes)
        <3> DEFINE i == j - WordBytes
        <3>1. i \in 1 .. WordBytes /\ WordBytes + i = j /\ y + i = at + j
            BY <1>1, <1>2, <1>5, <2>2
        <3> HIDE DEF i
        <3>2. piece[WordBytes + i] = b[i] /\ data[y + i] = b[i]
            BY <1>1, <1>7, <3>1
        <3>. QED
            BY <3>1, <3>2
    <2>. QED
        BY <2>1, <2>2
<1>. QED
    BY <1>3, <1>4, <1>6, <1>7 DEF piece, at

\* Where the key and the value of a pair end.
Ends(pair, from, mid, to) == mid = from + Len(pair[1]) + 1 /\ to = mid + Len(pair[2]) + 1

LEMMA DataAt ==
    ASSUME NEW pair \in Pair, NEW from \in Nat, NEW data,
           NEW mid \in Nat, NEW to \in Nat, Ends(pair, from, mid, to)
    PROVE  (\A j \in 1 .. Len(DataPiece(pair)) : data[from + j] = DataPiece(pair)[j])
           <=> HasField(data, pair[1], from, mid) /\ HasField(data, pair[2], mid, to)
<1> DEFINE piece == DataPiece(pair)
           k == pair[1]
           v == pair[2]
           a == Len(k)
           b == Len(v)
<1>0. a \in Nat /\ b \in Nat /\ Len(piece) = a + 1 + b + 1
    BY DataPieceIs
<1>1. /\ \A j \in 1 .. a : piece[j] = k[j]
      /\ piece[a + 1] = Terminator
      /\ \A j \in 1 .. b : piece[a + 1 + j] = v[j]
      /\ piece[a + 1 + b + 1] = Terminator
    BY DataPieceIs
<1>2. mid = from + a + 1 /\ to = mid + b + 1
    BY DEF Ends
<1>3. HasField(data, k, from, mid)
          <=> (\A j \in 1 .. a : data[from + j] = k[j]) /\ data[mid] = Terminator
    BY <1>2 DEF HasField
<1>4. HasField(data, v, mid, to)
          <=> (\A j \in 1 .. b : data[mid + j] = v[j]) /\ data[to] = Terminator
    BY <1>2 DEF HasField
<1> HIDE DEF piece, k, v, a, b
<1>5. ASSUME \A j \in 1 .. Len(piece) : data[from + j] = piece[j]
      PROVE  /\ \A j \in 1 .. a : data[from + j] = k[j]
             /\ data[mid] = Terminator
             /\ \A j \in 1 .. b : data[mid + j] = v[j]
             /\ data[to] = Terminator
    <2>1. \A j \in 1 .. a : data[from + j] = k[j]
        BY <1>0, <1>1, <1>5
    <2>2. data[mid] = Terminator
        <3>1. a + 1 \in 1 .. Len(piece) /\ from + (a + 1) = mid
            BY <1>0, <1>2
        <3>2. data[from + (a + 1)] = piece[a + 1]
            BY <1>5, <3>1
        <3>. QED
            BY <1>1, <3>1, <3>2
    <2>3. ASSUME NEW j \in 1 .. b
          PROVE  data[mid + j] = v[j]
        <3>1. a + 1 + j \in 1 .. Len(piece) /\ from + (a + 1 + j) = mid + j
            BY <1>0, <1>2
        <3>2. data[from + (a + 1 + j)] = piece[a + 1 + j]
            BY <1>5, <3>1
        <3>. QED
            BY <1>1, <3>1, <3>2
    <2>4. data[to] = Terminator
        <3>1. a + 1 + b + 1 \in 1 .. Len(piece) /\ from + (a + 1 + b + 1) = to
            BY <1>0, <1>2
        <3>2. data[from + (a + 1 + b + 1)] = piece[a + 1 + b + 1]
            BY <1>5, <3>1
        <3>. QED
            BY <1>1, <3>1, <3>2
    <2>. QED
        BY <2>1, <2>2, <2>3, <2>4
<1>6. ASSUME \A j \in 1 .. a : data[from + j] = k[j], data[mid] = Terminator,
             \A j \in 1 .. b : data[mid + j] = v[j], data[to] = Terminator,
             NEW j \in 1 .. Len(piece)
      PROVE  data[from + j] = piece[j]
    <2>1. CASE j <= a
        <3>1. j \in 1 .. a
            BY <1>0, <2>1
        <3>. QED
            BY <1>1, <1>6, <3>1
    <2>2. CASE j = a + 1
        <3>1. from + j = mid
            BY <1>0, <1>2, <2>2
        <3>. QED
            BY <1>1, <1>6, <2>2, <3>1
    <2>3. CASE j > a + 1 /\ j <= a + 1 + b
        <3> DEFINE i == j - (a + 1)
        <3>1. i \in 1 .. b /\ a + 1 + i = j /\ mid + i = from + j
            BY <1>0, <1>2, <2>3
        <3> HIDE DEF i
        <3>2. piece[a + 1 + i] = v[i] /\ data[mid + i] = v[i]
            BY <1>1, <1>6, <3>1
        <3>. QED
            BY <3>1, <3>2
    <2>4. CASE j > a + 1 + b
        <3>1. j = a + 1 + b + 1 /\ from + j = to
            BY <1>0, <1>2, <2>4
        <3>. QED
            BY <1>1, <1>6, <3>1
    <2>. QED
        BY <1>0, <2>1, <2>2, <2>3, <2>4
<1>. QED
    BY <1>3, <1>4, <1>5, <1>6 DEF piece, k, v

\* The lengths of the fields of every pair are in the table.
TableHas(data, map) ==
    \A k \in 1 .. Len(map) :
        HasLength(data, 2 * k - 1, map[k][1]) /\ HasLength(data, 2 * k, map[k][2])

LEMMA TableAgrees ==
    ASSUME NEW map \in Seq(Pair), NEW t, NEW d, Chains(t, d, map), NEW data
    PROVE  HasPieces(data, WordBytes, t, TablePieces(map), Len(map)) <=> TableHas(data, map)
<1> DEFINE n == Len(map)
<1>0. n \in Nat
    BY MapTyped
<1>1. ASSUME NEW k \in 1 .. n
      PROVE  (\A j \in 1 .. Len(TablePieces(map)[k]) :
                  data[WordBytes + Len(t[k - 1]) + j] = TablePieces(map)[k][j])
             <=> HasLength(data, 2 * k - 1, map[k][1]) /\ HasLength(data, 2 * k, map[k][2])
    <2>1. map[k] \in Pair /\ k \in Nat \ {0} /\ k - 1 \in 0 .. n
        BY <1>0, MapTyped
    <2>2. Len(t[k - 1]) = (k - 1) * (2 * WordBytes)
        BY <2>1, TableLengths
    <2>3. TablePieces(map)[k] = TablePiece(map[k])
        BY PiecesTyped
    <2>. QED
        BY <2>1, <2>2, <2>3, TableAt
<1>. QED
    BY <1>1 DEF HasPieces, TableHas

\* The key and the value of pair k are in the data, from where the chain says.
PairHas(data, map, d, k) ==
    LET from == TableEndOf(map) + Len(d[k - 1])
        mid == from + Len(map[k][1]) + 1
    IN  /\ HasField(data, map[k][1], from, mid)
        /\ HasField(data, map[k][2], mid, TableEndOf(map) + Len(d[k]))

\* How far the chain of the data goes with pair k.
LEMMA DataLengths ==
    ASSUME NEW map \in Seq(Pair), NEW t, NEW d, Chains(t, d, map), NEW k \in 1 .. Len(map)
    PROVE  /\ Len(map[k][1]) \in Nat /\ Len(map[k][2]) \in Nat
           /\ Len(d[k - 1]) \in Nat /\ Len(d[k]) \in Nat
           /\ Len(d[k]) = Len(d[k - 1]) + (Len(map[k][1]) + 1 + Len(map[k][2]) + 1)
<1>1. k \in 0 .. Len(map) /\ k - 1 \in 0 .. Len(map)
    BY MapTyped
<1>2. Placed(d[Len(map)], d, DataPieces(map), Len(map))
    BY MapTyped, PiecesTyped, ChainPlaces DEF Chains
<1>3. Len(d[k]) = Len(d[k - 1]) + Len(DataPieces(map)[k])
    BY <1>2 DEF Placed
<1>4. map[k] \in Pair /\ DataPieces(map)[k] = DataPiece(map[k])
    BY MapTyped, PiecesTyped
<1>. QED
    BY <1>1, <1>3, <1>4, DataPieceIs, ChainsTyped

LEMMA DataAgrees ==
    ASSUME NEW map \in Seq(Pair), NEW t, NEW d, Chains(t, d, map), NEW data
    PROVE  HasPieces(data, TableEndOf(map), d, DataPieces(map), Len(map))
           <=> \A k \in 1 .. Len(map) : PairHas(data, map, d, k)
<1> DEFINE n == Len(map)
<1>1. ASSUME NEW k \in 1 .. n
      PROVE  (\A j \in 1 .. Len(DataPieces(map)[k]) :
                  data[TableEndOf(map) + Len(d[k - 1]) + j] = DataPieces(map)[k][j])
             <=> PairHas(data, map, d, k)
    <2> DEFINE e == TableEndOf(map)
               x == Len(d[k - 1])
               y == Len(d[k])
               a == Len(map[k][1])
               b == Len(map[k][2])
               from == e + x
               mid == from + a + 1
               to == e + y
    <2>1. /\ a \in Nat /\ b \in Nat /\ x \in Nat /\ y \in Nat
          /\ y = x + (a + 1 + b + 1)
        BY DataLengths
    <2>2. e \in Nat
        BY ChainsTyped
    <2>3. map[k] \in Pair /\ DataPieces(map)[k] = DataPiece(map[k])
        BY MapTyped, PiecesTyped
    <2>4. PairHas(data, map, d, k)
              <=> HasField(data, map[k][1], from, mid) /\ HasField(data, map[k][2], mid, to)
        BY DEF PairHas
    <2> HIDE DEF e, x, y, a, b
    <2>5. from \in Nat /\ mid \in Nat /\ to \in Nat /\ to = mid + b + 1
        BY <2>1, <2>2
    <2>6. mid = from + a + 1
        OBVIOUS
    <2> HIDE DEF from, mid, to
    <2>7. Ends(map[k], from, mid, to)
        BY <2>5, <2>6 DEF Ends, a, b
    <2>8. (\A j \in 1 .. Len(DataPiece(map[k])) : data[from + j] = DataPiece(map[k])[j])
              <=> HasField(data, map[k][1], from, mid) /\ HasField(data, map[k][2], mid, to)
        <3> DEFINE pair == map[k]
        <3>1. pair \in Pair /\ from \in Nat /\ mid \in Nat /\ to \in Nat /\ Ends(pair, from, mid, to)
            BY <2>3, <2>5, <2>7
        <3> HIDE DEF pair
        <3>2. (\A j \in 1 .. Len(DataPiece(pair)) : data[from + j] = DataPiece(pair)[j])
                  <=> HasField(data, pair[1], from, mid) /\ HasField(data, pair[2], mid, to)
            BY <3>1, DataAt, Zenon
        <3>. QED
            BY <3>2, Zenon DEF pair
    <2>9. (\A j \in 1 .. Len(DataPiece(map[k])) : data[from + j] = DataPiece(map[k])[j])
              <=> PairHas(data, map, d, k)
        BY <2>4, <2>8
    <2>. QED
        BY <2>3, <2>9 DEF from, e, x
<1>. QED
    BY <1>1 DEF HasPieces

LEMMA PiecesIn ==
    ASSUME NEW S, NEW n \in Nat, NEW seqs, Typed(seqs, n, Seq(S)),
           NEW h, ChainOf(h, seqs, n, S),
           NEW data, NEW at \in Nat, \A j \in 1 .. Len(h[n]) : data[at + j] = h[n][j]
    PROVE  HasPieces(data, at, h, seqs, n)
<1>1. Placed(h[n], h, seqs, n)
    BY ChainPlaces
<1>2. ASSUME NEW k \in 1 .. n, NEW j \in 1 .. Len(seqs[k])
      PROVE  data[at + Len(h[k - 1]) + j] = seqs[k][j]
    <2> DEFINE x == Len(h[k - 1])
               y == Len(h[k])
               z == Len(h[n])
               l == Len(seqs[k])
               i == x + j
    <2>1. h[k - 1] \in Seq(S) /\ h[k] \in Seq(S) /\ seqs[k] \in Seq(S) /\ h[n] \in Seq(S)
        <3>1. k - 1 \in 0 .. n /\ k \in 0 .. n /\ n \in 0 .. n
            OBVIOUS
        <3>. QED
            BY <3>1 DEF ChainOf, Typed
    <2>2. x \in Nat /\ y \in Nat /\ z \in Nat /\ l \in Nat
        BY <2>1
    <2>3. y = x + l /\ y <= z /\ h[n][i] = seqs[k][j]
        BY <1>1 DEF Placed
    <2>4. j \in 1 .. l
        OBVIOUS
    <2> HIDE DEF x, y, z, l
    <2>5. i \in 1 .. z /\ at + x + j = at + i
        BY <2>2, <2>3, <2>4
    <2> HIDE DEF i
    <2>6. data[at + i] = h[n][i]
        BY <2>5 DEF z
    <2>. QED
        BY <2>3, <2>5, <2>6 DEF x
<1>. QED
    BY <1>2 DEF HasPieces

\* Bytes that encode a map are its encoding.
LEMMA EncodingOnly ==
    ASSUME NEW map \in Seq(Pair), NEW data \in Seq(Byte), Encodes(data, map)
    PROVE  Measurable(map) /\ data = Encoding(map)
<1> DEFINE n == Len(map)
           e == TableEndOf(map)
<1>1. PICK fields, p : Laid(data, fields, 2 * n, p) /\ IsFields(fields, map)
    BY DEF Encodes
<1>2. PICK t, d : Chains(t, d, map)
    BY ChainsExist
<1>3. n \in Nat /\ DOMAIN map = 1 .. n /\ Counted(data, n)
    BY MapTyped DEF Encodes
<1>4. p \in [0 .. 2 * n -> Nat] /\ p[0] = e /\ p[2 * n] = Len(data)
    BY <1>1 DEF Laid, TableEndOf
<1>5. ASSUME NEW k \in 1 .. n
      PROVE  /\ FieldAt(data, 2 * k - 1, map[k][1], p[2 * k - 2], p[2 * k - 1])
             /\ FieldAt(data, 2 * k, map[k][2], p[2 * k - 1], p[2 * k])
    <2>1. /\ 2 * k - 1 \in 1 .. 2 * n /\ 2 * k \in 1 .. 2 * n
          /\ 2 * k - 1 - 1 = 2 * k - 2
        BY <1>3
    <2>2. map[k][1] = fields[2 * k - 1] /\ map[k][2] = fields[2 * k]
        BY <1>1 DEF IsFields
    <2>3. \A i \in 1 .. 2 * n : FieldAt(data, i, fields[i], p[i - 1], p[i])
        BY <1>1 DEF Laid
    <2>4. FieldAt(data, 2 * k - 1, fields[2 * k - 1], p[2 * k - 2], p[2 * k - 1])
        <3>1. FieldAt(data, 2 * k - 1, fields[2 * k - 1], p[2 * k - 1 - 1], p[2 * k - 1])
            BY <2>1, <2>3
        <3>. QED
            BY <2>1, <3>1
    <2>5. FieldAt(data, 2 * k, fields[2 * k], p[2 * k - 1], p[2 * k])
        BY <2>1, <2>3
    <2>. QED
        BY <2>2, <2>4, <2>5
<1>6. Measurable(map)
    BY <1>3, <1>5 DEF Measurable, FieldAt
<1>7. TableHas(data, map)
    BY <1>5 DEF TableHas, FieldAt
<1>8. \A k \in 1 .. n : /\ HasField(data, map[k][1], p[2 * k - 2], p[2 * k - 1])
                        /\ HasField(data, map[k][2], p[2 * k - 1], p[2 * k])
    BY <1>5 DEF FieldAt
<1>9. \A i \in 0 .. n : Len(d[i]) \in Nat
    BY <1>2, ChainsTyped
<1>10. e \in Nat /\ Len(d[0]) = 0 /\ e = WordBytes + Len(t[n])
    BY <1>2, ChainsTyped
<1> HIDE DEF n, e
<1> DEFINE P == {k \in 0 .. n : p[2 * k] = e + Len(d[k])}
<1>11. 0 \in P
    BY <1>3, <1>4, <1>10
<1>12. ASSUME NEW k \in 1 .. n, p[2 * k - 2] = e + Len(d[k - 1])
       PROVE  p[2 * k] = e + Len(d[k]) /\ PairHas(data, map, d, k)
    <2> DEFINE a == Len(map[k][1])
               b == Len(map[k][2])
               x == Len(d[k - 1])
               y == Len(d[k])
    <2>1. a \in Nat /\ b \in Nat /\ x \in Nat /\ y \in Nat /\ y = x + (a + 1 + b + 1)
        BY <1>2, DataLengths DEF n
    <2>2. p[2 * k - 1] = p[2 * k - 2] + a + 1 /\ p[2 * k] = p[2 * k - 1] + b + 1
        BY <1>8 DEF HasField
    <2>3. p[2 * k - 2] = e + x
        BY <1>12
    <2> HIDE DEF a, b, x, y
    <2>4. p[2 * k - 1] = e + x + a + 1 /\ p[2 * k] = e + y
        <3> DEFINE q == p[2 * k - 2]
                   r == p[2 * k - 1]
                   s == p[2 * k]
        <3>1. r = q + a + 1 /\ s = r + b + 1 /\ q = e + x
            BY <2>2, <2>3
        <3> HIDE DEF q, r, s
        <3>2. r = e + x + a + 1
            BY <3>1
        <3>3. s = e + x + a + 1 + b + 1
            BY <3>1, <3>2
        <3>31. e \in Nat /\ x \in Nat /\ a \in Nat /\ b \in Nat
            BY <1>10, <2>1
        <3>4. e + x + a + 1 + b + 1 = e + (x + (a + 1 + b + 1))
            BY <3>31
        <3>. QED
            BY <2>1, <3>2, <3>3, <3>4 DEF r, s
    <2>5. PairHas(data, map, d, k)
        <3>1. /\ HasField(data, map[k][1], e + x, e + x + a + 1)
              /\ HasField(data, map[k][2], e + x + a + 1, e + y)
            BY <1>8, <2>3, <2>4
        <3>. QED
            BY <3>1 DEF PairHas, e, x, y, a
    <2>. QED
        BY <2>4, <2>5 DEF y
<1>13. ASSUME NEW k \in 1 .. n, k - 1 \in P
       PROVE  k \in P
    <2>1. 2 * (k - 1) = 2 * k - 2 /\ k \in 0 .. n
        BY <1>3
    <2>2. p[2 * (k - 1)] = e + Len(d[k - 1])
        BY <1>13
    <2>3. p[2 * k] = e + Len(d[k])
        BY <1>12, <2>1, <2>2
    <2>. QED
        BY <2>1, <2>3
<1>14. \A k \in 0 .. n : k \in P
    <2> HIDE DEF P
    <2>. QED
        BY <1>3, <1>11, <1>13, UpTo
<1>15. \A k \in 1 .. n : PairHas(data, map, d, k)
    <2>1. ASSUME NEW k \in 1 .. n
          PROVE  PairHas(data, map, d, k)
        <3>1. k - 1 \in P /\ 2 * (k - 1) = 2 * k - 2
            BY <1>3, <1>14
        <3>2. p[2 * (k - 1)] = e + Len(d[k - 1])
            BY <3>1
        <3>. QED
            BY <1>12, <3>1, <3>2
    <2>. QED
        BY <2>1
<1>16. Len(data) = e + Len(d[n])
    <2>1. n \in P
        BY <1>3, <1>14
    <2>. QED
        BY <1>4, <2>1
<1>17. \A j \in 1 .. Len(t[n]) : data[WordBytes + j] = t[n][j]
    <2>1. HasPieces(data, WordBytes, t, TablePieces(map), n)
        BY <1>2, <1>7, TableAgrees DEF n
    <2>2. Typed(TablePieces(map), n, Seq(Byte)) /\ ChainOf(t, TablePieces(map), n, Byte)
        BY <1>2, PiecesTyped DEF Chains, n
    <2>. QED
        BY <1>3, <2>1, <2>2, ChainAgrees, Widths
<1>18. \A j \in 1 .. Len(d[n]) : data[e + j] = d[n][j]
    <2>1. HasPieces(data, e, d, DataPieces(map), n)
        BY <1>2, <1>15, DataAgrees DEF n, e
    <2>2. Typed(DataPieces(map), n, Seq(Byte)) /\ ChainOf(d, DataPieces(map), n, Byte)
        BY <1>2, PiecesTyped DEF Chains, n
    <2>. QED
        BY <1>3, <1>10, <2>1, <2>2, ChainAgrees
<1> DEFINE out == Encoding(map)
<1>19. EncodedAs(out, map, t, d)
    BY <1>2, EncodingShaped
<1>20. /\ out \in Seq(Byte) /\ Len(out) = e + Len(d[n])
       /\ \A j \in 1 .. WordBytes : out[j] = LittleEndian(n, WordBytes)[j]
       /\ \A j \in 1 .. Len(t[n]) : out[WordBytes + j] = t[n][j]
       /\ \A j \in 1 .. Len(d[n]) : out[e + j] = d[n][j]
    BY <1>19 DEF EncodedAs, e, n
<1> HIDE DEF out
<1>21. \A j \in 1 .. WordBytes : data[j] = LittleEndian(n, WordBytes)[j]
    <2>1. \A j \in 1 .. WordBytes : 0 + j = j
        BY Widths
    <2>. QED
        BY <1>3, <2>1 DEF Counted
<1>22. Len(t[n]) \in Nat /\ Len(d[n]) \in Nat /\ WordBytes \in Nat
    BY <1>2, <1>3, ChainsTyped, Widths DEF n
<1>23. ASSUME NEW j \in 1 .. Len(data)
       PROVE  data[j] = out[j]
    <2>1. CASE j <= WordBytes
        <3>1. j \in 1 .. WordBytes
            BY <1>22, <2>1
        <3>. QED
            BY <1>20, <1>21, <3>1
    <2>2. CASE j > WordBytes /\ j <= e
        <3> DEFINE i == j - WordBytes
                   l == Len(t[n])
        <3>1. l \in Nat /\ e = WordBytes + l
            BY <1>10, <1>22
        <3> HIDE DEF l
        <3>2. i \in 1 .. l /\ WordBytes + i = j
            BY <1>22, <2>2, <3>1
        <3> HIDE DEF i
        <3>3. data[WordBytes + i] = t[n][i] /\ out[WordBytes + i] = t[n][i]
            BY <1>17, <1>20, <3>2 DEF l
        <3>. QED
            BY <3>2, <3>3
    <2>3. CASE j > e
        <3> DEFINE i == j - e
                   l == Len(d[n])
        <3>1. l \in Nat /\ Len(data) = e + l
            BY <1>16, <1>22
        <3> HIDE DEF l
        <3>11. e \in Nat /\ j \in 1 .. e + l
            BY <1>10, <3>1
        <3>2. i \in 1 .. l /\ e + i = j
            BY <2>3, <3>1, <3>11
        <3> HIDE DEF i
        <3>3. data[e + i] = d[n][i] /\ out[e + i] = d[n][i]
            BY <1>18, <1>20, <3>2 DEF l
        <3>. QED
            BY <3>2, <3>3
    <2>. QED
        BY <1>10, <1>22, <2>1, <2>2, <2>3
<1>24. data = out
    BY <1>16, <1>20, <1>23, SeqEqual
<1>. QED
    BY <1>6, <1>24 DEF out

\* The keys and the values of a map in turn, and where they end.
FieldsOf(map) ==
    [i \in 1 .. 2 * Len(map) |-> IF i % 2 = 1 THEN map[(i + 1) \div 2][1] ELSE map[i \div 2][2]]
FieldPlaces(map, d) ==
    [i \in 0 .. 2 * Len(map) |->
        IF i % 2 = 0 THEN TableEndOf(map) + Len(d[i \div 2])
        ELSE TableEndOf(map) + Len(d[(i - 1) \div 2]) + Len(map[(i + 1) \div 2][1]) + 1]

LEMMA Halves ==
    ASSUME NEW k \in Nat \ {0}
    PROVE  /\ (2 * k) % 2 = 0 /\ (2 * k) \div 2 = k
           /\ (2 * k - 1) % 2 = 1 /\ (2 * k - 1 + 1) \div 2 = k /\ (2 * k - 1 - 1) \div 2 = k - 1
           /\ (2 * k - 2) % 2 = 0 /\ (2 * k - 2) \div 2 = k - 1
    OBVIOUS

LEMMA EvenOdd ==
    ASSUME NEW n \in Nat, NEW i \in 1 .. 2 * n
    PROVE  \E k \in 1 .. n : i = 2 * k - 1 \/ i = 2 * k
<1> DEFINE k == (i + 1) \div 2
<1>1. k \in 1 .. n /\ (i = 2 * k - 1 \/ i = 2 * k)
    OBVIOUS
<1>. QED
    BY <1>1

\* A map that fits has its encoding.
LEMMA EncodingHas ==
    ASSUME NEW map \in Seq(Pair), Measurable(map), Len(map) \in 1 .. WordMax
    PROVE  Encodes(Encoding(map), map)
<1> DEFINE n == Len(map)
           e == TableEndOf(map)
           out == Encoding(map)
           fields == FieldsOf(map)
<1>1. PICK t, d : Chains(t, d, map)
    BY ChainsExist
<1> DEFINE p == FieldPlaces(map, d)
<1>2. n \in Nat /\ n \in 1 .. WordMax /\ DOMAIN map = 1 .. n
    BY MapTyped
<1>3. EncodedAs(out, map, t, d)
    BY <1>1, EncodingShaped
<1>4. /\ out \in Seq(Byte) /\ Len(out) = e + Len(d[n])
      /\ \A j \in 1 .. WordBytes : out[j] = LittleEndian(n, WordBytes)[j]
      /\ \A j \in 1 .. Len(t[n]) : out[WordBytes + j] = t[n][j]
      /\ \A j \in 1 .. Len(d[n]) : out[e + j] = d[n][j]
    BY <1>3 DEF EncodedAs
<1>5. Counted(out, n)
    <2>1. \A j \in 1 .. WordBytes : 0 + j = j
        BY Widths
    <2>. QED
        BY <1>4, <2>1 DEF Counted
<1>6. TableHas(out, map)
    <2>1. Typed(TablePieces(map), n, Seq(Byte)) /\ ChainOf(t, TablePieces(map), n, Byte)
        BY <1>1, PiecesTyped DEF Chains
    <2>2. HasPieces(out, WordBytes, t, TablePieces(map), n)
        <3> HIDE DEF out, n
        <3>. QED
            BY <1>2, <1>4, <2>1, PiecesIn, Widths
    <2>. QED
        BY <1>1, <2>2, TableAgrees
<1>7. \A k \in 1 .. n : PairHas(out, map, d, k)
    <2>1. Typed(DataPieces(map), n, Seq(Byte)) /\ ChainOf(d, DataPieces(map), n, Byte)
        BY <1>1, PiecesTyped DEF Chains
    <2>2. e \in Nat
        BY <1>1, ChainsTyped
    <2>3. HasPieces(out, e, d, DataPieces(map), n)
        <3> HIDE DEF out, n, e
        <3>. QED
            BY <1>2, <1>4, <2>1, <2>2, PiecesIn
    <2>. QED
        BY <1>1, <2>3, DataAgrees
<1>8. \A k \in 0 .. n : Len(d[k]) \in Nat
    BY <1>1, ChainsTyped
<1>9. e \in Nat /\ Len(d[0]) = 0 /\ e = WordBytes + (2 * n) * WordBytes
    BY <1>1, ChainsTyped DEF TableEndOf
<1> HIDE DEF out
<1>10. ASSUME NEW k \in 1 .. n
       PROVE  /\ fields[2 * k - 1] = map[k][1] /\ fields[2 * k] = map[k][2]
              /\ p[2 * k - 2] = e + Len(d[k - 1]) /\ p[2 * k] = e + Len(d[k])
              /\ p[2 * k - 1] = e + Len(d[k - 1]) + Len(map[k][1]) + 1
    <2>1. /\ 2 * k - 1 \in 1 .. 2 * n /\ 2 * k \in 1 .. 2 * n /\ k \in Nat \ {0}
          /\ 2 * k - 2 \in 0 .. 2 * n /\ 2 * k - 1 \in 0 .. 2 * n /\ 2 * k \in 0 .. 2 * n
        BY <1>2
    <2>2. /\ (2 * k) % 2 = 0 /\ (2 * k) \div 2 = k
          /\ (2 * k - 1) % 2 = 1 /\ (2 * k - 1 + 1) \div 2 = k /\ (2 * k - 1 - 1) \div 2 = k - 1
          /\ (2 * k - 2) % 2 = 0 /\ (2 * k - 2) \div 2 = k - 1
        BY <2>1, Halves
    <2>3. 1 # 0
        OBVIOUS
    <2>4. fields[2 * k - 1] = map[k][1] /\ fields[2 * k] = map[k][2]
        BY <2>1, <2>2, <2>3, Zenon DEF FieldsOf
    <2>5. p[2 * k - 2] = e + Len(d[k - 1]) /\ p[2 * k] = e + Len(d[k])
        BY <2>1, <2>2, Zenon DEF FieldPlaces
    <2>6. p[2 * k - 1] = e + Len(d[k - 1]) + Len(map[k][1]) + 1
        BY <2>1, <2>2, <2>3, Zenon DEF FieldPlaces
    <2>. QED
        BY <2>4, <2>5, <2>6
<1>11. \A k \in 1 .. n : map[k] = <<map[k][1], map[k][2]>>
    BY MapTyped DEF Pair
<1>12. IsFields(fields, map)
    BY <1>10, <1>11 DEF IsFields
<1>13. p[0] = e /\ p[2 * n] = e + Len(d[n])
    <2>1. p[2 * 1 - 2] = e + Len(d[1 - 1]) /\ 2 * 1 - 2 = 0 /\ 1 - 1 = 0
        <3>1. 1 \in 1 .. n
            BY <1>2
        <3>. QED
            BY <1>10, <3>1
    <2>2. n \in 1 .. n
        BY <1>2
    <2>3. p[2 * n] = e + Len(d[n])
        BY <1>10, <2>2
    <2> HIDE DEF p, e
    <2>. QED
        BY <1>9, <2>1, <2>3
<1>14. ASSUME NEW k \in 1 .. n
       PROVE  /\ FieldAt(out, 2 * k - 1, fields[2 * k - 1], p[2 * k - 2], p[2 * k - 1])
              /\ FieldAt(out, 2 * k, fields[2 * k], p[2 * k - 1], p[2 * k])
              /\ p[2 * k - 1] \in Nat /\ p[2 * k] \in Nat
    <2>1. /\ map[k][1] \in Seq(Byte) /\ map[k][2] \in Seq(Byte)
          /\ Len(map[k][1]) <= WordMax /\ Len(map[k][2]) <= WordMax
        BY <1>2, MapTyped, PairFacts DEF Measurable
    <2>2. HasLength(out, 2 * k - 1, map[k][1]) /\ HasLength(out, 2 * k, map[k][2])
        BY <1>6 DEF TableHas
    <2>3. /\ HasField(out, map[k][1], p[2 * k - 2], p[2 * k - 1])
          /\ HasField(out, map[k][2], p[2 * k - 1], p[2 * k])
        <3>1. PairHas(out, map, d, k)
            BY <1>7
        <3>2. /\ HasField(out, map[k][1], e + Len(d[k - 1]),
                          e + Len(d[k - 1]) + Len(map[k][1]) + 1)
              /\ HasField(out, map[k][2], e + Len(d[k - 1]) + Len(map[k][1]) + 1, e + Len(d[k]))
            BY <3>1 DEF PairHas
        <3> HIDE DEF p, e
        <3>. QED
            BY <1>10, <3>2
    <2>4. p[2 * k - 1] \in Nat /\ p[2 * k] \in Nat
        <3> DEFINE x == Len(d[k - 1])
                   y == Len(d[k])
                   a == Len(map[k][1])
        <3>1. x \in Nat /\ y \in Nat /\ a \in Nat
            BY <1>1, DataLengths
        <3>2. p[2 * k - 1] = e + x + a + 1 /\ p[2 * k] = e + y
            BY <1>10
        <3> HIDE DEF x, y, a, e, p
        <3>3. e + x + a + 1 \in Nat /\ e + y \in Nat
            BY <1>9, <3>1
        <3>. QED
            BY <3>2, <3>3
    <2> HIDE DEF p, fields
    <2>. QED
        BY <1>10, <2>1, <2>2, <2>3, <2>4 DEF FieldAt
<1> HIDE DEF fields
<1>15. ASSUME NEW i \in 1 .. 2 * n
       PROVE  FieldAt(out, i, fields[i], p[i - 1], p[i]) /\ p[i] \in Nat
    <2>1. PICK k \in 1 .. n : i = 2 * k - 1 \/ i = 2 * k
        BY <1>2, EvenOdd
    <2>2. 2 * k - 1 - 1 = 2 * k - 2
        BY <1>2
    <2> HIDE DEF p
    <2>. QED
        BY <1>14, <2>1, <2>2
<1>16. p \in [0 .. 2 * n -> Nat]
    <2>1. p = [i \in 0 .. 2 * n |-> p[i]]
        BY DEF FieldPlaces
    <2> HIDE DEF p
    <2>2. ASSUME NEW i \in 0 .. 2 * n
          PROVE  p[i] \in Nat
        <3>1. i = 0 \/ i \in 1 .. 2 * n
            BY <1>2
        <3>. QED
            BY <1>9, <1>13, <1>15, <3>1
    <2>. QED
        BY <2>1, <2>2
<1> HIDE DEF p
<1>17. Laid(out, fields, 2 * n, p)
    BY <1>4, <1>9, <1>13, <1>15, <1>16 DEF Laid
<1>. QED
    BY <1>2, <1>5, <1>12, <1>17 DEF Encodes, out

-----------------------------------------------------------------------------
(***************************************************************************)
(* The encoder and the decoder, one against the other                      *)
(***************************************************************************)
LEMMA EncodeIs ==
    ASSUME NEW map \in Seq(Pair), Measurable(map), Len(map) \in 1 .. WordMax
    PROVE  EncodePairs(map) = Decoded(Encoding(map)) /\ Len(Encoding(map)) = TotalSize(map)
<1>1. map # <<>>
    OBVIOUS
<1>2. ~(Len(map) > WordMax)
    BY WordMaxFacts
<1>3. Len(Encoding(map)) = TotalSize(map)
    BY <1>1, EncodingSize
<1>. QED
    BY <1>1, <1>2, <1>3, Zenon DEF EncodePairs, EncodeVisited, Encoding

LEMMA RoundTrips ==
    ASSUME NEW map \in Seq(Pair)
    PROVE  RoundTrip(map)
<1> DEFINE encoded == EncodePairs(map)
<1>0. Len(map) \in Nat /\ WordMax \in Nat
    BY MapTyped, WordMaxFacts
<1>1. /\ \A e : Failed(e).error = e
      /\ \A v : Decoded(v).error = NoError /\ Decoded(v).value = v
    BY DEF Failed, Decoded
<1>2. CASE ~Measurable(map)
    <2>1. encoded = Failed("TooLong")
        BY <1>2 DEF EncodePairs, EncodeVisited
    <2> HIDE DEF encoded
    <2>2. encoded.error \in EncodeError
        BY <1>1, <2>1 DEF EncodeError
    <2>. QED
        BY <1>2, <2>2 DEF RoundTrip, encoded
<1>3. CASE Measurable(map) /\ map = <<>>
    <2>1. encoded = Decoded(<<>>)
        BY <1>3 DEF EncodePairs, EncodeVisited
    <2>2. DecodePairs(<<>>, Unlimited) = Decoded(<<>>)
        <3>1. ~Exceeds(Len(<<>>), Unlimited.bytes)
            BY DEF Exceeds, Unlimited
        <3>. QED
            BY <3>1 DEF DecodePairs
    <2>3. Len(<<>>) = EncodedSizeOf(map)
        BY <1>3 DEF EncodedSizeOf, TotalSize
    <2>4. Len(map) <= WordMax
        BY <1>0, <1>3
    <2> HIDE DEF encoded
    <2>5. /\ encoded.error = NoError /\ encoded.value = <<>>
        BY <1>1, <2>1
    <2>6. DecodePairs(encoded.value, Unlimited) = Decoded(map) /\ Len(encoded.value) = EncodedSizeOf(map)
        BY <1>3, <2>2, <2>3, <2>5
    <2>. QED
        BY <1>3, <2>4, <2>5, <2>6, Zenon DEF RoundTrip, encoded
<1>4. CASE Measurable(map) /\ map # <<>> /\ Len(map) > WordMax
    <2>1. encoded = Failed("TooManyPairs")
        BY <1>4 DEF EncodePairs, EncodeVisited
    <2> HIDE DEF encoded
    <2>2. encoded.error \in EncodeError
        BY <1>1, <2>1 DEF EncodeError
    <2>3. ~(Len(map) <= WordMax)
        BY <1>0, <1>4
    <2>. QED
        BY <2>2, <2>3 DEF RoundTrip, encoded
<1>5. CASE Measurable(map) /\ map # <<>> /\ Len(map) <= WordMax
    <2>1. Len(map) \in 1 .. WordMax
        BY <1>0, <1>5
    <2>2. encoded = Decoded(Encoding(map)) /\ Len(Encoding(map)) = TotalSize(map)
        BY <1>5, <2>1, EncodeIs
    <2>3. Encodes(Encoding(map), map) /\ Encoding(map) \in Seq(Byte)
        BY <1>5, <2>1, EncodingHas, ChainsExist, EncodingShaped DEF EncodedAs
    <2>4. DecodePairs(Encoding(map), Unlimited) = Decoded(map)
        BY <2>3, DecodeUp
    <2> HIDE DEF encoded
    <2>5. /\ encoded.error = NoError /\ encoded.value = Encoding(map)
        BY <1>1, <2>2
    <2>6. /\ DecodePairs(encoded.value, Unlimited) = Decoded(map)
          /\ Len(encoded.value) = EncodedSizeOf(map)
        BY <2>2, <2>4, <2>5 DEF EncodedSizeOf
    <2>. QED
        BY <1>5, <2>5, <2>6, Zenon DEF RoundTrip, encoded
<1>. QED
    BY <1>0, <1>2, <1>3, <1>4, <1>5

LEMMA LimitsRefuse ==
    ASSUME NEW data \in Seq(Byte), NEW limits
    PROVE  \/ DecodePairs(data, limits) = DecodePairs(data, Unlimited)
           \/ DecodePairs(data, limits).error \in {"ByteLimit", "PairLimit"}
<1> DEFINE count == WordOf(data, 0)
           table_end == WordBytes + count * 2 * WordBytes
           rest == IF table_end > Len(data) THEN Failed("TruncatedLengths")
                   ELSE Finish(data, TakeAll(data, count, table_end))
           small == data \in {<<>>, <<Terminator>>}
           form(l) == IF Exceeds(Len(data), l.bytes) THEN Failed("ByteLimit")
                      ELSE IF small THEN Decoded(<<>>)
                      ELSE IF Len(data) < WordBytes THEN Failed("TruncatedCount")
                      ELSE IF Exceeds(count, l.pairs) THEN Failed("PairLimit")
                      ELSE rest
<1>1. DecodePairs(data, limits) = form(limits) /\ DecodePairs(data, Unlimited) = form(Unlimited)
    BY Zenon DEF DecodePairs
<1> HIDE DEF count, rest, small
<1>2. \A x : ~Exceeds(x, Unlimited.bytes) /\ ~Exceeds(x, Unlimited.pairs)
    BY DEF Exceeds, Unlimited
<1>3. Failed("ByteLimit").error = "ByteLimit" /\ Failed("PairLimit").error = "PairLimit"
    BY DEF Failed
<1>. QED
    BY <1>1, <1>2, <1>3

LEMMA StrictDecodes ==
    ASSUME NEW data \in Seq(Byte), NEW limits,
           limits.pairs \in Nat \cup {NoLimit}
    PROVE  StrictDecode(data, limits)
<1> DEFINE any == DecodePairs(data, Unlimited)
           within == DecodePairs(data, limits)
           count == WordOf(data, 0)
<1>1. ASSUME any.error = NoError, any.value = <<>>
      PROVE  Range(data) \subseteq {Terminator}
    <2>1. \A i \in 1 .. Len(data) : data[i] = Terminator
        BY <1>1, DecodeDown
    <2>2. DOMAIN data = 1 .. Len(data)
        OBVIOUS
    <2>. QED
        BY <2>1, <2>2 DEF Range
<1>2. ASSUME any.error = NoError, any.value # <<>>
      PROVE  /\ EncodePairs(any.value) = Decoded(data)
             /\ count = ReserveFor(count, Len(data), WordBytes + 2 * WordBytes * count)
    <2> DEFINE map == any.value
    <2>1. /\ Encodes(data, map) /\ Len(map) = count
          /\ Len(data) >= WordBytes + 2 * WordBytes * count + 2 * count
        BY <1>2, DecodeDown
    <2>2. map \in Seq(Pair)
        BY DecodeTyped
    <2> HIDE DEF map
    <2>3. Measurable(map) /\ data = Encoding(map) /\ Len(map) \in 1 .. WordMax
        BY <2>1, <2>2, EncodingOnly DEF Encodes
    <2>4. EncodePairs(map) = Decoded(data)
        BY <2>2, <2>3, EncodeIs
    <2>5. count = ReserveFor(count, Len(data), WordBytes + 2 * WordBytes * count)
        <3> DEFINE table == 2 * WordBytes * count
                   len == Len(data)
                   room == (len - (WordBytes + table)) \div 2
        <3>1. count \in Nat /\ len \in Nat /\ table \in Nat
            <4>1. count \in Nat
                BY <2>1, <2>2
            <4>2. 2 * WordBytes * count = (2 * count) * WordBytes /\ (2 * count) * WordBytes \in Nat
                BY <4>1, TableEnd
            <4>. QED
                BY <4>1, <4>2
        <3>2. len >= WordBytes + table + 2 * count
            BY <2>1
        <3> HIDE DEF table, len, count
        <3>3. ~(room < count)
            BY <3>1, <3>2, Widths
        <3>4. ReserveFor(count, len, WordBytes + table) = IF count < room THEN count ELSE room
            BY DEF ReserveFor
        <3>5. ASSUME ~(count < room)
              PROVE  room = count
            BY <3>1, <3>2, <3>3, <3>5, Widths
        <3>. QED
            BY <3>4, <3>5 DEF len, table
    <2>. QED
        BY <2>4, <2>5 DEF map
<1>3. within = any \/ within.error \in {"ByteLimit", "PairLimit"}
    BY LimitsRefuse
<1>4. ASSUME within.error = NoError
      PROVE  ~Exceeds(Len(data), limits.bytes) /\ ~Exceeds(Len(within.value), limits.pairs)
    <2>1. ~Exceeds(Len(data), limits.bytes)
        BY <1>4, DecodeDown
    <2>2. CASE within.value = <<>>
        <3>1. ~Exceeds(0, limits.pairs)
            BY DEF Exceeds, NoLimit
        <3>2. Len(within.value) = 0
            BY <2>2
        <3>. QED
            BY <2>1, <3>1, <3>2
    <2>3. CASE within.value # <<>>
        BY <1>4, <2>1, <2>3, DecodeDown
    <2>. QED
        BY <2>2, <2>3
<1> HIDE DEF any, within, count
<1>5. any.error = NoError =>
          IF any.value = <<>> THEN Range(data) \subseteq {Terminator}
          ELSE /\ EncodePairs(any.value) = Decoded(data)
               /\ count = ReserveFor(count, Len(data), WordBytes + 2 * WordBytes * count)
    BY <1>1, <1>2
<1>. QED
    BY <1>3, <1>4, <1>5, Zenon DEF StrictDecode, any, within, count

-----------------------------------------------------------------------------
(***************************************************************************)
(* Property paths                                                          *)
(***************************************************************************)
\* What the split makes of one byte.
SplitOne(parts, byte, separator) ==
    IF byte = separator THEN Append(parts, <<>>)
    ELSE [parts EXCEPT ![Len(parts)] = Append(@, byte)]

SplitNext(g, data, separator, places) ==
    [s \in SUBSET places |->
        IF s = {} THEN <<<<>>>> ELSE SplitOne(g[s \ {Max(s)}], data[Max(s)], separator)]

SomeParts == {parts \in Seq(Seq(Byte)) : Len(parts) > 0}

Splits(h, data, separator) ==
    /\ h \in [0 .. Len(data) -> SomeParts]
    /\ h[0] = <<<<>>>>
    /\ \A i \in 1 .. Len(data) : h[i] = SplitOne(h[i - 1], data[i], separator)

LEMMA SplitOneTyped ==
    ASSUME NEW parts \in SomeParts, NEW byte \in Byte, NEW separator
    PROVE  /\ SplitOne(parts, byte, separator) \in SomeParts
           /\ byte = separator => SplitOne(parts, byte, separator) = Append(parts, <<>>)
           /\ byte # separator =>
                 /\ Len(SplitOne(parts, byte, separator)) = Len(parts)
                 /\ \A i \in 1 .. Len(parts) - 1 : SplitOne(parts, byte, separator)[i] = parts[i]
                 /\ SplitOne(parts, byte, separator)[Len(parts)] = Append(parts[Len(parts)], byte)
<1> DEFINE n == Len(parts)
           next == SplitOne(parts, byte, separator)
<1>1. parts \in Seq(Seq(Byte)) /\ n \in Nat /\ n > 0
    BY DEF SomeParts
<1>2. CASE byte = separator
    <2>1. next = Append(parts, <<>>)
        BY <1>2 DEF SplitOne
    <2>2. Append(parts, <<>>) \in Seq(Seq(Byte)) /\ Len(Append(parts, <<>>)) = n + 1
        BY <1>1
    <2>. QED
        BY <1>1, <1>2, <2>1, <2>2 DEF SomeParts
<1>3. CASE byte # separator
    <2> DEFINE last == Append(parts[n], byte)
    <2>1. n \in 1 .. n /\ parts[n] \in Seq(Byte)
        BY <1>1
    <2>2. last \in Seq(Byte)
        BY <2>1
    <2>3. next = [parts EXCEPT ![n] = last]
        BY <1>3 DEF SplitOne
    <2> HIDE DEF last, next
    <2>4. /\ next \in Seq(Seq(Byte)) /\ Len(next) = n /\ next[n] = last
          /\ \A i \in 1 .. n - 1 : next[i] = parts[i]
        BY <1>1, <2>1, <2>2, <2>3
    <2>5. next \in SomeParts
        BY <1>1, <2>4 DEF SomeParts
    <2>. QED
        BY <1>3, <2>4, <2>5 DEF next, last
<1>. QED
    BY <1>2, <1>3

\* A byte that is no separator belongs to the last part.
GrowsOne(next, parts, byte) ==
    /\ next \in SomeParts /\ Len(next) = Len(parts)
    /\ \A i \in 1 .. Len(parts) - 1 : next[i] = parts[i]
    /\ next[Len(parts)] = Append(parts[Len(parts)], byte)

LEMMA SplitOneGrows ==
    ASSUME NEW parts \in SomeParts, NEW byte \in Byte, NEW separator, byte # separator
    PROVE  GrowsOne(SplitOne(parts, byte, separator), parts, byte)
    BY SplitOneTyped DEF GrowsOne

LEMMA SplitFold ==
    ASSUME NEW data \in Seq(Byte), NEW separator
    PROVE  \E h : /\ Splits(h, data, separator)
                  /\ (CHOOSE g : g = SplitNext(g, data, separator, DOMAIN data))[DOMAIN data]
                         = h[Len(data)]
<1> DEFINE k == Len(data)
           S == SomeParts
           step == [p \in Nat \X S |->
                       IF p[1] \in 1 .. k THEN SplitOne(p[2], data[p[1]], separator) ELSE p[2]]
           g == CHOOSE h : h = SplitNext(h, data, separator, 1 .. k)
           first == <<<<>>>>
<1>0. k \in Nat /\ DOMAIN data = 1 .. k /\ \A i \in 1 .. k : data[i] \in Byte
    OBVIOUS
<1>1. ASSUME NEW i \in 1 .. k, NEW x \in S
      PROVE  SplitOne(x, data[i], separator) \in S
    BY <1>0, SplitOneTyped
<1>2. first \in S
    <2>1. <<>> \in Seq(Byte)
        OBVIOUS
    <2>. QED
        BY <2>1 DEF SomeParts
<1> HIDE DEF k, S, first
<1>3. ASSUME NEW p \in Nat \X S
      PROVE  (IF p[1] \in 1 .. k THEN SplitOne(p[2], data[p[1]], separator) ELSE p[2]) \in S
    <2>1. p[2] \in S
        OBVIOUS
    <2>. QED
        BY <1>1, <2>1
<1>4. step \in [Nat \X S -> S]
    BY <1>3
<1>5. ASSUME NEW i \in 1 .. k, NEW x \in S
      PROVE  step[<<i, x>>] = SplitOne(x, data[i], separator)
    <2>1. <<i, x>> \in Nat \X S
        BY <1>0
    <2>. QED
        BY <2>1
<1> HIDE DEF step, g
<1>6. PICK f \in [SUBSET (1 .. k) -> S] : FoldsBy(f, k, first, step)
    BY <1>0, <1>2, <1>4, FoldExists
<1>7. f = SplitNext(f, data, separator, 1 .. k)
    <2>1. ASSUME NEW s \in SUBSET (1 .. k)
          PROVE  f[s] = IF s = {} THEN first
                        ELSE SplitOne(f[s \ {Max(s)}], data[Max(s)], separator)
        <3>1. CASE s = {}
            BY <1>6, <3>1 DEF FoldsBy
        <3>2. CASE s # {}
            <4>1. f[s] = step[<<Max(s), f[s \ {Max(s)}]>>]
                BY <1>6, <3>2 DEF FoldsBy
            <4>2. Max(s) \in 1 .. k /\ s \ {Max(s)} \in SUBSET (1 .. k)
                BY <1>0, <3>2, MaxIn
            <4>3. f[s \ {Max(s)}] \in S
                BY <1>6, <4>2
            <4>4. step[<<Max(s), f[s \ {Max(s)}]>>]
                      = SplitOne(f[s \ {Max(s)}], data[Max(s)], separator)
                BY <1>5, <4>2, <4>3
            <4>. QED
                BY <3>2, <4>1, <4>4, Zenon
        <3>. QED
            BY <3>1, <3>2
    <2>. QED
        BY <2>1 DEF SplitNext, first
<1>8. g = SplitNext(g, data, separator, 1 .. k)
    BY <1>7 DEF g
<1>9. g[{}] = first
    <2>1. {} \in SUBSET (1 .. k)
        OBVIOUS
    <2>. QED
        BY <1>8, <2>1 DEF SplitNext, first
<1>10. ASSUME NEW i \in 1 .. k, g[1 .. i - 1] \in S
       PROVE  g[1 .. i] = step[<<i, g[1 .. i - 1]>>]
    <2>1. /\ Max(1 .. i) = i /\ (1 .. i) \ {Max(1 .. i)} = 1 .. i - 1
          /\ 1 .. i # {} /\ 1 .. i \in SUBSET (1 .. k)
        BY <1>0, FirstNumbers
    <2>2. g[1 .. i] = SplitOne(g[(1 .. i) \ {Max(1 .. i)}], data[Max(1 .. i)], separator)
        BY <1>8, <2>1 DEF SplitNext
    <2>3. g[1 .. i] = SplitOne(g[1 .. i - 1], data[i], separator)
        BY <2>1, <2>2, Zenon
    <2>4. step[<<i, g[1 .. i - 1]>>] = SplitOne(g[1 .. i - 1], data[i], separator)
        BY <1>5, <1>10
    <2>. QED
        BY <2>3, <2>4, Zenon
<1>11. Chained(g, k, S, first, step)
    <2>1. FoldsFirst(g, k, S, first, step)
        BY <1>9, <1>10 DEF FoldsFirst
    <2>. QED
        BY <1>0, <1>2, <1>4, <2>1, FoldChain
<1>12. PICK h \in [0 .. k -> S] : Iterates(h, k, first, step) /\ h[k] = g[1 .. k]
    BY <1>11 DEF Chained
<1>13. ASSUME NEW i \in 1 .. k
       PROVE  h[i] = SplitOne(h[i - 1], data[i], separator)
    <2>1. h[i - 1] \in S /\ h[i] = step[<<i, h[i - 1]>>]
        BY <1>0, <1>12 DEF Iterates
    <2>. QED
        BY <1>5, <2>1
<1>14. Splits(h, data, separator)
    BY <1>12, <1>13 DEF Splits, Iterates, k, S, first
<1>15. (CHOOSE e : e = SplitNext(e, data, separator, 1 .. k))[1 .. k] = h[k]
    BY <1>12 DEF g
<1>. QED
    BY <1>0, <1>14, <1>15 DEF k

LEMMA SplitIs ==
    ASSUME NEW data \in Seq(Byte), NEW separator
    PROVE  \E h : Splits(h, data, separator) /\ Split(data, separator) = h[Len(data)]
<1>1. Split(data, separator)
          = (CHOOSE h : h = SplitNext(h, data, separator, DOMAIN data))[DOMAIN data]
    BY DEF Split, FoldLeft, MapThenFoldSet, SplitNext, SplitOne
<1>. QED
    BY <1>1, SplitFold

PathPieces(segments) ==
    [i \in 1 .. Len(segments) |-> IF i = 1 THEN segments[i] ELSE <<Terminator>> \o segments[i]]

\* Segment k is in the path behind its separator, and they are in a row.
SegmentAt(path, c, segments, k) ==
    LET start == IF k = 1 THEN 0 ELSE Len(c[k - 1]) + 1 IN
    /\ start + Len(segments[k]) = Len(c[k])
    /\ Len(c[k]) <= Len(path)
    /\ k # 1 => path[start] = Terminator
    /\ \A j \in 1 .. Len(segments[k]) : path[start + j] = segments[k][j]

LEMMA PathIs ==
    ASSUME NEW segments \in Seq(Seq(Byte)), segments # <<>>
    PROVE  \E c : /\ ChainOf(c, PathPieces(segments), Len(segments), Byte)
                  /\ EncodePath(segments) = c[Len(segments)]
                  /\ \A k \in 1 .. Len(segments) : SegmentAt(EncodePath(segments), c, segments, k)
<1> DEFINE m == Len(segments)
           pieces == PathPieces(segments)
           path == EncodePath(segments)
<1>0. m \in Nat /\ DOMAIN segments = 1 .. m /\ \A i \in 1 .. m : segments[i] \in Seq(Byte)
    OBVIOUS
<1>1. \A i \in 1 .. m : pieces[i] = IF i = 1 THEN segments[i] ELSE <<Terminator>> \o segments[i]
    BY DEF PathPieces
<1>2. <<Terminator>> \in Seq(Byte) /\ Len(<<Terminator>>) = 1 /\ <<Terminator>>[1] = Terminator
    BY Widths DEF Terminator
<1>3. ASSUME NEW i \in 1 .. m, i # 1
      PROVE  /\ pieces[i] \in Seq(Byte) /\ Len(pieces[i]) = 1 + Len(segments[i])
             /\ pieces[i][1] = Terminator
             /\ \A j \in 1 .. Len(segments[i]) : pieces[i][1 + j] = segments[i][j]
    <2> DEFINE t == <<Terminator>>
               s == segments[i]
    <2>1. t \in Seq(Byte) /\ s \in Seq(Byte) /\ pieces[i] = t \o s /\ Len(t) = 1 /\ t[1] = Terminator
        BY <1>0, <1>1, <1>2, <1>3
    <2> HIDE DEF t, s, pieces
    <2>2. Joins(t \o s, Byte, t, s)
        BY <2>1, JoinIs
    <2>3. Joins(pieces[i], Byte, t, s)
        BY <2>1, <2>2
    <2>. QED
        BY <2>1, <2>3 DEF Joins, s
<1>4. ASSUME NEW i \in 1 .. m
      PROVE  pieces[i] \in Seq(Byte)
    BY <1>0, <1>1, <1>3
<1>5. pieces \in Seq(Seq(Byte)) /\ Len(pieces) = m /\ Typed(pieces, m, Seq(Byte))
    BY <1>0, <1>4 DEF PathPieces, Typed
<1>6. path = FlattenSeq(pieces)
    BY <1>0 DEF EncodePath, PathPieces
<1> HIDE DEF m, pieces, path
<1>7. PICK c : ChainOf(c, pieces, m, Byte) /\ path = c[m]
    <2>1. PICK c : ChainOf(c, pieces, Len(pieces), Byte) /\ FlattenSeq(pieces) = c[Len(pieces)]
        BY <1>5, FlattenChain
    <2>2. ChainOf(c, pieces, m, Byte) /\ path = c[m]
        BY <1>5, <1>6, <2>1
    <2>. QED
        BY <2>2
<1>8. Placed(path, c, pieces, m)
    BY <1>0, <1>5, <1>7, ChainPlaces
<1>9. ASSUME NEW k \in 1 .. m
      PROVE  SegmentAt(path, c, segments, k)
    <2> DEFINE x == Len(c[k - 1])
               y == Len(c[k])
               l == Len(segments[k])
    <2>1. /\ y = x + Len(pieces[k]) /\ y <= Len(path)
          /\ \A j \in 1 .. Len(pieces[k]) : path[x + j] = pieces[k][j]
        BY <1>8 DEF Placed
    <2>2. x \in Nat /\ l \in Nat
        <3>1. k - 1 \in 0 .. m
            BY <1>0
        <3>2. c[k - 1] \in Seq(Byte) /\ segments[k] \in Seq(Byte)
            BY <1>0, <1>7, <3>1 DEF ChainOf
        <3>. QED
            BY <3>2
    <2>3. CASE k = 1
        <3>1. c[k - 1] = <<>>
            BY <1>7, <2>3 DEF ChainOf
        <3>2. x = 0 /\ pieces[k] = segments[k]
            BY <1>1, <2>3, <3>1
        <3> HIDE DEF x, y
        <3>3. y = l
            BY <2>1, <2>2, <3>2
        <3>4. \A j \in 1 .. l : path[0 + j] = segments[k][j]
            BY <2>1, <3>2
        <3>. QED
            BY <2>1, <2>2, <2>3, <3>3, <3>4 DEF SegmentAt, y
    <2>4. CASE k # 1
        <3>1. /\ Len(pieces[k]) = 1 + l /\ pieces[k][1] = Terminator
              /\ \A j \in 1 .. l : pieces[k][1 + j] = segments[k][j]
            BY <1>3, <2>4
        <3> HIDE DEF x, y, l
        <3>2. y = x + 1 + l
            BY <2>1, <2>2, <3>1
        <3>3. path[x + 1] = Terminator
            BY <2>1, <2>2, <3>1
        <3>4. ASSUME NEW j \in 1 .. l
              PROVE  path[x + 1 + j] = segments[k][j]
            <4>1. 1 + j \in 1 .. Len(pieces[k]) /\ x + (1 + j) = x + 1 + j
                BY <2>2, <3>1
            <4>2. path[x + (1 + j)] = pieces[k][1 + j]
                BY <2>1, <4>1
            <4>. QED
                BY <3>1, <4>1, <4>2
        <3>. QED
            BY <2>1, <2>4, <3>2, <3>3, <3>4 DEF SegmentAt, x, y, l
    <2>. QED
        BY <2>3, <2>4
<1>. QED
    BY <1>7, <1>9 DEF m, pieces, path

\* The parts after j bytes of segment k.
PartsAre(parts, segments, k, j) ==
    /\ parts \in SomeParts /\ Len(parts) = k
    /\ \A i \in 1 .. k - 1 : parts[i] = segments[i]
    /\ Len(parts[k]) = j /\ \A i \in 1 .. j : parts[k][i] = segments[k][i]

LEMMA PartGrows ==
    ASSUME NEW segments, NEW k \in Nat \ {0}, NEW j \in Nat,
           NEW parts, PartsAre(parts, segments, k, j),
           NEW byte \in Byte, byte # Terminator, byte = segments[k][j + 1]
    PROVE  PartsAre(SplitOne(parts, byte, Terminator), segments, k, j + 1)
<1> DEFINE next == SplitOne(parts, byte, Terminator)
           part == parts[k]
           last == Append(part, byte)
<1>1. /\ parts \in SomeParts /\ Len(parts) = k
      /\ \A i \in 1 .. k - 1 : parts[i] = segments[i]
      /\ Len(part) = j /\ \A i \in 1 .. j : part[i] = segments[k][i]
    BY DEF PartsAre
<1>2. /\ next \in SomeParts /\ Len(next) = k /\ next[k] = last
      /\ \A i \in 1 .. k - 1 : next[i] = parts[i]
    <2>1. parts \in SomeParts /\ Len(parts) = k
        BY <1>1
    <2>2. GrowsOne(next, parts, byte)
        BY <2>1, SplitOneGrows
    <2> HIDE DEF next
    <2>3. Len(next) = Len(parts) /\ next[Len(parts)] = Append(parts[Len(parts)], byte)
        BY <2>2 DEF GrowsOne
    <2>4. next \in SomeParts /\ \A i \in 1 .. Len(parts) - 1 : next[i] = parts[i]
        BY <2>2 DEF GrowsOne
    <2>. QED
        BY <2>1, <2>3, <2>4
<1>3. part \in Seq(Byte)
    <2>1. parts \in Seq(Seq(Byte)) /\ k \in 1 .. Len(parts)
        BY <1>1 DEF SomeParts
    <2>. QED
        BY <2>1
<1> HIDE DEF next, part
<1>4. Len(last) = j + 1 /\ last[j + 1] = byte /\ \A i \in 1 .. j : last[i] = part[i]
    BY <1>1, <1>3
<1> HIDE DEF last
<1>5. \A i \in 1 .. j + 1 : last[i] = segments[k][i]
    <2>1. \A i \in 1 .. j + 1 : i = j + 1 \/ i \in 1 .. j
        OBVIOUS
    <2>. QED
        BY <1>1, <1>4, <2>1
<1>6. \A i \in 1 .. k - 1 : next[i] = segments[i]
    BY <1>1, <1>2
<1>. QED
    BY <1>2, <1>4, <1>5, <1>6 DEF PartsAre, next

LEMMA PartBegins ==
    ASSUME NEW segments \in Seq(Seq(Byte)), NEW k \in 1 .. Len(segments),
           NEW parts, PartsAre(parts, segments, k, Len(segments[k]))
    PROVE  /\ PartsAre(SplitOne(parts, Terminator, Terminator), segments, k + 1, 0)
           /\ \A i \in 1 .. k : parts[i] = segments[i]
<1> DEFINE next == SplitOne(parts, Terminator, Terminator)
<1>1. /\ parts \in SomeParts /\ Len(parts) = k
      /\ \A i \in 1 .. k - 1 : parts[i] = segments[i]
      /\ Len(parts[k]) = Len(segments[k])
      /\ \A i \in 1 .. Len(segments[k]) : parts[k][i] = segments[k][i]
    BY DEF PartsAre
<1>2. next \in SomeParts /\ next = Append(parts, <<>>)
    BY <1>1, SplitOneTyped, Widths DEF Terminator
<1>3. parts \in Seq(Seq(Byte)) /\ parts[k] \in Seq(Byte) /\ segments[k] \in Seq(Byte) /\ k \in Nat
    <2>1. parts \in Seq(Seq(Byte)) /\ k \in 1 .. Len(parts)
        BY <1>1 DEF SomeParts
    <2>. QED
        BY <2>1
<1>4. parts[k] = segments[k]
    BY <1>1, <1>3, SeqEqual
<1>5. ASSUME NEW i \in 1 .. k
      PROVE  parts[i] = segments[i]
    <2>1. i = k \/ i \in 1 .. k - 1
        BY <1>3
    <2>. QED
        BY <1>1, <1>4, <2>1
<1> HIDE DEF next
<1>6. Len(next) = k + 1 /\ next[k + 1] = <<>> /\ \A i \in 1 .. k : next[i] = parts[i]
    BY <1>1, <1>2, <1>3
<1>7. k + 1 - 1 = k /\ Len(<<>>) = 0
    BY <1>3
<1>8. PartsAre(next, segments, k + 1, 0)
    BY <1>2, <1>5, <1>6, <1>7 DEF PartsAre
<1>. QED
    BY <1>5, <1>8 DEF next

LEMMA TrimmedPath ==
    ASSUME NEW path \in Seq(Byte)
    PROVE  /\ Append(path, Terminator) # <<>> /\ Last(Append(path, Terminator)) = Terminator
           /\ Front(Append(path, Terminator)) = path
<1> DEFINE s == Append(path, Terminator)
           l == Len(path)
<1>1. Terminator \in Byte
    BY Widths DEF Terminator
<1>2. s \in Seq(Byte) /\ Len(s) = l + 1 /\ s[l + 1] = Terminator /\ \A i \in 1 .. l : s[i] = path[i]
    BY <1>1
<1>3. l \in Nat
    OBVIOUS
<1> HIDE DEF s
<1>4. s # <<>> /\ Last(s) = Terminator
    BY <1>2, <1>3 DEF Last
<1>5. SubSeq(s, 0 + 1, 0 + l) = path
    <2>1. \A i \in 1 .. l : s[0 + i] = path[i]
        BY <1>2, <1>3
    <2>2. 0 + l <= Len(s)
        BY <1>2, <1>3
    <2>. QED
        BY <1>2, <2>1, <2>2, FieldIs
<1>6. Front(s) = path
    <2>1. 0 + 1 = 1 /\ 0 + l = Len(s) - 1
        BY <1>2, <1>3
    <2> HIDE DEF l
    <2>. QED
        BY <1>5, <2>1 DEF Front
<1>. QED
    BY <1>4, <1>6 DEF s

\* The split of a path that is put together from its segments.
LEMMA PathSplits ==
    ASSUME NEW segments \in Seq(Seq(Byte)), segments # <<>>,
           \A k \in 1 .. Len(segments) : \A j \in 1 .. Len(segments[k]) : segments[k][j] # Terminator
    PROVE  /\ EncodePath(segments) \in Seq(Byte)
           /\ Split(EncodePath(segments), Terminator) = segments
           /\ segments[Len(segments)] # <<>> =>
                 EncodePath(segments) # <<>> /\ Last(EncodePath(segments)) # Terminator
<1> DEFINE m == Len(segments)
           path == EncodePath(segments)
<1>0. m \in Nat /\ m >= 1 /\ \A k \in 1 .. m : segments[k] \in Seq(Byte)
    OBVIOUS
<1>00. ASSUME NEW k \in 1 .. m
       PROVE  /\ Len(segments[k]) \in Nat
              /\ \A j \in 1 .. Len(segments[k]) : segments[k][j] \in Byte /\ segments[k][j] # Terminator
    BY <1>0
<1>1. PICK c : /\ ChainOf(c, PathPieces(segments), m, Byte)
               /\ path = c[m]
               /\ \A k \in 1 .. m : SegmentAt(path, c, segments, k)
    BY PathIs
<1>2. path \in Seq(Byte) /\ \A k \in 0 .. m : Len(c[k]) \in Nat
    <2>1. \A k \in 0 .. m : c[k] \in Seq(Byte)
        BY <1>1 DEF ChainOf
    <2>2. m \in 0 .. m
        BY <1>0
    <2>. QED
        BY <1>1, <2>1, <2>2
<1>3. PICK h : Splits(h, path, Terminator) /\ Split(path, Terminator) = h[Len(path)]
    BY <1>2, SplitIs
<1>4. /\ h[0] = <<<<>>>> /\ \A i \in 0 .. Len(path) : h[i] \in SomeParts
      /\ \A i \in 1 .. Len(path) : h[i] = SplitOne(h[i - 1], path[i], Terminator)
    BY <1>3 DEF Splits
<1>45. \A i \in 1 .. Len(path) : h[i] = SplitOne(h[i - 1], path[i], Terminator)
    BY <1>4
<1>5. Len(path) \in Nat
    BY <1>2
<1> HIDE DEF m, path
\* The place where segment k starts.
<1> DEFINE start(k) == IF k = 1 THEN 0 ELSE Len(c[k - 1]) + 1
<1>6. ASSUME NEW k \in 1 .. m
      PROVE  /\ start(k) \in Nat /\ start(k) + Len(segments[k]) = Len(c[k])
             /\ Len(c[k]) <= Len(path)
             /\ k # 1 => path[start(k)] = Terminator
             /\ \A j \in 1 .. Len(segments[k]) : path[start(k) + j] = segments[k][j]
    <2>1. k - 1 \in 0 .. m
        BY <1>0
    <2>2. start(k) \in Nat
        BY <1>2, <2>1
    <2>3. SegmentAt(path, c, segments, k)
        BY <1>1
    <2>. QED
        BY <2>2, <2>3 DEF SegmentAt
<1> HIDE DEF start
<1>7. ASSUME NEW k \in 1 .. m, PartsAre(h[start(k)], segments, k, 0)
      PROVE  PartsAre(h[Len(c[k])], segments, k, Len(segments[k]))
    <2> DEFINE l == Len(segments[k])
               b == start(k)
               Q == {j \in 0 .. l : PartsAre(h[b + j], segments, k, j)}
    <2>0. /\ l \in Nat /\ b \in Nat /\ b + l = Len(c[k]) /\ Len(c[k]) <= Len(path)
          /\ k \in Nat \ {0}
          /\ \A j \in 1 .. l : path[b + j] = segments[k][j]
        BY <1>00, <1>6
    <2>00. Len(c[k]) \in Nat
        BY <2>0
    <2>1. 0 \in Q
        <3>1. b + 0 = b
            BY <2>0
        <3>. QED
            BY <1>7, <2>0, <3>1
    <2>2. ASSUME NEW j \in 1 .. l, j - 1 \in Q
          PROVE  j \in Q
        <3> DEFINE byte == segments[k][j]
                   q == b + j
        <3>1. /\ byte \in Byte /\ byte # Terminator
              /\ path[q] = byte
            BY <1>00, <2>0
        <3>2. /\ q \in 1 .. Len(path) /\ q - 1 = b + (j - 1)
              /\ j - 1 + 1 = j /\ j - 1 \in Nat /\ j \in 0 .. l
            <4>1. b \in Nat /\ l \in Nat /\ b + l <= Len(path) /\ Len(path) \in Nat
                BY <1>5, <2>0
            <4> HIDE DEF b, l
            <4>. QED
                BY <4>1
        <3>4. PartsAre(h[b + (j - 1)], segments, k, j - 1)
            BY <2>2
        <3>5. byte = segments[k][j - 1 + 1]
            BY <3>2
        <3> HIDE DEF byte, q
        <3>3. h[q] = SplitOne(h[q - 1], path[q], Terminator)
            BY <1>45, <3>2, Zenon
        <3>6. PartsAre(SplitOne(h[b + (j - 1)], byte, Terminator), segments, k, j - 1 + 1)
            BY <2>0, <3>1, <3>2, <3>4, <3>5, PartGrows
        <3>7. PartsAre(h[q], segments, k, j)
            BY <3>1, <3>2, <3>3, <3>6
        <3>8. PartsAre(h[b + j], segments, k, j)
            BY <3>7 DEF q
        <3>. QED
            BY <3>2, <3>8
    <2>3. l \in Q
        <3>1. l \in 0 .. l
            BY <2>0
        <3> HIDE DEF Q, l
        <3>. QED
            BY <2>0, <2>1, <2>2, <3>1, UpTo
    <2>4. PartsAre(h[b + l], segments, k, l)
        BY <2>3
    <2>. QED
        BY <2>0, <2>4
<1> DEFINE P == {k \in 0 .. m : k > 0 => PartsAre(h[Len(c[k])], segments, k, Len(segments[k]))}
<1>8. 0 \in P
    BY <1>0
<1>9. ASSUME NEW k \in 1 .. m, k - 1 \in P
      PROVE  k \in P
    <2>1. PartsAre(h[start(k)], segments, k, 0)
        <3>1. CASE k = 1
            <4>1. start(k) = 0
                BY <3>1 DEF start
            <4>2. <<<<>>>> \in SomeParts
                <5>1. <<>> \in Seq(Byte)
                    OBVIOUS
                <5>. QED
                    BY <5>1 DEF SomeParts
            <4>3. PartsAre(<<<<>>>>, segments, 1, 0)
                BY <4>2 DEF PartsAre
            <4>. QED
                BY <1>4, <3>1, <4>1, <4>3
        <3>2. CASE k # 1
            <4> DEFINE i == k - 1
            <4>1. i \in 1 .. m /\ i > 0 /\ i + 1 = k /\ i \in 0 .. m
                BY <1>0, <3>2
            <4>2. start(k) = Len(c[i]) + 1
                BY <3>2 DEF start
            <4>3. PartsAre(h[Len(c[i])], segments, i, Len(segments[i]))
                BY <1>9, <4>1
            <4> HIDE DEF i
            <4>4. PartsAre(SplitOne(h[Len(c[i])], Terminator, Terminator), segments, i + 1, 0)
                BY <4>1, <4>3, PartBegins DEF m
            <4>5. start(k) \in 1 .. Len(path) /\ start(k) - 1 = Len(c[i]) /\ path[start(k)] = Terminator
                <5> DEFINE x == Len(c[i])
                           y == Len(c[k])
                           l == Len(segments[k])
                           s == start(k)
                <5>1. /\ x \in Nat /\ l \in Nat /\ s = x + 1 /\ s + l = y /\ y <= Len(path)
                      /\ path[s] = Terminator
                    BY <1>00, <1>2, <1>6, <3>2, <4>1, <4>2
                <5> HIDE DEF x, y, l, s
                <5>2. s \in 1 .. Len(path) /\ s - 1 = x
                    BY <1>5, <5>1
                <5>. QED
                    BY <5>1, <5>2 DEF s, x
            <4>6. h[start(k)] = SplitOne(h[Len(c[i])], Terminator, Terminator)
                <5>1. h[start(k)] = SplitOne(h[start(k) - 1], path[start(k)], Terminator)
                    BY <1>4, <4>5
                <5>. QED
                    BY <4>5, <5>1
            <4>. QED
                BY <4>1, <4>4, <4>6
        <3>. QED
            BY <3>1, <3>2
    <2>2. PartsAre(h[Len(c[k])], segments, k, Len(segments[k]))
        BY <1>7, <2>1
    <2>3. k \in 0 .. m
        BY <1>0
    <2>. QED
        BY <2>2, <2>3
<1>10. m \in P /\ m > 0 /\ m \in 1 .. m
    <2>1. m \in 0 .. m /\ m > 0 /\ m \in 1 .. m
        BY <1>0
    <2> HIDE DEF P
    <2>. QED
        BY <1>0, <1>8, <1>9, <2>1, UpTo
<1>11. PartsAre(h[Len(path)], segments, m, Len(segments[m]))
    <2>1. Len(c[m]) = Len(path)
        BY <1>1
    <2>. QED
        BY <1>10, <2>1
<1>12. h[Len(path)] = segments
    <2> DEFINE parts == h[Len(path)]
    <2>0. m \in 1 .. Len(segments) /\ PartsAre(parts, segments, m, Len(segments[m]))
        BY <1>10, <1>11 DEF m
    <2>1. \A i \in 1 .. m : parts[i] = segments[i]
        <3> HIDE DEF parts
        <3>. QED
            BY <2>0, PartBegins
    <2>2. parts \in Seq(Seq(Byte)) /\ Len(parts) = m
        BY <1>11 DEF PartsAre, SomeParts
    <2> HIDE DEF parts
    <2>3. Len(segments) = m
        BY DEF m
    <2>4. parts = segments
        BY <2>1, <2>2, <2>3, SeqEqual
    <2>. QED
        BY <2>4 DEF parts
<1>13. ASSUME segments[m] # <<>>
       PROVE  path # <<>> /\ Last(path) # Terminator
    <2> DEFINE l == Len(segments[m])
               s == start(m)
    <2>1. l \in Nat /\ l # 0
        <3>1. segments[m] \in Seq(Byte)
            BY <1>0, <1>10
        <3>. QED
            BY <1>13, <3>1
    <2>2. /\ s \in Nat /\ s + l = Len(c[m]) /\ Len(c[m]) = Len(path)
          /\ \A j \in 1 .. l : path[s + j] = segments[m][j]
        BY <1>1, <1>6, <1>10
    <2>3. l \in 1 .. l
        BY <2>1
    <2>4. segments[m][l] # Terminator
        BY <1>00, <1>10, <2>3
    <2> HIDE DEF l, s
    <2>5. s + l = Len(path) /\ Len(path) # 0
        BY <1>5, <2>1, <2>2
    <2>6. path[s + l] = segments[m][l]
        BY <2>2, <2>3
    <2>7. path[Len(path)] # Terminator
        BY <2>4, <2>5, <2>6
    <2>. QED
        BY <2>5, <2>7 DEF Last
<1>. QED
    BY <1>2, <1>3, <1>12, <1>13 DEF m, path

LEMMA PathRoundTrips ==
    ASSUME NEW segments \in Seq(Seq(Byte))
    PROVE  PathRoundTrip(segments)
<1> DEFINE m == Len(segments)
           path == EncodePath(segments)
<1>0. DOMAIN segments = 1 .. m /\ \A k \in 1 .. m : segments[k] \in Seq(Byte)
    OBVIOUS
<1>1. ASSUME segments # <<>>, Last(segments) # <<>>,
             \A i \in DOMAIN segments : Terminator \notin Range(segments[i])
      PROVE  /\ DecodePath(path) = segments
             /\ DecodePath(Append(path, Terminator)) = segments
    <2>1. ASSUME NEW k \in 1 .. m, NEW j \in 1 .. Len(segments[k])
          PROVE  segments[k][j] # Terminator
        <3>1. segments[k] \in Seq(Byte) /\ Terminator \notin Range(segments[k])
            BY <1>0, <1>1
        <3>2. j \in DOMAIN segments[k]
            BY <3>1
        <3>. QED
            BY <3>1, <3>2 DEF Range
    <2>2. segments[m] # <<>>
        BY <1>1 DEF Last
    <2>3. /\ path \in Seq(Byte) /\ Split(path, Terminator) = segments
          /\ path # <<>> /\ Last(path) # Terminator
        BY <1>1, <2>1, <2>2, PathSplits
    <2> HIDE DEF path
    <2>4. DecodePath(path) = segments
        BY <2>3 DEF DecodePath
    <2>5. DecodePath(Append(path, Terminator)) = segments
        <3> DEFINE longer == Append(path, Terminator)
        <3>1. longer # <<>> /\ Last(longer) = Terminator /\ Front(longer) = path
            BY <2>3, TrimmedPath
        <3> HIDE DEF longer
        <3>2. DecodePath(longer) = segments
            BY <2>3, <3>1 DEF DecodePath
        <3>. QED
            BY <3>2 DEF longer
    <2>. QED
        BY <2>4, <2>5
<1>. QED
    BY <1>1 DEF PathRoundTrip

\* Strict decoding of any bytes under any limits, and the way back of any map
\* and of any path (codec/pairs.rs, codec/path.rs): what decodes to pairs is
\* their one encoding, and what encodes decodes to the same.
THEOREM CodecHolds == sample \in Inputs => CodecStrict
<1> SUFFICES ASSUME sample \in Inputs PROVE CodecStrict
    OBVIOUS
<1>1. /\ sample.data \in Seq(Byte) /\ sample.map \in Seq(Pair)
      /\ sample.limits.pairs \in Nat \cup {NoLimit}
    BY DEF Inputs
<1>2. [i \in DOMAIN sample.map |-> sample.map[i][1]] \in Seq(Seq(Byte))
    <2> DEFINE map == sample.map
    <2>1. DOMAIN map = 1 .. Len(map) /\ Len(map) \in Nat /\ \A i \in 1 .. Len(map) : map[i][1] \in Seq(Byte)
        BY <1>1, MapTyped, PairFacts
    <2> HIDE DEF map
    <2>2. [i \in DOMAIN map |-> map[i][1]] \in Seq(Seq(Byte))
        BY <2>1
    <2>. QED
        BY <2>2 DEF map
<1>3. StrictDecode(sample.data, sample.limits)
    BY <1>1, StrictDecodes
<1>4. RoundTrip(sample.map)
    BY <1>1, RoundTrips
<1>5. PathRoundTrip([i \in DOMAIN sample.map |-> sample.map[i][1]])
    BY <1>2, PathRoundTrips
<1>. QED
    BY <1>3, <1>4, <1>5 DEF CodecStrict
=============================================================================
