----------------------------- MODULE Iteration ------------------------------
(***************************************************************************)
(* What a recursive function of this project, and a fold over a sequence,   *)
(* compute.  The induction is on sets of numbers, and the function that is  *)
(* repeated is a parameter, so that the facts can be instantiated.          *)
(***************************************************************************)
EXTENDS Integers, SequencesExt, WellFoundedInduction, SequenceTheorems, TLAPS

\* A set that has zero and every successor up to n has every number up to n.
LEMMA UpTo ==
    ASSUME NEW n \in Nat, NEW P, 0 \in P, \A i \in 1 .. n : i - 1 \in P => i \in P
    PROVE  \A i \in 0 .. n : i \in P
<1> DEFINE less == OpToRel(<, Nat)
           bad == {i \in 0 .. n : i \notin P}
<1> SUFFICES ASSUME bad # {} PROVE FALSE
    OBVIOUS
<1>1. bad \subseteq Nat
    OBVIOUS
<1>2. IsWellFoundedOn(less, Nat)
    BY NatLessThanWellFounded
<1>3. PICK i \in bad : \A j \in bad : <<j, i>> \notin less
    <2> HIDE DEF less, bad
    <2>. QED
        BY <1>1, <1>2, WFMin
<1>4. \A j \in bad : ~(j < i)
    BY <1>1, <1>3 DEF OpToRel
<1>5. i \in 1 .. n
    OBVIOUS
<1>6. i - 1 \in P
    BY <1>4, <1>5
<1>. QED
    BY <1>5, <1>6

\* A function that starts at `base' and goes on by `step'.
Iterates(g, n, base, step) ==
    /\ g[0] = base
    /\ \A i \in 1 .. n : g[i] = step[<<i, g[i - 1]>>]

LEMMA IterationExists ==
    ASSUME NEW n \in Nat, NEW S, NEW base \in S, NEW step \in [Nat \X S -> S]
    PROVE  \E g \in [0 .. n -> S] : Iterates(g, n, base, step)
<1> DEFINE P == {k \in Nat : \E g \in [0 .. k -> S] : Iterates(g, k, base, step)}
<1>1. 0 \in P
    <2> DEFINE g == [i \in 0 .. 0 |-> base]
    <2>1. g \in [0 .. 0 -> S] /\ Iterates(g, 0, base, step)
        BY DEF Iterates
    <2>. QED
        BY <2>1
<1>2. ASSUME NEW k \in 1 .. n, k - 1 \in P
      PROVE  k \in P
    <2>1. PICK g \in [0 .. k - 1 -> S] : Iterates(g, k - 1, base, step)
        BY <1>2
    <2> DEFINE h == [i \in 0 .. k |-> IF i = k THEN step[<<k, g[k - 1]>>] ELSE g[i]]
    <2>2. h \in [0 .. k -> S]
        <3>1. g[k - 1] \in S
            BY <2>1
        <3>2. step[<<k, g[k - 1]>>] \in S
            BY <3>1
        <3>. QED
            BY <2>1, <3>2
    <2>3. Iterates(h, k, base, step)
        <3>1. h[0] = base
            BY <2>1 DEF Iterates
        <3>2. ASSUME NEW i \in 1 .. k
              PROVE  h[i] = step[<<i, h[i - 1]>>]
            <4>1. h[i - 1] = g[i - 1]
                OBVIOUS
            <4>2. CASE i = k
                <5>1. h[k] = step[<<k, g[k - 1]>>]
                    OBVIOUS
                <5>. QED
                    BY <4>1, <4>2, <5>1
            <4>3. CASE i # k
                <5>1. i \in 1 .. k - 1 /\ h[i] = g[i]
                    BY <4>3
                <5>. QED
                    BY <2>1, <4>1, <5>1 DEF Iterates
            <4>. QED
                BY <4>2, <4>3
        <3>. QED
            BY <3>1, <3>2 DEF Iterates
    <2>. QED
        BY <2>2, <2>3
<1>3. \A i \in 0 .. n : i \in P
    <2> HIDE DEF P
    <2>. QED
        BY <1>1, <1>2, UpTo
<1>4. n \in P
    <2> HIDE DEF P
    <2>. QED
        BY <1>3
<1>. QED
    BY <1>4

\* The function on sets of numbers behind a fold: it takes the largest first.
FoldsBy(g, n, base, step) ==
    \A s \in SUBSET (1 .. n) :
        g[s] = IF s = {} THEN base ELSE step[<<Max(s), g[s \ {Max(s)}]>>]

LEMMA MaxWith ==
    ASSUME NEW k \in Nat, NEW s \in SUBSET (1 .. k), k \in s
    PROVE  Max(s) = k
<1>1. \A y \in s : k >= y
    OBVIOUS
<1>2. Max(s) \in s /\ \A y \in s : Max(s) >= y
    BY <1>1 DEF Max
<1>3. Max(s) \in 1 .. k /\ Max(s) >= k
    BY <1>2
<1>. QED
    BY <1>3

LEMMA MaxIn ==
    ASSUME NEW n \in Nat, NEW s \in SUBSET (1 .. n), s # {}
    PROVE  Max(s) \in s /\ Max(s) \in 1 .. n
<1> DEFINE P == {k \in Nat : \A t \in SUBSET (1 .. k) :
                    t # {} => \E x \in t : \A y \in t : x >= y}
<1>1. 0 \in P
    <2>1. \A t \in SUBSET (1 .. 0) : t = {}
        OBVIOUS
    <2>. QED
        BY <2>1
<1>2. ASSUME NEW k \in 1 .. n, k - 1 \in P
      PROVE  k \in P
    <2>1. ASSUME NEW t \in SUBSET (1 .. k), t # {}
          PROVE  \E x \in t : \A y \in t : x >= y
        <3>1. CASE k \in t
            BY <3>1
        <3>2. CASE k \notin t
            <4>1. t \in SUBSET (1 .. k - 1)
                BY <3>2
            <4>. QED
                BY <1>2, <2>1, <4>1
        <3>. QED
            BY <3>1, <3>2
    <2>. QED
        BY <2>1
<1>3. \A k \in 0 .. n : k \in P
    <2> HIDE DEF P
    <2>. QED
        BY <1>1, <1>2, UpTo
<1>4. n \in P
    <2> HIDE DEF P
    <2>. QED
        BY <1>3
<1>5. \E x \in s : \A y \in s : x >= y
    BY <1>4
<1>. QED
    BY <1>5 DEF Max

LEMMA FoldExists ==
    ASSUME NEW n \in Nat, NEW S, NEW base \in S, NEW step \in [Nat \X S -> S]
    PROVE  \E g \in [SUBSET (1 .. n) -> S] : FoldsBy(g, n, base, step)
<1> DEFINE P == {k \in Nat : \E g \in [SUBSET (1 .. k) -> S] : FoldsBy(g, k, base, step)}
<1>1. 0 \in P
    <2> DEFINE g == [s \in SUBSET (1 .. 0) |-> base]
    <2>1. g \in [SUBSET (1 .. 0) -> S]
        OBVIOUS
    <2>2. \A s \in SUBSET (1 .. 0) : s = {}
        OBVIOUS
    <2>3. FoldsBy(g, 0, base, step)
        BY <2>2 DEF FoldsBy
    <2>. QED
        BY <2>1, <2>3
<1>2. ASSUME NEW k \in 1 .. n, k - 1 \in P
      PROVE  k \in P
    <2>1. PICK g \in [SUBSET (1 .. k - 1) -> S] : FoldsBy(g, k - 1, base, step)
        BY <1>2
    <2> DEFINE h == [s \in SUBSET (1 .. k) |->
                        IF k \in s THEN step[<<k, g[s \ {k}]>>] ELSE g[s]]
    <2>2. ASSUME NEW s \in SUBSET (1 .. k)
          PROVE  /\ s \ {k} \in SUBSET (1 .. k - 1)
                 /\ k \notin s => s \in SUBSET (1 .. k - 1)
        OBVIOUS
    <2>3. h \in [SUBSET (1 .. k) -> S]
        <3>1. ASSUME NEW s \in SUBSET (1 .. k)
              PROVE  h[s] \in S
            <4>1. g[s \ {k}] \in S
                BY <2>1, <2>2
            <4>2. step[<<k, g[s \ {k}]>>] \in S
                BY <4>1
            <4>3. k \notin s => g[s] \in S
                BY <2>1, <2>2
            <4>. QED
                BY <4>2, <4>3
        <3>. QED
            BY <3>1
    <2>4. ASSUME NEW s \in SUBSET (1 .. k)
          PROVE  h[s] = IF s = {} THEN base ELSE step[<<Max(s), h[s \ {Max(s)}]>>]
        <3>1. CASE k \in s
            <4>1. Max(s) = k
                BY <3>1, MaxWith
            <4>2. h[s \ {k}] = g[s \ {k}]
                BY <2>2
            <4>. QED
                BY <3>1, <4>1, <4>2
        <3>2. CASE k \notin s
            <4>1. s \in SUBSET (1 .. k - 1) /\ h[s] = g[s]
                BY <2>2, <3>2
            <4>2. s \ {Max(s)} \in SUBSET (1 .. k) /\ k \notin s \ {Max(s)}
                BY <3>2
            <4>3. h[s \ {Max(s)}] = g[s \ {Max(s)}]
                BY <4>2
            <4>. QED
                BY <2>1, <4>1, <4>3 DEF FoldsBy
        <3>. QED
            BY <3>1, <3>2
    <2>5. FoldsBy(h, k, base, step)
        BY <2>4 DEF FoldsBy
    <2>6. k \in Nat
        OBVIOUS
    <2> HIDE DEF h
    <2>. QED
        BY <2>3, <2>5, <2>6
<1>3. \A i \in 0 .. n : i \in P
    <2> HIDE DEF P
    <2>. QED
        BY <1>1, <1>2, UpTo
<1>4. n \in P
    <2> HIDE DEF P
    <2>. QED
        BY <1>3
<1>. QED
    BY <1>4

\* The iteration that a fold is on the sets of the first numbers.
Chained(g, n, S, base, step) ==
    \E h \in [0 .. n -> S] : Iterates(h, n, base, step) /\ h[n] = g[1 .. n]
FoldsFirst(g, n, S, base, step) ==
    /\ g[{}] = base
    /\ \A i \in 1 .. n : g[1 .. i - 1] \in S => g[1 .. i] = step[<<i, g[1 .. i - 1]>>]

\* The chain behind a fold, when its values are known only where they are used.
LEMMA FoldChain ==
    ASSUME NEW n \in Nat, NEW S, NEW base \in S, NEW step \in [Nat \X S -> S], NEW g,
           FoldsFirst(g, n, S, base, step)
    PROVE  Chained(g, n, S, base, step)
<1> USE DEF FoldsFirst
<1> DEFINE h == [i \in 0 .. n |-> g[1 .. i]]
           P == {i \in 0 .. n : h[i] \in S}
<1>1. h[0] = base
    <2>1. 1 .. 0 = {}
        OBVIOUS
    <2>2. h[0] = g[1 .. 0]
        OBVIOUS
    <2>. QED
        BY <2>1, <2>2
<1>2. ASSUME NEW i \in 1 .. n, h[i - 1] \in S
      PROVE  h[i] = step[<<i, h[i - 1]>>]
    <2>1. h[i] = g[1 .. i] /\ h[i - 1] = g[1 .. i - 1]
        OBVIOUS
    <2>. QED
        BY <1>2, <2>1
<1>3. h = [i \in 0 .. n |-> h[i]] /\ h[n] = g[1 .. n]
    OBVIOUS
<1> HIDE DEF h
<1>4. 0 \in P
    BY <1>1
<1>5. ASSUME NEW i \in 1 .. n, i - 1 \in P
      PROVE  i \in P
    <2>1. h[i - 1] \in S
        BY <1>5
    <2>2. step[<<i, h[i - 1]>>] \in S
        BY <2>1
    <2>3. h[i] \in S
        BY <1>2, <2>1, <2>2
    <2>. QED
        BY <2>3
<1>6. \A i \in 0 .. n : i \in P
    <2> HIDE DEF P
    <2>. QED
        BY <1>4, <1>5, UpTo
<1>7. h \in [0 .. n -> S]
    BY <1>3, <1>6
<1>8. \A i \in 1 .. n : h[i - 1] \in S
    <2>1. \A i \in 1 .. n : i - 1 \in 0 .. n
        OBVIOUS
    <2>. QED
        BY <1>7, <2>1
<1>9. Iterates(h, n, base, step)
    BY <1>1, <1>2, <1>8 DEF Iterates
<1>. QED
    BY <1>3, <1>7, <1>9 DEF Chained

\* The sets that a fold over the first numbers meets.
LEMMA FirstNumbers ==
    ASSUME NEW n \in Nat, NEW i \in 1 .. n
    PROVE  /\ Max(1 .. i) = i /\ (1 .. i) \ {Max(1 .. i)} = 1 .. i - 1
           /\ 1 .. i # {} /\ 1 .. i \in SUBSET (1 .. n)
<1>1. Max(1 .. i) = i
    BY MaxWith
<1>. QED
    BY <1>1
=============================================================================
