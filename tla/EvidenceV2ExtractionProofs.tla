--------------------- MODULE EvidenceV2ExtractionProofs ---------------------
(***************************************************************************)
(* Proofs about EvidenceV2Extraction for every set of runs, source parts   *)
(* of any length, all bounds and any number of crashes.                    *)
(*                                                                         *)
(* The windows are computed by recursive functions (Windows, FlattenSeq    *)
(* and the fold under Words).  What they compute is proved by induction    *)
(* stated for sets of numbers (SetInduction): a function that unfolds as   *)
(* the recursion asks exists, so CHOOSE yields one, and what holds of 0    *)
(* and passes from n to n + 1 holds of every unit of the part.             *)
(***************************************************************************)
EXTENDS EvidenceV2Extraction, FiniteSetTheorems, WellFoundedInduction, TLAPS

-----------------------------------------------------------------------------
(* Induction and recursion, for sets and functions.                        *)

(* A set of numbers that is not empty has a least one.                      *)
LEMMA LeastNat ==
  ASSUME NEW T \in SUBSET Nat, T # {}
  PROVE  \E n \in T : \A m \in T : n <= m
<1> DEFINE below == {ss \in Nat \X Nat : ss[1] < ss[2]}
<1>1. IsWellFoundedOn(below, Nat)
  BY NatLessThanWellFounded, Zenon DEF OpToRel
<1>2. PICK n \in T : \A m \in T : <<m, n>> \notin below
  BY <1>1, WFMin
<1>3. ASSUME NEW m \in T PROVE n <= m
  <2>1. <<m, n>> \in Nat \X Nat /\ <<m, n>>[1] = m /\ <<m, n>>[2] = n
    OBVIOUS
  <2>2. ~(m < n)
    BY <1>2, <2>1
  <2> QED
    BY <2>2
<1> QED
  BY <1>3

(* Induction, for the set of the numbers of which something holds.          *)
LEMMA SetInduction ==
  ASSUME NEW T \in SUBSET Nat, 0 \in T, \A n \in T : n + 1 \in T
  PROVE  T = Nat
<1> SUFFICES ASSUME T # Nat PROVE FALSE
  OBVIOUS
<1>1. Nat \ T # {}
  OBVIOUS
<1>2. PICK n \in Nat \ T : \A m \in Nat \ T : n <= m
  BY <1>1, LeastNat
<1>3. n # 0 /\ n - 1 \in Nat /\ n - 1 \in T
  BY <1>2
<1>4. n - 1 + 1 = n
  BY <1>3
<1> QED
  BY <1>2, <1>3, <1>4

(* A function on 0 .. n that is defined by recursion, one number at a time, *)
(* exists.                                                                  *)
Unfolds(g, S, base, F, n) ==
  /\ g \in [0 .. n -> S]
  /\ g[0] = base
  /\ \A i \in 1 .. n : g[i] = F[i][g[i - 1]]

LEMMA RecursionExists ==
  ASSUME NEW S, NEW base \in S, NEW n \in Nat, NEW F \in [1 .. n -> [S -> S]]
  PROVE  \E g : Unfolds(g, S, base, F, n)
<1> DEFINE T == {k \in Nat : k <= n => \E g : Unfolds(g, S, base, F, k)}
<1>1. 0 \in T
  <2> DEFINE g == [i \in 0 .. 0 |-> base]
  <2>1. Unfolds(g, S, base, F, 0)
    BY DEF Unfolds
  <2> HIDE DEF g
  <2> QED
    BY <2>1
<1>2. ASSUME NEW k \in T PROVE k + 1 \in T
  <2> SUFFICES ASSUME k + 1 <= n PROVE \E g : Unfolds(g, S, base, F, k + 1)
    OBVIOUS
  <2>1. PICK h : Unfolds(h, S, base, F, k)
    OBVIOUS
  <2> DEFINE g == [i \in 0 .. k + 1 |-> IF i <= k THEN h[i] ELSE F[i][h[k]]]
  <2>2. F[k + 1][h[k]] \in S
    <3>1. k + 1 \in 1 .. n /\ h[k] \in S
      BY <2>1 DEF Unfolds
    <3> QED
      BY <3>1
  <2>3. g \in [0 .. k + 1 -> S]
    BY <2>1, <2>2 DEF Unfolds
  <2>4. ASSUME NEW i \in 1 .. k + 1 PROVE g[i] = F[i][g[i - 1]]
    <3>1. CASE i <= k
      <4>1. i \in 1 .. k /\ i - 1 \in 0 .. k /\ i - 1 <= k
        BY <3>1
      <4> QED
        BY <2>1, <4>1 DEF Unfolds
    <3>2. CASE i = k + 1
      <4>1. i - 1 = k /\ ~(i <= k) /\ k <= k /\ k \in 0 .. k + 1
        BY <3>2
      <4>2. g[i] = F[i][h[k]] /\ g[k] = h[k]
        BY <4>1
      <4> QED
        BY <4>1, <4>2
    <3> QED
      BY <3>1, <3>2
  <2>5. g[0] = base
    BY <2>1 DEF Unfolds
  <2> HIDE DEF g
  <2>6. Unfolds(g, S, base, F, k + 1)
    BY <2>3, <2>4, <2>5 DEF Unfolds
  <2> QED
    BY <2>6
<1> HIDE DEF T
<1>3. n \in T
  BY <1>1, <1>2, SetInduction DEF T
<1> QED
  BY <1>3 DEF T

-----------------------------------------------------------------------------
(* planEvidenceV2ObserveWindows()                                           *)

Unit == Nat \ {0}

Batches == Seq(Seq(Unit))

LEMMA TakeType ==
  ASSUME NEW windows \in Batches, NEW unit \in Unit
  PROVE  Take(windows, unit) \in Batches
<1>1. <<unit>> \in Seq(Unit)
  OBVIOUS
<1>2. CASE windows = << >> \/ Full(Last(windows), unit)
  BY <1>1, <1>2 DEF Take, Batches
<1>3. CASE ~(windows = << >> \/ Full(Last(windows), unit))
  <2>1. Len(windows) \in 1 .. Len(windows)
    BY <1>3 DEF Batches
  <2>2. Append(windows[Len(windows)], unit) \in Seq(Unit)
    BY <2>1 DEF Batches
  <2> QED
    BY <1>3, <2>1, <2>2 DEF Take, Batches
<1> QED
  BY <1>2, <1>3

(* The recursion of Windows, unit by unit.                                  *)
LEMMA WindowsByUnit ==
  ASSUME NEW part \in Seq(Unit)
  PROVE  \E taken \in [0 .. Len(part) -> Batches] :
           /\ taken[0] = << >>
           /\ \A i \in 1 .. Len(part) : taken[i] = Take(taken[i - 1], part[i])
           /\ Windows(part) = taken[Len(part)]
<1> DEFINE n == Len(part)
           F == [i \in 1 .. n |-> [x \in Batches |-> Take(x, part[i])]]
           Recursive(f) == f = [i \in 0 .. n |->
             IF i = 0 THEN << >> ELSE Take(f[i - 1], part[i])]
           taken == CHOOSE f : Recursive(f)
<1>1. Windows(part) = taken[n]
  BY Zenon DEF Windows
<1>2. n \in Nat /\ << >> \in Batches /\ \A i \in 1 .. n : part[i] \in Unit
  BY DEF Batches
<1>3. F \in [1 .. n -> [Batches -> Batches]]
  BY <1>2, TakeType
<1>4. \A x \in Batches, i \in 1 .. n : F[i][x] = Take(x, part[i])
  OBVIOUS
<1> HIDE DEF F, n
<1>5. PICK g : Unfolds(g, Batches, << >>, F, n)
  BY <1>2, <1>3, RecursionExists
<1>6. /\ g \in [0 .. n -> Batches]
      /\ g[0] = << >> /\ \A i \in 1 .. n : g[i] = F[i][g[i - 1]]
  BY <1>5 DEF Unfolds
<1>7. ASSUME NEW i \in 1 .. n PROVE g[i] = Take(g[i - 1], part[i])
  <2>1. i - 1 \in 0 .. n
    BY <1>2
  <2> QED
    BY <1>4, <1>6, <2>1
<1>8. Recursive(g)
  <2>1. ASSUME NEW i \in 0 .. n
        PROVE  g[i] = IF i = 0 THEN << >> ELSE Take(g[i - 1], part[i])
    <3>1. i = 0 \/ i \in 1 .. n
      BY <1>2
    <3> QED
      BY <1>6, <1>7, <3>1
  <2> QED
    BY <1>6, <2>1
<1>9. Recursive(taken)
  BY <1>8
<1> HIDE DEF taken
<1>10. ASSUME NEW i \in 0 .. n
       PROVE  taken[i] = IF i = 0 THEN << >> ELSE Take(taken[i - 1], part[i])
  BY <1>9
<1>11. taken = [i \in 0 .. n |-> taken[i]]
  BY <1>9
<1> HIDE DEF Recursive
<1>12. taken[0] = << >>
  BY <1>2, <1>10
<1>13. ASSUME NEW i \in 1 .. n PROVE taken[i] = Take(taken[i - 1], part[i])
  <2>1. i \in 0 .. n /\ i # 0
    BY <1>2
  <2> QED
    BY <1>10, <2>1
<1>14. taken \in [0 .. n -> Batches]
  <2> DEFINE T == {i \in Nat : i <= n => taken[i] \in Batches}
  <2>1. 0 \in T
    BY <1>2, <1>12
  <2>2. ASSUME NEW i \in T PROVE i + 1 \in T
    <3> SUFFICES ASSUME i + 1 <= n PROVE taken[i + 1] \in Batches
      OBVIOUS
    <3>1. i + 1 \in 1 .. n /\ i + 1 - 1 = i /\ taken[i] \in Batches
      BY <1>2
    <3>2. taken[i + 1] = Take(taken[i], part[i + 1])
      BY <1>13, <3>1
    <3> QED
      BY <1>2, <3>1, <3>2, TakeType
  <2> HIDE DEF T
  <2>3. T = Nat
    BY <2>1, <2>2, SetInduction DEF T
  <2>4. \A i \in 0 .. n : taken[i] \in Batches
    BY <2>3, <1>2 DEF T
  <2> QED
    BY <2>4, <1>11
<1> QED
  BY <1>1, <1>12, <1>13, <1>14 DEF n

(* The recursion of FlattenSeq, sequence by sequence.                       *)
Flattens(flat, seqs, E) ==
  /\ flat \in [0 .. Len(seqs) -> Seq(E)]
  /\ flat[0] = << >>
  /\ \A i \in 1 .. Len(seqs) : flat[i] = flat[i - 1] \o seqs[i]

LEMMA FlattenByOne ==
  ASSUME NEW E, NEW seqs \in Seq(Seq(E))
  PROVE  \E flat : Flattens(flat, seqs, E) /\ FlattenSeq(seqs) = flat[Len(seqs)]
<1> DEFINE n == Len(seqs)
           F == [i \in 1 .. n |-> [s \in Seq(E) |-> s \o seqs[i]]]
           Recursive(f) == f = [i \in 1 .. n |->
             IF i = 1 THEN seqs[i] ELSE f[i - 1] \o seqs[i]]
           flatten == CHOOSE f : Recursive(f)
<1>1. FlattenSeq(seqs) = IF n = 0 THEN seqs ELSE flatten[n]
  BY Zenon DEF FlattenSeq
<1>2. n \in Nat /\ << >> \in Seq(E) /\ \A i \in 1 .. n : seqs[i] \in Seq(E)
  OBVIOUS
<1>3. F \in [1 .. n -> [Seq(E) -> Seq(E)]]
  <2>1. \A s, t \in Seq(E) : s \o t \in Seq(E)
    OBVIOUS
  <2> HIDE DEF n
  <2> QED
    BY <1>2, <2>1
<1>4. \A s \in Seq(E), i \in 1 .. n : F[i][s] = s \o seqs[i]
  OBVIOUS
<1>n. n = Len(seqs)
  OBVIOUS
<1> HIDE DEF F, n
<1>5. PICK g : Unfolds(g, Seq(E), << >>, F, n)
  BY <1>2, <1>3, RecursionExists
<1>6. Flattens(g, seqs, E)
  <2>1. ASSUME NEW i \in 1 .. n PROVE g[i] = g[i - 1] \o seqs[i]
    <3>1. i - 1 \in 0 .. n
      BY <1>2
    <3> QED
      BY <1>4, <1>5, <3>1 DEF Unfolds
  <2> QED
    BY <1>5, <1>n, <2>1 DEF Unfolds, Flattens
<1>7. CASE n = 0
  <2>1. seqs = << >>
    BY <1>7, <1>n
  <2> QED
    BY <1>1, <1>6, <1>7, <1>n, <2>1 DEF Flattens
<1>8. CASE n # 0
  <2> DEFINE f == [i \in 1 .. n |-> g[i]]
  <2>1. Recursive(f)
    <3>1. ASSUME NEW i \in 1 .. n
          PROVE  f[i] = IF i = 1 THEN seqs[i] ELSE f[i - 1] \o seqs[i]
      <4>1. g[i] = g[i - 1] \o seqs[i] /\ g[0] = << >>
        BY <1>6, <1>n, Zenon DEF Flattens
      <4>2. CASE i = 1
        <5>1. g[1] = g[0] \o seqs[1] /\ seqs[1] \in Seq(E)
          <6>1. 0 = 1 - 1 /\ 1 \in 1 .. n
            BY <1>2, <4>2
          <6>2. g[1] = g[0] \o seqs[1]
            BY <1>6, <1>n, <6>1 DEF Flattens
          <6> QED
            BY <1>2, <6>1, <6>2
        <5>2. << >> \o seqs[1] = seqs[1]
          BY <5>1
        <5> QED
          BY <4>1, <4>2, <5>1, <5>2
      <4>3. CASE i # 1
        <5>1. i - 1 \in 1 .. n
          BY <1>2, <4>3
        <5> QED
          BY <4>1, <4>3, <5>1
      <4> QED
        BY <4>2, <4>3
    <3> QED
      BY <3>1
  <2>2. Recursive(flatten)
    BY <2>1
  <2> HIDE DEF flatten
  <2>3. ASSUME NEW i \in 1 .. n
        PROVE  flatten[i] = IF i = 1 THEN seqs[i] ELSE flatten[i - 1] \o seqs[i]
    BY <2>2
  <2> HIDE DEF Recursive
  <2> DEFINE T == {i \in Nat : i + 1 <= n => flatten[i + 1] = g[i + 1]}
  <2>4. 0 \in T
    <3>1. 1 \in 1 .. n
      BY <1>2, <1>8
    <3>2. flatten[1] = seqs[1]
      BY <2>3, <3>1
    <3>3. g[1] = seqs[1]
      <4>1. 0 = 1 - 1
        OBVIOUS
      <4>2. g[1] = g[0] \o seqs[1]
        BY <3>1, <1>6, <1>n, <4>1 DEF Flattens
      <4>3. g[0] = << >> /\ seqs[1] \in Seq(E)
        BY <1>2, <1>6, <3>1 DEF Flattens
      <4>4. << >> \o seqs[1] = seqs[1]
        BY <4>3
      <4> QED
        BY <4>1, <4>2, <4>3, <4>4
    <3>4. 0 + 1 = 1
      OBVIOUS
    <3> QED
      BY <3>2, <3>3, <3>4
  <2>5. ASSUME NEW i \in T PROVE i + 1 \in T
    <3> DEFINE j == i + 1
               k == i + 1 + 1
    <3> SUFFICES ASSUME k <= n PROVE flatten[k] = g[k]
      OBVIOUS
    <3>1. k \in 1 .. n /\ k # 1 /\ j = k - 1
      BY <1>2
    <3>2. flatten[j] = g[j]
      BY <1>2
    <3> HIDE DEF j, k
    <3>3. flatten[k] = flatten[j] \o seqs[k]
      BY <2>3, <3>1
    <3>4. g[k] = g[j] \o seqs[k]
      BY <1>6, <1>n, <3>1 DEF Flattens
    <3> QED
      BY <3>2, <3>3, <3>4
  <2> HIDE DEF T
  <2>6. T = Nat
    BY <2>4, <2>5, SetInduction DEF T
  <2>7. n - 1 \in T /\ n - 1 + 1 = n
    BY <1>2, <1>8, <2>6
  <2>8. flatten[n] = g[n]
    BY <1>2, <2>7 DEF T
  <2> QED
    BY <1>1, <1>6, <1>8, <1>n, <2>8
<1> QED
  BY <1>7, <1>8

(* Where two sequences of sequences agree, so do their flattened prefixes.  *)
LEMMA FlattenAgrees ==
  ASSUME NEW E, NEW seqs \in Seq(Seq(E)), NEW tail \in Seq(Seq(E)),
         NEW f, Flattens(f, seqs, E), NEW g, Flattens(g, tail, E),
         NEW k \in Nat, k <= Len(seqs), k <= Len(tail),
         \A i \in 1 .. k : seqs[i] = tail[i]
  PROVE  f[k] = g[k]
<1> DEFINE T == {i \in Nat : i <= k => f[i] = g[i]}
<1>1. 0 \in T
  BY DEF Flattens
<1>2. ASSUME NEW i \in T PROVE i + 1 \in T
  <2> DEFINE j == i + 1
  <2> SUFFICES ASSUME j <= k PROVE f[j] = g[j]
    OBVIOUS
  <2>1. j \in 1 .. k /\ j \in 1 .. Len(seqs) /\ j \in 1 .. Len(tail) /\ i = j - 1
    OBVIOUS
  <2>2. f[i] = g[i]
    BY <2>1
  <2> HIDE DEF j
  <2>3. f[j] = f[i] \o seqs[j]
    BY <2>1 DEF Flattens
  <2>4. g[j] = g[i] \o tail[j]
    BY <2>1 DEF Flattens
  <2> QED
    BY <2>1, <2>2, <2>3, <2>4
<1> HIDE DEF T
<1>3. T = Nat
  BY <1>1, <1>2, SetInduction DEF T
<1> QED
  BY <1>3 DEF T

(* Taking a unit adds it at the end of what the windows hold.               *)
LEMMA TakeFlattens ==
  ASSUME NEW windows \in Batches, NEW unit \in Unit
  PROVE  /\ FlattenSeq(windows) \in Seq(Unit)
         /\ FlattenSeq(Take(windows, unit)) = Append(FlattenSeq(windows), unit)
<1> DEFINE n == Len(windows)
           next == Take(windows, unit)
<1>1. next \in Batches /\ n \in Nat /\ windows \in Seq(Seq(Unit))
  BY TakeType DEF Batches
<1>2. PICK f : Flattens(f, windows, Unit) /\ FlattenSeq(windows) = f[n]
  BY <1>1, FlattenByOne
<1>3. PICK g : Flattens(g, next, Unit) /\ FlattenSeq(next) = g[Len(next)]
  BY <1>1, FlattenByOne DEF Batches
<1>4. f[n] \in Seq(Unit) /\ n \in 0 .. n
  BY <1>1, <1>2 DEF Flattens
<1>5. CASE windows = << >> \/ Full(Last(windows), unit)
  <2>1. next = Append(windows, <<unit>>)
    BY <1>5 DEF Take
  <2>2. /\ Len(next) = n + 1 /\ next[n + 1] = <<unit>>
        /\ \A i \in 1 .. n : windows[i] = next[i]
    BY <1>1, <2>1
  <2> HIDE DEF next, n
  <2>3. n + 1 \in 1 .. Len(next) /\ n + 1 - 1 = n
    BY <1>1, <2>2
  <2>4. g[n + 1] = g[n] \o <<unit>>
    <3> DEFINE j == n + 1
    <3>1. j \in 1 .. Len(next) /\ n = j - 1 /\ next[j] = <<unit>>
      BY <1>1, <2>2
    <3> HIDE DEF j
    <3>2. g[j] = g[n] \o next[j]
      BY <1>3, <3>1 DEF Flattens
    <3> QED
      BY <3>1, <3>2 DEF j
  <2>5. f[n] = g[n]
    <3>1. n <= Len(windows) /\ n <= Len(next)
      BY <1>1, <2>2 DEF n
    <3>2. next \in Seq(Seq(Unit))
      BY <1>1 DEF Batches
    <3> QED
      BY <1>1, <1>2, <1>3, <2>2, <3>1, <3>2, FlattenAgrees
  <2>6. f[n] \o <<unit>> = Append(f[n], unit)
    BY <1>4
  <2> QED
    BY <1>2, <1>3, <1>4, <2>2, <2>4, <2>5, <2>6 DEF next
<1>6. CASE ~(windows = << >> \/ Full(Last(windows), unit))
  <2>1. next = [windows EXCEPT ![n] = Append(windows[n], unit)]
    BY <1>6 DEF Take
  <2>2. n # 0 /\ n \in 1 .. n /\ windows[n] \in Seq(Unit)
    BY <1>1, <1>6
  <2>3. /\ Len(next) = n /\ next[n] = Append(windows[n], unit)
        /\ \A i \in 1 .. n - 1 : windows[i] = next[i]
    BY <1>1, <2>1, <2>2
  <2> HIDE DEF next, n
  <2>4. n \in 1 .. Len(next) /\ n - 1 \in Nat /\ n - 1 <= n /\ n - 1 \in 0 .. n
    BY <1>1, <2>2, <2>3
  <2>5. g[n] = g[n - 1] \o Append(windows[n], unit)
    BY <1>3, <2>3, <2>4 DEF Flattens
  <2>6. f[n] = f[n - 1] \o windows[n] /\ f[n - 1] \in Seq(Unit)
    BY <1>2, <2>2, <2>4 DEF Flattens, n
  <2>7. f[n - 1] = g[n - 1]
    <3> DEFINE j == n - 1
    <3>1. /\ j <= Len(windows) /\ j <= Len(next) /\ j \in Nat
          /\ \A i \in 1 .. j : windows[i] = next[i]
      BY <1>1, <2>3, <2>4 DEF n
    <3>2. next \in Seq(Seq(Unit))
      BY <1>1 DEF Batches
    <3> HIDE DEF j
    <3>3. f[j] = g[j]
      BY <1>1, <1>2, <1>3, <3>1, <3>2, FlattenAgrees
    <3> QED
      BY <3>3 DEF j
  <2>8. \A s, t \in Seq(Unit) : s \o Append(t, unit) = Append(s \o t, unit)
    OBVIOUS
  <2>9. g[n] = Append(f[n], unit)
    BY <2>2, <2>5, <2>6, <2>7, <2>8
  <2> QED
    BY <1>2, <1>3, <1>4, <2>3, <2>9 DEF next
<1> QED
  BY <1>5, <1>6

(* The recursion of Words: a fold over the set of positions, the last of    *)
(* them first.                                                              *)
Sums(sum, batch, n) ==
  /\ sum \in [SUBSET (1 .. n) -> Nat]
  /\ sum[{}] = 0
  /\ \A s \in SUBSET (1 .. n) : s # {} => sum[s] = sum[s \ {Max(s)}] + batch[Max(s)]

LEMMA MaxOfPart ==
  ASSUME NEW n \in Nat, NEW s \in SUBSET (1 .. n), s # {}
  PROVE  Max(s) \in s /\ \A x \in s : Max(s) >= x
<1> DEFINE T == {n - x : x \in s}
<1>1. T \in SUBSET Nat /\ T # {}
  <2>1. \A x \in s : n - x \in Nat
    OBVIOUS
  <2>2. PICK x \in s : TRUE
    OBVIOUS
  <2>3. n - x \in T
    BY <2>2
  <2> QED
    BY <2>1, <2>3
<1>2. PICK d \in T : \A e \in T : d <= e
  BY <1>1, LeastNat
<1>3. PICK m \in s : d = n - m
  OBVIOUS
<1>4. ASSUME NEW x \in s PROVE m >= x
  <2>1. n - x \in T
    OBVIOUS
  <2>2. d <= n - x
    BY <1>2, <2>1
  <2> QED
    BY <1>3, <2>2
<1> HIDE DEF T
<1> QED
  BY <1>4 DEF Max

LEMMA LastOfPart ==
  ASSUME NEW n \in Nat, NEW s \in SUBSET (1 .. n + 1), n + 1 \in s
  PROVE  Max(s) = n + 1
<1>1. Max(s) \in s /\ \A x \in s : Max(s) >= x
  <2> DEFINE m == n + 1
  <2>1. m \in Nat /\ s \in SUBSET (1 .. m) /\ s # {}
    OBVIOUS
  <2> HIDE DEF m
  <2> QED
    BY <2>1, MaxOfPart
<1>2. Max(s) >= n + 1 /\ Max(s) \in 1 .. n + 1
  BY <1>1
<1> QED
  BY <1>2

LEMMA SumsExist ==
  ASSUME NEW batch, NEW n \in Nat, \A i \in 1 .. n : batch[i] \in Nat
  PROVE  \E sum : Sums(sum, batch, n)
<1> DEFINE T == {k \in Nat : k <= n => \E sum : Sums(sum, batch, k)}
<1>1. 0 \in T
  <2> DEFINE sum == [s \in SUBSET (1 .. 0) |-> 0]
  <2>1. \A s \in SUBSET (1 .. 0) : s = {}
    OBVIOUS
  <2>2. Sums(sum, batch, 0)
    BY <2>1 DEF Sums
  <2> HIDE DEF sum
  <2> QED
    BY <2>2
<1>2. ASSUME NEW k \in T PROVE k + 1 \in T
  <2> SUFFICES ASSUME k + 1 <= n PROVE \E sum : Sums(sum, batch, k + 1)
    OBVIOUS
  <2>1. PICK h : Sums(h, batch, k)
    OBVIOUS
  <2> DEFINE l == k + 1
             g == [s \in SUBSET (1 .. l) |->
                     IF l \in s THEN h[s \ {l}] + batch[l] ELSE h[s]]
  <2>2. batch[l] \in Nat /\ k \in Nat /\ l = k + 1
    OBVIOUS
  <2>3. ASSUME NEW s \in SUBSET (1 .. l) PROVE s \ {l} \in SUBSET (1 .. k)
    OBVIOUS
  <2>4. ASSUME NEW s \in SUBSET (1 .. l), l \notin s PROVE s \in SUBSET (1 .. k)
    <3>1. s = s \ {l}
      BY <2>4
    <3> QED
      BY <2>3, <3>1
  <2>5. \A s \in SUBSET (1 .. l) : l \in s => Max(s) = l
    BY <2>2, LastOfPart
  <2> HIDE DEF l
  <2>6. g \in [SUBSET (1 .. l) -> Nat]
    BY <2>1, <2>2, <2>3, <2>4 DEF Sums
  <2>7. g[{}] = 0
    BY <2>1 DEF Sums
  <2>8. ASSUME NEW s \in SUBSET (1 .. l), s # {}
        PROVE  g[s] = g[s \ {Max(s)}] + batch[Max(s)]
    <3>1. CASE l \in s
      <4>1. Max(s) = l /\ s \ {l} \in SUBSET (1 .. l) /\ l \notin s \ {l}
        BY <2>5, <3>1
      <4> QED
        BY <3>1, <4>1
    <3>2. CASE l \notin s
      <4>1. s \in SUBSET (1 .. k)
        BY <2>4, <3>2
      <4>2. h[s] = h[s \ {Max(s)}] + batch[Max(s)]
        BY <2>1, <2>8, <4>1 DEF Sums
      <4>3. s \ {Max(s)} \in SUBSET (1 .. l) /\ l \notin s \ {Max(s)}
        BY <3>2
      <4> QED
        BY <3>2, <4>2, <4>3
    <3> QED
      BY <3>1, <3>2
  <2> HIDE DEF g
  <2>9. Sums(g, batch, l)
    BY <2>6, <2>7, <2>8 DEF Sums
  <2> QED
    BY <2>9 DEF l
<1> HIDE DEF T
<1>3. n \in T
  BY <1>1, <1>2, SetInduction DEF T
<1> QED
  BY <1>3 DEF T

LEMMA WordsBySum ==
  ASSUME NEW batch \in Seq(Unit)
  PROVE  \E sum : Sums(sum, batch, Len(batch)) /\ Words(batch) = sum[1 .. Len(batch)]
<1> DEFINE n == Len(batch)
           D == DOMAIN batch
           Recursive(f) == f = [s \in SUBSET D |->
             IF s = {} THEN 0 ELSE f[s \ {Max(s)}] + batch[Max(s)]]
           iter == CHOOSE f : Recursive(f)
<1>1. Words(batch) = iter[D]
  BY Zenon DEF Words, FoldLeft, MapThenFoldSet
<1>2. n \in Nat /\ D = 1 .. n /\ \A i \in 1 .. n : batch[i] \in Nat
  BY DEF Unit
<1>3. PICK g : Sums(g, batch, n)
  <2> HIDE DEF n
  <2> QED
    BY <1>2, SumsExist
<1>4. Recursive(g)
  <2> HIDE DEF n, D
  <2>1. ASSUME NEW s \in SUBSET D
        PROVE  g[s] = IF s = {} THEN 0 ELSE g[s \ {Max(s)}] + batch[Max(s)]
    BY <1>2, <1>3 DEF Sums
  <2>2. g = [s \in SUBSET D |-> g[s]]
    BY <1>2, <1>3 DEF Sums
  <2> QED
    BY <2>1, <2>2
<1>5. Recursive(iter)
  BY <1>4
<1> HIDE DEF iter
<1>6. ASSUME NEW s \in SUBSET D
      PROVE  iter[s] = IF s = {} THEN 0 ELSE iter[s \ {Max(s)}] + batch[Max(s)]
  BY <1>5
<1>7. iter = [s \in SUBSET D |-> iter[s]]
  BY <1>5
<1> HIDE DEF Recursive
<1> DEFINE T == {k \in Nat : k <= n => \A s \in SUBSET (1 .. k) : iter[s] = g[s]}
<1>8. 0 \in T
  <2>1. \A s \in SUBSET (1 .. 0) : s = {}
    OBVIOUS
  <2>2. iter[{}] = 0 /\ g[{}] = 0
    BY <1>3, <1>6 DEF Sums
  <2> QED
    BY <2>1, <2>2
<1>9. ASSUME NEW k \in T PROVE k + 1 \in T
  <2> DEFINE l == k + 1
  <2> SUFFICES ASSUME l <= n, NEW s \in SUBSET (1 .. l) PROVE iter[s] = g[s]
    OBVIOUS
  <2>1. k \in Nat /\ l = k + 1 /\ s \in SUBSET (1 .. n) /\ k <= n
    BY <1>2
  <2>2. \A t \in SUBSET (1 .. k) : iter[t] = g[t]
    BY <1>2, <2>1
  <2>3. s \ {l} \in SUBSET (1 .. k)
    OBVIOUS
  <2>4. l \in s => Max(s) = l
    BY <2>1, LastOfPart
  <2> HIDE DEF l, n, D
  <2>5. CASE l \in s
    <3>1. iter[s] = iter[s \ {l}] + batch[l]
      BY <1>2, <1>6, <2>1, <2>4, <2>5
    <3>2. g[s] = g[s \ {l}] + batch[l]
      BY <1>3, <2>1, <2>4, <2>5 DEF Sums
    <3> QED
      BY <2>2, <2>3, <3>1, <3>2
  <2>6. CASE l \notin s
    <3>1. s = s \ {l}
      BY <2>6
    <3> QED
      BY <2>2, <2>3, <3>1
  <2> QED
    BY <2>5, <2>6
<1> HIDE DEF T
<1>10. n \in T
  BY <1>2, <1>8, <1>9, SetInduction DEF T
<1>11. iter[1 .. n] = g[1 .. n]
  BY <1>2, <1>10 DEF T
<1> QED
  BY <1>1, <1>2, <1>3, <1>11

LEMMA WordsType ==
  ASSUME NEW batch \in Seq(Unit)
  PROVE  Words(batch) \in Nat
<1>1. PICK sum : Sums(sum, batch, Len(batch))
                 /\ Words(batch) = sum[1 .. Len(batch)]
  BY WordsBySum
<1> QED
  BY <1>1 DEF Sums

(* A unit more is its words more.                                           *)
LEMMA WordsAppend ==
  ASSUME NEW batch \in Seq(Unit), NEW unit \in Unit
  PROVE  Words(Append(batch, unit)) = Words(batch) + unit
<1> DEFINE n == Len(batch)
           longer == Append(batch, unit)
           l == n + 1
<1>1. /\ n \in Nat /\ longer \in Seq(Unit) /\ Len(longer) = l /\ longer[l] = unit
      /\ \A i \in 1 .. n : longer[i] = batch[i]
  OBVIOUS
<1>2. PICK f : Sums(f, batch, n) /\ Words(batch) = f[1 .. n]
  BY WordsBySum
<1> HIDE DEF longer
<1>3. PICK g : Sums(g, longer, l) /\ Words(longer) = g[1 .. l]
  BY <1>1, WordsBySum
<1>4. 1 .. l \in SUBSET (1 .. l) /\ l \in 1 .. l /\ (1 .. l) \ {l} = 1 .. n
  BY <1>1
<1>5. Max(1 .. l) = l
  BY <1>1, <1>4, LastOfPart
<1>6. g[1 .. l] = g[1 .. n] + unit
  <2> HIDE DEF l, n
  <2> QED
    BY <1>1, <1>3, <1>4, <1>5 DEF Sums
<1>7. \A s \in SUBSET (1 .. n) : f[s] = g[s]
  <2> DEFINE T == {k \in Nat : k <= n => \A s \in SUBSET (1 .. k) : f[s] = g[s]}
  <2>1. 0 \in T
    <3>1. \A s \in SUBSET (1 .. 0) : s = {}
      OBVIOUS
    <3> QED
      BY <1>2, <1>3, <3>1 DEF Sums
  <2>2. ASSUME NEW k \in T PROVE k + 1 \in T
    <3> DEFINE m == k + 1
    <3> SUFFICES ASSUME m <= n, NEW s \in SUBSET (1 .. m) PROVE f[s] = g[s]
      OBVIOUS
    <3>1. k \in Nat /\ m = k + 1 /\ s \in SUBSET (1 .. n) /\ k <= n
          /\ s \in SUBSET (1 .. l) /\ m \in 1 .. n
      BY <1>1
    <3>2. \A t \in SUBSET (1 .. k) : f[t] = g[t]
      BY <1>1, <3>1
    <3>3. s \ {m} \in SUBSET (1 .. k)
      OBVIOUS
    <3>4. m \in s => Max(s) = m
      BY <3>1, LastOfPart
    <3> HIDE DEF l, n, m
    <3>5. CASE m \in s
      <4>1. f[s] = f[s \ {m}] + batch[m]
        BY <1>2, <3>1, <3>4, <3>5 DEF Sums
      <4>2. g[s] = g[s \ {m}] + longer[m]
        BY <1>3, <3>1, <3>4, <3>5 DEF Sums
      <4> QED
        BY <1>1, <3>1, <3>2, <3>3, <4>1, <4>2
    <3>6. CASE m \notin s
      <4>1. s = s \ {m}
        BY <3>6
      <4> QED
        BY <3>2, <3>3, <4>1
    <3> QED
      BY <3>5, <3>6
  <2> HIDE DEF T
  <2>3. n \in T
    BY <1>1, <2>1, <2>2, SetInduction DEF T
  <2> QED
    BY <1>1, <2>3 DEF T
<1>8. f[1 .. n] = g[1 .. n]
  BY <1>7
<1> QED
  BY <1>2, <1>3, <1>6, <1>8 DEF longer

(* What WindowsPartition says of each window.                               *)
WellCut(windows) ==
  \A i \in 1 .. Len(windows) :
    /\ Len(windows[i]) \in 1 .. MaxUnits
    /\ Len(windows[i]) > 1 => Words(windows[i]) <= TargetWords
    /\ i > 1 => \/ Len(windows[i - 1]) = MaxUnits
                \/ Words(windows[i - 1]) + windows[i][1] > TargetWords

LEMMA TakeCutsWell ==
  ASSUME NEW windows \in Batches, NEW unit \in Unit, WellCut(windows)
  PROVE  WellCut(Take(windows, unit)) /\ Len(Take(windows, unit)) <= Len(windows) + 1
<1> DEFINE n == Len(windows)
           next == Take(windows, unit)
           Cut(ws, i) ==
             /\ Len(ws[i]) \in 1 .. MaxUnits
             /\ Len(ws[i]) > 1 => Words(ws[i]) <= TargetWords
             /\ i > 1 => \/ Len(ws[i - 1]) = MaxUnits
                         \/ Words(ws[i - 1]) + ws[i][1] > TargetWords
<1>1. n \in Nat /\ MaxUnits \in Nat \ {0} /\ TargetWords \in Nat
  BY ExtractionAssumption DEF Batches
<1>2. \A i \in 1 .. n : Cut(windows, i)
  BY DEF WellCut
<1>3. \A i \in 1 .. n : windows[i] \in Seq(Unit) /\ Words(windows[i]) \in Nat
  BY WordsType DEF Batches
<1>4. SUFFICES (\A i \in 1 .. Len(next) : Cut(next, i)) /\ Len(next) <= n + 1
  BY DEF WellCut
<1>5. CASE windows = << >> \/ Full(Last(windows), unit)
  <2>1. next = Append(windows, <<unit>>)
    BY <1>5 DEF Take
  <2>2. /\ Len(next) = n + 1 /\ next[n + 1] = <<unit>>
        /\ \A i \in 1 .. n : next[i] = windows[i]
    BY <1>1, <2>1 DEF Batches
  <2>3. Len(<<unit>>) = 1 /\ <<unit>>[1] = unit
    OBVIOUS
  <2> HIDE DEF next
  <2>4. ASSUME NEW i \in 1 .. n PROVE Cut(next, i)
    <3>1. Cut(windows, i) /\ next[i] = windows[i]
      BY <1>2, <2>2
    <3>2. i > 1 => next[i - 1] = windows[i - 1]
      BY <1>1, <2>2
    <3> HIDE DEF n
    <3> QED
      BY <3>1, <3>2
  <2>5. Cut(next, n + 1)
    <3>1. n + 1 > 1 => \/ Len(windows[n]) = MaxUnits
                       \/ Words(windows[n]) + unit > TargetWords
      <4> SUFFICES ASSUME n > 0
                   PROVE  \/ Len(windows[n]) = MaxUnits
                          \/ Words(windows[n]) + unit > TargetWords
        BY <1>1
      <4>1. Full(windows[n], unit)
        BY <1>5 DEF Last
      <4>2. Cut(windows, n) /\ Len(windows[n]) \in Nat
        BY <1>1, <1>2, <1>3
      <4> HIDE DEF n
      <4> QED
        BY <1>1, <4>1, <4>2 DEF Full
    <3> DEFINE l == n + 1
    <3>2. l > 1 => l - 1 = n /\ next[l - 1] = windows[n]
      BY <1>1, <2>2
    <3>3. next[l] = <<unit>>
      BY <2>2
    <3>4. l > 1 => \/ Len(windows[n]) = MaxUnits
                   \/ Words(windows[n]) + unit > TargetWords
      BY <3>1
    <3>5. Cut(next, l)
      <4> HIDE DEF l, n
      <4> QED
        BY <1>1, <2>3, <3>2, <3>3, <3>4
    <3> QED
      BY <3>5
  <2>6. \A i \in 1 .. Len(next) : i \in 1 .. n \/ i = n + 1
    BY <1>1, <2>2
  <2> HIDE DEF Cut, n
  <2> QED
    BY <1>1, <2>2, <2>4, <2>5, <2>6
<1>6. CASE ~(windows = << >> \/ Full(Last(windows), unit))
  <2> DEFINE last == windows[n]
  <2>1. next = [windows EXCEPT ![n] = Append(last, unit)]
    BY <1>6 DEF Take
  <2>2. n # 0 /\ n \in 1 .. n /\ last \in Seq(Unit) /\ Words(last) \in Nat
    BY <1>1, <1>3, <1>6 DEF Batches
  <2>3. /\ Len(next) = n /\ next[n] = Append(last, unit)
        /\ \A i \in 1 .. n : i # n => next[i] = windows[i]
    BY <1>1, <2>1, <2>2 DEF Batches
  <2>4. Cut(windows, n) /\ ~Full(last, unit)
    BY <1>2, <1>6, <2>2 DEF Last
  <2>5. /\ Len(Append(last, unit)) = Len(last) + 1 /\ Len(last) \in Nat
        /\ Len(last) >= 1 /\ Append(last, unit)[1] = last[1]
        /\ Words(Append(last, unit)) = Words(last) + unit
    BY <2>2, <2>4, WordsAppend
  <2>6. Len(last) < MaxUnits /\ Words(last) + unit <= TargetWords
    <3>1. unit \in Nat
      BY DEF Unit
    <3> HIDE DEF last
    <3> QED
      BY <1>1, <2>2, <2>4, <2>5, <3>1 DEF Full
  <2> HIDE DEF next
  <2>7. Cut(next, n)
    <3>1. n > 1 => next[n - 1] = windows[n - 1]
      BY <1>1, <2>3
    <3>2. n > 1 => \/ Len(windows[n - 1]) = MaxUnits
                   \/ Words(windows[n - 1]) + last[1] > TargetWords
      BY <2>4
    <3> HIDE DEF n, last
    <3>3. Len(next[n]) \in 1 .. MaxUnits /\ Words(next[n]) <= TargetWords
          /\ next[n][1] = last[1]
      BY <1>1, <2>2, <2>3, <2>5, <2>6
    <3> QED
      BY <3>1, <3>2, <3>3
  <2>8. ASSUME NEW i \in 1 .. n, i # n PROVE Cut(next, i)
    <3>1. Cut(windows, i) /\ next[i] = windows[i]
      BY <1>2, <2>3, <2>8
    <3>2. i > 1 => next[i - 1] = windows[i - 1]
      BY <1>1, <2>3, <2>8
    <3> HIDE DEF n
    <3> QED
      BY <3>1, <3>2
  <2> HIDE DEF Cut, n
  <2> QED
    BY <1>1, <2>3, <2>7, <2>8
<1> QED
  BY <1>5, <1>6

(* planEvidenceV2ObserveWindows() cuts every part as WindowsPartition says, *)
(* and makes no more windows than there are units.                          *)
LEMMA WindowsCutWell ==
  ASSUME NEW part \in Seq(Unit)
  PROVE  /\ FlattenSeq(Windows(part)) = part
         /\ WellCut(Windows(part))
         /\ Len(Windows(part)) \in 0 .. Len(part)
<1>1. PICK taken \in [0 .. Len(part) -> Batches] :
        /\ taken[0] = << >>
        /\ \A i \in 1 .. Len(part) : taken[i] = Take(taken[i - 1], part[i])
        /\ Windows(part) = taken[Len(part)]
  BY WindowsByUnit
<1> DEFINE n == Len(part)
           Good(i) == /\ FlattenSeq(taken[i]) = SubSeq(part, 1, i)
                      /\ WellCut(taken[i])
                      /\ Len(taken[i]) <= i
           T == {i \in Nat : i <= n => Good(i)}
<1>2. n \in Nat /\ \A i \in 1 .. n : part[i] \in Unit
  OBVIOUS
<1>3. 0 \in T
  <2>1. taken[0] = << >> /\ Len(<< >>) = 0 /\ SubSeq(part, 1, 0) = << >>
    BY <1>1
  <2>2. FlattenSeq(<< >>) = << >>
    BY <2>1 DEF FlattenSeq
  <2>3. WellCut(<< >>)
    BY <2>1 DEF WellCut
  <2> QED
    BY <2>1, <2>2, <2>3
<1>4. ASSUME NEW i \in T PROVE i + 1 \in T
  <2> DEFINE j == i + 1
  <2> SUFFICES ASSUME j <= n PROVE Good(j)
    OBVIOUS
  <2>1. i \in Nat /\ j \in 1 .. n /\ i = j - 1 /\ i \in 0 .. n /\ j = i + 1
    BY <1>2
  <2>2. Good(i)
    BY <1>2, <2>1
  <2> HIDE DEF j
  <2>3. taken[j] = Take(taken[i], part[j])
    BY <1>1, <2>1
  <2>4. taken[i] \in Batches /\ part[j] \in Unit /\ taken[j] \in Batches
    BY <1>1, <1>2, <2>1, <2>3, TakeType
  <2>5. FlattenSeq(taken[j]) = Append(SubSeq(part, 1, i), part[j])
    BY <2>2, <2>3, <2>4, TakeFlattens
  <2>6. Append(SubSeq(part, 1, i), part[j]) = SubSeq(part, 1, j)
    BY <1>2, <2>1
  <2>7. WellCut(taken[j]) /\ Len(taken[j]) <= Len(taken[i]) + 1
    BY <2>2, <2>3, <2>4, TakeCutsWell
  <2>8. Len(taken[j]) <= j
    BY <2>1, <2>2, <2>4, <2>7 DEF Batches
  <2> QED
    BY <2>5, <2>6, <2>7, <2>8
<1> HIDE DEF T
<1>5. n \in T
  BY <1>2, <1>3, <1>4, SetInduction DEF T
<1>6. Good(n)
  BY <1>2, <1>5 DEF T
<1>7. SubSeq(part, 1, n) = part /\ Windows(part) = taken[n] /\ taken[n] \in Batches
  BY <1>1, <1>2
<1> QED
  BY <1>2, <1>6, <1>7 DEF Batches

LEMMA SourceIsUnits ==
  ASSUME source \in Source
  PROVE  source \in Seq(Unit)
BY ExtractionAssumption DEF Unit

(* The windows of the instance hold its units in order, each once, and are  *)
(* cut by the bounds and no earlier (planEvidenceV2ObserveWindows()), for   *)
(* every part, however long, and all bounds.                                *)
THEOREM WindowsHoldEveryUnit == Spec => []WindowsPartition
<1>1. source \in Source => WindowsPartition
  BY SourceIsUnits, WindowsCutWell DEF WindowsPartition, WellCut
<1>2. Init => source \in Source
  BY DEF Init
<1>3. source \in Source /\ [Next]_vars => (source \in Source)'
  BY DEF Next, vars, Step, Start, Choose, Finish, Snapshot, Execute, EngineStep,
     RecordFailure, ExecuteRejects, Project, RecordCommit, Crash
<1> QED
  BY <1>1, <1>2, <1>3, PTL DEF Spec

-----------------------------------------------------------------------------
(* Types, and what a run and a call of the engine hold.                     *)

CallsOK ==
  \A r \in Run, w \in Window :
    /\ asked[Call(r, w)] \in {None, w}
    /\ answer[Call(r, w)] # None => asked[Call(r, w)] = w
    /\ answer[Call(r, w)] \in {"committed", "failed"} =>
         ledger[w].status = answer[Call(r, w)]
    /\ run[r].pc = "executing" /\ run[r].window = w => asked[Call(r, w)] = w

PlanOK ==
  /\ occurrences \subseteq Plan
  /\ \A r \in Run :
       /\ run[r].outstanding \subseteq Plan
       /\ run[r].pc # "idle" => Plan \ run[r].outstanding \subseteq occurrences
       /\ run[r].pc = "record" => run[r].window \in occurrences
       /\ run[r].pc = "done" /\ run[r].failed = None => run[r].outstanding = {}

BaseInv == TypeOK /\ CallsOK /\ ShownWasCommitted /\ PlanOK

(* Runs that follow one another, none of which died or was rejected.        *)
Calm ==
  ~overlapped /\ crashes = 0 /\ \A r \in Run : run[r].pc # "rejected"

Agrees(w) ==
  /\ row[w] = "failed" <=> ledger[w].status = "failed"
  /\ row[w] = "committed" <=> ledger[w].status = "committed"

Works(r, w) == run[r].pc \in {"executing", "record"} /\ run[r].window = w

Alone == \A q, r \in Run : Underway(q) /\ Underway(r) => q = r

RowsAgree == \A w \in Window : Agrees(w) \/ \E r \in Run : Works(r, w)

OpenIsExecuted ==
  \A w \in Window : ledger[w].status = "open" =>
    \E r \in Run : run[r].pc = "executing" /\ run[r].window = w

OutstandingIsUncommitted ==
  \A r \in Run : Underway(r) => \A w \in run[r].outstanding : row[w] # "committed"

RefusedHasFailed ==
  \A r \in Run :
    run[r].pc = "executing" /\ answer[Call(r, run[r].window)] = "other-request"
      => ledger[run[r].window].status = "failed"

CalmFacts ==
  Alone /\ RowsAgree /\ OpenIsExecuted /\ OutstandingIsUncommitted /\ RefusedHasFailed

CalmOK == Calm => CalmFacts

IInv == BaseInv /\ CalmOK

LEMMA WindowsAreNumbers == Window \subseteq Nat /\ None \notin Window
BY ExtractionAssumption DEF Window

LEMMA NoneIsNoAnswer == None \notin {"committed", "failed", "other-request"}
BY ExtractionAssumption

LEMMA PlanType ==
  ASSUME TypeOK
  PROVE  Plan \subseteq Window /\ Outstanding \subseteq Plan
<1>1. source \in Source
  BY DEF TypeOK
<1>2. source \in Seq(Unit)
  BY <1>1, SourceIsUnits
<1>3. Len(Windows(source)) \in 0 .. Len(source) /\ Len(source) \in Nat
  BY <1>2, WindowsCutWell
<1>4. \A w \in Plan : w \in 1 .. Len(source)
  BY <1>3 DEF Plan
<1> QED
  BY <1>1, <1>4 DEF Window, Outstanding

LEMMA FirstWindow ==
  ASSUME NEW ws \in SUBSET Window, ws # {}
  PROVE  Min(ws) \in ws
<1>1. ws \in SUBSET Nat
  BY WindowsAreNumbers
<1>2. PICK n \in ws : \A m \in ws : n <= m
  BY <1>1, LeastNat
<1> QED
  BY <1>2 DEF Min

LEMMA RunTypes ==
  ASSUME TypeOK, NEW r \in Run
  PROVE  /\ run[r] \in RunState /\ run[r].outstanding \subseteq Window
         /\ run[r].pc \in {"snapshot", "execute", "executing", "project", "record"}
              => run[r].window \in run[r].outstanding /\ run[r].window \in Window
BY DEF TypeOK, RunState

(* What a step of the engine for one call leaves behind.                    *)
EngineTypes ==
  /\ ledger \in [Window -> Engine!Execution]
  /\ head \in [{"instance"} -> Nat]
  /\ sent \in [Window -> [0 .. MaxRepair -> Nat]]
  /\ asked \in [Run \X Window -> Window \cup {None}]
  /\ answer \in [Run \X Window -> {"committed", "failed", "other-request", None}]

LEMMA EngineTypesOK ==
  ASSUME TypeOK
  PROVE  EngineTypes
BY DEF TypeOK, EngineTypes, Engine!ContractTypeOK, Engine!Settled

LEMMA InitBase == Init => BaseInv
<1> SUFFICES ASSUME Init PROVE BaseInv
  OBVIOUS
<1>1. TypeOK
  <2>1. Engine!ContractTypeOK
    <3>1. [status |-> "absent", request |-> None] \in Engine!Execution
      BY DEF Engine!Execution
    <3> QED
      BY <3>1 DEF Init, Engine!ContractInit, Engine!ContractTypeOK,
         Engine!Absent
  <2>2. NoRun \in RunState
    BY DEF NoRun, RunState
  <2>3. run \in [Run -> RunState] /\ \A r \in Run : run[r].pc = "idle"
    BY <2>2 DEF Init, NoRun
  <2>4. crashes \in 0 .. MaxCrashes
    BY ExtractionAssumption DEF Init
  <2>5. row \in [Window -> {"absent", "committed", "failed"}]
    BY DEF Init
  <2>6. source \in Source /\ occurrences = {} /\ overlapped = FALSE
    BY DEF Init
  <2> QED
    BY <2>1, <2>3, <2>4, <2>5, <2>6 DEF TypeOK
<1>2. CallsOK
  <2>1. \A r \in Run : run[r].pc = "idle"
    BY DEF Init, NoRun
  <2>2. \A r \in Run, w \in Window : asked[Call(r, w)] = None /\ answer[Call(r, w)] = None
    BY DEF Init, Engine!ContractInit, Call
  <2> QED
    BY <2>1, <2>2, NoneIsNoAnswer DEF CallsOK
<1>3. ShownWasCommitted
  BY DEF Init, ShownWasCommitted
<1>4. PlanOK
  <2>1. \A r \in Run : run[r].pc = "idle" /\ run[r].outstanding = {}
    BY DEF Init, NoRun
  <2> QED
    BY <2>1 DEF Init, PlanOK
<1> QED
  BY <1>1, <1>2, <1>3, <1>4 DEF BaseInv

(* The calls are as they were if no run begins one.                         *)
LEMMA CallsStay ==
  ASSUME CallsOK, UNCHANGED engine,
         \A q \in Run : run'[q].pc = "executing" =>
           run[q].pc = "executing" /\ run'[q].window = run[q].window
  PROVE  CallsOK'
<1>1. /\ ledger' = ledger /\ asked' = asked /\ answer' = answer
  BY DEF engine
<1>2. ASSUME NEW q \in Run, NEW w \in Window,
             run'[q].pc = "executing" /\ run'[q].window = w
      PROVE  run[q].pc = "executing" /\ run[q].window = w
  BY <1>2
<1>3. ASSUME NEW q \in Run, NEW w \in Window
      PROVE  /\ asked[Call(q, w)] \in {None, w}
             /\ answer[Call(q, w)] # None => asked[Call(q, w)] = w
             /\ answer[Call(q, w)] \in {"committed", "failed"} =>
                  ledger[w].status = answer[Call(q, w)]
             /\ run[q].pc = "executing" /\ run[q].window = w =>
                  asked[Call(q, w)] = w
  BY DEF CallsOK
<1> QED
  BY <1>1, <1>2, <1>3 DEF CallsOK, Call

(* A step that changes the record of one run, and neither the engine nor    *)
(* the product.                                                             *)
LEMMA RunStepKeepsBase ==
  ASSUME BaseInv, NEW r \in Run, NEW new \in RunState,
         run' = [run EXCEPT ![r] = new],
         UNCHANGED <<source, engine, product>>,
         overlapped' \in BOOLEAN, crashes' \in 0 .. MaxCrashes,
         new.pc \in {"snapshot", "execute", "executing", "project", "record"}
           => new.window \in new.outstanding,
         new.pc = "executing" => run[r].pc = "executing" /\ new.window = run[r].window,
         new.pc = "record" => new.window \in occurrences,
         new.outstanding \subseteq Plan,
         new.pc # "idle" => Plan \ new.outstanding \subseteq occurrences,
         new.pc = "done" /\ new.failed = None => new.outstanding = {}
  PROVE  BaseInv'
<1>1. /\ source' = source /\ ledger' = ledger /\ head' = head /\ sent' = sent
      /\ asked' = asked /\ answer' = answer /\ row' = row
      /\ occurrences' = occurrences
  BY DEF engine, product
<1>2. /\ run' \in [Run -> RunState] /\ run'[r] = new
      /\ \A q \in Run : q # r => run'[q] = run[q]
  BY DEF BaseInv, TypeOK
<1>3. TypeOK'
  BY <1>1, <1>2 DEF BaseInv, TypeOK, Engine!ContractTypeOK
<1>4. CallsOK'
  BY <1>2, CallsStay DEF BaseInv
<1>5. ShownWasCommitted'
  BY <1>1 DEF BaseInv, ShownWasCommitted
<1>6. PlanOK'
  <2>1. Plan' = Plan
    BY <1>1 DEF Plan
  <2> QED
    BY <1>1, <1>2, <2>1 DEF BaseInv, PlanOK
<1> QED
  BY <1>3, <1>4, <1>5, <1>6 DEF BaseInv

LEMMA StartKeepsBase ==
  ASSUME BaseInv, NEW r \in Run, Start(r)
  PROVE  BaseInv'
<1> DEFINE pc == IF Cardinality(Outstanding) > Ceiling THEN "refused" ELSE "next"
           seen == {w \in Window : ledger[w].status = "committed"}
           new == [NoRun EXCEPT !.pc = pc, !.outstanding = Outstanding, !.seen = seen]
<1>1. run' = [run EXCEPT ![r] = new]
  BY Zenon DEF Start
<1>2. /\ UNCHANGED <<source, engine, product>> /\ crashes' = crashes
      /\ overlapped' \in BOOLEAN
  BY DEF Start
<1>3. Outstanding \subseteq Plan /\ Plan \subseteq Window
  BY PlanType DEF BaseInv
<1>4. pc \in {"refused", "next"}
  OBVIOUS
<1>5. new \in RunState /\ new.pc = pc /\ new.outstanding = Outstanding
  <2>1. NoRun \in RunState /\ seen \subseteq Window
    BY DEF NoRun, RunState
  <2>2. pc \in Ended \cup {"next"} /\ Outstanding \subseteq Window
    BY <1>3, <1>4 DEF Ended
  <2> HIDE DEF pc, seen
  <2> QED
    BY <2>1, <2>2 DEF RunState
<1> HIDE DEF pc, new
<1>6. Plan \ Outstanding \subseteq occurrences
  BY <1>3 DEF Outstanding, BaseInv, ShownWasCommitted
<1>7. crashes \in 0 .. MaxCrashes
  BY DEF BaseInv, TypeOK
<1> QED
  BY <1>1, <1>2, <1>3, <1>4, <1>5, <1>6, <1>7, RunStepKeepsBase

LEMMA ChooseKeepsBase ==
  ASSUME BaseInv, NEW r \in Run, Choose(r)
  PROVE  BaseInv'
<1> DEFINE first == Min(run[r].outstanding)
           new == [run[r] EXCEPT !.pc = "snapshot", !.window = first]
<1>1. run[r] \in RunState /\ run[r].outstanding \subseteq Window
  BY RunTypes DEF BaseInv
<1>2. first \in run[r].outstanding
  BY <1>1, FirstWindow DEF Choose
<1> HIDE DEF first
<1>3. run' = [run EXCEPT ![r] = new]
  BY DEF Choose, first
<1>4. /\ new \in RunState /\ new.outstanding = run[r].outstanding
      /\ new.pc = "snapshot" /\ new.window = first
  BY <1>1, <1>2 DEF RunState
<1>5. /\ run[r].outstanding \subseteq Plan
      /\ Plan \ run[r].outstanding \subseteq occurrences
  BY DEF BaseInv, PlanOK, Choose
<1>6. /\ UNCHANGED <<source, engine, product>> /\ crashes' \in 0 .. MaxCrashes
      /\ overlapped' \in BOOLEAN
  BY DEF Choose, BaseInv, TypeOK
<1> QED
  BY <1>2, <1>3, <1>4, <1>5, <1>6, RunStepKeepsBase

(* A run goes on, with the window and the windows that it has.              *)
LEMMA GotoKeepsBase ==
  ASSUME BaseInv, NEW r \in Run, Underway(r),
         NEW next \in {"done", "rejected", "crashed"}, Goto(r, next),
         next = "done" => run[r].outstanding = {},
         UNCHANGED <<source, engine, product, overlapped>>,
         crashes' \in 0 .. MaxCrashes
  PROVE  BaseInv'
<1> DEFINE new == [run[r] EXCEPT !.pc = next]
<1>1. run[r] \in RunState
  BY RunTypes DEF BaseInv
<1>2. /\ new \in RunState /\ new.outstanding = run[r].outstanding
      /\ new.pc = next
  BY <1>1 DEF RunState, Ended
<1>3. /\ run[r].outstanding \subseteq Plan
      /\ Plan \ run[r].outstanding \subseteq occurrences
  BY DEF BaseInv, PlanOK, Underway
<1>4. overlapped' \in BOOLEAN
  BY DEF BaseInv, TypeOK
<1>5. UNCHANGED <<source, engine, product>>
  OBVIOUS
<1> HIDE DEF new
<1>6. run' = [run EXCEPT ![r] = new]
  BY DEF new, Goto
<1> QED
  BY <1>1, <1>2, <1>3, <1>4, <1>5, <1>6, RunStepKeepsBase

LEMMA FinishKeepsBase ==
  ASSUME BaseInv, NEW r \in Run, Finish(r)
  PROVE  BaseInv'
BY GotoKeepsBase DEF Finish, Underway, Ended, BaseInv, TypeOK

LEMMA RejectionKeepsBase ==
  ASSUME BaseInv, NEW r \in Run, ExecuteRejects(r)
  PROVE  BaseInv'
BY GotoKeepsBase DEF ExecuteRejects, Answered, Underway, Ended, BaseInv, TypeOK

LEMMA CrashKeepsBase ==
  ASSUME BaseInv, NEW r \in Run, Crash(r)
  PROVE  BaseInv'
<1>1. crashes' \in 0 .. MaxCrashes
  BY ExtractionAssumption DEF Crash, BaseInv, TypeOK
<1> QED
  BY <1>1, GotoKeepsBase DEF Crash

LEMMA SnapshotKeepsBase ==
  ASSUME BaseInv, NEW r \in Run, Snapshot(r)
  PROVE  BaseInv'
<1> DEFINE revision == head["instance"]
           new == [run[r] EXCEPT !.pc = "execute", !.revision = revision]
<1>1. run[r] \in RunState /\ run[r].window \in run[r].outstanding /\ revision \in Nat
  BY RunTypes DEF BaseInv, TypeOK, Engine!ContractTypeOK, Snapshot
<1>2. run' = [run EXCEPT ![r] = new]
  BY DEF Snapshot
<1> HIDE DEF revision
<1>3. /\ new \in RunState /\ new.outstanding = run[r].outstanding
      /\ new.pc = "execute" /\ new.window = run[r].window
  BY <1>1 DEF RunState
<1>4. /\ run[r].outstanding \subseteq Plan
      /\ Plan \ run[r].outstanding \subseteq occurrences
  BY DEF BaseInv, PlanOK, Snapshot
<1>5. /\ UNCHANGED <<source, engine, product>> /\ overlapped' \in BOOLEAN
      /\ crashes' \in 0 .. MaxCrashes
  BY DEF Snapshot, BaseInv, TypeOK
<1> HIDE DEF new
<1> QED
  BY <1>1, <1>2, <1>3, <1>4, <1>5, RunStepKeepsBase

(* What the call of execute() for the window w does to the engine.          *)
LEMMA ExecuteEffect ==
  ASSUME TypeOK, NEW r \in Run, Execute(r), NEW w, w = run[r].window
  PROVE  /\ w \in Window /\ w \in run[r].outstanding
         /\ asked[Call(r, w)] = None /\ asked' = [asked EXCEPT ![Call(r, w)] = w]
         /\ UNCHANGED <<source, head, sent, product, crashes, overlapped>>
         /\ \/ /\ ledger[w].status = "absent" /\ answer' = answer
               /\ \E request \in Request :
                    ledger' = [ledger EXCEPT ![w] =
                                 [status |-> "open", request |-> request]]
            \/ /\ ledger[w].status # "absent" /\ ledger' = ledger
               /\ \E told \in {"other-request", None, ledger[w].status} :
                    /\ answer' = [answer EXCEPT ![Call(r, w)] = told]
                    /\ told = None => ledger[w].status = "open"
                    /\ told \notin {None, "other-request"} =>
                         ledger[w].status \in {"committed", "failed"}
<1> DEFINE request == [entity |-> "instance", expectedRevision |-> run[r].revision]
<1>1. /\ run[r].pc = "execute" /\ run[r] \in RunState
      /\ w \in Window /\ w \in run[r].outstanding
  BY RunTypes DEF Execute
<1>2. request \in Request
  BY <1>1 DEF Request, RunState
<1>3. Engine!Open(Call(r, w), w, request) \/ Engine!Rejoin(Call(r, w), w, request)
  BY DEF Execute
<1>4. /\ asked[Call(r, w)] = None /\ asked' = [asked EXCEPT ![Call(r, w)] = w]
      /\ UNCHANGED <<head, sent>>
  BY <1>3 DEF Engine!Open, Engine!Rejoin, Engine!Asks
<1>5. UNCHANGED <<source, product, crashes, overlapped>>
  BY DEF Execute
<1> HIDE DEF request
<1>6. CASE Engine!Open(Call(r, w), w, request)
  BY <1>1, <1>2, <1>4, <1>5, <1>6 DEF Engine!Open
<1>7. CASE Engine!Rejoin(Call(r, w), w, request)
  <2> DEFINE told == IF ledger[w].request # request THEN "other-request"
                     ELSE IF ledger[w].status = "open" THEN None
                     ELSE ledger[w].status
  <2>1. /\ ledger[w].status # "absent" /\ ledger' = ledger
        /\ answer' = [answer EXCEPT ![Call(r, w)] = told]
    BY <1>7 DEF Engine!Rejoin
  <2>2. ledger[w].status \in {"absent", "open", "committed", "failed"}
    BY <1>1 DEF TypeOK, Engine!ContractTypeOK, Engine!Execution, Engine!Settled
  <2>3. /\ told \in {"other-request", None, ledger[w].status}
        /\ told = None => ledger[w].status = "open"
        /\ told \notin {None, "other-request"} =>
             ledger[w].status \in {"committed", "failed"}
    BY <2>1, <2>2, NoneIsNoAnswer
  <2> HIDE DEF told
  <2> QED
    BY <1>1, <1>4, <1>5, <2>1, <2>3
<1> QED
  BY <1>3, <1>6, <1>7

LEMMA ExecuteRun ==
  ASSUME TypeOK, NEW r \in Run, Execute(r)
  PROVE  /\ run' \in [Run -> RunState] /\ run[r].pc = "execute"
         /\ run'[r].pc = "executing" /\ run'[r].window = run[r].window
         /\ run'[r].outstanding = run[r].outstanding
         /\ \A q \in Run : q # r => run'[q] = run[q]
<1> DEFINE replayed == ledger[run[r].window].status \in Engine!Settled
           new == [run[r] EXCEPT !.pc = "executing", !.replayed = replayed]
<1>1. run \in [Run -> RunState] /\ run[r] \in RunState
  BY DEF TypeOK
<1>2. run' = [run EXCEPT ![r] = new] /\ run[r].pc = "execute"
  BY DEF Execute
<1>3. replayed \in BOOLEAN
  OBVIOUS
<1> HIDE DEF replayed
<1>4. /\ new \in RunState /\ new.pc = "executing" /\ new.window = run[r].window
      /\ new.outstanding = run[r].outstanding
  BY <1>1, <1>3 DEF RunState
<1> HIDE DEF new
<1> QED
  BY <1>1, <1>2, <1>4

LEMMA ExecuteKeepsBase ==
  ASSUME BaseInv, NEW r \in Run, Execute(r)
  PROVE  BaseInv'
<1> DEFINE w == run[r].window
<1>0. TypeOK /\ EngineTypes
  BY EngineTypesOK DEF BaseInv
<1>1. /\ w \in Window /\ w \in run[r].outstanding
      /\ asked[Call(r, w)] = None /\ asked' = [asked EXCEPT ![Call(r, w)] = w]
      /\ UNCHANGED <<source, head, sent, product, crashes, overlapped>>
  BY <1>0, ExecuteEffect
<1>2. \/ /\ ledger[w].status = "absent" /\ answer' = answer
         /\ \E request \in Request :
              ledger' = [ledger EXCEPT ![w] =
                           [status |-> "open", request |-> request]]
      \/ /\ ledger[w].status # "absent" /\ ledger' = ledger
         /\ \E told \in {"other-request", None, ledger[w].status} :
              /\ answer' = [answer EXCEPT ![Call(r, w)] = told]
              /\ told = None => ledger[w].status = "open"
              /\ told \notin {None, "other-request"} =>
                   ledger[w].status \in {"committed", "failed"}
  BY <1>0, ExecuteEffect
<1>3. /\ run' \in [Run -> RunState] /\ run[r].pc = "execute"
      /\ run'[r].pc = "executing" /\ run'[r].window = w
      /\ run'[r].outstanding = run[r].outstanding
      /\ \A q \in Run : q # r => run'[q] = run[q]
  BY <1>0, ExecuteRun
<1> HIDE DEF w
<1>4. /\ row' = row /\ occurrences' = occurrences /\ source' = source
      /\ crashes' = crashes /\ overlapped' = overlapped
  BY <1>1 DEF product
<1>5. Call(r, w) \in Run \X Window /\ w # None
  BY <1>1, WindowsAreNumbers DEF Call
<1>6. /\ ledger' \in [Window -> Engine!Execution]
      /\ \A v \in Window : \/ ledger'[v].status = ledger[v].status
                           \/ /\ ledger[v].status = "absent"
                              /\ ledger'[v].status = "open"
  <2>1. CASE ledger' = ledger
    BY <1>0, <2>1 DEF EngineTypes
  <2>2. ASSUME NEW request \in Request,
               ledger' = [ledger EXCEPT ![w] = [status |-> "open", request |-> request]],
               ledger[w].status = "absent"
        PROVE  <1>6!1 /\ <1>6!2
    <3>1. [status |-> "open", request |-> request] \in Engine!Execution
      BY DEF Engine!Execution
    <3> QED
      BY <1>0, <1>1, <2>2, <3>1 DEF EngineTypes
  <2> QED
    BY <1>2, <2>1, <2>2
<1>7. asked' \in [Run \X Window -> Window \cup {None}]
  BY <1>0, <1>1 DEF EngineTypes
<1>8. /\ answer' \in [Run \X Window -> {"committed", "failed", "other-request", None}]
      /\ \A q \in Run, v \in Window :
           \/ answer'[Call(q, v)] = answer[Call(q, v)]
           \/ /\ q = r /\ v = w
              /\ answer'[Call(r, w)] \in {"committed", "failed"} =>
                   ledger'[w].status = answer'[Call(r, w)]
  <2>1. CASE answer' = answer
    BY <1>0, <2>1 DEF EngineTypes
  <2>2. ASSUME NEW told \in {"other-request", None, ledger[w].status},
               answer' = [answer EXCEPT ![Call(r, w)] = told], ledger' = ledger,
               told \notin {None, "other-request"} =>
                 ledger[w].status \in {"committed", "failed"}
        PROVE  <1>8!1 /\ <1>8!2
    <3>1. told \in {"committed", "failed", "other-request", None}
      BY <2>2
    <3>2. answer' \in [Run \X Window -> {"committed", "failed", "other-request", None}]
      BY <1>0, <2>2, <3>1 DEF EngineTypes
    <3>3. answer'[Call(r, w)] = told
      BY <1>0, <1>5, <2>2 DEF EngineTypes
    <3>4. \A q \in Run, v \in Window : q # r \/ v # w => Call(q, v) # Call(r, w)
      BY DEF Call
    <3>5. \A q \in Run, v \in Window : Call(q, v) \in Run \X Window
      BY DEF Call
    <3>6. \A q \in Run, v \in Window :
            q # r \/ v # w => answer'[Call(q, v)] = answer[Call(q, v)]
      BY <1>0, <2>2, <3>4, <3>5 DEF EngineTypes
    <3> QED
      BY <2>2, <3>2, <3>3, <3>6, NoneIsNoAnswer
  <2> QED
    BY <1>2, <2>1, <2>2
<1>9. TypeOK'
  <2>1. Engine!ContractTypeOK'
    BY <1>0, <1>1, <1>6, <1>7, <1>8
       DEF EngineTypes, Engine!ContractTypeOK, Engine!Settled
  <2>2. ASSUME NEW q \in Run,
               run'[q].pc \in {"snapshot", "execute", "executing", "project", "record"}
        PROVE  run'[q].window \in run'[q].outstanding
    BY <1>0, <1>1, <1>3, <2>2 DEF TypeOK
  <2> QED
    BY <1>0, <1>3, <1>4, <2>1, <2>2 DEF TypeOK
<1>10. CallsOK'
  <2>1. \A q \in Run, v \in Window :
          asked'[Call(q, v)] = IF q = r /\ v = w THEN w ELSE asked[Call(q, v)]
    <3>1. \A q \in Run, v \in Window :
            Call(q, v) \in Run \X Window /\ (q # r \/ v # w => Call(q, v) # Call(r, w))
      BY DEF Call
    <3> QED
      BY <1>0, <1>1, <1>5, <3>1 DEF EngineTypes
  <2>2. ASSUME NEW q \in Run, NEW v \in Window
        PROVE  /\ asked'[Call(q, v)] \in {None, v}
               /\ answer'[Call(q, v)] # None => asked'[Call(q, v)] = v
               /\ answer'[Call(q, v)] \in {"committed", "failed"} =>
                    ledger'[v].status = answer'[Call(q, v)]
               /\ run'[q].pc = "executing" /\ run'[q].window = v =>
                    asked'[Call(q, v)] = v
    <3>1. /\ asked[Call(q, v)] \in {None, v}
          /\ answer[Call(q, v)] # None => asked[Call(q, v)] = v
          /\ answer[Call(q, v)] \in {"committed", "failed"} =>
               ledger[v].status = answer[Call(q, v)]
          /\ run[q].pc = "executing" /\ run[q].window = v =>
               asked[Call(q, v)] = v
      BY DEF BaseInv, CallsOK
    <3>2. answer[Call(q, v)] \in {"committed", "failed"} =>
            ledger'[v].status = answer[Call(q, v)]
      BY <1>6, <3>1
    <3>3. CASE q = r /\ v = w
      BY <1>8, <2>1, <3>1, <3>2, <3>3
    <3>4. CASE q = r /\ v # w
      BY <1>3, <1>8, <2>1, <3>1, <3>2, <3>4
    <3>5. CASE q # r
      BY <1>3, <1>8, <2>1, <3>1, <3>2, <3>5
    <3> QED
      BY <3>3, <3>4, <3>5
  <2> QED
    BY <2>2 DEF CallsOK, Call
<1>11. ShownWasCommitted'
  BY <1>4, <1>6 DEF BaseInv, ShownWasCommitted
<1>12. PlanOK'
  <2>1. Plan' = Plan
    BY <1>4 DEF Plan
  <2>2. ASSUME NEW q \in Run
        PROVE  /\ run'[q].outstanding \subseteq Plan
               /\ run'[q].pc # "idle" => Plan \ run'[q].outstanding \subseteq occurrences
               /\ run'[q].pc = "record" => run'[q].window \in occurrences
               /\ run'[q].pc = "done" /\ run'[q].failed = None =>
                    run'[q].outstanding = {}
    BY <1>3 DEF BaseInv, PlanOK
  <2> QED
    BY <1>4, <2>1, <2>2 DEF BaseInv, PlanOK
<1> QED
  BY <1>9, <1>10, <1>11, <1>12 DEF BaseInv

(* A step of the engine settles the execution of the window at work on, and *)
(* tells the run, or says nothing.                                          *)
LEMMA EngineEffect ==
  ASSUME BaseInv, NEW r \in Run, EngineStep(r), NEW w, w = run[r].window
  PROVE  /\ w \in Window /\ run[r].pc = "executing" /\ answer[Call(r, w)] = None
         /\ asked[Call(r, w)] = w /\ asked' = asked
         /\ UNCHANGED <<source, run, product, crashes, overlapped>>
         /\ \/ ledger' = ledger /\ answer' = answer
            \/ \E s \in {"committed", "failed"} :
                 /\ answer' = [answer EXCEPT ![Call(r, w)] = s]
                 /\ \/ ledger[w].status = s /\ ledger' = ledger
                    \/ /\ ledger[w].status = "open"
                       /\ ledger' = [ledger EXCEPT ![w].status = s]
<1> DEFINE call == Call(r, w)
<1>1. /\ run[r].pc = "executing" /\ w \in Window
      /\ UNCHANGED <<source, run, product, crashes, overlapped>>
  BY RunTypes DEF EngineStep, BaseInv
<1>2. asked[call] = w
  BY <1>1 DEF BaseInv, CallsOK
<1>3. \/ \E c \in 0 .. MaxRepair : Engine!Send(call, c)
      \/ Engine!Commit(call) \/ Engine!Fail(call) \/ Engine!Learn(call)
  BY DEF EngineStep
<1> HIDE DEF call
<1>4. CASE \E c \in 0 .. MaxRepair : Engine!Send(call, c)
  BY <1>1, <1>2, <1>4 DEF Engine!Send, Engine!Waits, call
<1>5. CASE Engine!Commit(call)
  BY <1>1, <1>2, <1>5 DEF Engine!Commit, Engine!Waits, call
<1>6. CASE Engine!Fail(call)
  BY <1>1, <1>2, <1>6 DEF Engine!Fail, Engine!Waits, call
<1>7. CASE Engine!Learn(call)
  BY <1>1, <1>2, <1>7 DEF Engine!Learn, Engine!Waits, Engine!Settled, call
<1> QED
  BY <1>3, <1>4, <1>5, <1>6, <1>7

LEMMA EngineCounts ==
  ASSUME TypeOK, NEW r \in Run, EngineStep(r)
  PROVE  /\ head' \in [{"instance"} -> Nat]
         /\ sent' \in [Window -> [0 .. MaxRepair -> Nat]]
<1> DEFINE call == Call(r, run[r].window)
<1>1. EngineTypes
  BY EngineTypesOK
<1>2. \/ \E c \in 0 .. MaxRepair : Engine!Send(call, c)
      \/ Engine!Commit(call) \/ Engine!Fail(call) \/ Engine!Learn(call)
  BY DEF EngineStep
<1> HIDE DEF call
<1>3. CASE \E c \in 0 .. MaxRepair : Engine!Send(call, c)
  <2>1. PICK c \in 0 .. MaxRepair : Engine!Send(call, c)
    BY <1>3
  <2>2. sent' = [sent EXCEPT ![asked[call]] = [sent[asked[call]] EXCEPT ![c] = 1]]
        /\ head' = head
    BY <2>1 DEF Engine!Send
  <2> DEFINE k == asked[call]
  <2> HIDE DEF k
  <2>3. sent' = [sent EXCEPT ![k] = [sent[k] EXCEPT ![c] = 1]]
    BY <2>2 DEF k
  <2>4. k \in Window => [sent[k] EXCEPT ![c] = 1] \in [0 .. MaxRepair -> Nat]
    BY <1>1 DEF EngineTypes
  <2> QED
    BY <1>1, <2>2, <2>3, <2>4 DEF EngineTypes
<1>4. CASE Engine!Commit(call)
  <2> DEFINE e == ledger[asked[call]].request.entity
  <2>1. sent' = sent /\ (head' = head \/ head' = [head EXCEPT ![e] = head[e] + 1])
    BY <1>4 DEF Engine!Commit
  <2> HIDE DEF e
  <2>2. e \in {"instance"} => head[e] + 1 \in Nat
    BY <1>1 DEF EngineTypes
  <2> QED
    BY <1>1, <2>1, <2>2 DEF EngineTypes
<1>5. CASE Engine!Fail(call) \/ Engine!Learn(call)
  BY <1>1, <1>5 DEF Engine!Fail, Engine!Learn, EngineTypes
<1> QED
  BY <1>2, <1>3, <1>4, <1>5

LEMMA EngineKeepsBase ==
  ASSUME BaseInv, NEW r \in Run, EngineStep(r)
  PROVE  BaseInv'
<1> DEFINE w == run[r].window
<1>0. TypeOK /\ EngineTypes
  BY EngineTypesOK DEF BaseInv
<1>1. /\ w \in Window /\ run[r].pc = "executing" /\ answer[Call(r, w)] = None
      /\ asked[Call(r, w)] = w /\ asked' = asked
      /\ UNCHANGED <<source, run, product, crashes, overlapped>>
  BY EngineEffect
<1>2. \/ ledger' = ledger /\ answer' = answer
      \/ \E s \in {"committed", "failed"} :
           /\ answer' = [answer EXCEPT ![Call(r, w)] = s]
           /\ \/ ledger[w].status = s /\ ledger' = ledger
              \/ /\ ledger[w].status = "open"
                 /\ ledger' = [ledger EXCEPT ![w].status = s]
  BY EngineEffect
<1> HIDE DEF w
<1>3. row' = row /\ occurrences' = occurrences /\ source' = source /\ run' = run
      /\ crashes' = crashes /\ overlapped' = overlapped
  BY <1>1 DEF product
<1>4. Call(r, w) \in Run \X Window
  BY <1>1 DEF Call
<1>5. /\ ledger' \in [Window -> Engine!Execution]
      /\ \A v \in Window : \/ ledger'[v].status = ledger[v].status
                           \/ /\ ledger[v].status = "open"
                              /\ ledger'[v].status \in {"committed", "failed"}
  <2>1. CASE ledger' = ledger
    BY <1>0, <2>1 DEF EngineTypes
  <2>2. ASSUME NEW s \in {"committed", "failed"}, ledger[w].status = "open",
               ledger' = [ledger EXCEPT ![w].status = s]
        PROVE  <1>5!1 /\ <1>5!2
    <3>1. ledger' = [ledger EXCEPT ![w] = [ledger[w] EXCEPT !.status = s]]
      BY <2>2
    <3>2. /\ [ledger[w] EXCEPT !.status = s] \in Engine!Execution
          /\ [ledger[w] EXCEPT !.status = s].status = s
      BY <1>0, <1>1 DEF EngineTypes, Engine!Execution, Engine!Settled
    <3> QED
      BY <1>0, <1>1, <2>2, <3>1, <3>2 DEF EngineTypes
  <2> QED
    BY <1>2, <2>1, <2>2
<1>6. /\ answer' \in [Run \X Window -> {"committed", "failed", "other-request", None}]
      /\ \A q \in Run, v \in Window :
           \/ answer'[Call(q, v)] = answer[Call(q, v)]
           \/ /\ q = r /\ v = w
              /\ ledger'[w].status = answer'[Call(r, w)]
  <2>1. CASE answer' = answer
    BY <1>0, <2>1 DEF EngineTypes
  <2>2. ASSUME NEW s \in {"committed", "failed"},
               answer' = [answer EXCEPT ![Call(r, w)] = s],
               \/ ledger[w].status = s /\ ledger' = ledger
               \/ /\ ledger[w].status = "open"
                  /\ ledger' = [ledger EXCEPT ![w].status = s]
        PROVE  <1>6!1 /\ <1>6!2
    <3>1. answer' \in [Run \X Window -> {"committed", "failed", "other-request", None}]
      BY <1>0, <2>2 DEF EngineTypes
    <3>2. answer'[Call(r, w)] = s
      BY <1>0, <1>4, <2>2 DEF EngineTypes
    <3>3. \A q \in Run, v \in Window :
            Call(q, v) \in Run \X Window /\ (q # r \/ v # w => Call(q, v) # Call(r, w))
      BY DEF Call
    <3>4. \A q \in Run, v \in Window :
            q # r \/ v # w => answer'[Call(q, v)] = answer[Call(q, v)]
      BY <1>0, <2>2, <3>3 DEF EngineTypes
    <3>5. ledger'[w].status = s
      <4>1. CASE ledger[w].status = s /\ ledger' = ledger
        BY <4>1
      <4>2. CASE ledger' = [ledger EXCEPT ![w].status = s]
        BY <1>0, <1>1, <4>2 DEF EngineTypes, Engine!Execution
      <4> QED
        BY <2>2, <4>1, <4>2
    <3> QED
      BY <3>1, <3>2, <3>4, <3>5
  <2> QED
    BY <1>2, <2>1, <2>2
<1>7. TypeOK'
  <2>1. Engine!ContractTypeOK'
    BY <1>0, <1>1, <1>5, <1>6, EngineCounts
       DEF EngineTypes, Engine!ContractTypeOK, Engine!Settled
  <2> QED
    BY <1>0, <1>3, <2>1 DEF TypeOK
<1>8. CallsOK'
  <2>1. ASSUME NEW q \in Run, NEW v \in Window
        PROVE  /\ asked[Call(q, v)] \in {None, v}
               /\ answer'[Call(q, v)] # None => asked[Call(q, v)] = v
               /\ answer'[Call(q, v)] \in {"committed", "failed"} =>
                    ledger'[v].status = answer'[Call(q, v)]
               /\ run[q].pc = "executing" /\ run[q].window = v =>
                    asked[Call(q, v)] = v
    <3>1. /\ asked[Call(q, v)] \in {None, v}
          /\ answer[Call(q, v)] # None => asked[Call(q, v)] = v
          /\ answer[Call(q, v)] \in {"committed", "failed"} =>
               ledger[v].status = answer[Call(q, v)]
          /\ run[q].pc = "executing" /\ run[q].window = v =>
               asked[Call(q, v)] = v
      BY DEF BaseInv, CallsOK
    <3>2. answer[Call(q, v)] \in {"committed", "failed"} =>
            ledger'[v].status = answer[Call(q, v)]
      BY <1>5, <3>1
    <3> QED
      BY <1>1, <1>6, <3>1, <3>2
  <2> QED
    BY <1>1, <1>3, <2>1 DEF CallsOK, Call
<1>9. ShownWasCommitted'
  BY <1>3, <1>5 DEF BaseInv, ShownWasCommitted
<1>10. PlanOK'
  <2>1. Plan' = Plan
    BY <1>3 DEF Plan
  <2> QED
    BY <1>3, <2>1 DEF BaseInv, PlanOK
<1> QED
  BY <1>7, <1>8, <1>9, <1>10 DEF BaseInv

LEMMA RecordFailureKeepsBase ==
  ASSUME BaseInv, NEW r \in Run, RecordFailure(r)
  PROVE  BaseInv'
<1> DEFINE w == run[r].window
           new == [run[r] EXCEPT !.pc = "done", !.failed = w]
<1>1. /\ run[r] \in RunState /\ w \in Window /\ w \in Nat /\ run[r].pc = "executing"
  BY RunTypes, WindowsAreNumbers DEF BaseInv, RecordFailure, Answered
<1>2. /\ run' = [run EXCEPT ![r] = new] /\ row' = [row EXCEPT ![w] = "failed"]
      /\ UNCHANGED <<source, engine, occurrences, crashes, overlapped>>
  BY DEF RecordFailure
<1> HIDE DEF w
<1>3. /\ new \in RunState /\ new.outstanding = run[r].outstanding
      /\ new.pc = "done" /\ new.failed = w
  BY <1>1 DEF RunState, Ended
<1> HIDE DEF new
<1>4. /\ source' = source /\ ledger' = ledger /\ head' = head /\ sent' = sent
      /\ asked' = asked /\ answer' = answer /\ occurrences' = occurrences
      /\ crashes' = crashes /\ overlapped' = overlapped
  BY <1>2 DEF engine
<1>5. /\ run' \in [Run -> RunState] /\ run'[r] = new
      /\ \A q \in Run : q # r => run'[q] = run[q]
  BY <1>2, <1>3 DEF BaseInv, TypeOK
<1>6. /\ row' \in [Window -> {"absent", "committed", "failed"}]
      /\ \A v \in Window : row'[v] = "committed" => row[v] = "committed"
  BY <1>1, <1>2 DEF BaseInv, TypeOK
<1>7. TypeOK'
  BY <1>3, <1>4, <1>5, <1>6 DEF BaseInv, TypeOK, Engine!ContractTypeOK
<1>8. CallsOK'
  BY <1>2, <1>3, <1>5, CallsStay DEF BaseInv
<1>9. ShownWasCommitted'
  BY <1>4, <1>6 DEF BaseInv, ShownWasCommitted
<1>10. PlanOK'
  <2>1. Plan' = Plan
    BY <1>4 DEF Plan
  <2>2. w # None
    BY <1>1, WindowsAreNumbers
  <2> QED
    BY <1>1, <1>3, <1>4, <1>5, <2>1, <2>2 DEF BaseInv, PlanOK
<1> QED
  BY <1>7, <1>8, <1>9, <1>10 DEF BaseInv

LEMMA ProjectKeepsBase ==
  ASSUME BaseInv, NEW r \in Run, Project(r)
  PROVE  BaseInv'
<1> DEFINE w == run[r].window
           new == [run[r] EXCEPT !.pc = "record"]
<1>1. /\ run[r] \in RunState /\ w \in Window /\ w \in run[r].outstanding
      /\ run[r].pc = "executing"
  BY RunTypes DEF BaseInv, Project, Answered
<1>2. /\ run' = [run EXCEPT ![r] = new] /\ occurrences' = occurrences \cup {w}
      /\ UNCHANGED <<source, engine, row, crashes, overlapped>>
      /\ answer[Call(r, w)] = "committed"
  BY DEF Project, Goto, Answered
<1> HIDE DEF w
<1>3. /\ new \in RunState /\ new.outstanding = run[r].outstanding
      /\ new.pc = "record" /\ new.window = w
  BY <1>1 DEF RunState, w
<1> HIDE DEF new
<1>4. /\ source' = source /\ ledger' = ledger /\ head' = head /\ sent' = sent
      /\ asked' = asked /\ answer' = answer /\ row' = row
      /\ crashes' = crashes /\ overlapped' = overlapped
  BY <1>2 DEF engine
<1>5. /\ run' \in [Run -> RunState] /\ run'[r] = new
      /\ \A q \in Run : q # r => run'[q] = run[q]
  BY <1>2, <1>3 DEF BaseInv, TypeOK
<1>6. TypeOK'
  BY <1>1, <1>2, <1>3, <1>4, <1>5 DEF BaseInv, TypeOK, Engine!ContractTypeOK
<1>7. CallsOK'
  BY <1>2, <1>3, <1>5, CallsStay DEF BaseInv
<1>8. ShownWasCommitted'
  <2>1. ledger[w].status = "committed"
    BY <1>1, <1>2 DEF BaseInv, CallsOK
  <2> QED
    BY <1>2, <1>4, <2>1 DEF BaseInv, ShownWasCommitted
<1>9. PlanOK'
  <2>1. Plan' = Plan
    BY <1>4 DEF Plan
  <2> QED
    BY <1>1, <1>2, <1>3, <1>4, <1>5, <2>1 DEF BaseInv, PlanOK
<1> QED
  BY <1>6, <1>7, <1>8, <1>9 DEF BaseInv

LEMMA RecordCommitKeepsBase ==
  ASSUME BaseInv, NEW r \in Run, RecordCommit(r)
  PROVE  BaseInv'
<1> DEFINE w == run[r].window
           new == [run[r] EXCEPT !.pc = "next", !.outstanding = run[r].outstanding \ {w}]
<1>1. /\ run[r] \in RunState /\ w \in Window /\ run[r].pc = "record"
      /\ w \in occurrences
  BY RunTypes DEF BaseInv, RecordCommit, PlanOK
<1>2. /\ run' = [run EXCEPT ![r] = new] /\ row' = [row EXCEPT ![w] = "committed"]
      /\ UNCHANGED <<source, engine, occurrences, crashes, overlapped>>
  BY DEF RecordCommit
<1> HIDE DEF w
<1>3. /\ new \in RunState /\ new.outstanding = run[r].outstanding \ {w}
      /\ new.pc = "next"
  BY <1>1 DEF RunState, w
<1> HIDE DEF new
<1>4. /\ source' = source /\ ledger' = ledger /\ head' = head /\ sent' = sent
      /\ asked' = asked /\ answer' = answer /\ occurrences' = occurrences
      /\ crashes' = crashes /\ overlapped' = overlapped
  BY <1>2 DEF engine
<1>5. /\ run' \in [Run -> RunState] /\ run'[r] = new
      /\ \A q \in Run : q # r => run'[q] = run[q]
  BY <1>2, <1>3 DEF BaseInv, TypeOK
<1>6. /\ row' \in [Window -> {"absent", "committed", "failed"}]
      /\ \A v \in Window : row'[v] = "committed" => row[v] = "committed" \/ v = w
  BY <1>1, <1>2 DEF BaseInv, TypeOK
<1>7. TypeOK'
  BY <1>3, <1>4, <1>5, <1>6 DEF BaseInv, TypeOK, Engine!ContractTypeOK
<1>8. CallsOK'
  BY <1>2, <1>3, <1>5, CallsStay DEF BaseInv
<1>9. ShownWasCommitted'
  BY <1>1, <1>4, <1>6 DEF BaseInv, ShownWasCommitted
<1>10. PlanOK'
  <2>1. Plan' = Plan
    BY <1>4 DEF Plan
  <2>2. /\ run[r].outstanding \subseteq Plan
        /\ Plan \ run[r].outstanding \subseteq occurrences
    BY <1>1 DEF BaseInv, PlanOK
  <2> QED
    BY <1>1, <1>3, <1>4, <1>5, <2>1, <2>2 DEF BaseInv, PlanOK
<1> QED
  BY <1>7, <1>8, <1>9, <1>10 DEF BaseInv

LEMMA NextKeepsBase == BaseInv /\ [Next]_vars => BaseInv'
<1> SUFFICES ASSUME BaseInv, [Next]_vars PROVE BaseInv'
  OBVIOUS
<1>1. CASE UNCHANGED vars
  <2>1. /\ source' = source /\ ledger' = ledger /\ head' = head /\ sent' = sent
        /\ asked' = asked /\ answer' = answer /\ row' = row /\ run' = run
        /\ occurrences' = occurrences /\ crashes' = crashes /\ overlapped' = overlapped
    BY <1>1 DEF vars
  <2>2. TypeOK'
    BY <2>1 DEF BaseInv, TypeOK, Engine!ContractTypeOK
  <2>3. CallsOK' /\ ShownWasCommitted'
    BY <2>1 DEF BaseInv, CallsOK, Call, ShownWasCommitted
  <2>4. PlanOK'
    BY <2>1 DEF BaseInv, PlanOK, Plan
  <2> QED
    BY <2>2, <2>3, <2>4 DEF BaseInv
<1>2. ASSUME NEW r \in Run, Start(r) \/ Step(r) \/ Crash(r) PROVE BaseInv'
  BY <1>2, StartKeepsBase, ChooseKeepsBase, FinishKeepsBase, SnapshotKeepsBase,
     ExecuteKeepsBase, EngineKeepsBase, RecordFailureKeepsBase, RejectionKeepsBase,
     ProjectKeepsBase, RecordCommitKeepsBase, CrashKeepsBase DEF Step
<1> QED
  BY <1>1, <1>2 DEF Next

LEMMA BaseInvariant == Spec => []BaseInv
BY InitBase, NextKeepsBase, PTL DEF Spec

(* A run that reports complete has left every window of the plan in front   *)
(* of the reviewer (extractOnce()), however many runs overlap and die.      *)
THEOREM CompleteRunsShowAll == Spec => []CompleteMeansShown
<1>1. BaseInv => CompleteMeansShown
  BY DEF BaseInv, PlanOK, CompleteMeansShown
<1> QED
  BY <1>1, BaseInvariant, PTL

-----------------------------------------------------------------------------
(* Runs that follow one another.                                            *)

(* What becomes of the run that takes a step, the others left as they are.  *)
LEMMA OneRunSteps ==
  ASSUME BaseInv, NEW r \in Run, Start(r) \/ Step(r)
  PROVE  \A q \in Run : q # r => run'[q] = run[q]
<1>1. run \in [Run -> RunState]
  BY DEF BaseInv, TypeOK
<1>2. \E new : run' = [run EXCEPT ![r] = new] \/ run' = run
  BY DEF Step, Start, Choose, Finish, Snapshot, Execute, EngineStep,
     RecordFailure, ExecuteRejects, Project, RecordCommit, Goto
<1> QED
  BY <1>1, <1>2

LEMMA CalmBefore ==
  ASSUME BaseInv, [Next]_vars, Calm'
  PROVE  Calm
<1>1. CASE UNCHANGED vars
  BY <1>1 DEF Calm, vars
<1>2. ASSUME NEW r \in Run, Start(r) \/ Step(r) \/ Crash(r) PROVE Calm
  <2>1. ~Crash(r)
    BY DEF Crash, Calm, BaseInv, TypeOK
  <2>2. crashes' = crashes /\ run[r].pc # "rejected"
    BY <1>2, <2>1 DEF Step, Start, Choose, Finish, Snapshot, Execute, EngineStep,
       RecordFailure, ExecuteRejects, Project, RecordCommit, Answered
  <2>o. overlapped => overlapped'
    <3>1. CASE Start(r)
      BY <3>1 DEF Start
    <3>2. CASE Step(r)
      BY <3>2 DEF Step, Choose, Finish, Snapshot, Execute, EngineStep,
         RecordFailure, ExecuteRejects, Project, RecordCommit
    <3> QED
      BY <1>2, <2>1, <3>1, <3>2
  <2>3. \A q \in Run : q # r => run'[q] = run[q]
    BY <1>2, <2>1, OneRunSteps
  <2> QED
    BY <2>2, <2>3, <2>o DEF Calm
<1> QED
  BY <1>1, <1>2 DEF Next

(* A run goes from one state that does not write to another.                *)
LEMMA QuietStepKeepsCalm ==
  ASSUME BaseInv, CalmFacts, NEW r \in Run,
         \A q \in Run : q # r => run'[q] = run[q],
         run[r].pc \in {"next", "snapshot"}, run'[r].pc \notin {"executing", "record"},
         run'[r].outstanding = run[r].outstanding, UNCHANGED <<engine, product>>
  PROVE  CalmFacts'
<1>1. ledger' = ledger /\ answer' = answer /\ row' = row
  BY DEF engine, product
<1>2. \A q \in Run : Underway(q)' => Underway(q)
  BY DEF Underway, Ended
<1>3. \A q \in Run, w \in Window : Works(q, w) => Works(q, w)'
  BY DEF Works
<1>4. Alone'
  BY <1>2 DEF CalmFacts, Alone
<1>5. RowsAgree'
  BY <1>1, <1>3 DEF CalmFacts, RowsAgree, Agrees
<1>6. OpenIsExecuted'
  <2>1. ASSUME NEW w \in Window, ledger[w].status = "open"
        PROVE  \E q \in Run : run'[q].pc = "executing" /\ run'[q].window = w
    <3>1. PICK q \in Run : run[q].pc = "executing" /\ run[q].window = w
      BY <2>1 DEF CalmFacts, OpenIsExecuted
    <3>2. run'[q] = run[q]
      BY <3>1
    <3> QED
      BY <3>1, <3>2
  <2> QED
    BY <1>1, <2>1 DEF OpenIsExecuted
<1>7. OutstandingIsUncommitted'
  BY <1>1, <1>2 DEF CalmFacts, OutstandingIsUncommitted
<1>8. RefusedHasFailed'
  BY <1>1 DEF CalmFacts, RefusedHasFailed, Call
<1> QED
  BY <1>4, <1>5, <1>6, <1>7, <1>8 DEF CalmFacts

LEMMA RunThat ==
  ASSUME BaseInv, NEW r \in Run, NEW new, run' = [run EXCEPT ![r] = new]
  PROVE  run'[r] = new
BY DEF BaseInv, TypeOK

LEMMA ChooseKeepsCalm ==
  ASSUME BaseInv, CalmFacts, NEW r \in Run, Choose(r)
  PROVE  CalmFacts'
<1> DEFINE new == [run[r] EXCEPT !.pc = "snapshot", !.window = Min(run[r].outstanding)]
<1>1. run[r] \in RunState /\ run' = [run EXCEPT ![r] = new]
  BY RunTypes DEF BaseInv, Choose
<1>2. new.pc = "snapshot" /\ new.outstanding = run[r].outstanding
  BY <1>1 DEF RunState
<1> HIDE DEF new
<1>3. run'[r] = new
  BY <1>1, RunThat
<1>4. \A q \in Run : q # r => run'[q] = run[q]
  BY OneRunSteps DEF Step
<1>5. run[r].pc = "next" /\ UNCHANGED <<engine, product>>
  BY DEF Choose
<1> QED
  BY <1>2, <1>3, <1>4, <1>5, QuietStepKeepsCalm

LEMMA FinishKeepsCalm ==
  ASSUME BaseInv, CalmFacts, NEW r \in Run, Finish(r)
  PROVE  CalmFacts'
<1> DEFINE new == [run[r] EXCEPT !.pc = "done"]
<1>1. run[r] \in RunState /\ run' = [run EXCEPT ![r] = new]
  BY RunTypes DEF BaseInv, Finish, Goto
<1>2. new.pc = "done" /\ new.outstanding = run[r].outstanding
  BY <1>1 DEF RunState
<1> HIDE DEF new
<1>3. run'[r] = new
  BY <1>1, RunThat
<1>4. \A q \in Run : q # r => run'[q] = run[q]
  BY OneRunSteps DEF Step
<1>5. run[r].pc = "next" /\ UNCHANGED <<engine, product>>
  BY DEF Finish
<1> QED
  BY <1>2, <1>3, <1>4, <1>5, QuietStepKeepsCalm

LEMMA SnapshotKeepsCalm ==
  ASSUME BaseInv, CalmFacts, NEW r \in Run, Snapshot(r)
  PROVE  CalmFacts'
<1> DEFINE new == [run[r] EXCEPT !.pc = "execute", !.revision = head["instance"]]
<1>1. run[r] \in RunState /\ run' = [run EXCEPT ![r] = new]
  BY RunTypes DEF BaseInv, Snapshot
<1>2. new.pc = "execute" /\ new.outstanding = run[r].outstanding
  BY <1>1 DEF RunState
<1> HIDE DEF new
<1>3. run'[r] = new
  BY <1>1, RunThat
<1>4. \A q \in Run : q # r => run'[q] = run[q]
  BY OneRunSteps DEF Step
<1>5. run[r].pc = "snapshot" /\ UNCHANGED <<engine, product>>
  BY DEF Snapshot
<1> QED
  BY <1>2, <1>3, <1>4, <1>5, QuietStepKeepsCalm

(* A run that begins begins alone.                                          *)
LEMMA StartKeepsCalm ==
  ASSUME BaseInv, CalmFacts, NEW r \in Run, Start(r), ~overlapped'
  PROVE  CalmFacts'
<1> DEFINE pc == IF Cardinality(Outstanding) > Ceiling THEN "refused" ELSE "next"
           seen == {w \in Window : ledger[w].status = "committed"}
           new == [NoRun EXCEPT !.pc = pc, !.outstanding = Outstanding, !.seen = seen]
<1>1. run' = [run EXCEPT ![r] = new] /\ run[r].pc = "idle"
  BY Zenon DEF Start
<1>2. pc \in {"refused", "next"}
  OBVIOUS
<1>3. NoRun \in RunState /\ seen \subseteq Window /\ Outstanding \subseteq Window
  BY PlanType DEF NoRun, RunState, BaseInv
<1> HIDE DEF pc, seen
<1>4. new.pc = pc /\ new.outstanding = Outstanding
  BY <1>3 DEF RunState
<1> HIDE DEF new
<1>5. run'[r] = new /\ \A q \in Run : q # r => run'[q] = run[q]
  BY <1>1, RunThat, OneRunSteps
<1>6. /\ ledger' = ledger /\ answer' = answer /\ row' = row
      /\ \A q \in Run : ~Underway(q)
  BY DEF Start, engine, product
<1>7. \A q \in Run : Underway(q)' => q = r
  BY <1>5, <1>6 DEF Underway
<1>8. \A q \in Run : run'[q].pc \in {"executing", "record"} <=>
                     run[q].pc \in {"executing", "record"}
  BY <1>1, <1>2, <1>4, <1>5
<1>9. \A q \in Run : run[q].pc \notin {"executing", "record"}
  BY <1>6 DEF Underway, Ended
<1>10. RowsAgree'
  BY <1>6, <1>9 DEF CalmFacts, RowsAgree, Agrees, Works
<1>11. OpenIsExecuted'
  BY <1>6, <1>9 DEF CalmFacts, OpenIsExecuted
<1>12. OutstandingIsUncommitted'
  BY <1>4, <1>5, <1>6, <1>7 DEF OutstandingIsUncommitted, Outstanding
<1>13. RefusedHasFailed' /\ Alone'
  BY <1>7, <1>8, <1>9 DEF RefusedHasFailed, Alone
<1> QED
  BY <1>10, <1>11, <1>12, <1>13 DEF CalmFacts

LEMMA ExecuteKeepsCalm ==
  ASSUME BaseInv, CalmFacts, NEW r \in Run, Execute(r)
  PROVE  CalmFacts'
<1>w. PICK w : w = run[r].window
  OBVIOUS
<1>0. TypeOK /\ EngineTypes
  BY EngineTypesOK DEF BaseInv
<1>1. /\ w \in Window /\ w \in run[r].outstanding
      /\ UNCHANGED product
  BY <1>0, <1>w, ExecuteEffect
<1>2. \/ /\ ledger[w].status = "absent" /\ answer' = answer
         /\ \E request \in Request :
              ledger' = [ledger EXCEPT ![w] =
                           [status |-> "open", request |-> request]]
      \/ /\ ledger[w].status # "absent" /\ ledger' = ledger
         /\ \E told \in {"other-request", None, ledger[w].status} :
              /\ answer' = [answer EXCEPT ![Call(r, w)] = told]
              /\ told = None => ledger[w].status = "open"
              /\ told \notin {None, "other-request"} =>
                   ledger[w].status \in {"committed", "failed"}
  BY <1>0, <1>w, ExecuteEffect
<1>3. /\ run[r].pc = "execute" /\ run'[r].pc = "executing" /\ run'[r].window = w
      /\ run'[r].outstanding = run[r].outstanding
      /\ \A q \in Run : q # r => run'[q] = run[q]
  BY <1>0, <1>w, ExecuteRun
<1>4. row' = row
  BY <1>1 DEF product
<1>5. Underway(r) /\ \A q \in Run : Underway(q)' <=> Underway(q)
  BY <1>3 DEF Underway, Ended
<1>6. \A q \in Run : q # r => ~Underway(q) /\ run[q].pc \notin {"executing", "record"}
  BY <1>5 DEF CalmFacts, Alone, Underway, Ended
<1>7. \A q \in Run, v \in Window : ~Works(q, v)
  BY <1>3, <1>6 DEF Works
<1>8. \A v \in Window : Agrees(v) /\ ledger[v].status # "open"
  BY <1>3, <1>6, <1>7 DEF CalmFacts, RowsAgree, OpenIsExecuted
<1>9. row[w] # "committed"
  BY <1>1, <1>5 DEF CalmFacts, OutstandingIsUncommitted
<1>10. ledger[w].status \in {"absent", "failed"}
  <2>1. ledger[w].status \in {"absent", "open", "committed", "failed"}
    BY <1>0, <1>1 DEF EngineTypes, Engine!Execution, Engine!Settled
  <2> QED
    BY <1>1, <1>8, <1>9, <2>1 DEF Agrees
<1>11. \A v \in Window : v # w => ledger'[v] = ledger[v]
  BY <1>0, <1>2 DEF EngineTypes
<1>12. Alone'
  BY <1>5 DEF CalmFacts, Alone
<1>13. RowsAgree'
  <2>1. \A v \in Window : v # w => Agrees(v)'
    BY <1>4, <1>8, <1>11 DEF Agrees
  <2>2. Works(r, w)'
    BY <1>3 DEF Works
  <2> QED
    BY <2>1, <2>2 DEF RowsAgree, Works
<1>14. OpenIsExecuted'
  BY <1>3, <1>8, <1>11 DEF OpenIsExecuted
<1>15. OutstandingIsUncommitted'
  <2>1. \A q \in Run : run'[q].outstanding = run[q].outstanding
    BY <1>3
  <2> QED
    BY <1>4, <1>5, <2>1 DEF CalmFacts, OutstandingIsUncommitted
<1>16. RefusedHasFailed'
  <2>1. answer'[Call(r, w)] = "other-request" => ledger'[w].status = "failed"
    <3>1. CASE ledger[w].status = "absent"
      <4>1. answer' = answer
        BY <1>2, <3>1
      <4>2. asked[Call(r, w)] = None
        BY <1>0, <1>w, ExecuteEffect
      <4>3. answer[Call(r, w)] = None
        BY <1>1, <4>2, WindowsAreNumbers DEF BaseInv, CallsOK
      <4> QED
        BY <4>1, <4>3, NoneIsNoAnswer
    <3>2. CASE ledger[w].status # "absent"
      BY <1>2, <1>10, <3>2
    <3> QED
      BY <3>1, <3>2
  <2>2. \A q \in Run : run'[q].pc = "executing" => q = r
    BY <1>3, <1>6
  <2> QED
    BY <1>3, <2>1, <2>2 DEF RefusedHasFailed, Call
<1> QED
  BY <1>12, <1>13, <1>14, <1>15, <1>16 DEF CalmFacts

LEMMA EngineKeepsCalm ==
  ASSUME BaseInv, CalmFacts, NEW r \in Run, EngineStep(r)
  PROVE  CalmFacts'
<1>w. PICK w : w = run[r].window
  OBVIOUS
<1>0. TypeOK /\ EngineTypes
  BY EngineTypesOK DEF BaseInv
<1>1. /\ w \in Window /\ run[r].pc = "executing" /\ answer[Call(r, w)] = None
      /\ UNCHANGED <<source, run, product, crashes, overlapped>>
  <2> DEFINE v == run[r].window
  <2>1. /\ v \in Window /\ run[r].pc = "executing" /\ answer[Call(r, v)] = None
        /\ asked[Call(r, v)] = v /\ asked' = asked
        /\ UNCHANGED <<source, run, product, crashes, overlapped>>
    BY EngineEffect
  <2> QED
    BY <1>w, <2>1
<1>2. \/ ledger' = ledger /\ answer' = answer
      \/ \E s \in {"committed", "failed"} :
           /\ answer' = [answer EXCEPT ![Call(r, w)] = s]
           /\ \/ ledger[w].status = s /\ ledger' = ledger
              \/ /\ ledger[w].status = "open"
                 /\ ledger' = [ledger EXCEPT ![w].status = s]
  <2> DEFINE v == run[r].window
  <2>1. \/ ledger' = ledger /\ answer' = answer
        \/ \E s \in {"committed", "failed"} :
             /\ answer' = [answer EXCEPT ![Call(r, v)] = s]
             /\ \/ ledger[v].status = s /\ ledger' = ledger
                \/ /\ ledger[v].status = "open"
                   /\ ledger' = [ledger EXCEPT ![v].status = s]
    BY EngineEffect
  <2> QED
    BY <1>w, <2>1
<1>3. row' = row /\ run' = run
  BY <1>1 DEF product
<1>4. /\ \A v \in Window : v # w => ledger'[v] = ledger[v]
      /\ \A v \in Window : ledger'[v].status = "open" => ledger[v].status = "open"
  <2>1. CASE ledger' = ledger
    BY <2>1
  <2>2. ASSUME NEW s \in {"committed", "failed"},
               ledger' = [ledger EXCEPT ![w].status = s]
        PROVE  <1>4!1 /\ <1>4!2
    <3>1. ledger' = [ledger EXCEPT ![w] = [ledger[w] EXCEPT !.status = s]]
      BY <2>2
    <3>2. [ledger[w] EXCEPT !.status = s].status = s
      BY <1>0, <1>1 DEF EngineTypes, Engine!Execution
    <3> QED
      BY <1>0, <1>1, <3>1, <3>2 DEF EngineTypes
  <2> QED
    BY <1>2, <2>1, <2>2
<1>5. \A q \in Run : run[q].pc = "executing" => q = r
  BY <1>1 DEF CalmFacts, Alone, Underway, Ended
<1>6. Alone' /\ OutstandingIsUncommitted'
  BY <1>3 DEF CalmFacts, Alone, OutstandingIsUncommitted, Underway
<1>7. RowsAgree'
  <2>1. \A v \in Window : v # w => (Agrees(v)' <=> Agrees(v))
    BY <1>3, <1>4 DEF Agrees
  <2>2. \A q \in Run, v \in Window : Works(q, v)' <=> Works(q, v)
    BY <1>3 DEF Works
  <2>3. Works(r, w)
    BY <1>1, <1>w DEF Works
  <2> QED
    BY <1>1, <2>1, <2>2, <2>3 DEF CalmFacts, RowsAgree
<1>8. OpenIsExecuted'
  BY <1>3, <1>4 DEF CalmFacts, OpenIsExecuted
<1>9. RefusedHasFailed'
  <2>1. answer'[Call(r, w)] # "other-request"
    <3>1. CASE answer' = answer
      BY <1>1, <3>1, NoneIsNoAnswer
    <3>2. ASSUME NEW s \in {"committed", "failed"},
                 answer' = [answer EXCEPT ![Call(r, w)] = s]
          PROVE  answer'[Call(r, w)] # "other-request"
      <4>1. Call(r, w) \in Run \X Window
        BY <1>1 DEF Call
      <4> QED
        BY <1>0, <3>2, <4>1 DEF EngineTypes
    <3> QED
      BY <1>2, <3>1, <3>2
  <2> QED
    BY <1>3, <1>5, <1>w, <2>1 DEF RefusedHasFailed, Call
<1> QED
  BY <1>6, <1>7, <1>8, <1>9 DEF CalmFacts

LEMMA RecordFailureKeepsCalm ==
  ASSUME BaseInv, CalmFacts, NEW r \in Run, RecordFailure(r)
  PROVE  CalmFacts'
<1>w. PICK w : w = run[r].window
  OBVIOUS
<1>1. /\ run[r] \in RunState /\ w \in Window /\ run[r].pc = "executing"
      /\ answer[Call(r, w)] \in {"failed", "other-request"}
  BY <1>w, RunTypes DEF BaseInv, RecordFailure, Answered
<1> DEFINE new == [run[r] EXCEPT !.pc = "done", !.failed = w]
<1>2. /\ run' = [run EXCEPT ![r] = new] /\ row' = [row EXCEPT ![w] = "failed"]
      /\ UNCHANGED engine
  BY <1>w DEF RecordFailure
<1>3. new.pc = "done"
  BY <1>1 DEF RunState
<1> HIDE DEF new
<1>4. run'[r].pc = "done" /\ \A q \in Run : q # r => run'[q] = run[q]
  BY <1>2, <1>3, RunThat, OneRunSteps DEF Step
<1>5. ledger' = ledger /\ answer' = answer
  BY <1>2 DEF engine
<1>6. row'[w] = "failed" /\ \A v \in Window : v # w => row'[v] = row[v]
  BY <1>1, <1>2 DEF BaseInv, TypeOK
<1>7. ledger[w].status = "failed"
  <2>1. CASE answer[Call(r, w)] = "failed"
    BY <1>1, <2>1 DEF BaseInv, CallsOK
  <2>2. CASE answer[Call(r, w)] = "other-request"
    BY <1>1, <1>w, <2>2 DEF CalmFacts, RefusedHasFailed
  <2> QED
    BY <1>1, <2>1, <2>2
<1>8. \A q \in Run : run[q].pc \in {"executing", "record"} => q = r
  BY <1>1 DEF CalmFacts, Alone, Underway, Ended
<1>9. Alone'
  BY <1>4 DEF CalmFacts, Alone, Underway, Ended
<1>10. RowsAgree'
  <2>1. Agrees(w)'
    BY <1>5, <1>6, <1>7 DEF Agrees
  <2>2. ASSUME NEW v \in Window, v # w PROVE Agrees(v)'
    <3>1. \A q \in Run : ~Works(q, v)
      BY <1>8, <1>w, <2>2 DEF Works
    <3>2. Agrees(v)
      BY <3>1 DEF CalmFacts, RowsAgree
    <3> QED
      BY <1>5, <1>6, <2>2, <3>2 DEF Agrees
  <2> QED
    BY <2>1, <2>2 DEF RowsAgree
<1>11. OpenIsExecuted'
  BY <1>5, <1>7, <1>8, <1>w DEF CalmFacts, OpenIsExecuted
<1>12. OutstandingIsUncommitted'
  <2>1. \A q \in Run : Underway(q)' => q # r /\ Underway(q)
    BY <1>4 DEF Underway, Ended
  <2> QED
    BY <1>4, <1>6, <2>1, RunTypes DEF CalmFacts, OutstandingIsUncommitted, BaseInv
<1>13. RefusedHasFailed'
  BY <1>4, <1>8 DEF RefusedHasFailed
<1> QED
  BY <1>9, <1>10, <1>11, <1>12, <1>13 DEF CalmFacts

LEMMA ProjectKeepsCalm ==
  ASSUME BaseInv, CalmFacts, NEW r \in Run, Project(r)
  PROVE  CalmFacts'
<1>w. PICK w : w = run[r].window
  OBVIOUS
<1>1. /\ run[r] \in RunState /\ w \in Window /\ run[r].pc = "executing"
      /\ answer[Call(r, w)] = "committed"
  BY <1>w, RunTypes DEF BaseInv, Project, Answered
<1> DEFINE new == [run[r] EXCEPT !.pc = "record"]
<1>2. run' = [run EXCEPT ![r] = new] /\ row' = row /\ UNCHANGED engine
  BY DEF Project, Goto
<1>3. new.pc = "record" /\ new.window = w /\ new.outstanding = run[r].outstanding
  BY <1>1, <1>w DEF RunState
<1> HIDE DEF new
<1>4. /\ run'[r].pc = "record" /\ run'[r].window = w
      /\ run'[r].outstanding = run[r].outstanding
      /\ \A q \in Run : q # r => run'[q] = run[q]
  BY <1>2, <1>3, RunThat, OneRunSteps DEF Step
<1>5. ledger' = ledger /\ answer' = answer
  BY <1>2 DEF engine
<1>6. ledger[w].status = "committed"
  BY <1>1 DEF BaseInv, CallsOK
<1>7. \A q \in Run : Underway(q)' <=> Underway(q)
  BY <1>1, <1>4 DEF Underway, Ended
<1>8. Alone'
  BY <1>7 DEF CalmFacts, Alone
<1>9. RowsAgree'
  <2>1. \A q \in Run, v \in Window : Works(q, v) => Works(q, v)'
    BY <1>4, <1>w DEF Works
  <2>2. \A v \in Window : Agrees(v)' <=> Agrees(v)
    BY <1>2, <1>5 DEF Agrees
  <2> QED
    BY <2>1, <2>2 DEF CalmFacts, RowsAgree
<1>10. OpenIsExecuted'
  BY <1>4, <1>5, <1>6, <1>w DEF CalmFacts, OpenIsExecuted
<1>11. OutstandingIsUncommitted'
  <2>1. \A q \in Run : run'[q].outstanding = run[q].outstanding
    BY <1>4
  <2> QED
    BY <1>2, <1>7, <2>1 DEF CalmFacts, OutstandingIsUncommitted
<1>12. RefusedHasFailed'
  BY <1>4, <1>5 DEF CalmFacts, RefusedHasFailed, Call
<1> QED
  BY <1>8, <1>9, <1>10, <1>11, <1>12 DEF CalmFacts

LEMMA RecordCommitKeepsCalm ==
  ASSUME BaseInv, CalmFacts, NEW r \in Run, RecordCommit(r)
  PROVE  CalmFacts'
<1>w. PICK w : w = run[r].window
  OBVIOUS
<1>1. run[r] \in RunState /\ w \in Window /\ run[r].pc = "record" /\ w \in occurrences
  BY <1>w, RunTypes DEF BaseInv, RecordCommit, PlanOK
<1> DEFINE new == [run[r] EXCEPT !.pc = "next", !.outstanding = run[r].outstanding \ {w}]
<1>2. /\ run' = [run EXCEPT ![r] = new] /\ row' = [row EXCEPT ![w] = "committed"]
      /\ UNCHANGED engine
  BY <1>w DEF RecordCommit
<1>3. new.pc = "next" /\ new.outstanding = run[r].outstanding \ {w}
  BY <1>1 DEF RunState
<1> HIDE DEF new
<1>4. /\ run'[r].pc = "next" /\ run'[r].outstanding = run[r].outstanding \ {w}
      /\ \A q \in Run : q # r => run'[q] = run[q]
  BY <1>2, <1>3, RunThat, OneRunSteps DEF Step
<1>5. ledger' = ledger /\ answer' = answer
  BY <1>2 DEF engine
<1>6. row'[w] = "committed" /\ \A v \in Window : v # w => row'[v] = row[v]
  BY <1>1, <1>2 DEF BaseInv, TypeOK
<1>7. ledger[w].status = "committed"
  BY <1>1 DEF BaseInv, ShownWasCommitted
<1>8. /\ \A q \in Run : Underway(q)' <=> Underway(q)
      /\ \A q \in Run : Underway(q) => q = r
  BY <1>1, <1>4 DEF CalmFacts, Alone, Underway, Ended
<1>9. \A q \in Run : run[q].pc \in {"executing", "record"} => q = r
  BY <1>8 DEF Underway, Ended
<1>10. Alone'
  BY <1>8 DEF Alone
<1>11. RowsAgree'
  <2>1. Agrees(w)'
    BY <1>5, <1>6, <1>7 DEF Agrees
  <2>2. ASSUME NEW v \in Window, v # w PROVE Agrees(v)'
    <3>1. \A q \in Run : ~Works(q, v)
      BY <1>9, <1>w, <2>2 DEF Works
    <3>2. Agrees(v)
      BY <3>1 DEF CalmFacts, RowsAgree
    <3> QED
      BY <1>5, <1>6, <2>2, <3>2 DEF Agrees
  <2> QED
    BY <2>1, <2>2 DEF RowsAgree
<1>12. OpenIsExecuted'
  BY <1>1, <1>5, <1>9 DEF CalmFacts, OpenIsExecuted
<1>13. OutstandingIsUncommitted'
  BY <1>4, <1>6, <1>8, <1>1, RunTypes DEF CalmFacts, OutstandingIsUncommitted, BaseInv
<1>14. RefusedHasFailed'
  BY <1>4, <1>9 DEF RefusedHasFailed
<1> QED
  BY <1>10, <1>11, <1>12, <1>13, <1>14 DEF CalmFacts

LEMMA InitCalm == Init => CalmOK
<1> SUFFICES ASSUME Init PROVE CalmFacts
  BY DEF CalmOK
<1>1. \A r \in Run : run[r].pc = "idle"
  BY DEF Init, NoRun
<1>2. \A w \in Window : row[w] = "absent" /\ ledger[w].status = "absent"
  BY DEF Init, Engine!ContractInit, Engine!Absent
<1> QED
  BY <1>1, <1>2 DEF CalmFacts, Alone, RowsAgree, OpenIsExecuted,
     OutstandingIsUncommitted, RefusedHasFailed, Underway, Agrees

LEMMA NextKeepsCalm == BaseInv /\ CalmOK /\ [Next]_vars => CalmOK'
<1> SUFFICES ASSUME BaseInv, CalmOK, [Next]_vars, Calm' PROVE CalmFacts'
  BY DEF CalmOK
<1>1. CalmFacts
  BY CalmBefore DEF CalmOK
<1>2. CASE UNCHANGED vars
  BY <1>1, <1>2 DEF vars, CalmFacts, Alone, RowsAgree, OpenIsExecuted,
     OutstandingIsUncommitted, RefusedHasFailed, Underway, Agrees, Works, Call
<1>3. ASSUME NEW r \in Run, Start(r) \/ Step(r) \/ Crash(r) PROVE CalmFacts'
  <2>1. ~Crash(r)
    BY DEF Crash, Calm, BaseInv, TypeOK
  <2>2. ~ExecuteRejects(r)
    <3> SUFFICES ASSUME ExecuteRejects(r) PROVE FALSE
      OBVIOUS
    <3>1. run[r] \in RunState /\ run' = [run EXCEPT ![r] = [run[r] EXCEPT !.pc = "rejected"]]
      BY RunTypes DEF ExecuteRejects, Goto, BaseInv
    <3>2. [run[r] EXCEPT !.pc = "rejected"].pc = "rejected"
      BY <3>1 DEF RunState
    <3>3. run'[r].pc = "rejected"
      BY <3>1, <3>2, RunThat
    <3> QED
      BY <3>3 DEF Calm
  <2>3. ~overlapped'
    BY DEF Calm
  <2> QED
    BY <1>1, <1>3, <2>1, <2>2, <2>3, StartKeepsCalm, ChooseKeepsCalm,
       FinishKeepsCalm, SnapshotKeepsCalm, ExecuteKeepsCalm, EngineKeepsCalm,
       RecordFailureKeepsCalm, ProjectKeepsCalm, RecordCommitKeepsCalm DEF Step
<1> QED
  BY <1>2, <1>3 DEF Next

(* Types hold; what the product shows was committed; and runs that follow   *)
(* one another, none of which dies or is rejected, leave extraction_windows *)
(* rows that agree with the ledger.                                         *)
THEOREM TheTablesAgree == Spec => []TablesAgree
<1>1. Init => IInv
  BY InitBase, InitCalm DEF IInv
<1>2. IInv /\ [Next]_vars => IInv'
  BY NextKeepsBase, NextKeepsCalm DEF IInv
<1>3. IInv => TablesAgree
  <2> SUFFICES ASSUME BaseInv, CalmOK, ~overlapped /\ crashes = 0,
                      \A r \in Run : ~Underway(r) /\ run[r].pc # "rejected",
                      NEW w \in Window
               PROVE  Agrees(w)
    BY DEF IInv, BaseInv, TablesAgree, UndisturbedRowsAgree, Agrees
  <2>1. CalmFacts
    BY DEF CalmOK, Calm
  <2>2. \A r \in Run : ~Works(r, w)
    BY DEF Works, Underway, Ended
  <2> QED
    BY <2>1, <2>2 DEF CalmFacts, RowsAgree
<1> QED
  BY <1>1, <1>2, <1>3, PTL DEF Spec
=============================================================================
