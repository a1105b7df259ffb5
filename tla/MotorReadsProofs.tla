--------------------------- MODULE MotorReadsProofs ---------------------------
(***************************************************************************)
(* Proofs about MotorReads, for every bus, every content of the servos'    *)
(* RAM, every noise and any number of faults: requests are well formed,    *)
(* what is on the line stays bytes, registers are extracted as they are,   *)
(* positions on the arc are normalized to their part of it, a scan reports *)
(* no motor that is absent, where no fault was met reads and scans are     *)
(* exact, and what read_load returns was in a register of the motor it was *)
(* asked of, whatever noise came but one of two bytes.                     *)
(***************************************************************************)
EXTENDS MotorReads, SequenceTheorems, WellFoundedInduction, TLAPS

\* The least-number principle: what inductions over lengths are made of here.
LEMMA LeastNumber ==
    ASSUME NEW S \in SUBSET Nat, S # {}
    PROVE  \E x \in S : \A y \in S : x <= y
<1> DEFINE R == OpToRel(<, Nat)
<1>1. IsWellFoundedOn(R, Nat)
  BY NatLessThanWellFounded, Zenon
<1>2. PICK x \in S : \A y \in S : ~ (<< y, x >> \in R)
  <2> HIDE DEF R
  <2> QED
    BY <1>1, WFMin, Zenon
<1>3. x \in Nat /\ \A y \in S : y \in Nat
  OBVIOUS
<1>4. \A y \in S : ~ (y < x)
  BY <1>2, <1>3 DEF OpToRel
<1> QED
  BY <1>3, <1>4

(***************************************************************************)
(* The checksum: Sum adds by halves what its running totals add in order.  *)
(***************************************************************************)
\* S is the running totals of the first n bytes.
Totals(bytes, n, S) ==
    /\ S \in [0 .. n -> Nat]
    /\ S[0] = 0
    /\ \A k \in 1 .. n : S[k] = S[k - 1] + bytes[k]

LEMMA TotalsExtend ==
    ASSUME NEW bytes, NEW n \in Nat, NEW S, Totals(bytes, n, S), bytes[n + 1] \in Nat
    PROVE  Totals(bytes, n + 1, [k \in 0 .. n + 1 |-> IF k <= n THEN S[k] ELSE S[n] + bytes[n + 1]])
<1> DEFINE T == [k \in 0 .. n + 1 |-> IF k <= n THEN S[k] ELSE S[n] + bytes[n + 1]]
<1>1. S \in [0 .. n -> Nat] /\ S[0] = 0 /\ \A k \in 1 .. n : S[k] = S[k - 1] + bytes[k]
  BY DEF Totals
<1>2. T \in [0 .. n + 1 -> Nat]
  BY <1>1
<1>3. T[0] = 0
  BY <1>1
<1>4. ASSUME NEW k \in 1 .. n + 1 PROVE T[k] = T[k - 1] + bytes[k]
  <2>1. CASE k <= n
    <3>1. T[k] = S[k] /\ T[k - 1] = S[k - 1] /\ k \in 1 .. n
      BY <2>1
    <3> QED
      BY <3>1, <1>1
  <2>2. CASE k = n + 1
    BY <2>2
  <2> QED
    BY <2>1, <2>2
<1> QED
  BY <1>2, <1>3, <1>4 DEF Totals

LEMMA TotalsExist ==
    ASSUME NEW bytes \in Seq(Nat)
    PROVE  \E S : Totals(bytes, Len(bytes), S)
<1> DEFINE Bad == { n \in 0 .. Len(bytes) : ~ \E S : Totals(bytes, n, S) }
<1>1. Len(bytes) \in Nat
  BY LenProperties
<1>2. Bad = {}
  <2> SUFFICES ASSUME Bad # {} PROVE FALSE
    OBVIOUS
  <2>1. Bad \in SUBSET Nat
    OBVIOUS
  <2>2. PICK n \in Bad : \A m \in Bad : n <= m
    BY <2>1, LeastNumber
  <2>3. n \in 0 .. Len(bytes) /\ ~ \E S : Totals(bytes, n, S)
    BY <2>2
  <2>4. CASE n = 0
    <3>1. Totals(bytes, 0, [k \in 0 .. 0 |-> 0])
      BY DEF Totals
    <3> QED
      BY <2>3, <2>4, <3>1
  <2>5. CASE n # 0
    <3>1. n - 1 \in 0 .. Len(bytes) /\ n - 1 \in Nat /\ ~ (n <= n - 1) /\ n - 1 + 1 = n
      BY <1>1, <2>3, <2>5
    <3>2. n - 1 \notin Bad
      BY <2>2, <3>1
    <3>3. PICK S : Totals(bytes, n - 1, S)
      BY <3>1, <3>2
    <3>4. bytes[n] \in Nat
      BY <2>3, <2>5, ElementOfSeq
    <3>5. \E T : Totals(bytes, n, T)
      BY <3>1, <3>3, <3>4, TotalsExtend
    <3> QED
      BY <2>3, <3>5
  <2> QED
    BY <2>4, <2>5
<1> QED
  BY <1>1, <1>2

\* One step of Sum's recursion: what f becomes.
Halves(bytes, f) ==
    [i \in 0 .. Len(bytes) |-> [j \in 0 .. Len(bytes) |->
        IF j <= i THEN 0 ELSE IF j = i + 1 THEN bytes[j]
        ELSE f[i][(i + j) \div 2] + f[(i + j) \div 2][j]]]

\* The equation has a solution, the differences of the running totals.
LEMMA HalvesSolved ==
    ASSUME NEW bytes \in Seq(Nat), NEW S, Totals(bytes, Len(bytes), S)
    PROVE  LET f == [i \in 0 .. Len(bytes) |-> [j \in 0 .. Len(bytes) |->
                        IF j <= i THEN 0 ELSE S[j] - S[i]]]
           IN  f = Halves(bytes, f)
<1> DEFINE n == Len(bytes)
           f == [i \in 0 .. n |-> [j \in 0 .. n |-> IF j <= i THEN 0 ELSE S[j] - S[i]]]
           g(i, j) == IF j <= i THEN 0 ELSE IF j = i + 1 THEN bytes[j]
                      ELSE f[i][(i + j) \div 2] + f[(i + j) \div 2][j]
<1>1. n \in Nat
  BY LenProperties
<1>2. S \in [0 .. n -> Nat] /\ \A k \in 1 .. n : S[k] = S[k - 1] + bytes[k]
  BY DEF Totals
<1>3. ASSUME NEW i \in 0 .. n, NEW j \in 0 .. n
      PROVE  f[i][j] = IF j <= i THEN 0 ELSE S[j] - S[i]
  OBVIOUS
<1> HIDE DEF n, f
<1>4. ASSUME NEW i \in 0 .. n, NEW j \in 0 .. n PROVE f[i][j] = g(i, j)
  <2>1. S[i] \in Nat /\ S[j] \in Nat
    BY <1>2
  <2>2. CASE j <= i
    BY <2>2, <1>3
  <2>3. CASE j = i + 1
    <3>1. S[j] = S[i] + bytes[j]
      <4>1. j \in 1 .. n /\ j - 1 = i
        BY <2>3, <1>1
      <4> QED
        BY <4>1, <1>2
    <3>2. bytes[j] \in Nat
      <4>1. j \in 1 .. Len(bytes)
        BY <2>3, <1>1 DEF n
      <4> QED
        BY <4>1, ElementOfSeq
    <3>3. f[i][j] = S[j] - S[i]
      BY <1>3, <2>3, <1>1
    <3>4. g(i, j) = bytes[j]
      BY <2>3
    <3>5. S[j] - S[i] = bytes[j]
      BY <2>1, <3>1, <3>2
    <3> QED
      BY <3>3, <3>4, <3>5
  <2>4. CASE j > i + 1
    <3>1. PICK m \in 0 .. n : m = (i + j) \div 2 /\ i < m /\ m < j
      BY <2>4, <1>1
    <3>2. f[i][m] = S[m] - S[i] /\ f[m][j] = S[j] - S[m] /\ f[i][j] = S[j] - S[i]
      BY <1>3, <3>1, <2>4, <1>1
    <3>3. S[m] \in Nat
      BY <1>2
    <3>4. f[i][j] = f[i][m] + f[m][j]
      BY <2>1, <3>2, <3>3
    <3>5. g(i, j) = f[i][m] + f[m][j]
      BY <2>4, <3>1, <1>1
    <3> QED
      BY <3>4, <3>5
  <2> QED
    BY <2>2, <2>3, <2>4, <1>1
<1>5. f = [i \in 0 .. n |-> [j \in 0 .. n |-> f[i][j]]]
  BY <1>3 DEF f
<1>6. f = [i \in 0 .. n |-> [j \in 0 .. n |-> g(i, j)]]
  BY <1>4, <1>5
<1>7. f = Halves(bytes, f)
  BY <1>6 DEF Halves, n
<1> QED
  BY <1>7 DEF f, n

\* However it is added up, the sum is the last total.
LEMMA SumIsTotal ==
    ASSUME NEW bytes \in Seq(Nat), NEW S, Totals(bytes, Len(bytes), S)
    PROVE  Sum(bytes) = S[Len(bytes)] /\ Sum(bytes) \in Nat
<1> DEFINE n == Len(bytes)
           f == CHOOSE f : f = Halves(bytes, f)
           Bad == { d \in 0 .. n : \E i, j \in 0 .. n : j - i = d /\ f[i][j] # S[j] - S[i] }
<1>1. n \in Nat
  BY LenProperties
<1>2. S \in [0 .. n -> Nat] /\ S[0] = 0 /\ \A k \in 1 .. n : S[k] = S[k - 1] + bytes[k]
  BY DEF Totals
<1>3. Sum(bytes) = f[0][n]
  BY DEF Sum, Halves
<1>4. f = Halves(bytes, f)
  <2>1. \E h : h = Halves(bytes, h)
    BY HalvesSolved
  <2> QED
    BY <2>1
<1> HIDE DEF f
<1>5. ASSUME NEW i \in 0 .. n, NEW j \in 0 .. n
      PROVE  f[i][j] = IF j <= i THEN 0 ELSE IF j = i + 1 THEN bytes[j]
                       ELSE f[i][(i + j) \div 2] + f[(i + j) \div 2][j]
  BY <1>4 DEF Halves
<1>6. Bad = {}
  <2> SUFFICES ASSUME Bad # {} PROVE FALSE
    OBVIOUS
  <2>1. Bad \in SUBSET Nat
    OBVIOUS
  <2>2. PICK d \in Bad : \A e \in Bad : d <= e
    BY <2>1, LeastNumber
  <2>3. PICK i \in 0 .. n, j \in 0 .. n : j - i = d /\ f[i][j] # S[j] - S[i]
    BY <2>2
  <2>4. d \in Nat /\ S[i] \in Nat /\ S[j] \in Nat /\ i \in Nat /\ j \in Nat
    <3>1. d \in Nat
      BY <2>2
    <3>2. S[i] \in Nat /\ S[j] \in Nat
      BY <1>2
    <3> QED
      BY <3>1, <3>2
  <2>5. ASSUME NEW k \in 0 .. n, NEW l \in 0 .. n, k <= l, l - k < d
        PROVE  f[k][l] = S[l] - S[k]
    <3> SUFFICES ASSUME f[k][l] # S[l] - S[k] PROVE FALSE
      OBVIOUS
    <3>1. l - k \in 0 .. n
      BY <2>5, <1>1
    <3>2. l - k \in Bad
      BY <3>1
    <3>3. d <= l - k
      BY <2>2, <3>2
    <3> QED
      BY <2>4, <2>5, <3>1, <3>3
  <2> HIDE DEF Bad
  <2>6. CASE j <= i
    <3>1. i = j
      BY <2>3, <2>4, <2>6
    <3>2. f[i][j] = 0
      BY <1>5, <2>6
    <3> QED
      BY <2>3, <2>4, <3>1, <3>2
  <2>7. CASE j = i + 1
    <3>1. f[i][j] = bytes[j]
      BY <1>5, <2>4, <2>7
    <3>2. j \in 1 .. n /\ j - 1 = i
      BY <1>1, <2>4, <2>7
    <3>3. S[j] = S[i] + bytes[j]
      BY <1>2, <3>2
    <3>4. bytes[j] \in Nat
      BY <3>2, ElementOfSeq
    <3> QED
      BY <2>3, <2>4, <3>1, <3>3, <3>4
  <2>8. CASE j > i + 1
    <3>1. PICK m \in 0 .. n : m = (i + j) \div 2 /\ i < m /\ m < j
      BY <1>1, <2>4, <2>8
    <3>2. f[i][j] = f[i][m] + f[m][j]
      BY <1>5, <2>4, <2>8, <3>1
    <3>3. i <= m /\ m <= j /\ m - i < d /\ j - m < d
      BY <2>3, <2>4, <3>1
    <3>4. f[i][m] = S[m] - S[i] /\ f[m][j] = S[j] - S[m]
      BY <2>5, <3>3
    <3>5. S[m] \in Nat
      BY <1>2
    <3>6. f[i][j] = S[j] - S[i]
      BY <2>4, <3>2, <3>4, <3>5
    <3> QED
      BY <2>3, <3>6
  <2> QED
    BY <2>4, <2>6, <2>7, <2>8
<1>7. f[0][n] = S[n] - S[0]
  <2> SUFFICES ASSUME f[0][n] # S[n] - S[0] PROVE FALSE
    OBVIOUS
  <2>1. n \in Bad
    BY <1>1
  <2> QED
    BY <1>6, <2>1
<1>8. S[n] \in Nat
  BY <1>1, <1>2
<1> QED
  BY <1>2, <1>3, <1>7, <1>8

\* So a byte at the end adds itself.
LEMMA SumOfAppend ==
    ASSUME NEW bytes \in Seq(Nat), NEW b \in Nat
    PROVE  Sum(bytes) \in Nat /\ Sum(bytes \o << b >>) = Sum(bytes) + b
<1> DEFINE n == Len(bytes)
<1>1. n \in Nat
  BY LenProperties
<1>2. PICK S : Totals(bytes, n, S)
  BY TotalsExist
<1>3. PICK more : more = bytes \o << b >>
  OBVIOUS
<1>4. /\ more \in Seq(Nat) /\ Len(more) = n + 1
      /\ \A i \in 1 .. n : more[i] = bytes[i]
      /\ more[n + 1] = b
  <2>1. << b >> \in Seq(Nat) /\ Len(<< b >>) = 1 /\ << b >>[1] = b
    OBVIOUS
  <2> QED
    BY <1>1, <1>3, <2>1, ConcatProperties
<1> DEFINE T == [k \in 0 .. n + 1 |-> IF k <= n THEN S[k] ELSE S[n] + more[n + 1]]
<1>5. Totals(more, n, S)
  BY <1>2, <1>4 DEF Totals
<1>6. Totals(more, n + 1, T)
  BY <1>1, <1>4, <1>5, TotalsExtend
<1>7. T[n + 1] = S[n] + b
  BY <1>1, <1>4
<1>8. Sum(bytes) = S[n] /\ Sum(bytes) \in Nat
  BY <1>2, SumIsTotal
<1> HIDE DEF T
<1>9. Sum(more) = T[n + 1]
  BY <1>4, <1>6, SumIsTotal
<1> QED
  BY <1>3, <1>7, <1>8, <1>9

(***************************************************************************)
(* FlattenSeq of entries that are all as long.                             *)
(***************************************************************************)
\* F holds the entries strung together, up to the n-th one.
Strung(S, seqs, n, F) ==
    /\ F \in [1 .. n -> Seq(S)]
    /\ \A i \in 1 .. n : F[i] = IF i = 1 THEN seqs[i] ELSE F[i - 1] \o seqs[i]

LEMMA StrungExtends ==
    ASSUME NEW S, NEW seqs, NEW n \in Nat, NEW F, Strung(S, seqs, n, F), seqs[n + 1] \in Seq(S)
    PROVE  \E G : Strung(S, seqs, n + 1, G)
<1> DEFINE next == IF n = 0 THEN seqs[n + 1] ELSE F[n] \o seqs[n + 1]
           G == [i \in 1 .. n + 1 |-> IF i <= n THEN F[i] ELSE next]
<1>1. F \in [1 .. n -> Seq(S)]
      /\ \A i \in 1 .. n : F[i] = IF i = 1 THEN seqs[i] ELSE F[i - 1] \o seqs[i]
  BY DEF Strung
<1>2. next \in Seq(S)
  <2>1. CASE n = 0
    BY <2>1
  <2>2. CASE n # 0
    <3>1. F[n] \in Seq(S)
      BY <1>1, <2>2
    <3>2. F[n] \o seqs[n + 1] \in Seq(S)
      BY <3>1, ConcatProperties
    <3> QED
      BY <2>2, <3>2
  <2> QED
    BY <2>1, <2>2
<1>3. G \in [1 .. n + 1 -> Seq(S)]
  <2> HIDE DEF next
  <2> QED
    BY <1>1, <1>2
<1>4. ASSUME NEW i \in 1 .. n + 1
      PROVE  G[i] = IF i = 1 THEN seqs[i] ELSE G[i - 1] \o seqs[i]
  <2>1. CASE i <= n
    <3>1. G[i] = F[i] /\ i \in 1 .. n
      BY <2>1
    <3>2. i # 1 => G[i - 1] = F[i - 1]
      BY <2>1
    <3> QED
      BY <3>1, <3>2, <1>1
  <2>2. CASE i = n + 1 /\ n = 0
    BY <2>2
  <2>3. CASE i = n + 1 /\ n # 0
    <3>1. G[n + 1] = next /\ G[n] = F[n]
      <4>1. n \in 1 .. n + 1 /\ n + 1 \in 1 .. n + 1 /\ n <= n /\ ~ (n + 1 <= n)
        BY <2>3
      <4> HIDE DEF next
      <4> QED
        BY <4>1
    <3>2. next = F[n] \o seqs[n + 1]
      BY <2>3
    <3>3. i - 1 = n /\ i # 1
      BY <2>3
    <3> HIDE DEF G, next
    <3> QED
      BY <2>3, <3>1, <3>2, <3>3
  <2> QED
    BY <2>1, <2>2, <2>3
<1> HIDE DEF G
<1> QED
  BY <1>3, <1>4 DEF Strung

LEMMA StrungExists ==
    ASSUME NEW S, NEW seqs \in Seq(Seq(S))
    PROVE  \E F : Strung(S, seqs, Len(seqs), F)
<1> DEFINE Bad == { n \in 0 .. Len(seqs) : ~ \E F : Strung(S, seqs, n, F) }
<1>1. Len(seqs) \in Nat
  BY LenProperties
<1>2. Bad = {}
  <2> SUFFICES ASSUME Bad # {} PROVE FALSE
    OBVIOUS
  <2>1. Bad \in SUBSET Nat
    OBVIOUS
  <2>2. PICK n \in Bad : \A m \in Bad : n <= m
    BY <2>1, LeastNumber
  <2>3. n \in 0 .. Len(seqs) /\ ~ \E F : Strung(S, seqs, n, F)
    BY <2>2
  <2>4. CASE n = 0
    <3>1. Strung(S, seqs, 0, << >>)
      BY DEF Strung
    <3> QED
      BY <2>3, <2>4, <3>1
  <2>5. CASE n # 0
    <3>1. n - 1 \in 0 .. Len(seqs) /\ n - 1 \in Nat /\ ~ (n <= n - 1) /\ n - 1 + 1 = n
      BY <1>1, <2>3, <2>5
    <3>2. n - 1 \notin Bad
      BY <2>2, <3>1
    <3>3. PICK F : Strung(S, seqs, n - 1, F)
      BY <3>1, <3>2
    <3>4. seqs[n] \in Seq(S)
      BY <2>3, <2>5, ElementOfSeq
    <3>5. \E G : Strung(S, seqs, n, G)
      BY <3>1, <3>3, <3>4, StrungExtends
    <3> QED
      BY <2>3, <3>5
  <2> QED
    BY <2>4, <2>5
<1> QED
  BY <1>1, <1>2

LEMMA FlattenLength ==
    ASSUME NEW S, NEW seqs \in Seq(Seq(S)), Len(seqs) >= 1,
           NEW each \in Nat, \A i \in 1 .. Len(seqs) : Len(seqs[i]) = each
    PROVE  FlattenSeq(seqs) \in Seq(S) /\ Len(FlattenSeq(seqs)) = each * Len(seqs)
<1> DEFINE n == Len(seqs)
           step(f) == [i \in 1 .. n |-> IF i = 1 THEN seqs[i] ELSE f[i - 1] \o seqs[i]]
           f == CHOOSE f : f = step(f)
           Right(i) == f[i] \in Seq(S) /\ Len(f[i]) = each * i
           Bad == { i \in 1 .. n : ~ Right(i) }
<1>1. n \in Nat /\ n >= 1
  BY LenProperties
<1>2. FlattenSeq(seqs) = f[n]
  BY <1>1 DEF FlattenSeq
<1>3. f = step(f)
  <2>1. PICK F : Strung(S, seqs, n, F)
    BY StrungExists
  <2>2. F = step(F)
    BY <2>1 DEF Strung
  <2>3. \E g : g = step(g)
    BY <2>2
  <2> QED
    BY <2>3, Zenon
<1> HIDE DEF f
<1>4. ASSUME NEW i \in 1 .. n
      PROVE  f[i] = IF i = 1 THEN seqs[i] ELSE f[i - 1] \o seqs[i]
  BY <1>3
<1> HIDE DEF n
<1>5. ASSUME NEW i \in 1 .. n PROVE seqs[i] \in Seq(S) /\ Len(seqs[i]) = each
  BY ElementOfSeq DEF n
<1>6. Bad = {}
  <2> SUFFICES ASSUME Bad # {} PROVE FALSE
    OBVIOUS
  <2>1. Bad \in SUBSET Nat
    BY <1>1
  <2>2. PICK i \in Bad : \A j \in Bad : i <= j
    BY <2>1, LeastNumber
  <2>3. i \in 1 .. n /\ ~ Right(i)
    BY <2>2
  <2>4. CASE i = 1
    <3>1. f[i] = seqs[i]
      BY <1>4, <2>3, <2>4
    <3>2. f[i] \in Seq(S) /\ Len(f[i]) = each
      BY <1>5, <2>3, <3>1
    <3>3. each * i = each
      BY <2>4
    <3> QED
      BY <2>3, <3>2, <3>3
  <2>5. CASE i # 1
    <3>1. i - 1 \in 1 .. n /\ ~ (i <= i - 1)
      BY <1>1, <2>3, <2>5
    <3>2. i - 1 \notin Bad
      BY <2>2, <3>1
    <3>3. f[i - 1] \in Seq(S) /\ Len(f[i - 1]) = each * (i - 1)
      BY <3>1, <3>2
    <3>4. f[i] = f[i - 1] \o seqs[i]
      BY <1>4, <2>3, <2>5
    <3>5. f[i] \in Seq(S) /\ Len(f[i]) = Len(f[i - 1]) + Len(seqs[i])
      <4>1. PICK s \in Seq(S), t \in Seq(S) : s = f[i - 1] /\ t = seqs[i]
        BY <1>5, <2>3, <3>3
      <4>2. s \o t \in Seq(S) /\ Len(s \o t) = Len(s) + Len(t)
        BY ConcatProperties
      <4> QED
        BY <3>4, <4>1, <4>2
    <3>6. each * (i - 1) + each = each * i
      BY <1>1, <2>3
    <3> QED
      BY <1>5, <2>3, <3>3, <3>5, <3>6
  <2> QED
    BY <2>4, <2>5
<1>7. Right(n)
  <2>1. n \in 1 .. n
    BY <1>1
  <2>2. n \notin Bad
    <3> HIDE DEF Bad
    <3> QED
      BY <1>6
  <2> QED
    BY <2>1, <2>2
<1> QED
  BY <1>2, <1>7 DEF n

(***************************************************************************)
(* Packets.                                                                *)
(***************************************************************************)
LEMMA One ==
    ASSUME NEW S, NEW a \in S
    PROVE  << a >> \in Seq(S) /\ Len(<< a >>) = 1 /\ << a >>[1] = a
OBVIOUS

LEMMA Two ==
    ASSUME NEW S, NEW a \in S, NEW b \in S
    PROVE  << a, b >> \in Seq(S) /\ Len(<< a, b >>) = 2 /\ << a, b >>[1] = a /\ << a, b >>[2] = b
OBVIOUS

LEMMA Three ==
    ASSUME NEW S, NEW a \in S, NEW b \in S, NEW c \in S
    PROVE  /\ << a, b, c >> \in Seq(S) /\ Len(<< a, b, c >>) = 3
           /\ << a, b, c >>[1] = a /\ << a, b, c >>[2] = b /\ << a, b, c >>[3] = c
OBVIOUS

\* r is s, m long, and then t, n long.
IsJoin(S, r, s, m, t, n) ==
    /\ r \in Seq(S) /\ Len(r) = m + n
    /\ \A i \in 1 .. m : r[i] = s[i]
    /\ \A i \in 1 .. n : r[m + i] = t[i]

LEMMA Joined ==
    ASSUME NEW S, NEW s \in Seq(S), NEW t \in Seq(S), NEW m \in Nat, NEW n \in Nat,
           Len(s) = m, Len(t) = n
    PROVE  IsJoin(S, s \o t, s, m, t, n)
<1>1. PICK r : r = s \o t
  OBVIOUS
<1>2. /\ r \in Seq(S) /\ Len(r) = m + n
      /\ \A i \in 1 .. m + n : r[i] = IF i <= m THEN s[i] ELSE t[i - m]
  BY <1>1, ConcatProperties
<1>3. ASSUME NEW i \in 1 .. n PROVE r[m + i] = t[i]
  <2>1. m + i \in 1 .. m + n /\ ~ (m + i <= m) /\ m + i - m = i
    OBVIOUS
  <2> QED
    BY <1>2, <2>1
<1>4. IsJoin(S, r, s, m, t, n)
  BY <1>2, <1>3 DEF IsJoin
<1> QED
  BY <1>1, <1>4

LEMMA HeaderByte == Header \in Byte /\ Header = 255
BY DEF Header, Byte

LEMMA ChecksumByte ==
    ASSUME NEW body \in Seq(Byte)
    PROVE  /\ CalculateChecksum(body) \in Byte
           /\ Sum(body \o << CalculateChecksum(body) >>) % 256 = 255
<1>1. body \in Seq(Nat)
  <2>1. Byte \subseteq Nat
    BY DEF Byte
  <2> QED
    BY <2>1, SeqMonotonic
<1>2. PICK n \in Nat : n = Sum(body)
  BY <1>1, SumOfAppend
<1>3. CalculateChecksum(body) = 255 - (n % 256)
  BY <1>2 DEF CalculateChecksum
<1>4. PICK c \in Nat : c = 255 - (n % 256) /\ c \in Byte
  BY DEF Byte
<1>5. Sum(body \o << c >>) = n + c
  BY <1>1, <1>2, SumOfAppend
<1>6. (n + c) % 256 = 255
  BY <1>4
<1> QED
  BY <1>3, <1>4, <1>5, <1>6

Packet(body) == << Header, Header >> \o body \o << CalculateChecksum(body) >>

\* What a packet is, whose body is n long.
Shaped(packet, body, n) ==
    /\ packet \in Seq(Byte) /\ Len(packet) = n + 3
    /\ packet[1] = 255 /\ packet[2] = 255
    /\ \A i \in 1 .. n : packet[i + 2] = body[i]
    /\ packet[n + 3] = CalculateChecksum(body)
    /\ SubSeq(packet, 3, n + 3) = body \o << CalculateChecksum(body) >>

LEMMA PacketShape ==
    ASSUME NEW body \in Seq(Byte), NEW n \in Nat, Len(body) = n
    PROVE  Shaped(Packet(body), body, n)
<1>1. PICK head : head = << Header, Header >>
  OBVIOUS
<1>2. head \in Seq(Byte) /\ Len(head) = 2 /\ head[1] = 255 /\ head[2] = 255
  BY <1>1, HeaderByte, Two
<1>3. PICK tail : tail = << CalculateChecksum(body) >>
  OBVIOUS
<1>4. tail \in Seq(Byte) /\ Len(tail) = 1 /\ tail[1] = CalculateChecksum(body)
  BY <1>3, ChecksumByte, One
<1>5. PICK rest : rest = body \o tail
  OBVIOUS
<1>6. /\ rest \in Seq(Byte) /\ Len(rest) = n + 1
      /\ \A i \in 1 .. n : rest[i] = body[i]
      /\ rest[n + 1] = tail[1]
  <2>1. 1 \in Nat
    OBVIOUS
  <2>2. IsJoin(Byte, body \o tail, body, n, tail, 1)
    BY <1>4, <2>1, Joined, Zenon
  <2>3. IsJoin(Byte, rest, body, n, tail, 1)
    BY <1>5, <2>2, Zenon
  <2> QED
    BY <2>3 DEF IsJoin
<1>7. PICK packet : packet = Packet(body)
  OBVIOUS
<1>8. packet = head \o rest
  <2>1. packet = (head \o body) \o tail
    BY <1>1, <1>3, <1>7, Zenon DEF Packet
  <2>2. (head \o body) \o tail = head \o (body \o tail)
    BY <1>2, <1>4, ConcatAssociative
  <2> QED
    BY <1>5, <2>1, <2>2, Zenon
<1>9. /\ packet \in Seq(Byte) /\ Len(packet) = 2 + (n + 1)
      /\ \A i \in 1 .. 2 : packet[i] = head[i]
      /\ \A i \in 1 .. n + 1 : packet[2 + i] = rest[i]
  <2>1. PICK k \in Nat : k = n + 1
    OBVIOUS
  <2>2. 2 \in Nat /\ Len(rest) = k /\ head \in Seq(Byte) /\ Len(head) = 2 /\ rest \in Seq(Byte)
    BY <1>2, <1>6, <2>1
  <2>3. IsJoin(Byte, head \o rest, head, 2, rest, k)
    BY <2>2, Joined, Zenon
  <2>4. IsJoin(Byte, packet, head, 2, rest, k)
    BY <1>8, <2>3, Zenon
  <2> QED
    BY <2>1, <2>4 DEF IsJoin
<1>10. packet[1] = 255 /\ packet[2] = 255
  BY <1>2, <1>9
<1>11. ASSUME NEW i \in 1 .. n PROVE packet[i + 2] = body[i]
  <2>1. i \in 1 .. n + 1 /\ 2 + i = i + 2
    OBVIOUS
  <2> QED
    BY <1>6, <1>9, <2>1
<1>12. packet[n + 3] = CalculateChecksum(body)
  <2>1. n + 1 \in 1 .. n + 1 /\ 2 + (n + 1) = n + 3
    OBVIOUS
  <2> QED
    BY <1>4, <1>6, <1>9, <2>1
<1>13. SubSeq(packet, 3, n + 3) = rest
  <2>1. 3 \in Len(head) + 1 .. Len(head) + Len(rest)
        /\ n + 3 \in Len(head) + 1 .. Len(head) + Len(rest)
        /\ 3 - Len(head) = 1 /\ n + 3 - Len(head) = Len(rest)
    BY <1>2, <1>6
  <2>2. head \in Seq(Byte) /\ rest \in Seq(Byte)
    BY <1>2, <1>6
  <2>3. SubSeq(head \o rest, 3, n + 3) = SubSeq(rest, 3 - Len(head), n + 3 - Len(head))
    BY <2>1, <2>2, SubSeqOfConcat2
  <2>4. SubSeq(rest, 1, Len(rest)) = rest
    BY <2>2, SubSeqFull
  <2> QED
    BY <1>8, <2>1, <2>3, <2>4, Zenon
<1>14. Len(packet) = n + 3
  BY <1>9
<1>15. SubSeq(packet, 3, n + 3) = body \o << CalculateChecksum(body) >>
  BY <1>3, <1>5, <1>13, Zenon
<1>16. Shaped(packet, body, n)
  BY <1>9, <1>10, <1>11, <1>12, <1>14, <1>15, Zenon DEF Shaped
<1> QED
  BY <1>7, <1>16, Zenon

Commands == {"Ping", "Read", "Write", "RegWrite", "SyncWrite"}

\* The requests that the driver makes: up to 253 parameter bytes, and data_len counts them.
Proper(q) ==
    /\ q.motor \in Byte /\ q.cmd \in Commands
    /\ q.params \in Seq(Byte) /\ q.dataLen = Len(q.params) /\ q.dataLen <= 253

LEMMA RequestBytes ==
    ASSUME NEW q, Proper(q)
    PROVE  /\ ToBytes(q) \in Seq(Byte)
           /\ ToBytes(q)[4] = Len(ToBytes(q)) - 4
           /\ Sum(SubSeq(ToBytes(q), 3, Len(ToBytes(q)))) % 256 = 255
<1>1. PICK n \in Nat : n = Len(q.params) /\ n <= 253 /\ q.dataLen = n
  BY LenProperties DEF Proper
<1>2. LengthByte(q) = n + 2 /\ LengthByte(q) \in Byte
  <2>1. LengthByte(q) = (n + 2) % 256
    BY <1>1 DEF LengthByte
  <2>2. n <= 253
    BY <1>1
  <2>3. (n + 2) % 256 = n + 2 /\ n + 2 \in 0 .. 255
    BY <2>2
  <2> QED
    BY <2>1, <2>3 DEF Byte
<1>3. Command[q.cmd] \in Byte
  <2>1. q.cmd \in Commands
    BY DEF Proper
  <2> QED
    BY <2>1 DEF Commands, Command, Byte
<1>4. PICK head : head = << q.motor, LengthByte(q), Command[q.cmd] >>
  OBVIOUS
<1>5. head \in Seq(Byte) /\ Len(head) = 3 /\ head[2] = n + 2
  <2>1. q.motor \in Byte
    BY DEF Proper
  <2> QED
    BY <1>2, <1>3, <1>4, <2>1, Three
<1>6. q.params \in Seq(Byte) /\ Len(q.params) = n
  BY <1>1 DEF Proper
<1>7. PICK body : body = head \o q.params
  OBVIOUS
<1>8. PICK m \in Nat : m = 3 + n
  OBVIOUS
<1>9. body \in Seq(Byte) /\ Len(body) = m /\ body[2] = n + 2
  <2>1. 3 \in Nat
    OBVIOUS
  <2>2. IsJoin(Byte, head \o q.params, head, 3, q.params, n)
    BY <1>5, <1>6, <2>1, Joined, Zenon
  <2>3. IsJoin(Byte, body, head, 3, q.params, n)
    BY <1>7, <2>2, Zenon
  <2> QED
    BY <1>5, <1>8, <2>3 DEF IsJoin
<1>10. PICK packet : packet = ToBytes(q)
  OBVIOUS
<1>11. packet = Packet(body)
  BY <1>4, <1>7, <1>10, Zenon DEF ToBytes, Packet
<1>12. Shaped(packet, body, m)
  BY <1>9, <1>11, PacketShape, Zenon
<1>13. /\ packet \in Seq(Byte) /\ Len(packet) = m + 3
       /\ packet[4] = body[2]
  <2>1. 2 \in 1 .. m /\ 2 + 2 = 4
    BY <1>8
  <2> QED
    BY <1>12, <2>1 DEF Shaped
<1>14. packet[4] = Len(packet) - 4
  BY <1>8, <1>9, <1>13
<1>15. Sum(SubSeq(packet, 3, Len(packet))) % 256 = 255
  <2>1. Sum(body \o << CalculateChecksum(body) >>) % 256 = 255
    BY <1>9, ChecksumByte
  <2>2. SubSeq(packet, 3, Len(packet)) = body \o << CalculateChecksum(body) >>
    BY <1>12, Zenon DEF Shaped
  <2> QED
    BY <2>1, <2>2, Zenon
<1> QED
  BY <1>10, <1>13, <1>14, <1>15, Zenon

(***************************************************************************)
(* The requests that are made, and their answers.                          *)
(***************************************************************************)
LEMMA MotorsAreBytes == Motors \subseteq 1 .. 255 /\ Motors \subseteq Byte
BY ReadsAssumption DEF Motors, Byte

LEMMA RamBytes ==
    ASSUME NEW m \in Motors
    PROVE  /\ Rams[m] \in Seq(Byte) /\ Len(Rams[m]) = 71
           /\ \A i \in 1 .. 71 : Rams[m][i] \in Byte
<1>1. Rams[m] \in [1 .. 71 -> Byte]
  <2>1. Rams \in [1 .. MaxId -> [1 .. RamEnd -> Byte]] /\ m \in 1 .. MaxId
    <3>1. 0 .. 255 = Byte
      BY DEF Byte
    <3>2. Rams \in [1 .. MaxId -> [1 .. RamEnd -> 0 .. 255]]
      BY RamsAssumption
    <3>3. m \in 1 .. MaxId
      BY DEF Motors
    <3> QED
      BY <3>1, <3>2, <3>3
  <2>2. RamEnd = 71
    BY DEF RamEnd
  <2> QED
    BY <2>1, <2>2
<1>2. PICK ram \in [1 .. 71 -> Byte] : ram = Rams[m]
  BY <1>1
<1>3. ram \in Seq(Byte) /\ DOMAIN ram = 1 .. 71
  <2>1. 71 \in Nat
    OBVIOUS
  <2> QED
    BY <2>1, SeqDef
<1>4. Len(ram) = 71
  BY <1>3, LenProperties
<1>5. \A i \in 1 .. 71 : ram[i] \in Byte
  BY <1>2
<1> QED
  BY <1>2, <1>3, <1>4, <1>5

LEMMA ZerosBytes ==
    ASSUME NEW n \in Nat
    PROVE  Zeros(n) \in Seq(Byte) /\ Len(Zeros(n)) = n
BY DEF Zeros, Byte

\* Requests whose packets are well formed and whose answers are two bytes at most.
Asked(q) ==
    /\ Proper(q) /\ q.motor \in Motors
    /\ Data(q) \in Seq(Byte) /\ Len(Data(q)) <= 2

LEMMA MakeProper ==
    ASSUME NEW motor \in Byte, NEW cmd \in Commands, NEW params \in Seq(Byte), NEW n \in Nat,
           Len(params) = n, n <= 253
    PROVE  Proper(Request(cmd, motor, params, n))
<1>1. PICK q : q = Request(cmd, motor, params, n)
  OBVIOUS
<1>2. q.motor = motor /\ q.cmd = cmd /\ q.params = params /\ q.dataLen = n
  BY <1>1 DEF Request
<1>3. Proper(q)
  BY <1>2 DEF Proper
<1> QED
  BY <1>1, <1>3, Zenon

LEMMA AskedBare ==
    ASSUME NEW m \in Motors
    PROVE  Asked(Bare("Ping", m))
<1>1. PICK q : q = Bare("Ping", m)
  OBVIOUS
<1>2. q.motor = m /\ q.cmd = "Ping"
  BY <1>1 DEF Bare, Request
<1>3. Proper(q)
  <2>1. m \in Byte /\ "Ping" \in Commands
    BY MotorsAreBytes DEF Commands
  <2>2. << >> \in Seq(Byte) /\ Len(<< >>) = 0 /\ 0 \in Nat /\ 0 <= 253
    OBVIOUS
  <2>3. Proper(Request("Ping", m, << >>, 0))
    BY <2>1, <2>2, MakeProper
  <2> QED
    BY <1>1, <2>3, Zenon DEF Bare
<1>4. Data(q) = << >>
  BY <1>2 DEF Data
<1>5. Data(q) \in Seq(Byte) /\ Len(Data(q)) <= 2
  <2>1. << >> \in Seq(Byte) /\ Len(<< >>) <= 2
    OBVIOUS
  <2> QED
    BY <1>4, <2>1, Zenon
<1>6. Asked(q)
  BY <1>2, <1>3, <1>5, Zenon DEF Asked
<1> QED
  BY <1>1, <1>6, Zenon

LEMMA AskedRead ==
    ASSUME NEW m \in Motors, NEW address \in 0 .. 69, NEW length \in 1 .. 2
    PROVE  Asked(Read(m, address, length))
<1>0. PICK q : q = Read(m, address, length)
  OBVIOUS
<1>1. q.motor = m /\ q.cmd = "Read" /\ q.params[1] = address /\ q.params[2] = length
  BY <1>0 DEF Read, Request
<1>2. Proper(q)
  <2>1. address \in Byte /\ length \in Byte
    BY DEF Byte
  <2>2. << address, length >> \in Seq(Byte) /\ Len(<< address, length >>) = 2
    BY <2>1, Two
  <2>3. m \in Byte /\ "Read" \in Commands /\ 2 \in Nat /\ 2 <= 253
    BY MotorsAreBytes DEF Commands
  <2>4. Proper(Request("Read", m, << address, length >>, 2))
    BY <2>2, <2>3, MakeProper
  <2> QED
    BY <1>0, <2>4, Zenon DEF Read
<1>3. Data(q) = SubSeq(Rams[m], address + 1, address + length)
  BY <1>1 DEF Data
<1>4. /\ SubSeq(Rams[m], address + 1, address + length) \in Seq(Byte)
      /\ Len(SubSeq(Rams[m], address + 1, address + length)) <= 2
  <2>1. \A i \in address + 1 .. address + length : i \in 1 .. 71
    OBVIOUS
  <2>2. \A i \in address + 1 .. address + length : Rams[m][i] \in Byte
    BY <2>1, RamBytes
  <2> QED
    BY <2>2, SubSeqProperties
<1>5. Data(q) \in Seq(Byte) /\ Len(Data(q)) <= 2
  BY <1>3, <1>4, Zenon
<1>6. Asked(q)
  BY <1>1, <1>2, <1>5, Zenon DEF Asked
<1> QED
  BY <1>0, <1>6, Zenon

LEMMA AskedWrite ==
    ASSUME NEW cmd \in {"Write", "RegWrite"}, NEW m \in Motors, NEW n \in Lengths
    PROVE  Asked(Write(cmd, m, 40, Zeros(n)))
<1>0. PICK q : q = Write(cmd, m, 40, Zeros(n))
  OBVIOUS
<1>1. n \in Nat /\ n <= 252
  BY ReadsAssumption
<1>2. Zeros(n) \in Seq(Byte) /\ Len(Zeros(n)) = n
  BY <1>1, ZerosBytes
<1>3. q = Request(cmd, m, << 40 >> \o Zeros(n), n + 1)
  BY <1>0, <1>2, Zenon DEF Write
<1>4. << 40 >> \o Zeros(n) \in Seq(Byte) /\ Len(<< 40 >> \o Zeros(n)) = n + 1
  <2>1. << 40 >> \in Seq(Byte) /\ Len(<< 40 >>) = 1
    BY DEF Byte
  <2> QED
    BY <1>1, <1>2, <2>1, ConcatProperties
<1>5. Proper(q)
  <2>1. m \in Byte /\ cmd \in Commands /\ n + 1 \in Nat /\ n + 1 <= 253
    BY <1>1, MotorsAreBytes DEF Commands
  <2>2. Proper(Request(cmd, m, << 40 >> \o Zeros(n), n + 1))
    BY <1>4, <2>1, MakeProper
  <2> QED
    BY <1>3, <2>2, Zenon
<1>6. q.motor = m /\ q.cmd # "Read"
  BY <1>3 DEF Request
<1>7. Data(q) = << >>
  BY <1>6 DEF Data
<1>8. Data(q) \in Seq(Byte) /\ Len(Data(q)) <= 2
  <2>1. << >> \in Seq(Byte) /\ Len(<< >>) <= 2
    OBVIOUS
  <2> QED
    BY <1>7, <2>1, Zenon
<1>9. Asked(q)
  BY <1>5, <1>6, <1>8, Zenon DEF Asked
<1> QED
  BY <1>0, <1>9, Zenon

LEMMA ProperSyncWrite ==
    ASSUME NEW n \in Lengths, (n + 1) * MaxId <= 251
    PROVE  Proper(SyncWrite(40, [m \in Motors |-> [id |-> m, bytes |-> Zeros(n)]]))
<1> DEFINE data == [m \in Motors |-> [id |-> m, bytes |-> Zeros(n)]]
           entries == [i \in DOMAIN data |-> << data[i].id >> \o data[i].bytes]
           flat == FlattenSeq(entries)
           q == SyncWrite(40, data)
<1>1. n \in Nat /\ n <= 252 /\ MaxId \in Nat /\ MaxId >= 1
  BY ReadsAssumption
<1>2. Zeros(n) \in Seq(Byte) /\ Len(Zeros(n)) = n
  BY <1>1, ZerosBytes
<1>3. ASSUME NEW i \in Motors
      PROVE  entries[i] \in Seq(Byte) /\ Len(entries[i]) = n + 1
  <2>1. entries[i] = << i >> \o Zeros(n)
    OBVIOUS
  <2>2. i \in Byte
    BY MotorsAreBytes
  <2>3. << i >> \in Seq(Byte) /\ Len(<< i >>) = 1
    BY <2>2, One
  <2>4. << i >> \o Zeros(n) \in Seq(Byte) /\ Len(<< i >> \o Zeros(n)) = n + 1
    BY <1>1, <1>2, <2>3, ConcatProperties
  <2> QED
    BY <2>1, <2>4, Zenon
<1>4. entries \in Seq(Seq(Byte)) /\ Len(entries) = MaxId
  <2>1. entries \in [1 .. MaxId -> Seq(Byte)]
    BY <1>3 DEF Motors
  <2> HIDE DEF entries
  <2> QED
    BY <1>1, <2>1, SeqDef
<1>5. flat \in Seq(Byte) /\ Len(flat) = (n + 1) * MaxId
  <2>1. \A i \in 1 .. Len(entries) : Len(entries[i]) = n + 1
    BY <1>3, <1>4 DEF Motors
  <2>2. n + 1 \in Nat /\ Len(entries) >= 1
    BY <1>1, <1>4
  <2> HIDE DEF entries
  <2> QED
    BY <1>4, <2>1, <2>2, FlattenLength
<1>6. data # << >> /\ Len(data[1].bytes) = n /\ Len(data) = MaxId
  <2>1. DOMAIN data = 1 .. MaxId /\ 1 \in 1 .. MaxId
    BY <1>1 DEF Motors
  <2>2. data # << >>
    BY <2>1
  <2>3. data[1].bytes = Zeros(n)
    BY <2>1 DEF Motors
  <2>4. Len(data) = MaxId
    BY <1>1 DEF Motors
  <2> QED
    BY <1>2, <2>2, <2>3, <2>4
<1> HIDE DEF data, flat
<1>7. q = Request("SyncWrite", BroadcastId, << 40, n % 256 >> \o flat, 2 + (n + 1) * MaxId)
  BY <1>6, Zenon DEF SyncWrite, flat
<1>8. /\ << 40, n % 256 >> \o flat \in Seq(Byte)
      /\ Len(<< 40, n % 256 >> \o flat) = 2 + (n + 1) * MaxId
  <2>1. << 40, n % 256 >> \in Seq(Byte) /\ Len(<< 40, n % 256 >>) = 2
    <3>1. 40 \in Byte /\ n % 256 \in Byte
      BY <1>1 DEF Byte
    <3> QED
      BY <3>1, Two
  <2> QED
    BY <1>5, <2>1, ConcatProperties
<1>9. BroadcastId \in Byte /\ "SyncWrite" \in Commands
  BY DEF BroadcastId, Byte, Commands
<1>10. PICK k \in Nat : k = 2 + (n + 1) * MaxId /\ k <= 253
  <2>1. PICK p \in Nat : p = (n + 1) * MaxId
    BY <1>1
  <2>2. 2 + p \in Nat /\ 2 + p <= 253
    BY <2>1
  <2> QED
    BY <2>1, <2>2
<1>11. PICK params \in Seq(Byte) : params = << 40, n % 256 >> \o flat /\ Len(params) = k
  BY <1>8, <1>10
<1>12. Proper(Request("SyncWrite", BroadcastId, params, k))
  BY <1>9, <1>10, <1>11, MakeProper
<1>13. Proper(q)
  BY <1>7, <1>10, <1>11, <1>12, Zenon
<1> QED
  BY <1>13, Zenon DEF data

(***************************************************************************)
(* Replies, what becomes of them on the line, and what is read.            *)
(***************************************************************************)
LEMMA StatusBytes ==
    ASSUME NEW motor \in Byte, NEW flags \in Byte, NEW data \in Seq(Byte), Len(data) <= 2
    PROVE  StatusPacket(motor, flags, data) \in Seq(Byte)
<1>1. PICK n \in Nat : n = Len(data) /\ n <= 2
  BY LenProperties
<1>2. PICK head : head = << motor, Len(data) + 2, flags >>
  OBVIOUS
<1>3. head \in Seq(Byte) /\ Len(head) = 3
  <2>1. Len(data) + 2 \in Byte
    <3>0. n \in Nat /\ n <= 2
      BY <1>1
    <3>1. n + 2 \in 0 .. 255
      BY <3>0
    <3>2. n + 2 \in Byte
      BY <3>1 DEF Byte
    <3> QED
      BY <1>1, <3>2
  <2> QED
    BY <1>2, <2>1, Three
<1>4. PICK body : body = head \o data
  OBVIOUS
<1>5. body \in Seq(Byte) /\ Len(body) = 3 + n
  <2>1. head \o data \in Seq(Byte) /\ Len(head \o data) = Len(head) + Len(data)
    BY <1>3, ConcatProperties
  <2> QED
    BY <1>1, <1>3, <1>4, <2>1
<1>6. 3 + n \in Nat
  OBVIOUS
<1>7. Shaped(Packet(body), body, 3 + n)
  BY <1>5, <1>6, PacketShape
<1>8. Packet(body) \in Seq(Byte)
  BY <1>7, Zenon DEF Shaped
<1>9. StatusPacket(motor, flags, data) = Packet(body)
  BY <1>2, <1>4, Zenon DEF StatusPacket, Packet
<1> QED
  BY <1>8, <1>9, Zenon

LEMMA PartOfBytes ==
    ASSUME NEW s \in Seq(Byte), NEW m \in Nat, NEW n \in Nat, m >= 1, n <= Len(s)
    PROVE  SubSeq(s, m, n) \in Seq(Byte)
<1>1. \A i \in m .. n : s[i] \in Byte
  <2>1. \A i \in m .. n : i \in 1 .. Len(s)
    BY LenProperties
  <2> QED
    BY <2>1, ElementOfSeq
<1> QED
  BY <1>1, SubSeqProperties

LEMMA DamagedBytes ==
    ASSUME NEW reply \in Seq(Byte), NEW b \in Damaged(reply)
    PROVE  b \in Seq(Byte)
<1>1. Noise \subseteq Byte
  BY ReadsAssumption DEF Byte
<1>2. DOMAIN reply = 1 .. Len(reply) /\ Len(reply) \in Nat
  BY LenProperties
<1>3. CASE b = << >>
  BY <1>3
<1>4. ASSUME NEW i \in DOMAIN reply, b = RemoveAt(reply, i) PROVE b \in Seq(Byte)
  <2>1. i \in Nat /\ i >= 1 /\ i <= Len(reply)
    BY <1>2
  <2>2. /\ 1 \in Nat /\ 1 >= 1 /\ i - 1 \in Nat /\ i - 1 <= Len(reply)
        /\ i + 1 \in Nat /\ i + 1 >= 1 /\ Len(reply) <= Len(reply)
    BY <1>2, <2>1
  <2>3. SubSeq(reply, 1, i - 1) \in Seq(Byte)
    BY <2>2, PartOfBytes
  <2>4. SubSeq(reply, i + 1, Len(reply)) \in Seq(Byte)
    BY <1>2, <2>2, PartOfBytes
  <2>5. SubSeq(reply, 1, i - 1) \o SubSeq(reply, i + 1, Len(reply)) \in Seq(Byte)
    BY <2>3, <2>4, ConcatProperties
  <2> QED
    BY <1>4, <2>5, Zenon DEF RemoveAt
<1>5. ASSUME NEW i \in DOMAIN reply, NEW c \in Noise, b = ReplaceAt(reply, i, c)
      PROVE  b \in Seq(Byte)
  <2>1. [reply EXCEPT ![i] = c] \in Seq(Byte)
    BY <1>1, <1>2, ExceptSeq
  <2> QED
    BY <1>5, <2>1, Zenon DEF ReplaceAt
<1>6. ASSUME NEW c \in Noise, b = << c >> \o reply PROVE b \in Seq(Byte)
  <2>1. << c >> \in Seq(Byte)
    BY <1>1, One
  <2>2. << c >> \o reply \in Seq(Byte)
    BY <2>1, ConcatProperties
  <2> QED
    BY <1>6, <2>2, Zenon
<1>7. \/ b = << >>
      \/ \E i \in DOMAIN reply : b = RemoveAt(reply, i)
      \/ \E i \in DOMAIN reply : \E c \in Noise : b = ReplaceAt(reply, i, c)
      \/ \E c \in Noise : b = << c >> \o reply
  BY Zenon DEF Damaged
<1> QED
  BY <1>3, <1>4, <1>5, <1>6, <1>7, Zenon

LEMMA RepliesBytes ==
    ASSUME NEW q, Asked(q), NEW reply \in Replies(q)
    PROVE  reply.bytes \in Seq(Byte) /\ reply.cost \in {0, 1}
<1>1. q.motor \in Byte /\ Data(q) \in Seq(Byte) /\ Len(Data(q)) <= 2
  BY DEF Asked, Proper
<1>2. 0 \in Byte /\ 32 \in Byte
  BY DEF Byte
<1>3. PICK good \in Seq(Byte) : good = StatusPacket(q.motor, 0, Data(q))
  BY <1>1, <1>2, StatusBytes
<1>4. PICK bad \in Seq(Byte) : bad = StatusPacket(q.motor, 32, Data(q))
  BY <1>1, <1>2, StatusBytes
<1>5. CASE reply = [bytes |-> << >>, cost |-> 0]
  BY <1>5
<1>6. CASE reply = [bytes |-> good, cost |-> 0]
  BY <1>6
<1>7. CASE reply = [bytes |-> bad, cost |-> 1]
  BY <1>7
<1>8. ASSUME NEW b \in Damaged(good), reply = [bytes |-> b, cost |-> 1]
      PROVE  reply.bytes \in Seq(Byte) /\ reply.cost \in {0, 1}
  BY <1>8, DamagedBytes
<1> QED
  BY <1>3, <1>4, <1>5, <1>6, <1>7, <1>8, Zenon DEF Replies

\* What has arrived: bytes, the first n of them in time, and the faults it took.
IsArrival(a) ==
    /\ a.bytes \in Seq(Byte) /\ a.n \in 0 .. Len(a.bytes)
    /\ a.faults \in 0 .. MaxFaults
    /\ a.n < Len(a.bytes) => a.faults < MaxFaults

LEMMA ArrivalsAre ==
    ASSUME NEW q, Asked(q), line \in Seq(Byte), faults \in 0 .. MaxFaults,
           NEW a \in Arrivals(q)
    PROVE  IsArrival(a)
<1>1. MaxFaults \in Nat
  BY ReadsAssumption
<1>2. ASSUME NEW reply \in Replies(q), faults + reply.cost < MaxFaults,
             NEW n \in 0 .. Len(line) + Len(reply.bytes),
             a = [bytes |-> line \o reply.bytes, n |-> n, faults |-> faults + reply.cost]
      PROVE  IsArrival(a)
  <2>1. reply.bytes \in Seq(Byte) /\ reply.cost \in {0, 1}
    BY RepliesBytes
  <2>2. PICK s \in Seq(Byte) : s = line \o reply.bytes /\ Len(s) = Len(line) + Len(reply.bytes)
    <3>1. /\ line \o reply.bytes \in Seq(Byte)
          /\ Len(line \o reply.bytes) = Len(line) + Len(reply.bytes)
      BY <2>1, ConcatProperties
    <3> QED
      BY <3>1, Zenon
  <2>3. a.bytes = s /\ a.n = n /\ a.faults = faults + reply.cost
    BY <1>2, <2>2
  <2> QED
    BY <1>1, <1>2, <2>1, <2>2, <2>3 DEF IsArrival
<1>3. ASSUME NEW reply \in Replies(q), faults + reply.cost = MaxFaults,
             a = [bytes |-> line \o reply.bytes, n |-> Len(line) + Len(reply.bytes),
                  faults |-> faults + reply.cost]
      PROVE  IsArrival(a)
  <2>1. reply.bytes \in Seq(Byte) /\ reply.cost \in {0, 1}
    BY RepliesBytes
  <2>2. PICK s \in Seq(Byte) : s = line \o reply.bytes /\ Len(s) = Len(line) + Len(reply.bytes)
    <3>1. /\ line \o reply.bytes \in Seq(Byte)
          /\ Len(line \o reply.bytes) = Len(line) + Len(reply.bytes)
      BY <2>1, ConcatProperties
    <3> QED
      BY <3>1, Zenon
  <2>3. Len(s) \in Nat
    BY <2>2, LenProperties
  <2>4. a.bytes = s /\ a.n = Len(s) /\ a.faults = faults + reply.cost
    BY <1>3, <2>2
  <2> QED
    BY <1>1, <1>3, <2>1, <2>2, <2>3, <2>4 DEF IsArrival
<1>4. \/ \E reply \in { r \in Replies(q) : faults + r.cost < MaxFaults } :
            a \in { [bytes |-> line \o reply.bytes, n |-> n, faults |-> faults + reply.cost] :
                      n \in 0 .. Len(line) + Len(reply.bytes) }
      \/ \E reply \in { r \in Replies(q) : faults + r.cost = MaxFaults } :
            a = [bytes |-> line \o reply.bytes, n |-> Len(line) + Len(reply.bytes),
                 faults |-> faults + reply.cost]
  BY Zenon DEF Arrivals
<1> QED
  BY <1>2, <1>3, <1>4, Zenon

LEMMA AfterHeaderIs ==
    ASSUME NEW bytes \in Seq(Byte)
    PROVE  \/ AfterHeader(bytes) = 0
           \/ /\ AfterHeader(bytes) \in Nat /\ AfterHeader(bytes) >= 3
              /\ bytes[AfterHeader(bytes) - 2] = 255 /\ bytes[AfterHeader(bytes) - 1] = 255
<1> DEFINE Starts == { i \in 1 .. Len(bytes) - 1 : bytes[i] = Header /\ bytes[i + 1] = Header }
<1>1. CASE Starts = {}
  BY <1>1 DEF AfterHeader
<1>2. CASE Starts # {}
  <2>1. Starts \in SUBSET Nat
    BY LenProperties
  <2>2. \E i \in Starts : \A j \in Starts : i <= j
    <3> HIDE DEF Starts
    <3> QED
      BY <1>2, <2>1, LeastNumber
  <2>3. PICK k : k = CHOOSE i \in Starts : \A j \in Starts : i <= j
    OBVIOUS
  <2>4. k \in Starts
    <3> HIDE DEF Starts
    <3> QED
      BY <2>2, <2>3, Zenon
  <2>5. k \in Nat /\ k >= 1 /\ bytes[k] = Header /\ bytes[k + 1] = Header
    BY <2>4, LenProperties
  <2>6. AfterHeader(bytes) = 2 + k
    BY <1>2, <2>3, Zenon DEF AfterHeader
  <2>7. 2 + k - 2 = k /\ 2 + k - 1 = k + 1
    BY <2>5
  <2> QED
    BY <2>5, <2>6, <2>7, HeaderByte
<1> QED
  BY <1>1, <1>2

LEMMA ReadUses ==
    ASSUME NEW q, NEW bytes \in Seq(Byte)
    PROVE  AsyncRead(q, bytes).used \in 0 .. Len(bytes)
<1>1. PICK n \in Nat : n = Len(bytes)
  BY LenProperties
<1>2. PICK start : start = AfterHeader(bytes)
  OBVIOUS
<1>3. start = 0 \/ (start \in Nat /\ start >= 3)
  BY <1>2, AfterHeaderIs
<1>4. PICK end : end = IF bytes[start + 1] >= 2 THEN start + 1 + bytes[start + 1] ELSE start + 2
  OBVIOUS
<1>5. PICK r : r = AsyncRead(q, bytes)
  OBVIOUS
<1>6. r = IF start = 0 \/ n < start + 2 THEN Failed("Timeout", n)
          ELSE IF bytes[start + 1] < 2 THEN Failed("Io", start + 2)
          ELSE IF n < end THEN Failed("Timeout", n)
          ELSE ReadPacket(q, SubSeq(bytes, start, end), end)
  BY <1>1, <1>2, <1>4, <1>5, Zenon DEF AsyncRead
<1>7. \A e, used : Failed(e, used).used = used
  BY DEF Failed
<1>8. \A packet, used : ReadPacket(q, packet, used).used = used
  BY DEF ReadPacket, Failed, Ok
<1>9. ASSUME start = 0 \/ n < start + 2 PROVE r.used \in 0 .. n
  <2>1. r = Failed("Timeout", n)
    BY <1>6, <1>9, Zenon
  <2>2. r.used = n
    BY <1>7, <2>1, Zenon
  <2> QED
    BY <2>2
<1>10. ASSUME ~ (start = 0 \/ n < start + 2) PROVE r.used \in 0 .. n
  <2>1. start \in Nat /\ start + 2 <= n
    BY <1>3, <1>10
  <2>2. start + 1 \in 1 .. n
    BY <2>1
  <2>3. bytes[start + 1] \in Nat
    <3>1. start + 1 \in 1 .. Len(bytes)
      BY <1>1, <2>2
    <3>2. bytes[start + 1] \in Byte
      BY <3>1, ElementOfSeq
    <3>3. Byte \subseteq Nat
      BY DEF Byte
    <3> QED
      BY <3>2, <3>3
  <2>4. end \in Nat
    BY <1>4, <2>1, <2>3
  <2>5. CASE bytes[start + 1] < 2
    <3>1. r = Failed("Io", start + 2)
      BY <1>6, <1>10, <2>5
    <3>2. r.used = start + 2
      BY <1>7, <3>1, Zenon
    <3> QED
      BY <2>1, <3>2
  <2>6. CASE ~ (bytes[start + 1] < 2)
    <3>1. CASE n < end
      <4>1. r = Failed("Timeout", n)
        BY <1>6, <1>10, <2>6, <3>1
      <4>2. r.used = n
        BY <1>7, <4>1, Zenon
      <4> QED
        BY <4>2
    <3>2. CASE ~ (n < end)
      <4>1. r = ReadPacket(q, SubSeq(bytes, start, end), end)
        BY <1>6, <1>10, <2>6, <3>2
      <4>2. r.used = end
        BY <1>8, <4>1, Zenon
      <4> QED
        BY <2>4, <3>2, <4>2
    <3> QED
      BY <3>1, <3>2
  <2> QED
    BY <2>5, <2>6
<1>11. r.used \in 0 .. n
  BY <1>9, <1>10
<1> QED
  BY <1>1, <1>5, <1>11

\* The line and the wire after a request, and the faults.
LEMMA ExchangeKeeps ==
    ASSUME NEW q, Asked(q), line \in Seq(Byte), faults \in 0 .. MaxFaults,
           NEW a \in Arrivals(q), Exchange(q, a, Outcome(q, a))
    PROVE  line' \in Seq(Byte) /\ faults' \in 0 .. MaxFaults /\ wire' = ToBytes(q)
<1>1. IsArrival(a)
  BY ArrivalsAre
<1>2. PICK s \in Seq(Byte) : s = a.bytes
  BY <1>1 DEF IsArrival
<1>3. Len(s) \in Nat /\ a.n \in 0 .. Len(s)
  BY <1>1, <1>2, LenProperties DEF IsArrival
<1>4. PICK n \in Nat : n = a.n /\ n <= Len(s)
  BY <1>3
<1>5. SubSeq(s, 1, n) \in Seq(Byte) /\ Len(SubSeq(s, 1, n)) = n
  <2>1. 1 \in Nat /\ 1 >= 1
    OBVIOUS
  <2>2. SubSeq(s, 1, n) \in Seq(Byte)
    BY <1>4, <2>1, PartOfBytes
  <2>3. \A i \in 1 .. n : s[i] \in Byte
    BY <1>2, <1>4, ElementOfSeq
  <2>4. Len(SubSeq(s, 1, n)) = IF 1 <= n THEN n - 1 + 1 ELSE 0
    BY <1>4, <2>3, SubSeqProperties
  <2> QED
    BY <1>4, <2>2, <2>4
<1>6. PICK used : used = Outcome(q, a).used
  OBVIOUS
<1>7. used \in 0 .. n
  <2>1. Outcome(q, a) = AsyncRead(q, SubSeq(s, 1, n))
    BY <1>2, <1>4, Zenon DEF Outcome
  <2>2. AsyncRead(q, SubSeq(s, 1, n)).used \in 0 .. n
    BY <1>5, ReadUses
  <2> QED
    BY <1>6, <2>1, <2>2
<1>8. line' = SubSeq(s, used + 1, Len(s))
  BY <1>2, <1>6, Zenon DEF Exchange
<1>9. line' \in Seq(Byte)
  <2>1. used + 1 \in Nat /\ used + 1 >= 1 /\ Len(s) <= Len(s)
    BY <1>3, <1>4, <1>7
  <2>2. SubSeq(s, used + 1, Len(s)) \in Seq(Byte)
    BY <1>3, <2>1, PartOfBytes
  <2> QED
    BY <1>8, <2>2, Zenon
<1>10. faults' \in 0 .. MaxFaults
  <2>1. faults' = IF a.n < Len(a.bytes) THEN a.faults + 1 ELSE a.faults
    BY DEF Exchange
  <2>2. /\ MaxFaults \in Nat /\ a.faults \in 0 .. MaxFaults
        /\ a.n < Len(a.bytes) => a.faults < MaxFaults
    BY <1>1, ReadsAssumption DEF IsArrival
  <2> QED
    BY <2>1, <2>2
<1>11. wire' = ToBytes(q)
  BY DEF Exchange
<1> QED
  BY <1>9, <1>10, <1>11

(***************************************************************************)
(* Units.                                                                  *)
(***************************************************************************)
Words == 0 .. 65535

OnCircle(w) == Signed(w) % 4096

LEMMA PositionIsSigned ==
    ASSUME NEW w \in Words
    PROVE  NormalPosition(w) = OnCircle(w)
<1> USE DEF Words, OnCircle
<1>1. CASE w >= 32768
  <2>1. (4096 - (w % 4096)) % 4096 = (- (w - 32768)) % 4096
    BY <1>1
  <2> QED
    BY <1>1, <2>1 DEF NormalPosition, Signed
<1>2. CASE w < 32768
  BY <1>2 DEF NormalPosition, Signed
<1> QED
  BY <1>1, <1>2

LEMMA WordIs ==
    ASSUME NEW m \in Motors, NEW address \in 0 .. 69
    PROVE  WordAt(Rams[m], address) = Word(Rams[m], address) /\ Word(Rams[m], address) \in Words
<1>1. Len(Rams[m]) = 71
  BY RamBytes
<1>2. WordAt(Rams[m], address) = Word(Rams[m], address)
  BY <1>1 DEF WordAt, Word
<1>3. address + 1 \in 1 .. 71 /\ address + 2 \in 1 .. 71
  OBVIOUS
<1>4. Rams[m][address + 1] \in Byte /\ Rams[m][address + 2] \in Byte
  BY <1>3, RamBytes
<1>5. PICK x : x = Rams[m][address + 1]
  OBVIOUS
<1>6. PICK y : y = Rams[m][address + 2]
  OBVIOUS
<1>7. x \in 0 .. 255 /\ y \in 0 .. 255
  BY <1>4, <1>5, <1>6 DEF Byte
<1>8. x + 256 * y \in Words
  BY <1>7 DEF Words
<1>9. Word(Rams[m], address) = x + 256 * y
  BY <1>5, <1>6 DEF Word
<1>10. Word(Rams[m], address) \in Words
  <2>1. PICK w \in Words : w = x + 256 * y
    BY <1>8
  <2>2. Word(Rams[m], address) = w
    BY <1>9, <2>1
  <2> QED
    BY <2>2, Zenon
<1> QED
  BY <1>2, <1>10, Zenon

LEMMA DecodedIs ==
    ASSUME NEW m \in Motors
    PROVE  /\ GetMotorPosition(Rams[m]) = Signed(Word(Rams[m], Address["PresentPosition"])) % 4096
           /\ GetMotorGoalPosition(Rams[m]) = Signed(Word(Rams[m], Address["GoalPosition"])) % 4096
           /\ GetMotorVelocity(Rams[m]) = Word(Rams[m], Address["PresentSpeed"])
           /\ GetMotorCurrent(Rams[m]) = Word(Rams[m], Address["PresentCurrent"])
           /\ IsMotorError(Rams[m]) = (Rams[m][Address["Status"] + 1] # 0)
           /\ IsTorqueEnabled(Rams[m]) = (Rams[m][Address["TorqueEnable"] + 1] # 0)
<1>1. /\ Address.PresentPosition = 56 /\ Address["PresentPosition"] = 56
      /\ Address.GoalPosition = 42 /\ Address["GoalPosition"] = 42
      /\ Address.PresentSpeed = 58 /\ Address["PresentSpeed"] = 58
      /\ Address.PresentCurrent = 69 /\ Address["PresentCurrent"] = 69
  BY DEF Address
<1>2. 56 \in 0 .. 69 /\ 42 \in 0 .. 69 /\ 58 \in 0 .. 69 /\ 69 \in 0 .. 69
  OBVIOUS
<1>3. GetMotorPosition(Rams[m]) = OnCircle(Word(Rams[m], Address["PresentPosition"]))
  BY <1>1, <1>2, WordIs, PositionIsSigned, ZenonT(40) DEF GetMotorPosition
<1>4. GetMotorGoalPosition(Rams[m]) = OnCircle(Word(Rams[m], Address["GoalPosition"]))
  BY <1>1, <1>2, WordIs, PositionIsSigned, ZenonT(40) DEF GetMotorGoalPosition
<1>5. GetMotorVelocity(Rams[m]) = Word(Rams[m], Address["PresentSpeed"])
  BY <1>1, <1>2, WordIs, ZenonT(40) DEF GetMotorVelocity
<1>6. GetMotorCurrent(Rams[m]) = Word(Rams[m], Address["PresentCurrent"])
  BY <1>1, <1>2, WordIs, ZenonT(40) DEF GetMotorCurrent
<1>7. /\ Address.Status = 65 /\ Address["Status"] = 65
      /\ Address.TorqueEnable = 40 /\ Address["TorqueEnable"] = 40
  BY DEF Address
<1>8. Len(Rams[m]) = 71
  BY RamBytes
<1>9. IsMotorError(Rams[m]) = (Rams[m][Address["Status"] + 1] # 0)
  BY <1>7, <1>8, SMT DEF IsMotorError
<1>10. IsTorqueEnabled(Rams[m]) = (Rams[m][Address["TorqueEnable"] + 1] # 0)
  BY <1>7, <1>8, SMT DEF IsTorqueEnabled
<1> QED
  BY <1>3, <1>4, <1>5, <1>6, <1>9, <1>10 DEF OnCircle

Places == 0 .. 4095

PartOfArc(value, min, max) == Fraction((value - min) % 4096, (max - min) % 4096)

\* On the arc no end is near, no subtraction underflows, and the turn is added exactly on
\* the far side of the encoder's zero.
LEMMA NormalizedIs ==
    ASSUME NEW value \in Places, NEW min \in Places, NEW max \in Places,
           min # max, OnArc(value, min, max), NEW f \in Normalized(value, min, max)
    PROVE  f = PartOfArc(value, min, max)
<1> USE DEF Places, PartOfArc
<1>1. ~ BelowMin(value, min, max)
  BY DEF BelowMin, OnArc
<1>2. ~ AboveMax(value, min, max)
  BY DEF AboveMax, OnArc
<1>3. Along(value, min, max) = {(value - min) % 4096}
  <2>1. CASE max > min \/ value >= min
    <3>1. value >= min
      BY <2>1 DEF OnArc
    <3>2. value - min = (value - min) % 4096
      <4>1. PICK d \in 0 .. 4095 : d = value - min
        BY <3>1
      <4>2. d % 4096 = d
        OBVIOUS
      <4> QED
        BY <4>1, <4>2
    <3>3. Minus(value, min) = {value - min}
      BY <3>1 DEF Minus
    <3> QED
      BY <2>1, <3>2, <3>3 DEF Along
  <2>2. CASE ~ (max > min \/ value >= min)
    <3>1. 4096 + value - min = (value - min) % 4096
      <4>1. PICK d \in -4095 .. -1 : d = value - min
        BY <2>2
      <4>2. d % 4096 = 4096 + d
        OBVIOUS
      <4> QED
        BY <4>1, <4>2
    <3> QED
      BY <2>2, <3>1 DEF Along
  <2> QED
    BY <2>1, <2>2
<1>4. MotorRange(min, max) = (max - min) % 4096
  BY DEF MotorRange
<1>5. PICK n \in Nat, den \in Nat : n = (value - min) % 4096 /\ den = (max - min) % 4096
  OBVIOUS
<1>6. f = Quotient(n, den)
  <2>1. Normalized(value, min, max) =
          { Quotient(k, MotorRange(min, max)) : k \in Along(value, min, max) }
    BY <1>1, <1>2 DEF Normalized
  <2>2. PICK k \in Along(value, min, max) : f = Quotient(k, MotorRange(min, max))
    BY <2>1
  <2> QED
    BY <1>3, <1>4, <1>5, <2>2
<1>7. Quotient(n, den) = Fraction(n, den)
  <2>1. n # -1
    OBVIOUS
  <2> QED
    BY <2>1 DEF Quotient
<1> QED
  BY <1>5, <1>6, <1>7

(***************************************************************************)
(* What is read of a reply that is alone on the line and undamaged.        *)
(***************************************************************************)
LEMMA FirstHeader ==
    ASSUME NEW bytes \in Seq(Byte), Len(bytes) >= 2, bytes[1] = 255, bytes[2] = 255
    PROVE  AfterHeader(bytes) = 3
<1> DEFINE Starts == { i \in 1 .. Len(bytes) - 1 : bytes[i] = Header /\ bytes[i + 1] = Header }
<1>1. Starts \in SUBSET Nat /\ 1 \in Starts /\ \A j \in Starts : 1 <= j
  BY LenProperties, HeaderByte
<1>2. PICK k : k = CHOOSE i \in Starts : \A j \in Starts : i <= j
  OBVIOUS
<1>3. AfterHeader(bytes) = 2 + k
  BY <1>1, <1>2 DEF AfterHeader
<1> HIDE DEF Starts
<1>4. k \in Starts /\ k <= 1
  BY <1>1, <1>2, Zenon
<1>5. k = 1
  BY <1>1, <1>4
<1> QED
  BY <1>3, <1>5

LEMMA ReplyIsRead ==
    ASSUME NEW q, Asked(q), Len(Data(q)) = ExpectedLength(q),
           NEW packet, packet = StatusPacket(q.motor, 0, Data(q))
    PROVE  AsyncRead(q, packet) = Ok(Data(q), Len(packet))
<1>1. q.motor \in Byte /\ Data(q) \in Seq(Byte) /\ Len(Data(q)) <= 2
  BY DEF Asked, Proper
<1>2. PICK data \in Seq(Byte) : data = Data(q)
  BY <1>1
<1>3. PICK d \in 0 .. 2 : d = Len(data)
  <2>1. Len(data) \in Nat
    BY LenProperties
  <2> QED
    BY <1>1, <1>2, <2>1
<1>4. PICK head : head = << q.motor, d + 2, 0 >>
  OBVIOUS
<1>5. /\ head \in Seq(Byte) /\ Len(head) = 3
      /\ head[1] = q.motor /\ head[2] = d + 2 /\ head[3] = 0
  <2>1. d + 2 \in Byte /\ 0 \in Byte
    <3>1. d + 2 \in 0 .. 255
      OBVIOUS
    <3> QED
      BY <3>1 DEF Byte
  <2> QED
    BY <1>1, <1>4, <2>1, Three
<1>6. PICK body : body = head \o data
  OBVIOUS
<1>7. PICK n \in Nat : n = 3 + d
  OBVIOUS
<1>8. IsJoin(Byte, body, head, 3, data, d)
  <2>1. 3 \in Nat /\ d \in Nat
    OBVIOUS
  <2>2. IsJoin(Byte, head \o data, head, 3, data, d)
    BY <1>3, <1>5, <2>1, Joined, Zenon
  <2> QED
    BY <1>6, <2>2, Zenon
<1>9. /\ body \in Seq(Byte) /\ Len(body) = n
      /\ body[1] = q.motor /\ body[2] = d + 2 /\ body[3] = 0
      /\ \A i \in 1 .. d : body[3 + i] = data[i]
  BY <1>5, <1>7, <1>8 DEF IsJoin
<1>10. packet = Packet(body)
  <2>1. StatusPacket(q.motor, 0, Data(q)) = Packet(body)
    BY <1>2, <1>3, <1>4, <1>6, Zenon DEF StatusPacket, Packet
  <2> QED
    BY <2>1
<1>11. Shaped(packet, body, n)
  BY <1>9, <1>10, PacketShape, Zenon
<1>12. PICK ck \in Byte : ck = CalculateChecksum(body)
  BY <1>9, ChecksumByte
<1>13. PICK tail : tail = body \o << ck >>
  OBVIOUS
<1>14. /\ packet \in Seq(Byte) /\ Len(packet) = n + 3
       /\ packet[1] = 255 /\ packet[2] = 255 /\ packet[4] = d + 2
  <2>1. 2 \in 1 .. n /\ 2 + 2 = 4
    BY <1>7
  <2> QED
    BY <1>9, <1>11, <2>1 DEF Shaped
<1>15. SubSeq(packet, 3, n + 3) = tail
  BY <1>11, <1>12, <1>13, Zenon DEF Shaped
<1>16. IsJoin(Byte, tail, body, n, << ck >>, 1)
  <2>1. << ck >> \in Seq(Byte) /\ Len(<< ck >>) = 1 /\ 1 \in Nat
    BY One
  <2>2. IsJoin(Byte, body \o << ck >>, body, n, << ck >>, 1)
    BY <1>9, <2>1, Joined, Zenon
  <2> QED
    BY <1>13, <2>2, Zenon
<1>17. /\ tail \in Seq(Byte) /\ Len(tail) = n + 1 /\ tail[n + 1] = ck
       /\ \A i \in 1 .. n : tail[i] = body[i]
  <2>1. /\ tail \in Seq(Byte) /\ Len(tail) = n + 1
        /\ \A i \in 1 .. n : tail[i] = body[i]
        /\ \A i \in 1 .. 1 : tail[n + i] = << ck >>[i]
    BY <1>16 DEF IsJoin
  <2>2. << ck >>[1] = ck
    OBVIOUS
  <2> QED
    BY <2>1, <2>2
<1>18. AsyncRead(q, packet) = ReadPacket(q, tail, n + 3)
  <2>1. PICK start : start = AfterHeader(packet)
    OBVIOUS
  <2>2. start = 3
    BY <1>7, <1>14, <2>1, FirstHeader
  <2>3. PICK end : end = IF packet[start + 1] >= 2 THEN start + 1 + packet[start + 1] ELSE start + 2
    OBVIOUS
  <2>4. packet[start + 1] = d + 2
    BY <1>14, <2>2
  <2>5. end = n + 3
    BY <1>7, <2>2, <2>3, <2>4
  <2>6. PICK l \in Nat : l = Len(packet) /\ l = n + 3
    BY <1>14
  <2>7. AsyncRead(q, packet) =
          IF start = 0 \/ l < start + 2 THEN Failed("Timeout", l)
          ELSE IF packet[start + 1] < 2 THEN Failed("Io", start + 2)
          ELSE IF l < end THEN Failed("Timeout", l)
          ELSE ReadPacket(q, SubSeq(packet, start, end), end)
    BY <2>1, <2>3, <2>6, Zenon DEF AsyncRead
  <2>8. /\ ~ (start = 0 \/ l < start + 2) /\ ~ (packet[start + 1] < 2) /\ ~ (l < end)
    BY <1>7, <2>2, <2>4, <2>5, <2>6
  <2>9. AsyncRead(q, packet) = ReadPacket(q, SubSeq(packet, start, end), end)
    BY <2>7, <2>8, Zenon
  <2> QED
    BY <1>15, <2>2, <2>5, <2>9
<1>19. IdRight(q, tail)
  <2>1. 1 \in 1 .. n
    BY <1>7
  <2>2. tail[1] = q.motor
    BY <1>9, <1>17, <2>1
  <2> QED
    BY <2>2 DEF IdRight
<1>20. ChecksumRight(tail)
  <2>1. Last(tail) = ck
    BY <1>17 DEF Last
  <2>2. Front(tail) = body
    <3>1. Len(tail) - 1 = n
      BY <1>17
    <3>2. SubSeq(body \o << ck >>, 1, n) = SubSeq(body, 1, n)
      <4>1. 1 \in 1 .. Len(body) /\ n \in 1 .. Len(body) /\ << ck >> \in Seq(Byte)
        BY <1>7, <1>9, One
      <4> QED
        BY <1>9, <4>1, SubSeqOfConcat1
    <3>3. SubSeq(body, 1, n) = body
      BY <1>9, SubSeqFull
    <3> QED
      BY <1>13, <3>1, <3>2, <3>3, Zenon DEF Front
  <2> QED
    BY <1>12, <2>1, <2>2, Zenon DEF ChecksumRight
<1>21. ~ FromBits(tail[3])
  <2>1. 3 \in 1 .. n
    BY <1>7
  <2>2. tail[3] = 0
    BY <1>9, <1>17, <2>1
  <2> QED
    BY <2>2 DEF FromBits
<1>22. SubSeq(tail, 4, Len(tail) - 1) = data
  <2>1. PICK s : s = SubSeq(tail, 4, n)
    OBVIOUS
  <2>2. \A i \in 4 .. n : tail[i] \in Byte
    <3>1. \A i \in 4 .. n : i \in 1 .. Len(tail)
      BY <1>7, <1>17
    <3> QED
      BY <1>17, <3>1, ElementOfSeq
  <2>3. /\ s \in Seq(Byte) /\ Len(s) = IF 4 <= n THEN n - 4 + 1 ELSE 0
        /\ \A i \in 1 .. n - 4 + 1 : s[i] = tail[4 + i - 1]
    BY <2>1, <2>2, SubSeqProperties
  <2>4. Len(s) = d
    BY <1>7, <2>3
  <2>5. ASSUME NEW i \in 1 .. d PROVE s[i] = data[i]
    <3>1. i \in 1 .. n - 4 + 1 /\ 4 + i - 1 = 3 + i /\ 3 + i \in 1 .. n
      BY <1>7
    <3>2. s[i] = tail[3 + i]
      BY <2>3, <3>1
    <3>3. tail[3 + i] = body[3 + i]
      BY <1>17, <3>1
    <3> QED
      BY <1>9, <3>2, <3>3
  <2>6. s = data
    BY <1>3, <2>3, <2>4, <2>5, SeqEqual
  <2>7. Len(tail) - 1 = n
    BY <1>17
  <2> QED
    BY <2>1, <2>6, <2>7
<1>23. ReadPacket(q, tail, n + 3) = Ok(data, n + 3)
  <2>1. Len(data) = ExpectedLength(q)
    BY <1>2
  <2> QED
    BY <1>19, <1>20, <1>21, <1>22, <2>1 DEF ReadPacket
<1> QED
  BY <1>2, <1>14, <1>18, <1>23

LEMMA NothingIsRead ==
    ASSUME NEW q
    PROVE  AsyncRead(q, << >>) = Failed("Timeout", 0)
<1>1. AfterHeader(<< >>) = 0
  <2>1. Len(<< >>) = 0
    OBVIOUS
  <2>2. { i \in 1 .. Len(<< >>) - 1 : << >>[i] = Header /\ << >>[i + 1] = Header } = {}
    BY <2>1
  <2> QED
    BY <2>2 DEF AfterHeader
<1>2. Len(<< >>) = 0
  OBVIOUS
<1> QED
  BY <1>1, <1>2 DEF AsyncRead

LEMMA ArrivalOf ==
    ASSUME NEW q, NEW a \in Arrivals(q)
    PROVE  \E reply \in Replies(q) :
              a.bytes = line \o reply.bytes /\ a.faults = faults + reply.cost
<1>1. \/ \E reply \in { r \in Replies(q) : faults + r.cost < MaxFaults } :
            a \in { [bytes |-> line \o reply.bytes, n |-> n, faults |-> faults + reply.cost] :
                      n \in 0 .. Len(line) + Len(reply.bytes) }
      \/ \E reply \in { r \in Replies(q) : faults + r.cost = MaxFaults } :
            a = [bytes |-> line \o reply.bytes, n |-> Len(line) + Len(reply.bytes),
                 faults |-> faults + reply.cost]
  BY Zenon DEF Arrivals
<1>2. PICK reply \in Replies(q) :
        \E n : a = [bytes |-> line \o reply.bytes, n |-> n, faults |-> faults + reply.cost]
  BY <1>1, Zenon
<1>3. PICK n : a = [bytes |-> line \o reply.bytes, n |-> n, faults |-> faults + reply.cost]
  BY <1>2
<1> QED
  BY <1>3

LEMMA ReplyOf ==
    ASSUME NEW q, NEW reply \in Replies(q), reply.cost = 0
    PROVE  reply.bytes = IF q.motor \in present THEN StatusPacket(q.motor, 0, Data(q)) ELSE << >>
<1>1. CASE q.motor \notin present
  BY <1>1 DEF Replies
<1>2. CASE q.motor \in present
  <2>1. \/ reply = [bytes |-> StatusPacket(q.motor, 0, Data(q)), cost |-> 0]
        \/ reply = [bytes |-> StatusPacket(q.motor, 32, Data(q)), cost |-> 1]
        \/ \E b \in Damaged(StatusPacket(q.motor, 0, Data(q))) : reply = [bytes |-> b, cost |-> 1]
    BY <1>2, Zenon DEF Replies
  <2> QED
    BY <1>2, <2>1
<1> QED
  BY <1>1, <1>2

\* A request on an empty line that meets no fault is answered by its motor or by nobody,
\* and leaves the line empty.
LEMMA CleanExchange ==
    ASSUME NEW q, Asked(q), Len(Data(q)) = ExpectedLength(q),
           line = << >>, faults \in 0 .. MaxFaults,
           NEW a \in Arrivals(q), Exchange(q, a, Outcome(q, a)), faults' = faults
    PROVE  /\ line' = << >>
           /\ q.motor \in present => Outcome(q, a).ok /\ Outcome(q, a).data = Data(q)
           /\ q.motor \notin present => ~ Outcome(q, a).ok /\ Outcome(q, a).error = "Timeout"
<1>0. line \in Seq(Byte)
  BY EmptySeq
<1>1. IsArrival(a)
  BY <1>0, ArrivalsAre
<1>2. PICK reply \in Replies(q) : a.bytes = line \o reply.bytes /\ a.faults = faults + reply.cost
  BY ArrivalOf
<1>3. reply.bytes \in Seq(Byte) /\ reply.cost \in {0, 1}
  BY RepliesBytes
<1>4. a.bytes = reply.bytes
  <2>1. << >> \o reply.bytes = reply.bytes
    BY <1>3, ConcatEmptySeq
  <2> QED
    BY <1>2, <2>1
<1>5. PICK s \in Seq(Byte) : s = reply.bytes
  BY <1>3
<1>6. PICK l \in Nat : l = Len(s)
  BY LenProperties
<1>7. reply.cost = 0 /\ a.n = l
  <2>1. faults = IF a.n < l THEN a.faults + 1 ELSE a.faults
    BY <1>4, <1>5, <1>6 DEF Exchange
  <2>2. a.n \in 0 .. l
    BY <1>1, <1>4, <1>5, <1>6 DEF IsArrival
  <2>3. faults \in Int /\ a.faults = faults + reply.cost /\ reply.cost \in {0, 1}
    BY <1>2, <1>3
  <2> QED
    BY <2>1, <2>2, <2>3
<1>8. Outcome(q, a) = AsyncRead(q, s)
  <2>1. SubSeq(s, 1, Len(s)) = s
    BY SubSeqFull
  <2>2. Outcome(q, a) = AsyncRead(q, SubSeq(s, 1, Len(s)))
    BY <1>4, <1>5, <1>6, <1>7, Zenon DEF Outcome
  <2> QED
    BY <2>1, <2>2, Zenon
<1>9. PICK used : used = Outcome(q, a).used
  OBVIOUS
<1>10. line' = SubSeq(s, used + 1, l)
  BY <1>4, <1>5, <1>6, <1>9, Zenon DEF Exchange
<1>11. ASSUME used = l PROVE line' = << >>
  <2>1. l + 1 \in Int /\ l \in Int /\ l < l + 1
    OBVIOUS
  <2>2. SubSeq(s, l + 1, l) = << >>
    BY <2>1, SubSeqEmpty
  <2> QED
    BY <1>10, <1>11, <2>2, Zenon
<1>12. CASE q.motor \in present
  <2>1. s = StatusPacket(q.motor, 0, Data(q))
    BY <1>5, <1>7, <1>12, ReplyOf
  <2>2. Outcome(q, a) = Ok(Data(q), l)
    BY <1>6, <1>8, <2>1, ReplyIsRead
  <2>3. used = l /\ Outcome(q, a).ok /\ Outcome(q, a).data = Data(q)
    BY <1>9, <2>2 DEF Ok
  <2> QED
    BY <1>11, <1>12, <2>3
<1>13. CASE q.motor \notin present
  <2>1. s = << >>
    BY <1>5, <1>7, <1>13, ReplyOf
  <2>2. l = 0
    BY <1>6, <2>1
  <2>3. Outcome(q, a) = Failed("Timeout", 0)
    BY <1>8, <2>1, NothingIsRead
  <2>4. used = l /\ ~ Outcome(q, a).ok /\ Outcome(q, a).error = "Timeout"
    BY <1>9, <2>2, <2>3 DEF Failed
  <2> QED
    BY <1>11, <1>13, <2>4
<1> QED
  BY <1>12, <1>13

(***************************************************************************)
(* The invariant, and what each call does to it.                           *)
(***************************************************************************)
\* s lists the motors of P up to k, each once and in order.
ListsTo(s, P, k) ==
    /\ \A i \in DOMAIN s : s[i] \in P /\ s[i] <= k
    /\ \A m \in P : m <= k => \E i \in DOMAIN s : s[i] = m
    /\ \A i, j \in DOMAIN s : i < j => s[i] < s[j]

Reached == IF scanning = 0 THEN MaxId ELSE scanning - 1

\* A scan that began with an empty line and has met no fault has found what there is.
CleanScan ==
    answer.kind = "scan" /\ answer.clean =>
        /\ answer.since \in Int /\ answer.since <= faults
        /\ answer.since = faults => line = << >> /\ ListsTo(found, present, Reached)

IInv == TypeOK /\ RequestWellFormed /\ StateDecoded /\ OnArcNormalized /\ CleanScan

LEMMA WireStep ==
    ASSUME NEW q, Proper(q), wire' = ToBytes(q)
    PROVE  wire' \in Seq(Byte) /\ RequestWellFormed'
<1>1. PICK w : w = ToBytes(q)
  OBVIOUS
<1>2. /\ w \in Seq(Byte) /\ w[4] = Len(w) - 4
      /\ Sum(SubSeq(w, 3, Len(w))) % 256 = 255
  BY <1>1, RequestBytes
<1>3. wire' = w
  BY <1>1
<1> QED
  BY <1>2, <1>3 DEF RequestWellFormed

LEMMA FaultsGrow ==
    ASSUME NEW q, Asked(q), line \in Seq(Byte), faults \in 0 .. MaxFaults,
           NEW a \in Arrivals(q), Exchange(q, a, Outcome(q, a))
    PROVE  faults' >= faults
<1>1. PICK reply \in Replies(q) : a.bytes = line \o reply.bytes /\ a.faults = faults + reply.cost
  BY ArrivalOf
<1>2. reply.cost \in {0, 1}
  BY RepliesBytes
<1>3. PICK late \in BOOLEAN : faults' = IF late THEN a.faults + 1 ELSE a.faults
  BY DEF Exchange
<1> QED
  BY <1>1, <1>2, <1>3

\* Calls that are not a scan and answer no state and no fraction.
Elsewise(kind) == kind \notin {"state", "fraction", "scan"}

LEMMA AnswerElsewise ==
    ASSUME Elsewise(answer'.kind)
    PROVE  StateDecoded' /\ OnArcNormalized' /\ CleanScan'
BY DEF Elsewise, StateDecoded, OnArcNormalized, CleanScan

LEMMA RequestStep ==
    ASSUME IInv, NEW q, Asked(q), NEW a \in Arrivals(q), Exchange(q, a, Outcome(q, a)),
           Free, Elsewise(answer'.kind)
    PROVE  IInv'
<1>1. /\ present \subseteq Motors /\ line \in Seq(Byte)
      /\ scanning \in {0} \cup Motors /\ found \in Seq(Motors) /\ faults \in 0 .. MaxFaults
  BY DEF IInv, TypeOK
<1>2. line' \in Seq(Byte) /\ faults' \in 0 .. MaxFaults /\ wire' = ToBytes(q)
  BY <1>1, ExchangeKeeps
<1>3. wire' \in Seq(Byte) /\ RequestWellFormed'
  <2>1. Proper(q)
    BY DEF Asked
  <2> QED
    BY <1>2, <2>1, WireStep
<1>4. present' = present /\ scanning' = scanning /\ found' = found
  BY DEF Free, scanVars
<1>5. TypeOK'
  BY <1>1, <1>2, <1>3, <1>4 DEF TypeOK
<1> QED
  BY <1>3, <1>5, AnswerElsewise DEF IInv

LEMMA ReadStep ==
    ASSUME IInv, NEW kind, Elsewise(kind), NEW m \in Motors,
           NEW register, Address[register] \in 0 .. 69, NEW length \in 1 .. 2,
           ReadRegister(kind, m, register, length)
    PROVE  IInv'
<1>1. PICK q : q = Read(m, Address[register], length)
  OBVIOUS
<1>2. Asked(q)
  BY <1>1, AskedRead
<1>3. PICK a \in Arrivals(q) :
        /\ Exchange(q, a, Outcome(q, a))
        /\ answer' = IF Outcome(q, a).ok THEN Answer(kind, m, Value(kind, Outcome(q, a).data))
                     ELSE [kind |-> "error", error |-> Outcome(q, a).error]
  BY <1>1, Zenon DEF ReadRegister
<1>4. Free
  BY DEF ReadRegister
<1>5. Elsewise(answer'.kind)
  <2>1. CASE Outcome(q, a).ok
    BY <1>3, <2>1 DEF Answer
  <2>2. CASE ~ Outcome(q, a).ok
    BY <1>3, <2>2 DEF Elsewise
  <2> QED
    BY <2>1, <2>2
<1> QED
  BY <1>2, <1>3, <1>4, <1>5, RequestStep

LEMMA WriteStep ==
    ASSUME IInv, NEW cmd \in {"Write", "RegWrite"}, NEW m \in Motors, NEW n \in Lengths,
           WriteLong(cmd, m, n)
    PROVE  IInv'
<1>1. PICK q : q = Write(cmd, m, 40, Zeros(n))
  OBVIOUS
<1>2. Asked(q)
  BY <1>1, AskedWrite
<1>3. PICK a \in Arrivals(q) :
        /\ Exchange(q, a, Outcome(q, a))
        /\ answer' = [kind |-> "status", error |-> Outcome(q, a).error]
  BY <1>1, Zenon DEF WriteLong
<1>4. Free
  BY DEF WriteLong
<1>5. Elsewise(answer'.kind)
  BY <1>3 DEF Elsewise
<1> QED
  BY <1>2, <1>3, <1>4, <1>5, RequestStep

LEMMA SyncWriteStep ==
    ASSUME IInv, NEW n \in Lengths, (n + 1) * MaxId <= 251, SyncWriteAll(n)
    PROVE  IInv'
<1>1. PICK q : q = SyncWrite(40, [m \in Motors |-> [id |-> m, bytes |-> Zeros(n)]])
  OBVIOUS
<1>2. Proper(q)
  BY <1>1, ProperSyncWrite, Zenon
<1>3. wire' = ToBytes(q)
  BY <1>1, Zenon DEF SyncWriteAll
<1>4. wire' \in Seq(Byte) /\ RequestWellFormed'
  BY <1>2, <1>3, WireStep
<1>5. /\ present' = present /\ scanning' = scanning /\ found' = found
      /\ line' = line /\ faults' = faults
  BY DEF SyncWriteAll, Free, scanVars
<1>6. TypeOK'
  BY <1>4, <1>5 DEF IInv, TypeOK
<1>7. Elsewise(answer'.kind)
  BY DEF SyncWriteAll, Elsewise
<1> QED
  BY <1>4, <1>6, <1>7, AnswerElsewise DEF IInv

LEMMA DrainStep ==
    ASSUME IInv, Drain
    PROVE  IInv'
<1>1. /\ present' = present /\ scanning' = scanning /\ found' = found
      /\ wire' = wire /\ answer' = answer /\ faults' = faults
  BY DEF Drain, Free, scanVars
<1>2. line \in Seq(Byte)
  BY DEF IInv, TypeOK
<1>3. PICK n \in 0 .. Len(line) : line' = SubSeq(line, n + 1, Len(line))
  BY DEF Drain
<1>4. line' \in Seq(Byte)
  <2>1. PICK l \in Nat : l = Len(line)
    BY <1>2, LenProperties
  <2>2. n + 1 \in Nat /\ n + 1 >= 1 /\ l <= Len(line)
    BY <2>1
  <2>3. SubSeq(line, n + 1, l) \in Seq(Byte)
    BY <1>2, <2>2, PartOfBytes
  <2> QED
    BY <1>3, <2>1, <2>3, Zenon
<1>5. ASSUME line = << >> PROVE line' = << >>
  <2>1. Len(line) = 0
    BY <1>5
  <2>2. n = 0
    BY <2>1
  <2>3. SubSeq(line, 1, 0) = << >>
    BY SubSeqEmpty
  <2> QED
    BY <1>3, <2>1, <2>2, <2>3
<1>6. TypeOK'
  BY <1>1, <1>4 DEF IInv, TypeOK
<1>7. RequestWellFormed' /\ StateDecoded' /\ OnArcNormalized'
  <2>1. RequestWellFormed /\ StateDecoded /\ OnArcNormalized
    BY DEF IInv
  <2>2. RequestWellFormed'
    BY <1>1, <2>1, Zenon DEF RequestWellFormed
  <2>3. StateDecoded'
    BY <1>1, <2>1 DEF StateDecoded
  <2>4. OnArcNormalized'
    BY <1>1, <2>1 DEF OnArcNormalized
  <2> QED
    BY <2>2, <2>3, <2>4
<1>8. CleanScan'
  <2>1. CleanScan
    BY DEF IInv
  <2>2. Reached' = Reached
    BY <1>1 DEF Reached
  <2> QED
    BY <1>1, <1>5, <2>1, <2>2, Zenon DEF CleanScan
<1> QED
  BY <1>6, <1>7, <1>8 DEF IInv

LEMMA BeginScanStep ==
    ASSUME IInv, BeginScan
    PROVE  IInv'
<1>1. /\ scanning' = 1 /\ found' = << >> /\ present' = present /\ line' = line
      /\ wire' = wire /\ faults' = faults
      /\ answer' = [kind |-> "scan", clean |-> line = << >>, since |-> faults]
  BY DEF BeginScan
<1>2. 1 \in Motors /\ << >> \in Seq(Motors)
  BY ReadsAssumption, EmptySeq DEF Motors
<1>3. TypeOK'
  BY <1>1, <1>2 DEF IInv, TypeOK
<1>4. RequestWellFormed'
  <2>1. RequestWellFormed
    BY DEF IInv
  <2> QED
    BY <1>1, <2>1, Zenon DEF RequestWellFormed
<1>5. answer'.kind = "scan" /\ answer'.since = faults /\ answer'.clean = (line = << >>)
  BY <1>1
<1>6. StateDecoded' /\ OnArcNormalized'
  BY <1>5 DEF StateDecoded, OnArcNormalized
<1>7. CleanScan'
  <2>1. Reached' = 0
    BY <1>1 DEF Reached
  <2>2. ListsTo(<< >>, present, 0)
    <3>1. DOMAIN << >> = {}
      OBVIOUS
    <3>2. \A m \in present : m \in Nat /\ m >= 1
      BY ReadsAssumption DEF IInv, TypeOK, Motors
    <3> QED
      BY <3>1, <3>2 DEF ListsTo
  <2>3. ListsTo(found', present', Reached')
    BY <1>1, <2>1, <2>2, Zenon
  <2>4. faults \in Int /\ faults <= faults
    BY DEF IInv, TypeOK
  <2> QED
    BY <1>1, <1>5, <2>3, <2>4 DEF CleanScan
<1> QED
  BY <1>3, <1>4, <1>6, <1>7 DEF IInv

LEMMA ListsOneMore ==
    ASSUME NEW P \in SUBSET Nat, NEW s \in Seq(Nat), NEW k \in Nat, ListsTo(s, P, k - 1)
    PROVE  /\ k \in P => ListsTo(Append(s, k), P, k)
           /\ k \notin P => ListsTo(s, P, k)
<1>1. PICK n \in Nat : n = Len(s)
  BY LenProperties
<1>2. DOMAIN s = 1 .. n /\ \A i \in 1 .. n : s[i] \in Nat
  BY <1>1, LenProperties
<1>3. /\ \A i \in 1 .. n : s[i] \in P /\ s[i] <= k - 1
      /\ \A m \in P : m <= k - 1 => \E i \in 1 .. n : s[i] = m
      /\ \A i, j \in 1 .. n : i < j => s[i] < s[j]
  BY <1>2 DEF ListsTo
<1>4. ASSUME k \notin P PROVE ListsTo(s, P, k)
  <2>1. \A i \in 1 .. n : s[i] \in P /\ s[i] <= k
    BY <1>2, <1>3
  <2>2. \A m \in P : m <= k => m <= k - 1
    BY <1>4
  <2>3. \A m \in P : m <= k => \E i \in 1 .. n : s[i] = m
    BY <1>3, <2>2
  <2> QED
    BY <1>2, <1>3, <2>1, <2>3 DEF ListsTo
<1>5. ASSUME k \in P PROVE ListsTo(Append(s, k), P, k)
  <2>1. PICK t : t = Append(s, k)
    OBVIOUS
  <2>2. /\ t \in Seq(Nat) /\ Len(t) = n + 1
        /\ \A i \in 1 .. n : t[i] = s[i]
        /\ t[n + 1] = k
    BY <1>1, <2>1, AppendProperties
  <2>3. DOMAIN t = 1 .. n + 1
    BY <2>2, LenProperties
  <2>4. ASSUME NEW i \in 1 .. n + 1 PROVE t[i] \in P /\ t[i] <= k
    <3>1. CASE i \in 1 .. n
      <4>1. t[i] = s[i] /\ s[i] \in Nat /\ s[i] \in P /\ s[i] <= k - 1
        BY <1>2, <1>3, <2>2, <3>1
      <4> QED
        BY <4>1
    <3>2. CASE i = n + 1
      BY <1>5, <2>2, <3>2
    <3> QED
      BY <3>1, <3>2
  <2>5. ASSUME NEW m \in P, m <= k PROVE \E i \in 1 .. n + 1 : t[i] = m
    <3>1. CASE m = k
      <4>1. n + 1 \in 1 .. n + 1 /\ t[n + 1] = m
        BY <2>2, <3>1
      <4> QED
        BY <4>1
    <3>2. CASE m # k
      <4>1. m <= k - 1
        BY <2>5, <3>2
      <4>2. PICK i \in 1 .. n : s[i] = m
        BY <1>3, <4>1
      <4>3. i \in 1 .. n + 1 /\ t[i] = m
        BY <2>2, <4>2
      <4> QED
        BY <4>3
    <3> QED
      BY <3>1, <3>2
  <2>6. ASSUME NEW i \in 1 .. n + 1, NEW j \in 1 .. n + 1, i < j PROVE t[i] < t[j]
    <3>0. i \in 1 .. n
      BY <2>6
    <3>1. CASE j \in 1 .. n
      BY <1>3, <2>2, <2>6, <3>0, <3>1
    <3>2. CASE j = n + 1
      <4>1. t[i] = s[i] /\ s[i] \in Nat /\ s[i] <= k - 1 /\ t[j] = k
        BY <1>2, <1>3, <2>2, <3>0, <3>2
      <4> QED
        BY <4>1
    <3> QED
      BY <3>1, <3>2
  <2>7. ListsTo(t, P, k)
    BY <2>3, <2>4, <2>5, <2>6 DEF ListsTo
  <2> QED
    BY <2>1, <2>7, Zenon
<1> QED
  BY <1>4, <1>5

LEMMA ScanNextStep ==
    ASSUME IInv, ScanNext
    PROVE  IInv'
<1>0. /\ present \subseteq Motors /\ line \in Seq(Byte)
      /\ scanning \in {0} \cup Motors /\ found \in Seq(Motors) /\ faults \in 0 .. MaxFaults
  BY DEF IInv, TypeOK
<1>1. scanning \in Motors /\ present' = present /\ answer' = answer
  BY <1>0 DEF ScanNext
<1>2. PICK q : q = Bare("Ping", scanning)
  OBVIOUS
<1>3. Asked(q)
  BY <1>1, <1>2, AskedBare
<1>4. PICK a \in Arrivals(q) : Exchange(q, a, Outcome(q, a)) /\ Scanned(Outcome(q, a))
  BY <1>2, Zenon DEF ScanNext
<1>5. PICK ok \in BOOLEAN : /\ ok <=> Outcome(q, a).ok = TRUE
                            /\ found' = IF ok THEN Append(found, scanning) ELSE found
                            /\ scanning' = After(scanning)
  <2>1. /\ found' = IF Outcome(q, a).ok THEN Append(found, scanning) ELSE found
        /\ scanning' = After(scanning)
    BY <1>4 DEF Scanned
  <2>2. CASE Outcome(q, a).ok
    BY <2>1, <2>2
  <2>3. CASE ~ Outcome(q, a).ok
    BY <2>1, <2>3
  <2> QED
    BY <2>2, <2>3
<1>6. line' \in Seq(Byte) /\ faults' \in 0 .. MaxFaults /\ wire' = ToBytes(q)
  BY <1>0, <1>3, <1>4, ExchangeKeeps
<1>7. wire' \in Seq(Byte) /\ RequestWellFormed'
  <2>1. Proper(q)
    BY <1>3 DEF Asked
  <2> QED
    BY <1>6, <2>1, WireStep
<1>8. scanning \in Nat /\ scanning >= 1 /\ scanning <= MaxId /\ MaxId \in Nat
  BY <1>1, ReadsAssumption DEF Motors
<1>9. scanning' = IF scanning = MaxId THEN 0 ELSE scanning + 1
  BY <1>5 DEF After
<1>10. TypeOK'
  <2>1. found' \in Seq(Motors)
    BY <1>0, <1>1, <1>5, AppendProperties
  <2>2. scanning' \in {0} \cup Motors
    BY <1>8, <1>9 DEF Motors
  <2> QED
    BY <1>0, <1>1, <1>6, <1>7, <2>1, <2>2 DEF TypeOK
<1>11. StateDecoded' /\ OnArcNormalized'
  <2>1. StateDecoded'
    BY <1>1 DEF IInv, StateDecoded
  <2>2. OnArcNormalized'
    BY <1>1 DEF IInv, OnArcNormalized
  <2> QED
    BY <2>1, <2>2
<1>12. Reached = scanning - 1 /\ Reached' = scanning
  BY <1>8, <1>9 DEF Reached
<1>13. CleanScan'
  <2> SUFFICES ASSUME answer.kind = "scan", answer.clean
               PROVE  /\ answer.since \in Int /\ answer.since <= faults'
                      /\ answer.since = faults' =>
                            line' = << >> /\ ListsTo(found', present, Reached')
    BY <1>1 DEF CleanScan
  <2>1. /\ answer.since \in Int /\ answer.since <= faults
        /\ answer.since = faults => line = << >> /\ ListsTo(found, present, Reached)
    BY DEF IInv, CleanScan
  <2>2. faults' >= faults
    BY <1>0, <1>3, <1>4, FaultsGrow
  <2>3. ASSUME answer.since = faults' PROVE line' = << >> /\ ListsTo(found', present, Reached')
    <3>1. faults' = faults
      BY <1>0, <1>6, <2>1, <2>2, <2>3
    <3>2. line = << >> /\ ListsTo(found, present, scanning - 1)
      BY <1>12, <2>1, <2>3, <3>1
    <3>3. q.motor = scanning /\ Len(Data(q)) = ExpectedLength(q)
      <4>1. q.motor = scanning /\ q.cmd = "Ping"
        BY <1>2 DEF Bare, Request
      <4>2. Data(q) = << >> /\ ExpectedLength(q) = 0
        BY <4>1 DEF Data, ExpectedLength
      <4> QED
        BY <4>1, <4>2
    <3>4. /\ line' = << >>
          /\ q.motor \in present => Outcome(q, a).ok /\ Outcome(q, a).data = Data(q)
          /\ q.motor \notin present => ~ Outcome(q, a).ok /\ Outcome(q, a).error = "Timeout"
      BY <1>0, <1>3, <1>4, <3>1, <3>2, <3>3, CleanExchange
    <3>5. present \in SUBSET Nat /\ found \in Seq(Nat)
      <4>1. Motors \subseteq Nat
        BY ReadsAssumption DEF Motors
      <4> QED
        BY <1>0, <4>1, SeqMonotonic
    <3>6. /\ scanning \in present => ListsTo(Append(found, scanning), present, scanning)
          /\ scanning \notin present => ListsTo(found, present, scanning)
      BY <1>8, <3>2, <3>5, ListsOneMore
    <3>7. ListsTo(found', present, scanning)
      BY <1>5, <3>3, <3>4, <3>6
    <3> QED
      BY <1>12, <3>4, <3>7
  <2> QED
    BY <1>0, <1>6, <2>1, <2>2, <2>3
<1> QED
  BY <1>7, <1>10, <1>11, <1>13 DEF IInv

LEMMA OfflineStep ==
    ASSUME IInv, Offline
    PROVE  TypeOK' /\ RequestWellFormed'
<1>1. UNCHANGED << present, scanning, found, line, wire, faults >>
  BY DEF Offline, Free, scanVars
<1>2. TypeOK'
  BY <1>1 DEF IInv, TypeOK
<1>3. RequestWellFormed'
  BY <1>1, Zenon DEF IInv, RequestWellFormed
<1> QED
  BY <1>2, <1>3

LEMMA DecodeStep ==
    ASSUME IInv, NEW m \in Motors, DecodeState(m)
    PROVE  IInv'
<1>1. TypeOK' /\ RequestWellFormed'
  BY OfflineStep DEF DecodeState
<1>2. /\ answer'.kind = "state" /\ answer'.motor = m
      /\ answer'.position = GetMotorPosition(Rams[m])
      /\ answer'.goal = GetMotorGoalPosition(Rams[m])
      /\ answer'.velocity = GetMotorVelocity(Rams[m])
      /\ answer'.current = GetMotorCurrent(Rams[m])
      /\ answer'.error = IsMotorError(Rams[m])
      /\ answer'.torque = IsTorqueEnabled(Rams[m])
  BY DEF DecodeState
<1>3. StateDecoded'
  BY <1>2, DecodedIs DEF StateDecoded
<1>4. OnArcNormalized' /\ CleanScan'
  BY <1>2 DEF OnArcNormalized, CleanScan
<1> QED
  BY <1>1, <1>3, <1>4 DEF IInv

LEMMA NormalizeStep ==
    ASSUME IInv, Normalize
    PROVE  IInv'
<1>1. TypeOK' /\ RequestWellFormed'
  BY OfflineStep DEF Normalize
<1>0. PICK value \in Positions, min \in Positions, max \in Positions :
        \E f \in Normalized(value, min, max) :
          answer' = [kind |-> "fraction", value |-> value, min |-> min, max |-> max, result |-> f]
  BY Zenon DEF Normalize
<1>2. PICK f \in Normalized(value, min, max) :
        answer' = [kind |-> "fraction", value |-> value, min |-> min, max |-> max, result |-> f]
  BY <1>0
<1>3. /\ answer'.kind = "fraction" /\ answer'.value = value /\ answer'.min = min
      /\ answer'.max = max /\ answer'.result = f
  BY <1>2
<1>4. value \in Places /\ min \in Places /\ max \in Places
  BY ReadsAssumption DEF Places
<1>5. OnArcNormalized'
  <2> SUFFICES ASSUME min # max, OnArc(value, min, max)
               PROVE  f = PartOfArc(value, min, max)
    BY <1>3 DEF OnArcNormalized, PartOfArc
  <2> QED
    BY <1>4, NormalizedIs, Zenon
<1>6. StateDecoded' /\ CleanScan'
  BY <1>3 DEF StateDecoded, CleanScan
<1> QED
  BY <1>1, <1>5, <1>6 DEF IInv

(***************************************************************************)
(* Theorems.                                                               *)
(***************************************************************************)
LEMMA Initially == Init => IInv
<1> SUFFICES ASSUME Init PROVE IInv
  OBVIOUS
<1>1. /\ present \subseteq Motors /\ line = << >> /\ wire = << >> /\ scanning = 0
      /\ found = << >> /\ answer.kind = "none" /\ faults = 0
  BY DEF Init, NoAnswer
<1>2. TypeOK
  BY <1>1, ReadsAssumption, EmptySeq DEF TypeOK
<1>3. RequestWellFormed
  BY <1>1 DEF RequestWellFormed
<1>4. StateDecoded /\ OnArcNormalized /\ CleanScan
  BY <1>1 DEF StateDecoded, OnArcNormalized, CleanScan
<1> QED
  BY <1>2, <1>3, <1>4 DEF IInv

LEMMA Addresses ==
    \A register \in DOMAIN Address : Address[register] \in 0 .. 69
BY DEF Address

LEMMA Registers ==
    {"PresentPosition", "PresentSpeed", "PresentCurrent", "PresentLoad", "PresentVoltage",
     "PresentTemperature", "Moving"} \subseteq DOMAIN Address
BY DEF Address

LEMMA NextStep == IInv /\ [Next]_vars => IInv'
<1> SUFFICES ASSUME IInv, [Next]_vars PROVE IInv'
  OBVIOUS
<1>1. /\ Elsewise("position") /\ Elsewise("velocity") /\ Elsewise("current")
      /\ Elsewise("load") /\ Elsewise("voltage") /\ Elsewise("temperature")
      /\ Elsewise("moving")
  BY DEF Elsewise
<1>2. /\ Address["PresentPosition"] \in 0 .. 69 /\ Address["PresentSpeed"] \in 0 .. 69
      /\ Address["PresentCurrent"] \in 0 .. 69 /\ Address["PresentLoad"] \in 0 .. 69
      /\ Address["PresentVoltage"] \in 0 .. 69 /\ Address["PresentTemperature"] \in 0 .. 69
      /\ Address["Moving"] \in 0 .. 69
  BY Addresses, Registers
<1>3. 1 \in 1 .. 2 /\ 2 \in 1 .. 2
  OBVIOUS
<1>4. ASSUME NEW m \in Motors, ReadPosition(m) PROVE IInv'
  BY <1>1, <1>2, <1>3, <1>4, ReadStep DEF ReadPosition
<1>5. ASSUME NEW m \in Motors, ReadVelocity(m) PROVE IInv'
  BY <1>1, <1>2, <1>3, <1>5, ReadStep DEF ReadVelocity
<1>6. ASSUME NEW m \in Motors, ReadCurrent(m) PROVE IInv'
  BY <1>1, <1>2, <1>3, <1>6, ReadStep DEF ReadCurrent
<1>7. ASSUME NEW m \in Motors, ReadLoad(m) PROVE IInv'
  BY <1>1, <1>2, <1>3, <1>7, ReadStep DEF ReadLoad
<1>8. ASSUME NEW m \in Motors, ReadVoltage(m) PROVE IInv'
  BY <1>1, <1>2, <1>3, <1>8, ReadStep DEF ReadVoltage
<1>9. ASSUME NEW m \in Motors, ReadTemperature(m) PROVE IInv'
  BY <1>1, <1>2, <1>3, <1>9, ReadStep DEF ReadTemperature
<1>10. ASSUME NEW m \in Motors, IsMoving(m) PROVE IInv'
  BY <1>1, <1>2, <1>3, <1>10, ReadStep DEF IsMoving
<1>11. ASSUME NEW m \in Motors, DecodeState(m) PROVE IInv'
  BY <1>11, DecodeStep
<1>12. ASSUME NEW m \in Motors, NEW cmd \in {"Write", "RegWrite"}, NEW n \in Lengths,
              WriteLong(cmd, m, n)
       PROVE  IInv'
  BY <1>12, WriteStep
<1>13. ASSUME NEW n \in Lengths, (n + 1) * MaxId <= 251, SyncWriteAll(n) PROVE IInv'
  BY <1>13, SyncWriteStep
<1>14. CASE UNCHANGED vars
  <2>1. /\ present' = present /\ line' = line /\ wire' = wire /\ scanning' = scanning
        /\ found' = found /\ answer' = answer /\ faults' = faults
    BY <1>14 DEF vars, scanVars
  <2>2. TypeOK' /\ RequestWellFormed'
    BY <2>1 DEF IInv, TypeOK, RequestWellFormed
  <2>3. StateDecoded' /\ OnArcNormalized'
    BY <2>1 DEF IInv, StateDecoded, OnArcNormalized
  <2>4. CleanScan'
    BY <2>1 DEF IInv, CleanScan, Reached
  <2> QED
    BY <2>2, <2>3, <2>4 DEF IInv
<1> QED
  BY <1>4, <1>5, <1>6, <1>7, <1>8, <1>9, <1>10, <1>11, <1>12, <1>13, <1>14,
     DrainStep, BeginScanStep, ScanNextStep, NormalizeStep, Zenon DEF Next

LEMMA Invariance == Spec => []IInv
<1>1. Init => IInv
  BY Initially
<1>2. IInv /\ [Next]_vars => IInv'
  BY NextStep
<1> QED
  BY <1>1, <1>2, PTL DEF Spec

\* The line carries bytes, a scan finds motors, and faults keep to their bound: for every
\* bus, RAM and noise.
THEOREM TypeCorrect == Spec => []TypeOK
<1>1. IInv => TypeOK
  BY DEF IInv
<1> QED
  BY <1>1, Invariance, PTL

\* Every request sent says how long it is and its checksum is right, up to the fullest
\* packets (packet.rs 39-53, 69-103).
THEOREM RequestWellFormedHolds == Spec => []RequestWellFormed
<1>1. IInv => RequestWellFormed
  BY DEF IInv
<1> QED
  BY <1>1, Invariance, PTL

\* From every RAM the registers are extracted as they are, and positions are the signed
\* ones on a circle of 4096 (units.rs 6-49, 99-115).
THEOREM StateDecodedHolds == Spec => []StateDecoded
<1>1. IInv => StateDecoded
  BY DEF IInv
<1> QED
  BY <1>1, Invariance, PTL

\* Every position on every arc is normalized to the part of the arc that lies before it,
\* across the encoder's zero as well (units.rs 52-97).
THEOREM OnArcNormalizedHolds == Spec => []OnArcNormalized
<1>1. IInv => OnArcNormalized
  BY DEF IInv
<1> QED
  BY <1>1, Invariance, PTL

\* The second half of ScanFindsMotors.
CleanScanFindsAll ==
    answer.kind = "scan" /\ answer.clean /\ answer.since = faults /\ scanning = 0 =>
        /\ { found[i] : i \in DOMAIN found } = present
        /\ \A i, j \in DOMAIN found : i < j => found[i] < found[j]

\* A scan that starts with an empty line and meets no fault finds every motor of every bus,
\* once and in order, and none that is not there (driver.rs 285-294).
THEOREM CleanScanFindsAllHolds == Spec => []CleanScanFindsAll
<1>1. IInv => CleanScanFindsAll
  <2> SUFFICES ASSUME IInv, answer.kind = "scan", answer.clean, answer.since = faults,
                      scanning = 0
               PROVE  /\ { found[i] : i \in DOMAIN found } = present
                      /\ \A i, j \in DOMAIN found : i < j => found[i] < found[j]
    BY DEF CleanScanFindsAll
  <2>1. ListsTo(found, present, MaxId)
    BY DEF IInv, CleanScan, Reached
  <2>2. \A m \in present : m <= MaxId
    BY ReadsAssumption DEF IInv, TypeOK, Motors
  <2>3. \A i \in DOMAIN found : found[i] \in present
    BY <2>1 DEF ListsTo
  <2>4. \A m \in present : \E i \in DOMAIN found : found[i] = m
    BY <2>1, <2>2 DEF ListsTo
  <2>5. \A i, j \in DOMAIN found : i < j => found[i] < found[j]
    BY <2>1 DEF ListsTo
  <2> QED
    BY <2>3, <2>4, <2>5
<1> QED
  BY <1>1, Invariance, PTL

\* What a read returns that finds the line empty and meets no fault.
ReadExactly(kind, m, register, length) ==
    ReadRegister(kind, m, register, length) /\ line = << >> /\ faults' = faults =>
        answer' =
          IF m \in present
          THEN Answer(kind, m,
                      Value(kind, SubSeq(Rams[m], Address[register] + 1, Address[register] + length)))
          ELSE [kind |-> "error", error |-> "Timeout"]

LEMMA ReadStepExact ==
    ASSUME IInv, NEW kind, NEW m \in Motors,
           NEW register, Address[register] \in 0 .. 69, NEW length \in 1 .. 2
    PROVE  ReadExactly(kind, m, register, length)
<1> SUFFICES ASSUME ReadRegister(kind, m, register, length), line = << >>, faults' = faults
             PROVE  answer' =
                      IF m \in present
                      THEN Answer(kind, m, Value(kind, SubSeq(Rams[m], Address[register] + 1,
                                                              Address[register] + length)))
                      ELSE [kind |-> "error", error |-> "Timeout"]
  BY DEF ReadExactly
<1>1. PICK q : q = Read(m, Address[register], length)
  OBVIOUS
<1>2. Asked(q)
  BY <1>1, AskedRead
<1>3. PICK address \in 0 .. 69 : address = Address[register]
  OBVIOUS
<1>4. /\ q.motor = m
      /\ Data(q) = SubSeq(Rams[m], address + 1, address + length)
      /\ ExpectedLength(q) = length
  <2>1. q.motor = m /\ q.cmd = "Read" /\ q.params[1] = address /\ q.params[2] = length
    BY <1>1, <1>3 DEF Read, Request
  <2> QED
    BY <2>1 DEF Data, ExpectedLength
<1>5. Len(Data(q)) = ExpectedLength(q)
  <2>1. \A i \in address + 1 .. address + length : i \in 1 .. 71
    OBVIOUS
  <2>2. \A i \in address + 1 .. address + length : Rams[m][i] \in Byte
    BY <2>1, RamBytes
  <2>3. Len(SubSeq(Rams[m], address + 1, address + length)) = length
    BY <2>2, SubSeqProperties
  <2> QED
    BY <1>4, <2>3
<1>6. PICK a \in Arrivals(q) :
        /\ Exchange(q, a, Outcome(q, a))
        /\ answer' = IF Outcome(q, a).ok THEN Answer(kind, m, Value(kind, Outcome(q, a).data))
                     ELSE [kind |-> "error", error |-> Outcome(q, a).error]
  BY <1>1, Zenon DEF ReadRegister
<1>7. faults \in 0 .. MaxFaults
  BY DEF IInv, TypeOK
<1>8. /\ q.motor \in present => Outcome(q, a).ok /\ Outcome(q, a).data = Data(q)
      /\ q.motor \notin present => ~ Outcome(q, a).ok /\ Outcome(q, a).error = "Timeout"
  BY <1>2, <1>5, <1>6, <1>7, CleanExchange
<1>9. CASE m \in present
  <2>1. answer' = Answer(kind, m, Value(kind, SubSeq(Rams[m], address + 1, address + length)))
    BY <1>4, <1>6, <1>8, <1>9, Zenon
  <2> QED
    BY <1>3, <1>9, <2>1
<1>10. CASE m \notin present
  BY <1>4, <1>6, <1>8, <1>10, Zenon
<1> QED
  BY <1>9, <1>10, Zenon

ReadsExactly ==
    \A m \in Motors :
        /\ ReadExactly("position", m, "PresentPosition", 2)
        /\ ReadExactly("velocity", m, "PresentSpeed", 2)
        /\ ReadExactly("current", m, "PresentCurrent", 2)
        /\ ReadExactly("load", m, "PresentLoad", 2)
        /\ ReadExactly("voltage", m, "PresentVoltage", 1)
        /\ ReadExactly("temperature", m, "PresentTemperature", 1)
        /\ ReadExactly("moving", m, "Moving", 1)

CleanReadsExact == [][ReadsExactly]_vars

\* A read that finds the line empty and meets no fault returns what its function makes of
\* the bytes in the motor's own register, and a timeout when the motor is not there,
\* whatever the RAM holds: header bytes in the data do not mislead it (packet.rs 254-368,
\* driver.rs 116-150).
THEOREM CleanReadsExactHolds == Spec => CleanReadsExact
<1>1. IInv => ReadsExactly
  <2>1. /\ Address["PresentPosition"] \in 0 .. 69 /\ Address["PresentSpeed"] \in 0 .. 69
        /\ Address["PresentCurrent"] \in 0 .. 69 /\ Address["PresentLoad"] \in 0 .. 69
        /\ Address["PresentVoltage"] \in 0 .. 69 /\ Address["PresentTemperature"] \in 0 .. 69
        /\ Address["Moving"] \in 0 .. 69
    BY Addresses, Registers
  <2>2. 1 \in 1 .. 2 /\ 2 \in 1 .. 2
    OBVIOUS
  <2> QED
    BY <2>1, <2>2, ReadStepExact DEF ReadsExactly
<1>2. IInv /\ [Next]_vars => [ReadsExactly]_vars
  BY <1>1
<1> QED
  BY <1>2, Invariance, PTL DEF CleanReadsExact, Spec

(***************************************************************************)
(* A scan reports only motors that are there.  A ping takes six bytes for  *)
(* an answer: two headers, id, length 2, no flags and the checksum.  On    *)
(* the line they stand only where the motor of that id has sent them,      *)
(* however replies were damaged, cut, late and strung together.            *)
(***************************************************************************)
\* At i of s stands the whole answer to a ping of s[i + 2], or all of it but the checksum.
Begins(s, i) ==
    /\ s[i] = 255 /\ s[i + 1] = 255 /\ s[i + 2] \in 1 .. 253
    /\ s[i + 3] = 2 /\ s[i + 4] = 0

Answers(s, i) == Begins(s, i) /\ s[i + 5] = 253 - s[i + 2]

\* Only motors of P have answered in s, and the checksum that comes next can complete the
\* answer of a motor of P only.
Genuine(s, P) ==
    /\ \A i \in 1 .. Len(s) - 5 : Answers(s, i) => s[i + 2] \in P
    /\ \A i \in 1 .. Len(s) - 4 : i = Len(s) - 4 /\ Begins(s, i) => s[i + 2] \in P

\* What r can complete that stands before it: a header byte and an answer of a motor of P.
Opens(r, P) ==
    /\ Len(r) >= 5
    /\ r[1] = 255 \/ r[2] = 255
    /\ r[1] = 255 /\ r[2] \in 1 .. 253 /\ r[3] = 2 /\ r[4] = 0 => r[2] \in P

LEMMA NoHeader == \A id \in 1 .. 253 : id # 255 /\ 253 - id # 255
OBVIOUS

LEMMA JoinGenuine ==
    ASSUME NEW P, NEW s \in Seq(Byte), NEW r \in Seq(Byte),
           Genuine(s, P), Genuine(r, P), r = << >> \/ Opens(r, P)
    PROVE  Genuine(s \o r, P)
<1>1. CASE r = << >>
  <2>1. s \o r = s
    BY <1>1, ConcatEmptySeq
  <2> QED
    BY <2>1
<1>2. CASE Opens(r, P)
  <2>1. PICK m \in Nat, n \in Nat : m = Len(s) /\ n = Len(r)
    BY LenProperties
  <2>2. PICK t : t = s \o r
    OBVIOUS
  <2>3. IsJoin(Byte, t, s, m, r, n)
    BY <2>1, <2>2, Joined
  <2>4. /\ Len(t) = m + n /\ n >= 5
        /\ \A i \in 1 .. m : t[i] = s[i]
        /\ \A i \in m + 1 .. m + n : t[i] = r[i - m]
    <3>1. /\ Len(t) = m + n
          /\ \A i \in 1 .. m : t[i] = s[i]
          /\ \A i \in 1 .. n : t[m + i] = r[i]
      BY <2>3 DEF IsJoin
    <3>2. ASSUME NEW i \in m + 1 .. m + n PROVE t[i] = r[i - m]
      <4>1. i - m \in 1 .. n /\ m + (i - m) = i
        OBVIOUS
      <4> QED
        BY <3>1, <4>1
    <3> QED
      BY <1>2, <2>1, <3>1, <3>2 DEF Opens
  <2>5. ASSUME NEW i \in 1 .. m + n - 5, Answers(t, i) PROVE t[i + 2] \in P
    <3>1. CASE i + 5 <= m
      <4>1. /\ t[i] = s[i] /\ t[i + 1] = s[i + 1] /\ t[i + 2] = s[i + 2]
            /\ t[i + 3] = s[i + 3] /\ t[i + 4] = s[i + 4] /\ t[i + 5] = s[i + 5]
        BY <2>4, <3>1
      <4>2. i \in 1 .. Len(s) - 5
        BY <2>1, <3>1
      <4>3. Answers(s, i)
        BY <2>5, <4>1 DEF Answers, Begins
      <4> QED
        BY <4>1, <4>2, <4>3 DEF Genuine
    <3>2. CASE i + 4 = m
      <4>1. /\ t[i] = s[i] /\ t[i + 1] = s[i + 1] /\ t[i + 2] = s[i + 2]
            /\ t[i + 3] = s[i + 3] /\ t[i + 4] = s[i + 4]
        BY <2>4, <3>2
      <4>2. i \in 1 .. Len(s) - 4 /\ i = Len(s) - 4
        BY <2>1, <3>2
      <4>3. Begins(s, i)
        BY <2>5, <4>1 DEF Answers, Begins
      <4> QED
        BY <4>1, <4>2, <4>3 DEF Genuine
    <3>3. CASE i + 3 = m
      <4>1. t[i + 4] = r[1] /\ t[i + 5] = r[2]
        <5>1. /\ i + 4 \in m + 1 .. m + n /\ i + 4 - m = 1
              /\ i + 5 \in m + 1 .. m + n /\ i + 5 - m = 2
          BY <2>4, <3>3
        <5> QED
          BY <2>4, <5>1
      <4>2. t[i + 4] = 0 /\ t[i + 5] # 255
        <5>1. t[i + 4] = 0 /\ t[i + 2] \in 1 .. 253 /\ t[i + 5] = 253 - t[i + 2]
          BY <2>5, Zenon DEF Answers, Begins
        <5> QED
          BY <5>1, NoHeader, Zenon
      <4> QED
        BY <1>2, <4>1, <4>2 DEF Opens
    <3>4. CASE i + 2 = m
      <4>1. t[i + 3] = r[1] /\ t[i + 4] = r[2] /\ t[i + 3] = 2 /\ t[i + 4] = 0
        BY <2>4, <2>5, <3>4 DEF Answers, Begins
      <4> QED
        BY <1>2, <4>1 DEF Opens
    <3>5. CASE i + 1 = m
      <4>1. t[i + 2] = r[1] /\ t[i + 3] = r[2]
        <5>1. /\ i + 2 \in m + 1 .. m + n /\ i + 2 - m = 1
              /\ i + 3 \in m + 1 .. m + n /\ i + 3 - m = 2
          BY <2>4, <3>5
        <5> QED
          BY <2>4, <5>1
      <4>2. t[i + 2] # 255 /\ t[i + 3] = 2
        <5>1. t[i + 2] \in 1 .. 253 /\ t[i + 3] = 2
          BY <2>5, Zenon DEF Answers, Begins
        <5> QED
          BY <5>1, NoHeader, Zenon
      <4> QED
        BY <1>2, <4>1, <4>2 DEF Opens
    <3>6. CASE i = m
      <4>1. /\ t[i + 1] = r[1] /\ t[i + 2] = r[2] /\ t[i + 3] = r[3] /\ t[i + 4] = r[4]
            /\ t[i + 1] = 255 /\ t[i + 2] \in 1 .. 253 /\ t[i + 3] = 2 /\ t[i + 4] = 0
        BY <2>4, <2>5, <3>6 DEF Answers, Begins
      <4> QED
        BY <1>2, <4>1 DEF Opens
    <3>7. CASE i > m
      <4>1. i - m \in 1 .. Len(r) - 5 /\ Answers(r, i - m) /\ t[i + 2] = r[i - m + 2]
        <5>1. PICK k \in 1 .. n - 5 : k = i - m
          BY <3>7
        <5>2. /\ t[i] = r[k] /\ t[i + 1] = r[k + 1] /\ t[i + 2] = r[k + 2]
              /\ t[i + 3] = r[k + 3] /\ t[i + 4] = r[k + 4] /\ t[i + 5] = r[k + 5]
          BY <2>4, <5>1
        <5> QED
          BY <2>1, <2>5, <5>1, <5>2 DEF Answers, Begins
      <4> QED
        BY <4>1 DEF Genuine
    <3> QED
      BY <3>1, <3>2, <3>3, <3>4, <3>5, <3>6, <3>7
  <2>6. ASSUME NEW i \in 1 .. m + n - 4, i = m + n - 4, Begins(t, i) PROVE t[i + 2] \in P
    <3>1. PICK k \in 1 .. n - 4 : k = i - m /\ k = n - 4
      BY <2>4, <2>6
    <3>2. /\ t[i] = r[k] /\ t[i + 1] = r[k + 1] /\ t[i + 2] = r[k + 2]
          /\ t[i + 3] = r[k + 3] /\ t[i + 4] = r[k + 4]
      BY <2>4, <3>1
    <3>3. Begins(r, k) /\ k \in 1 .. Len(r) - 4 /\ k = Len(r) - 4
      BY <2>1, <2>6, <3>1, <3>2 DEF Begins
    <3> QED
      BY <3>2, <3>3 DEF Genuine
  <2>7. Genuine(t, P)
    <3>1. \A i \in 1 .. Len(t) - 5 : Answers(t, i) => t[i + 2] \in P
      BY <2>4, <2>5
    <3>2. \A i \in 1 .. Len(t) - 4 : i = Len(t) - 4 /\ Begins(t, i) => t[i + 2] \in P
      BY <2>4, <2>6
    <3> QED
      BY <3>1, <3>2, Zenon DEF Genuine
  <2> QED
    BY <2>2, <2>7
<1> QED
  BY <1>1, <1>2

LEMMA RestGenuine ==
    ASSUME NEW P, NEW s \in Seq(Byte), Genuine(s, P), NEW k \in 0 .. Len(s)
    PROVE  Genuine(SubSeq(s, k + 1, Len(s)), P)
<1>1. PICK n \in Nat : n = Len(s)
  BY LenProperties
<1>2. PICK t : t = SubSeq(s, k + 1, n)
  OBVIOUS
<1>3. Len(t) = n - k /\ \A i \in 1 .. n - k : t[i] = s[k + i]
  <2>1. \A i \in k + 1 .. n : s[i] \in Byte
    BY <1>1, ElementOfSeq
  <2>2. /\ Len(t) = IF k + 1 <= n THEN n - (k + 1) + 1 ELSE 0
        /\ \A i \in 1 .. n - (k + 1) + 1 : t[i] = s[k + 1 + i - 1]
    BY <1>1, <1>2, <2>1, SubSeqProperties
  <2>3. n - (k + 1) + 1 = n - k /\ k <= n
    BY <1>1
  <2>4. ASSUME NEW i \in 1 .. n - k PROVE t[i] = s[k + i]
    <3>1. k + 1 + i - 1 = k + i
      OBVIOUS
    <3> QED
      BY <2>2, <2>3, <3>1
  <2> QED
    BY <1>1, <2>2, <2>3, <2>4
<1>4. ASSUME NEW i \in 1 .. (n - k) - 4, Begins(t, i)
      PROVE  Begins(s, k + i) /\ t[i + 2] = s[k + i + 2]
  <2>1. /\ i \in 1 .. n - k /\ i + 1 \in 1 .. n - k /\ i + 2 \in 1 .. n - k
        /\ i + 3 \in 1 .. n - k /\ i + 4 \in 1 .. n - k
    BY <1>1
  <2>2. /\ t[i] = s[k + i] /\ t[i + 1] = s[k + (i + 1)] /\ t[i + 2] = s[k + (i + 2)]
        /\ t[i + 3] = s[k + (i + 3)] /\ t[i + 4] = s[k + (i + 4)]
    BY <1>3, <2>1
  <2>3. /\ k + (i + 1) = k + i + 1 /\ k + (i + 2) = k + i + 2 /\ k + (i + 3) = k + i + 3
        /\ k + (i + 4) = k + i + 4
    BY <1>1
  <2> QED
    BY <1>4, <2>2, <2>3 DEF Begins
<1>5. ASSUME NEW i \in 1 .. (n - k) - 5, Answers(t, i) PROVE t[i + 2] \in P
  <2>1. Begins(s, k + i) /\ t[i + 2] = s[k + i + 2] /\ t[i + 5] = s[k + i + 5]
    BY <1>1, <1>3, <1>4, <1>5 DEF Answers
  <2>2. Answers(s, k + i) /\ k + i \in 1 .. Len(s) - 5
    BY <1>1, <1>5, <2>1 DEF Answers
  <2> QED
    BY <2>1, <2>2 DEF Genuine
<1>6. ASSUME NEW i \in 1 .. (n - k) - 4, i = (n - k) - 4, Begins(t, i) PROVE t[i + 2] \in P
  <2>1. Begins(s, k + i) /\ t[i + 2] = s[k + i + 2]
    BY <1>4, <1>6
  <2>2. k + i \in 1 .. Len(s) - 4 /\ k + i = Len(s) - 4
    BY <1>1, <1>6
  <2> QED
    BY <2>1, <2>2 DEF Genuine
<1> QED
  BY <1>1, <1>2, <1>3, <1>5, <1>6 DEF Genuine

\* The reply p of m: header, id, length, flags; the checksum where there is no data.
IsStatus(p, m, flags) ==
    /\ p \in Seq(Byte) /\ Len(p) \in 6 .. 8
    /\ p[1] = 255 /\ p[2] = 255 /\ p[3] = m /\ p[4] = Len(p) - 4 /\ p[5] = flags
    /\ Len(p) = 6 /\ flags = 0 => p[6] = 253 - m

\* Whatever looks like an answer in r is m's.
LEMMA OneAnswer ==
    ASSUME NEW P, NEW m \in P, NEW r, Len(r) \in Nat,
           \A i \in 1 .. Len(r) - 4 : Begins(r, i) => r[i + 2] = m
    PROVE  Genuine(r, P)
<1>1. ASSUME NEW i \in 1 .. Len(r) - 5, Answers(r, i) PROVE r[i + 2] \in P
  <2>1. i \in 1 .. Len(r) - 4
    OBVIOUS
  <2>2. Begins(r, i)
    BY <1>1 DEF Answers
  <2> QED
    BY <2>1, <2>2
<1>2. ASSUME NEW i \in 1 .. Len(r) - 4, Begins(r, i) PROVE r[i + 2] \in P
  BY <1>2
<1> QED
  BY <1>1, <1>2 DEF Genuine

LEMMA WholeReply ==
    ASSUME NEW P, NEW m \in P, m \in 1 .. 253, NEW flags \in {0, 32}, NEW p, IsStatus(p, m, flags)
    PROVE  Genuine(p, P) /\ Opens(p, P)
<1>0. PICK n \in 6 .. 8 : n = Len(p)
  BY DEF IsStatus
<1>1. p[1] = 255 /\ p[2] = 255 /\ p[3] = m /\ p[4] = n - 4
  BY <1>0 DEF IsStatus
<1>2. p[3] # 255 /\ p[4] # 255 /\ p[2] \notin 1 .. 253
  BY <1>1
<1>3. ASSUME NEW i \in 1 .. Len(p) - 4, Begins(p, i) PROVE p[i + 2] = m
  <2>1. p[i] = 255 /\ p[i + 1] = 255
    BY <1>3 DEF Begins
  <2>2. i = 1 \/ i = 2 \/ i = 3 \/ i = 4
    BY <1>0
  <2>3. i = 2 => i + 1 = 3
    OBVIOUS
  <2>4. i # 2 /\ i # 3 /\ i # 4
    BY <1>2, <2>1, <2>3, Zenon
  <2> QED
    BY <1>1, <2>2, <2>4
<1>4. Opens(p, P)
  <2>1. Len(p) >= 5
    BY <1>0
  <2> QED
    BY <1>1, <1>2, <2>1, Zenon DEF Opens
<1> QED
  <2>1. Len(p) \in Nat
    BY <1>0
  <2> QED
    BY <1>3, <1>4, <2>1, OneAnswer

\* What is left of a sequence without its k-th element.
LEMMA WithoutByte ==
    ASSUME NEW S, NEW p \in Seq(S), NEW n \in Nat, n = Len(p), NEW k \in 1 .. n
    PROVE  /\ Len(RemoveAt(p, k)) = n - 1
           /\ \A i \in 1 .. n - 1 : RemoveAt(p, k)[i] = IF i < k THEN p[i] ELSE p[i + 1]
<1>2. \A i \in 1 .. n : p[i] \in S
  BY ElementOfSeq
<1>3. PICK s : s = SubSeq(p, 1, k - 1)
  OBVIOUS
<1>4. s \in Seq(S) /\ Len(s) = k - 1 /\ \A i \in 1 .. k - 1 : s[i] = p[i]
  <2>1. \A i \in 1 .. k - 1 : p[i] \in S
    BY <1>2
  <2>2. /\ s \in Seq(S) /\ Len(s) = IF 1 <= k - 1 THEN k - 1 - 1 + 1 ELSE 0
        /\ \A i \in 1 .. k - 1 - 1 + 1 : s[i] = p[1 + i - 1]
    BY <1>2, <1>3, <2>1, SubSeqProperties
  <2>3. \A i \in 1 .. k - 1 : i \in 1 .. k - 1 - 1 + 1 /\ 1 + i - 1 = i
    BY <1>2
  <2> QED
    BY <1>2, <2>2, <2>3
<1>5. PICK t : t = SubSeq(p, k + 1, n)
  OBVIOUS
<1>6. t \in Seq(S) /\ Len(t) = n - k /\ \A i \in 1 .. n - k : t[i] = p[k + i]
  <2>1. \A i \in k + 1 .. n : p[i] \in S
    BY <1>2
  <2>2. /\ t \in Seq(S) /\ Len(t) = IF k + 1 <= n THEN n - (k + 1) + 1 ELSE 0
        /\ \A i \in 1 .. n - (k + 1) + 1 : t[i] = p[k + 1 + i - 1]
    BY <1>2, <1>5, <2>1, SubSeqProperties
  <2>3. \A i \in 1 .. n - k : i \in 1 .. n - (k + 1) + 1 /\ k + 1 + i - 1 = k + i
    BY <1>2
  <2> QED
    BY <1>2, <2>2, <2>3
<1>7. PICK r : r = RemoveAt(p, k)
  OBVIOUS
<1>8. r = s \o t
  BY <1>3, <1>5, <1>7, Zenon DEF RemoveAt
<1>9. IsJoin(S, r, s, k - 1, t, n - k)
  <2>1. k - 1 \in Nat /\ n - k \in Nat
    BY <1>2
  <2> QED
    BY <1>4, <1>6, <1>8, <2>1, Joined
<1>10. /\ Len(r) = n - 1 /\ \A i \in 1 .. n - 1 : r[i] = IF i < k THEN p[i] ELSE p[i + 1]
  <2>1. /\ Len(r) = k - 1 + (n - k) /\ \A i \in 1 .. k - 1 : r[i] = s[i]
        /\ \A i \in 1 .. n - k : r[k - 1 + i] = t[i]
    BY <1>9 DEF IsJoin
  <2>2. k - 1 + (n - k) = n - 1
    BY <1>2
  <2>3. ASSUME NEW i \in 1 .. n - 1, i < k PROVE r[i] = p[i]
    <3>1. i \in 1 .. k - 1
      BY <1>2, <2>3
    <3> QED
      BY <1>4, <2>1, <3>1
  <2>4. ASSUME NEW i \in 1 .. n - 1, ~ (i < k) PROVE r[i] = p[i + 1]
    <3>1. PICK l \in 1 .. n : l = k
      BY <1>2
    <3>2. i - l + 1 \in 1 .. n - l
      BY <2>4, <3>1
    <3>3. PICK j \in 1 .. n - l : j = i - l + 1
      BY <3>2
    <3>4. l - 1 + j = i /\ l + j = i + 1
      BY <3>3
    <3> QED
      BY <1>6, <2>1, <3>1, <3>4
  <2> QED
    BY <2>1, <2>2, <2>3, <2>4
<1> QED
  BY <1>7, <1>10

LEMMA ByteLost ==
    ASSUME NEW P, NEW m \in P, m \in 1 .. 253, NEW p, IsStatus(p, m, 0), NEW k \in DOMAIN p
    PROVE  Genuine(RemoveAt(p, k), P) /\ Opens(RemoveAt(p, k), P)
<1>1. PICK n \in 6 .. 8 : n = Len(p)
  BY DEF IsStatus
<1>2. p \in Seq(Byte) /\ k \in 1 .. n /\ \A i \in 1 .. n : p[i] \in Byte
  BY <1>1, ElementOfSeq DEF IsStatus
<1>3. PICK r : r = RemoveAt(p, k)
  OBVIOUS
<1>4. /\ Len(r) = n - 1 /\ \A i \in 1 .. n - 1 : r[i] = IF i < k THEN p[i] ELSE p[i + 1]
  <2>1. n \in Nat
    BY <1>1
  <2>2. p \in Seq(Byte) /\ k \in 1 .. n
    BY <1>2
  <2>3. \A l \in Nat : l = Len(p) => \A o \in 1 .. l :
          /\ Len(RemoveAt(p, o)) = l - 1
          /\ \A i \in 1 .. l - 1 : RemoveAt(p, o)[i] = IF i < o THEN p[i] ELSE p[i + 1]
    BY <2>2, WithoutByte, Zenon
  <2> QED
    BY <1>1, <1>3, <2>1, <2>2, <2>3, Zenon
<1>5. /\ p[1] = 255 /\ p[2] = 255 /\ p[3] = m /\ p[4] = n - 4 /\ p[5] = 0
  BY <1>1 DEF IsStatus
<1>6. /\ r[1] = 255
      /\ r[2] = IF k <= 2 THEN m ELSE 255
      /\ r[3] = IF k <= 3 THEN n - 4 ELSE m
      /\ r[4] = IF k <= 4 THEN 0 ELSE n - 4
  <2>1. 1 \in 1 .. n - 1 /\ 2 \in 1 .. n - 1 /\ 3 \in 1 .. n - 1 /\ 4 \in 1 .. n - 1
    OBVIOUS
  <2>2. /\ r[1] = (IF 1 < k THEN p[1] ELSE p[2]) /\ r[2] = (IF 2 < k THEN p[2] ELSE p[3])
        /\ r[3] = (IF 3 < k THEN p[3] ELSE p[4]) /\ r[4] = (IF 4 < k THEN p[4] ELSE p[5])
    BY <1>4, <2>1
  <2> QED
    BY <1>2, <1>5, <2>2
<1>7. r[3] # 255 /\ (k <= 2 => r[2] = m /\ r[2] # 255) /\ (k > 2 => r[2] = 255)
  BY <1>2, <1>6
<1>8. ASSUME NEW i \in 1 .. Len(r) - 4, Begins(r, i) PROVE r[i + 2] = m
  <2>1. /\ i \in 1 .. 3 /\ r[i] = 255 /\ r[i + 1] = 255 /\ r[i + 3] = 2
    BY <1>4, <1>8 DEF Begins
  <2>2. i = 1 /\ k > 2
    BY <1>2, <1>7, <2>1
  <2>3. r[4] = 2
    BY <2>1, <2>2
  <2>4. k > 4
    BY <1>2, <1>6, <2>3
  <2> QED
    BY <1>2, <1>6, <2>2, <2>4
<1>9. Opens(r, P)
  <2>1. Len(r) >= 5
    BY <1>4
  <2>2. r[2] \in 1 .. 253 => r[2] \in P
    <3>1. 255 \notin 1 .. 253
      OBVIOUS
    <3>2. k <= 2 \/ k > 2
      BY <1>2
    <3> QED
      BY <1>7, <3>1, <3>2, Zenon
  <2> QED
    BY <1>6, <2>1, <2>2, Zenon DEF Opens
<1>10. Len(r) \in Nat
  BY <1>4
<1> QED
  BY <1>3, <1>8, <1>9, <1>10, OneAnswer

LEMMA ByteChanged ==
    ASSUME NEW P, NEW m \in P, m \in 1 .. 253, NEW p, IsStatus(p, m, 0), NEW k \in DOMAIN p,
           NEW c \in Byte
    PROVE  Genuine(ReplaceAt(p, k, c), P) /\ Opens(ReplaceAt(p, k, c), P)
<1>1. PICK n \in 6 .. 8 : n = Len(p)
  BY DEF IsStatus
<1>2. p \in Seq(Byte) /\ k \in 1 .. n
  BY <1>1, LenProperties DEF IsStatus
<1>3. PICK r : r = ReplaceAt(p, k, c)
  OBVIOUS
<1>4. Len(r) = n /\ \A i \in 1 .. n : r[i] = IF i = k THEN c ELSE p[i]
  <2>1. r = [p EXCEPT ![k] = c]
    BY <1>3, Zenon DEF ReplaceAt
  <2>2. [p EXCEPT ![k] = c] \in Seq(Byte) /\ Len([p EXCEPT ![k] = c]) = Len(p)
    BY <1>2, ExceptSeq
  <2>3. DOMAIN p = 1 .. n
    BY <1>1, <1>2, LenProperties
  <2> QED
    BY <1>1, <2>1, <2>2, <2>3
<1>5. /\ p[1] = 255 /\ p[2] = 255 /\ p[3] = m /\ p[4] = n - 4 /\ p[5] = 0
      /\ n = 6 => p[6] = 253 - m
  BY <1>1 DEF IsStatus
<1>6. /\ r[1] = (IF 1 = k THEN c ELSE 255) /\ r[2] = (IF 2 = k THEN c ELSE 255)
      /\ r[3] = (IF 3 = k THEN c ELSE m) /\ r[4] = (IF 4 = k THEN c ELSE n - 4)
      /\ r[5] = (IF 5 = k THEN c ELSE 0)
      /\ n = 6 => r[6] = IF 6 = k THEN c ELSE 253 - m
  <2>1. /\ 1 \in 1 .. n /\ 2 \in 1 .. n /\ 3 \in 1 .. n /\ 4 \in 1 .. n /\ 5 \in 1 .. n
        /\ 6 \in 1 .. n
    OBVIOUS
  <2> QED
    BY <1>4, <1>5, <2>1
<1>8. ASSUME NEW i \in 1 .. n - 4, Begins(r, i), i > 1 PROVE FALSE
  <2>1. i = 2 \/ i = 3 \/ i = 4
    BY <1>8
  <2>2. CASE i = 2
    <3>1. r[3] = 255 /\ r[4] \in 1 .. 253 /\ r[5] = 2
      BY <1>8, <2>2 DEF Begins
    <3>2. k = 3 /\ k = 5
      BY <1>2, <1>6, <3>1
    <3> QED
      BY <3>2
  <2>3. CASE i = 3
    <3>1. r[3] = 255 /\ r[4] = 255
      BY <1>8, <2>3 DEF Begins
    <3>2. k = 3 /\ k = 4
      BY <1>2, <1>6, <3>1
    <3> QED
      BY <3>2
  <2>4. CASE i = 4
    <3>1. r[4] = 255 /\ r[5] = 255
      BY <1>8, <2>4 DEF Begins
    <3>2. k = 4 /\ k = 5
      BY <1>2, <1>6, <3>1
    <3> QED
      BY <3>2
  <2> QED
    BY <2>1, <2>2, <2>3, <2>4
<1>9. ASSUME NEW i \in 1 .. Len(r) - 5, Answers(r, i) PROVE r[i + 2] \in P
  <2>1. Begins(r, i) /\ i \in 1 .. n - 4
    BY <1>4, <1>9 DEF Answers
  <2>2. i = 1
    BY <1>8, <2>1
  <2>3. r[3] \in 1 .. 253 /\ r[4] = 2 /\ r[6] = 253 - r[3]
    BY <1>9, <2>2 DEF Answers, Begins
  <2>4. r[3] = m
    <3>1. CASE k = 3
      <4>1. n = 6 /\ r[6] = 253 - m
        BY <1>6, <2>3, <3>1
      <4>2. PICK x \in 1 .. 253 : x = r[3]
        BY <2>3
      <4>3. 253 - x = 253 - m
        BY <2>3, <4>1, <4>2
      <4>4. x = m
        BY <4>3
      <4> QED
        BY <4>2, <4>4
    <3>2. CASE k # 3
      BY <1>6, <3>2
    <3> QED
      BY <3>1, <3>2
  <2> QED
    BY <2>2, <2>4
<1>10. ASSUME NEW i \in 1 .. Len(r) - 4, i = Len(r) - 4, Begins(r, i) PROVE r[i + 2] \in P
  <2>1. i \in 1 .. n - 4 /\ i > 1
    BY <1>4, <1>10
  <2> QED
    BY <1>8, <1>10, <2>1
<1>11. Genuine(r, P)
  BY <1>9, <1>10 DEF Genuine
<1>12. Opens(r, P)
  <2>1. Len(r) >= 5
    BY <1>4
  <2>2. r[1] = 255 \/ r[2] = 255
    BY <1>2, <1>6
  <2>3. ASSUME r[2] \in 1 .. 253, r[4] = 0 PROVE FALSE
    <3>1. k = 2 /\ k = 4
      BY <1>2, <1>6, <2>3
    <3> QED
      BY <3>1
  <2> QED
    BY <2>1, <2>2, <2>3, Zenon DEF Opens
<1> QED
  BY <1>3, <1>11, <1>12

LEMMA NoiseBefore ==
    ASSUME NEW P, NEW m \in P, m \in 1 .. 253, NEW p, IsStatus(p, m, 0), NEW c \in Byte
    PROVE  Genuine(<< c >> \o p, P) /\ Opens(<< c >> \o p, P)
<1>1. PICK n \in 6 .. 8 : n = Len(p)
  BY DEF IsStatus
<1>2. PICK r : r = << c >> \o p
  OBVIOUS
<1>3. IsJoin(Byte, r, << c >>, 1, p, n)
  <2>1. << c >> \in Seq(Byte) /\ Len(<< c >>) = 1 /\ 1 \in Nat /\ n \in Nat
    BY One
  <2>2. p \in Seq(Byte)
    BY DEF IsStatus
  <2> QED
    BY <1>1, <1>2, <2>1, <2>2, Joined
<1>4. Len(r) = n + 1 /\ \A i \in 1 .. n : r[1 + i] = p[i]
  BY <1>3 DEF IsJoin
<1>5. /\ p[1] = 255 /\ p[2] = 255 /\ p[3] = m /\ p[4] = n - 4
  BY <1>1 DEF IsStatus
<1>6. r[2] = 255 /\ r[3] = 255 /\ r[4] = m /\ r[5] = n - 4
  <2>1. 1 \in 1 .. n /\ 2 \in 1 .. n /\ 3 \in 1 .. n /\ 4 \in 1 .. n
    OBVIOUS
  <2>2. r[1 + 1] = p[1] /\ r[1 + 2] = p[2] /\ r[1 + 3] = p[3] /\ r[1 + 4] = p[4]
    BY <1>4, <2>1
  <2> QED
    BY <1>5, <2>2
<1>7. r[4] # 255 /\ r[5] # 255 /\ r[2] \notin 1 .. 253 /\ r[3] \notin 1 .. 253
  BY <1>6
<1>8. ASSUME NEW i \in 1 .. Len(r) - 4, Begins(r, i) PROVE r[i + 2] = m
  <2>1. i \in 1 .. 5 /\ r[i] = 255 /\ r[i + 1] = 255 /\ r[i + 2] \in 1 .. 253
    BY <1>4, <1>8 DEF Begins
  <2>2. i = 2
    <3>1. (i = 1 => i + 2 = 3) /\ (i = 3 => i + 1 = 4)
      OBVIOUS
    <3>2. i # 1 /\ i # 3 /\ i # 4 /\ i # 5
      BY <1>7, <2>1, <3>1, Zenon
    <3> QED
      BY <2>1, <3>2
  <2> QED
    BY <1>6, <2>2
<1>9. Opens(r, P)
  <2>1. Len(r) >= 5
    BY <1>4
  <2> QED
    BY <1>6, <1>7, <2>1, Zenon DEF Opens
<1>10. Len(r) \in Nat
  BY <1>4
<1> QED
  BY <1>2, <1>8, <1>9, <1>10, OneAnswer

LEMMA SumOfNone == Sum(<< >>) = 0
<1>1. Totals(<< >>, 0, [k \in 0 .. 0 |-> 0])
  BY DEF Totals
<1>2. << >> \in Seq(Nat) /\ Len(<< >>) = 0
  OBVIOUS
<1>3. Sum(<< >>) = [k \in 0 .. 0 |-> 0][0]
  BY <1>1, <1>2, SumIsTotal
<1> QED
  BY <1>3

LEMMA SumOfThree ==
    ASSUME NEW a \in Nat, NEW b \in Nat, NEW c \in Nat
    PROVE  Sum(<< a, b, c >>) = a + b + c
<1>1. << >> \in Seq(Nat) /\ << a >> \in Seq(Nat) /\ << a, b >> \in Seq(Nat)
  OBVIOUS
<1>2. << >> \o << a >> = << a >>
  OBVIOUS
<1>3. << a >> \o << b >> = << a, b >>
  <2>1. PICK s : s = << a >> \o << b >>
    OBVIOUS
  <2>2. << b >> \in Seq(Nat) /\ Len(<< a >>) = 1 /\ Len(<< b >>) = 1 /\ 1 \in Nat
    OBVIOUS
  <2>3. IsJoin(Nat, s, << a >>, 1, << b >>, 1)
    BY <1>1, <2>1, <2>2, Joined
  <2>4. s \in Seq(Nat) /\ Len(s) = 2 /\ s[1] = a /\ s[2] = b
    <3>1. /\ s \in Seq(Nat) /\ Len(s) = 1 + 1
          /\ \A i \in 1 .. 1 : s[i] = << a >>[i] /\ \A j \in 1 .. 1 : s[1 + j] = << b >>[j]
      BY <2>3 DEF IsJoin
    <3>2. 1 \in 1 .. 1 /\ << a >>[1] = a /\ << b >>[1] = b /\ 1 + 1 = 2
      OBVIOUS
    <3> QED
      BY <3>1, <3>2
  <2>5. Len(<< a, b >>) = 2 /\ << a, b >>[1] = a /\ << a, b >>[2] = b
    OBVIOUS
  <2>6. \A i \in 1 .. 2 : s[i] = << a, b >>[i]
    BY <2>4
  <2> QED
    BY <1>1, <2>1, <2>4, <2>5, <2>6, SeqEqual
<1>4. << a, b >> \o << c >> = << a, b, c >>
  <2>1. PICK s : s = << a, b >> \o << c >>
    OBVIOUS
  <2>2. << c >> \in Seq(Nat) /\ Len(<< a, b >>) = 2 /\ Len(<< c >>) = 1 /\ 1 \in Nat /\ 2 \in Nat
    OBVIOUS
  <2>3. IsJoin(Nat, s, << a, b >>, 2, << c >>, 1)
    BY <1>1, <2>1, <2>2, Joined
  <2>4. s \in Seq(Nat) /\ Len(s) = 3 /\ s[1] = a /\ s[2] = b /\ s[3] = c
    <3>1. /\ s \in Seq(Nat) /\ Len(s) = 2 + 1
          /\ \A i \in 1 .. 2 : s[i] = << a, b >>[i] /\ \A j \in 1 .. 1 : s[2 + j] = << c >>[j]
      BY <2>3 DEF IsJoin
    <3>2. /\ 1 \in 1 .. 2 /\ 2 \in 1 .. 2 /\ 1 \in 1 .. 1 /\ << a, b >>[1] = a /\ << a, b >>[2] = b
          /\ << c >>[1] = c /\ 2 + 1 = 3
      OBVIOUS
    <3> QED
      BY <3>1, <3>2
  <2>5. << a, b, c >> \in Seq(Nat) /\ Len(<< a, b, c >>) = 3
    OBVIOUS
  <2>6. \A i \in 1 .. 3 : s[i] = << a, b, c >>[i]
    BY <2>4
  <2> QED
    BY <2>1, <2>4, <2>5, <2>6, SeqEqual
<1>5. Sum(<< a >>) = a
  <2>1. Sum(<< >> \o << a >>) = Sum(<< >>) + a
    BY <1>1, SumOfAppend
  <2> QED
    BY <1>2, <2>1, SumOfNone
<1>6. Sum(<< a, b >>) = a + b
  <2>1. Sum(<< a >> \o << b >>) = Sum(<< a >>) + b
    BY <1>1, SumOfAppend
  <2> QED
    BY <1>3, <1>5, <2>1
<1>7. Sum(<< a, b >> \o << c >>) = Sum(<< a, b >>) + c
  BY <1>1, SumOfAppend
<1> QED
  BY <1>4, <1>6, <1>7

LEMMA PingChecksum ==
    ASSUME NEW m \in 1 .. 253
    PROVE  CalculateChecksum(<< m, 2, 0 >>) = 253 - m
<1>1. Sum(<< m, 2, 0 >>) = m + 2 + 0
  BY SumOfThree
<1>2. (m + 2 + 0) % 256 = m + 2
  OBVIOUS
<1>3. 255 - (m + 2) = 253 - m
  OBVIOUS
<1> QED
  BY <1>1, <1>2, <1>3 DEF CalculateChecksum

LEMMA StatusIs ==
    ASSUME NEW m \in 1 .. 253, NEW flags \in {0, 32}, NEW data \in Seq(Byte), Len(data) <= 2
    PROVE  IsStatus(StatusPacket(m, flags, data), m, flags)
<1>1. PICK d \in 0 .. 2 : d = Len(data)
  <2>1. PICK n \in Nat : n = Len(data) /\ n <= 2
    BY LenProperties
  <2>2. n \in 0 .. 2
    BY <2>1
  <2> QED
    BY <2>1, <2>2
<1>2. PICK head : head = << m, d + 2, flags >>
  OBVIOUS
<1>3. /\ head \in Seq(Byte) /\ Len(head) = 3
      /\ head[1] = m /\ head[2] = d + 2 /\ head[3] = flags
  <2>1. m \in Byte /\ d + 2 \in Byte /\ flags \in Byte
    <3>1. m \in 0 .. 255 /\ d + 2 \in 0 .. 255 /\ flags \in 0 .. 255
      OBVIOUS
    <3> QED
      BY <3>1 DEF Byte
  <2> QED
    BY <1>2, <2>1, Three
<1>4. PICK body : body = head \o data
  OBVIOUS
<1>5. IsJoin(Byte, body, head, 3, data, d)
  <2>1. 3 \in Nat /\ d \in Nat
    OBVIOUS
  <2>2. IsJoin(Byte, head \o data, head, 3, data, d)
    BY <1>1, <1>3, <2>1, Joined, Zenon
  <2> QED
    BY <1>4, <2>2, Zenon
<1>6. PICK n \in 3 .. 5 : n = 3 + d
  OBVIOUS
<1>7. /\ body \in Seq(Byte) /\ Len(body) = n
      /\ body[1] = m /\ body[2] = d + 2 /\ body[3] = flags
  BY <1>3, <1>5, <1>6 DEF IsJoin
<1>8. PICK p : p = StatusPacket(m, flags, data)
  OBVIOUS
<1>9. p = Packet(body)
  BY <1>1, <1>2, <1>4, <1>8, Zenon DEF StatusPacket, Packet
<1>10. Shaped(p, body, n)
  <2>1. n \in Nat
    OBVIOUS
  <2> QED
    BY <1>7, <1>9, <2>1, PacketShape, Zenon
<1>11. /\ p \in Seq(Byte) /\ Len(p) = n + 3 /\ p[1] = 255 /\ p[2] = 255
       /\ p[3] = m /\ p[4] = d + 2 /\ p[5] = flags /\ p[n + 3] = CalculateChecksum(body)
  <2>1. 1 \in 1 .. n /\ 2 \in 1 .. n /\ 3 \in 1 .. n
    OBVIOUS
  <2>2. /\ p[1 + 2] = body[1] /\ p[2 + 2] = body[2] /\ p[3 + 2] = body[3]
    BY <1>10, <2>1 DEF Shaped
  <2>3. p \in Seq(Byte) /\ Len(p) = n + 3 /\ p[1] = 255 /\ p[2] = 255 /\ p[n + 3] = CalculateChecksum(body)
    BY <1>10 DEF Shaped
  <2> QED
    BY <1>7, <2>2, <2>3
<1>12. ASSUME n = 3, flags = 0 PROVE p[6] = 253 - m
  <2>1. data = << >> /\ d = 0
    BY <1>1, <1>6, <1>12, EmptySeq
  <2>2. body = << m, 2, 0 >>
    <3>1. head \o << >> = head
      BY <1>3, ConcatEmptySeq
    <3>2. d + 2 = 2
      BY <2>1
    <3>3. head = << m, 2, 0 >>
      BY <1>2, <1>12, <3>2, Zenon
    <3> QED
      BY <1>4, <2>1, <3>1, <3>3, Zenon
  <2>3. n + 3 = 6
    BY <1>12
  <2>4. p[6] = CalculateChecksum(<< m, 2, 0 >>)
    BY <1>11, <2>2, <2>3
  <2> QED
    BY <2>4, PingChecksum
<1>13. Len(p) \in 6 .. 8 /\ d + 2 = Len(p) - 4 /\ (Len(p) = 6 => n = 3)
  BY <1>6, <1>11
<1> QED
  BY <1>8, <1>11, <1>12, <1>13 DEF IsStatus

LEMMA RepliesGenuine ==
    ASSUME NEW q, Asked(q), NEW reply \in Replies(q)
    PROVE  Genuine(reply.bytes, present) /\ (reply.bytes = << >> \/ Opens(reply.bytes, present))
<1>1. q.motor \in 1 .. 253 /\ Data(q) \in Seq(Byte) /\ Len(Data(q)) <= 2
  <2>1. Motors \subseteq 1 .. 253
    BY ReadsAssumption DEF Motors
  <2> QED
    BY <2>1 DEF Asked
<1>2. Genuine(<< >>, present)
  BY DEF Genuine
<1>3. CASE q.motor \notin present
  <2>1. reply = [bytes |-> << >>, cost |-> 0]
    BY <1>3 DEF Replies
  <2> QED
    BY <1>2, <2>1
<1>4. CASE q.motor \in present
  <2>1. PICK p : p = StatusPacket(q.motor, 0, Data(q)) /\ IsStatus(p, q.motor, 0)
    BY <1>1, StatusIs
  <2>2. PICK bad : bad = StatusPacket(q.motor, 32, Data(q)) /\ IsStatus(bad, q.motor, 32)
    BY <1>1, StatusIs
  <2>3. CASE reply = [bytes |-> p, cost |-> 0]
    <3>1. Genuine(p, present) /\ Opens(p, present)
      BY <1>1, <1>4, <2>1, WholeReply
    <3> QED
      BY <2>3, <3>1
  <2>4. CASE reply = [bytes |-> bad, cost |-> 1]
    <3>1. Genuine(bad, present) /\ Opens(bad, present)
      BY <1>1, <1>4, <2>2, WholeReply
    <3> QED
      BY <2>4, <3>1
  <2>5. ASSUME NEW b \in Damaged(p), reply = [bytes |-> b, cost |-> 1]
        PROVE  Genuine(reply.bytes, present) /\ (reply.bytes = << >> \/ Opens(reply.bytes, present))
    <3>1. Noise \subseteq Byte /\ reply.bytes = b
      BY <2>5, ReadsAssumption DEF Byte
    <3>2. ASSUME NEW i \in DOMAIN p, b = RemoveAt(p, i)
          PROVE  Genuine(b, present) /\ Opens(b, present)
      BY <1>1, <1>4, <2>1, <3>2, ByteLost
    <3>3. ASSUME NEW i \in DOMAIN p, NEW c \in Noise, b = ReplaceAt(p, i, c)
          PROVE  Genuine(b, present) /\ Opens(b, present)
      BY <1>1, <1>4, <2>1, <3>1, <3>3, ByteChanged
    <3>4. ASSUME NEW c \in Noise, b = << c >> \o p
          PROVE  Genuine(b, present) /\ Opens(b, present)
      BY <1>1, <1>4, <2>1, <3>1, <3>4, NoiseBefore
    <3>5. \/ b = << >>
          \/ \E i \in DOMAIN p : b = RemoveAt(p, i)
          \/ \E i \in DOMAIN p : \E c \in Noise : b = ReplaceAt(p, i, c)
          \/ \E c \in Noise : b = << c >> \o p
      BY Zenon DEF Damaged
    <3> QED
      BY <1>2, <3>1, <3>2, <3>3, <3>4, <3>5, Zenon
  <2> QED
    BY <1>4, <2>1, <2>2, <2>3, <2>4, <2>5, Zenon DEF Replies
<1> QED
  BY <1>3, <1>4

\* At i of bytes stands the packet that answers q, with d bytes of data: the headers, body
\* and its checksum.
Taken(q, bytes, d, i, body) ==
    /\ bytes[i] = 255 /\ bytes[i + 1] = 255
    /\ body \in Seq(Byte) /\ Len(body) = d + 3
    /\ \A j \in 1 .. d + 3 : body[j] = bytes[i + 1 + j]
    /\ body[1] = q.motor /\ body[2] = d + 2 /\ body[3] = 0
    /\ bytes[i + d + 5] = CalculateChecksum(body)
    /\ \A j \in 1 .. d : AsyncRead(q, bytes).data[j] = body[j + 3]

\* What a request takes for its answer is a packet with its motor's id, no flags, as much
\* data as it expects and the right checksum.
LEMMA PacketTakes ==
    ASSUME NEW q, q.motor \in 1 .. 253, NEW d \in Nat, ExpectedLength(q) = d,
           NEW bytes \in Seq(Byte), AsyncRead(q, bytes).ok
    PROVE  \E i \in 1 .. Len(bytes) - (d + 5) : \E body : Taken(q, bytes, d, i, body)
<1>3. PICK l \in Nat : l = Len(bytes)
  BY LenProperties
<1>4. PICK start : start = AfterHeader(bytes)
  OBVIOUS
<1>5. PICK end : end = IF bytes[start + 1] >= 2 THEN start + 1 + bytes[start + 1] ELSE start + 2
  OBVIOUS
<1>6. AsyncRead(q, bytes) =
        IF start = 0 \/ l < start + 2 THEN Failed("Timeout", l)
        ELSE IF bytes[start + 1] < 2 THEN Failed("Io", start + 2)
        ELSE IF l < end THEN Failed("Timeout", l)
        ELSE ReadPacket(q, SubSeq(bytes, start, end), end)
  BY <1>3, <1>4, <1>5, Zenon DEF AsyncRead
<1>7. \A error, used : Failed(error, used).ok = FALSE
  BY DEF Failed
<1>8. AsyncRead(q, bytes).ok = TRUE
  <2>1. AsyncRead(q, bytes).ok \in BOOLEAN
    <3>1. AsyncRead(q, bytes) \in { Failed("Timeout", l), Failed("Io", start + 2),
                                    ReadPacket(q, SubSeq(bytes, start, end), end) }
      BY <1>6, Zenon
    <3>2. ReadPacket(q, SubSeq(bytes, start, end), end).ok \in BOOLEAN
      BY DEF ReadPacket, Failed, Ok
    <3> QED
      BY <1>7, <3>1, <3>2
  <2> QED
    BY <2>1
<1>9. /\ start # 0 /\ ~ (l < start + 2) /\ ~ (bytes[start + 1] < 2) /\ ~ (l < end)
      /\ AsyncRead(q, bytes) = ReadPacket(q, SubSeq(bytes, start, end), end)
  BY <1>6, <1>7, <1>8, Zenon
<1>10. start \in Nat /\ start >= 3 /\ bytes[start - 2] = 255 /\ bytes[start - 1] = 255
  BY <1>4, <1>9, AfterHeaderIs
<1>11. \A i \in start .. l : bytes[i] \in Byte
  BY <1>3, <1>10, ElementOfSeq
<1>12. PICK n \in Byte : n = bytes[start + 1]
  <2>1. start + 1 \in start .. l
    BY <1>9, <1>10
  <2> QED
    BY <1>11, <2>1
<1>13. n \in Nat /\ n >= 2 /\ end = start + 1 + n /\ end <= l /\ end \in Nat
  <2>1. n \in 0 .. 255
    BY DEF Byte
  <2>2. ~ (n < 2)
    BY <1>9, <1>12
  <2> QED
    BY <1>3, <1>5, <1>9, <1>10, <1>12, <2>1, <2>2
<1>14. PICK packet : packet = SubSeq(bytes, start, end)
  OBVIOUS
<1>15. packet \in Seq(Byte) /\ Len(packet) = n + 2 /\ \A i \in 1 .. n + 2 : packet[i] = bytes[start + i - 1]
  <2>1. \A i \in start .. end : bytes[i] \in Byte
    BY <1>10, <1>11, <1>13
  <2>2. /\ packet \in Seq(Byte) /\ Len(packet) = IF start <= end THEN end - start + 1 ELSE 0
        /\ \A i \in 1 .. end - start + 1 : packet[i] = bytes[start + i - 1]
    BY <1>10, <1>13, <1>14, <2>1, SubSeqProperties
  <2>3. end - start + 1 = n + 2 /\ start <= end
    BY <1>10, <1>13
  <2> QED
    BY <2>2, <2>3
<1>16. AsyncRead(q, bytes) = ReadPacket(q, packet, end) /\ ReadPacket(q, packet, end).ok = TRUE
  BY <1>8, <1>9, <1>14
<1>17. PICK data : data = SubSeq(packet, 4, n + 1)
  OBVIOUS
<1>18. /\ IdRight(q, packet) /\ ChecksumRight(packet) /\ ~ FromBits(packet[3])
       /\ Len(data) = ExpectedLength(q) /\ AsyncRead(q, bytes) = Ok(data, end)
  <2>1. Len(packet) - 1 = n + 1
    BY <1>13, <1>15
  <2> QED
    BY <1>7, <1>16, <1>17, <2>1, Zenon DEF ReadPacket
<1>19. n = d + 2 /\ \A j \in 1 .. d : data[j] = packet[j + 3]
  <2>1. PICK last \in Int : last = n + 1
    BY <1>13
  <2>2. \A i \in 4 .. last : packet[i] \in Byte
    <3>1. \A i \in 4 .. last : i \in 1 .. Len(packet)
      BY <1>13, <1>15, <2>1
    <3> QED
      BY <1>15, <3>1, ElementOfSeq
  <2>3. /\ Len(data) = IF 4 <= last THEN last - 4 + 1 ELSE 0
        /\ \A j \in 1 .. last - 4 + 1 : data[j] = packet[4 + j - 1]
    BY <1>17, <2>1, <2>2, SubSeqProperties
  <2>4. n = d + 2
    <3>1. d = IF 4 <= last THEN last - 4 + 1 ELSE 0
      BY <1>18, <2>3
    <3> QED
      BY <1>13, <2>1, <3>1
  <2>5. \A j \in 1 .. d : j \in 1 .. last - 4 + 1 /\ 4 + j - 1 = j + 3
    BY <2>1, <2>4
  <2> QED
    BY <2>3, <2>4, <2>5
<1>20. PICK body : body = SubSeq(packet, 1, n + 1)
  OBVIOUS
<1>21. body \in Seq(Byte) /\ Len(body) = d + 3 /\ \A j \in 1 .. d + 3 : body[j] = packet[j]
  <2>1. PICK last \in Nat : last = d + 3 /\ last = n + 1
    BY <1>19
  <2>2. \A i \in 1 .. last : packet[i] \in Byte
    <3>1. \A i \in 1 .. last : i \in 1 .. Len(packet)
      BY <1>13, <1>15, <2>1
    <3> QED
      BY <1>15, <3>1, ElementOfSeq
  <2>3. /\ body \in Seq(Byte) /\ Len(body) = IF 1 <= last THEN last - 1 + 1 ELSE 0
        /\ \A j \in 1 .. last - 1 + 1 : body[j] = packet[1 + j - 1]
    BY <1>20, <2>1, <2>2, SubSeqProperties
  <2>4. \A j \in 1 .. last : j \in 1 .. last - 1 + 1 /\ 1 + j - 1 = j
    OBVIOUS
  <2>5. 1 <= last /\ last - 1 + 1 = last
    BY <2>1
  <2> QED
    BY <2>1, <2>3, <2>4, <2>5
<1>22. PICK i \in 1 .. l - (d + 5) : start = i + 2
  <2>1. start - 2 \in 1 .. l - (d + 5) /\ start = (start - 2) + 2
    BY <1>3, <1>10, <1>13, <1>19
  <2> QED
    BY <2>1
<1>23. bytes[i] = 255 /\ bytes[i + 1] = 255
  <2>1. start - 2 = i /\ start - 1 = i + 1
    BY <1>22
  <2> QED
    BY <1>10, <2>1
<1>24. ASSUME NEW j \in 1 .. d + 4 PROVE packet[j] = bytes[i + 1 + j]
  <2>1. j \in 1 .. n + 2 /\ start + j - 1 = i + 1 + j
    BY <1>19, <1>22
  <2> QED
    BY <1>15, <2>1
<1>25. ASSUME NEW j \in 1 .. d + 3 PROVE body[j] = bytes[i + 1 + j]
  <2>1. j \in 1 .. d + 4
    OBVIOUS
  <2> QED
    BY <1>21, <1>24, <2>1
<1>26. body[1] = q.motor /\ body[2] = d + 2 /\ body[3] = 0
  <2>1. 1 \in 1 .. d + 3 /\ 2 \in 1 .. d + 3 /\ 3 \in 1 .. d + 3 /\ 2 \in 1 .. d + 4
    OBVIOUS
  <2>2. body[1] = packet[1] /\ body[2] = packet[2] /\ body[3] = packet[3]
    BY <1>21, <2>1
  <2>3. packet[1] = q.motor
    <3>1. q.motor # BroadcastId
      <4>1. PICK m \in 1 .. 253 : m = q.motor
        OBVIOUS
      <4>2. m # BroadcastId
        BY DEF BroadcastId
      <4> QED
        BY <4>1, <4>2
    <3> QED
      BY <1>18, <3>1 DEF IdRight
  <2>4. packet[2] = d + 2
    <3>1. packet[2] = bytes[i + 1 + 2]
      BY <1>24, <2>1
    <3>2. i + 1 + 2 = start + 1
      BY <1>22
    <3> QED
      BY <1>12, <1>19, <3>1, <3>2
  <2>5. packet[3] = 0
    BY <1>18 DEF FromBits
  <2> QED
    BY <2>2, <2>3, <2>4, <2>5
<1>27. bytes[i + d + 5] = CalculateChecksum(body)
  <2>1. Len(packet) = d + 4 /\ Len(packet) - 1 = n + 1 /\ d + 4 \in 1 .. d + 4
        /\ i + 1 + (d + 4) = i + d + 5
    BY <1>15, <1>19
  <2>2. Last(packet) = packet[d + 4]
    BY <2>1 DEF Last
  <2>3. Front(packet) = body
    BY <1>20, <2>1 DEF Front
  <2>4. packet[d + 4] = CalculateChecksum(body)
    BY <1>18, <2>2, <2>3 DEF ChecksumRight
  <2>5. packet[d + 4] = bytes[i + 1 + (d + 4)]
    BY <1>24, <2>1
  <2> QED
    BY <2>1, <2>4, <2>5
<1>28. ASSUME NEW j \in 1 .. d PROVE AsyncRead(q, bytes).data[j] = body[j + 3]
  <2>1. AsyncRead(q, bytes).data = data
    BY <1>18 DEF Ok
  <2>2. j + 3 \in 1 .. d + 3
    OBVIOUS
  <2>3. body[j + 3] = packet[j + 3] /\ data[j] = packet[j + 3]
    BY <1>19, <1>21, <2>2
  <2> QED
    BY <2>1, <2>3
<1>29. Taken(q, bytes, d, i, body)
  BY <1>21, <1>23, <1>25, <1>26, <1>27, <1>28, Zenon DEF Taken
<1> QED
  BY <1>3, <1>29

\* What a ping takes for the answer of motor m is one.
LEMMA PingTakes ==
    ASSUME NEW m \in 1 .. 253, NEW bytes \in Seq(Byte), AsyncRead(Bare("Ping", m), bytes).ok
    PROVE  \E i \in 1 .. Len(bytes) - 5 : Answers(bytes, i) /\ bytes[i + 2] = m
<1>1. PICK q : q = Bare("Ping", m)
  OBVIOUS
<1>2. q.motor = m /\ ExpectedLength(q) = 0
  <2>1. q.motor = m /\ q.cmd = "Ping"
    BY <1>1 DEF Bare, Request
  <2> QED
    BY <2>1 DEF ExpectedLength
<1>3. PICK i \in 1 .. Len(bytes) - 5 : \E body : Taken(q, bytes, 0, i, body)
  <2>1. AsyncRead(q, bytes).ok /\ 0 \in Nat /\ 0 + 5 = 5
    BY <1>1
  <2>2. \E i \in 1 .. Len(bytes) - (0 + 5) : \E body : Taken(q, bytes, 0, i, body)
    BY <1>2, <2>1, PacketTakes
  <2> QED
    BY <2>1, <2>2
<1>4. PICK body : Taken(q, bytes, 0, i, body)
  BY <1>3
<1>5. /\ body \in Seq(Byte) /\ Len(body) = 3
      /\ body[1] = m /\ body[2] = 2 /\ body[3] = 0
      /\ bytes[i] = 255 /\ bytes[i + 1] = 255 /\ bytes[i + 5] = CalculateChecksum(body)
  <2>1. /\ body \in Seq(Byte) /\ Len(body) = 0 + 3
        /\ body[1] = q.motor /\ body[2] = 0 + 2 /\ body[3] = 0
        /\ bytes[i] = 255 /\ bytes[i + 1] = 255 /\ bytes[i + 0 + 5] = CalculateChecksum(body)
    BY <1>4 DEF Taken
  <2>2. 0 + 3 = 3 /\ 0 + 2 = 2 /\ i + 0 + 5 = i + 5
    OBVIOUS
  <2> QED
    BY <1>2, <2>1, <2>2
<1>6. bytes[i + 2] = m /\ bytes[i + 3] = 2 /\ bytes[i + 4] = 0
  <2>1. \A j \in 1 .. 0 + 3 : body[j] = bytes[i + 1 + j]
    BY <1>4 DEF Taken
  <2>2. 1 \in 1 .. 0 + 3 /\ 2 \in 1 .. 0 + 3 /\ 3 \in 1 .. 0 + 3
    OBVIOUS
  <2>3. i + 1 + 1 = i + 2 /\ i + 1 + 2 = i + 3 /\ i + 1 + 3 = i + 4
    OBVIOUS
  <2>4. body[1] = bytes[i + 1 + 1] /\ body[2] = bytes[i + 1 + 2] /\ body[3] = bytes[i + 1 + 3]
    BY <2>1, <2>2
  <2> QED
    BY <1>5, <2>3, <2>4
<1>7. body = << m, 2, 0 >>
  <2>1. << m, 2, 0 >> \in Seq(Byte) /\ Len(<< m, 2, 0 >>) = 3
    <3>1. m \in Byte /\ 2 \in Byte /\ 0 \in Byte
      BY DEF Byte
    <3> QED
      BY <3>1, Three
  <2>2. \A j \in 1 .. 3 : body[j] = << m, 2, 0 >>[j]
    BY <1>5
  <2> QED
    BY <1>5, <2>1, <2>2, SeqEqual
<1>8. bytes[i + 5] = 253 - m
  <2>1. bytes[i + 5] = CalculateChecksum(<< m, 2, 0 >>)
    BY <1>5, <1>7, Zenon
  <2> QED
    BY <2>1, PingChecksum
<1>9. Answers(bytes, i)
  <2>1. bytes[i + 2] \in 1 .. 253 /\ bytes[i + 5] = 253 - bytes[i + 2]
    BY <1>6, <1>8
  <2> QED
    BY <1>5, <1>6, <2>1, Zenon DEF Answers, Begins
<1> QED
  BY <1>6, <1>9

\* What is on the line was sent by motors that are there, and only those are reported.
FoundPresent == Genuine(line, present) /\ \A i \in DOMAIN found : found[i] \in present

LEMMA LineGenuine ==
    ASSUME NEW q, Asked(q), line \in Seq(Byte), faults \in 0 .. MaxFaults, Genuine(line, present),
           NEW a \in Arrivals(q), Exchange(q, a, Outcome(q, a))
    PROVE  /\ Genuine(a.bytes, present) /\ Genuine(line', present)
           /\ a.bytes \in Seq(Byte) /\ a.n \in 0 .. Len(a.bytes)
<1>1. IsArrival(a)
  BY ArrivalsAre
<1>2. PICK s \in Seq(Byte) : s = a.bytes /\ a.n \in 0 .. Len(s)
  BY <1>1 DEF IsArrival
<1>3. PICK l \in Nat : l = Len(s)
  BY LenProperties
<1>4. Genuine(s, present)
  <2>1. PICK reply \in Replies(q) : s = line \o reply.bytes
    BY <1>2, ArrivalOf, Zenon
  <2>2. PICK r \in Seq(Byte) : r = reply.bytes
    BY RepliesBytes
  <2>3. Genuine(r, present) /\ (r = << >> \/ Opens(r, present))
    BY <2>2, RepliesGenuine
  <2>4. Genuine(line \o r, present)
    BY <2>3, JoinGenuine
  <2> QED
    BY <2>1, <2>2, <2>4
<1>5. PICK n \in 0 .. l : n = a.n
  BY <1>2, <1>3
<1>6. PICK t \in Seq(Byte) : t = SubSeq(s, 1, n) /\ Len(t) = n
  <2>1. \A i \in 1 .. n : s[i] \in Byte
    BY <1>3, ElementOfSeq
  <2>2. PICK t : t = SubSeq(s, 1, n)
    OBVIOUS
  <2>3. t \in Seq(Byte) /\ Len(t) = IF 1 <= n THEN n - 1 + 1 ELSE 0
    BY <2>1, <2>2, SubSeqProperties
  <2>4. Len(t) = n
    BY <2>3
  <2> QED
    BY <2>2, <2>3, <2>4
<1>7. PICK used : used = Outcome(q, a).used
  OBVIOUS
<1>8. used \in 0 .. Len(s)
  <2>1. Outcome(q, a) = AsyncRead(q, t)
    BY <1>2, <1>5, <1>6, Zenon DEF Outcome
  <2>2. AsyncRead(q, t).used \in 0 .. n
    BY <1>6, ReadUses
  <2> QED
    BY <1>3, <1>7, <2>1, <2>2
<1>9. line' = SubSeq(s, used + 1, Len(s))
  BY <1>2, <1>7, Zenon DEF Exchange
<1>10. Genuine(line', present)
  BY <1>4, <1>8, <1>9, RestGenuine
<1> QED
  BY <1>2, <1>4, <1>10

LEMMA RequestFound ==
    ASSUME IInv, FoundPresent, NEW q, Asked(q), NEW a \in Arrivals(q),
           Exchange(q, a, Outcome(q, a)), Free
    PROVE  FoundPresent'
<1>1. line \in Seq(Byte) /\ faults \in 0 .. MaxFaults
  BY DEF IInv, TypeOK
<1>2. present' = present /\ found' = found
  BY DEF Free, scanVars
<1>3. Genuine(line', present)
  BY <1>1, LineGenuine DEF FoundPresent
<1> QED
  BY <1>2, <1>3 DEF FoundPresent

LEMMA ReadFound ==
    ASSUME IInv, FoundPresent, NEW kind, NEW m \in Motors,
           NEW register, Address[register] \in 0 .. 69, NEW length \in 1 .. 2,
           ReadRegister(kind, m, register, length)
    PROVE  FoundPresent'
<1>1. PICK q : q = Read(m, Address[register], length)
  OBVIOUS
<1>2. Asked(q)
  BY <1>1, AskedRead
<1>3. PICK a \in Arrivals(q) : Exchange(q, a, Outcome(q, a))
  BY <1>1, Zenon DEF ReadRegister
<1>4. Free
  BY DEF ReadRegister
<1> QED
  BY <1>2, <1>3, <1>4, RequestFound

LEMMA WriteFound ==
    ASSUME IInv, FoundPresent, NEW cmd \in {"Write", "RegWrite"}, NEW m \in Motors,
           NEW n \in Lengths, WriteLong(cmd, m, n)
    PROVE  FoundPresent'
<1>1. PICK q : q = Write(cmd, m, 40, Zeros(n))
  OBVIOUS
<1>2. Asked(q)
  BY <1>1, AskedWrite
<1>3. PICK a \in Arrivals(q) : Exchange(q, a, Outcome(q, a))
  BY <1>1, Zenon DEF WriteLong
<1>4. Free
  BY DEF WriteLong
<1> QED
  BY <1>2, <1>3, <1>4, RequestFound

LEMMA ScanNextFound ==
    ASSUME IInv, FoundPresent, ScanNext
    PROVE  FoundPresent'
<1>0. /\ present \subseteq Motors /\ line \in Seq(Byte) /\ faults \in 0 .. MaxFaults
      /\ scanning \in {0} \cup Motors /\ found \in Seq(Motors)
  BY DEF IInv, TypeOK
<1>1. scanning \in Motors /\ present' = present
  BY <1>0 DEF ScanNext
<1>2. PICK q : q = Bare("Ping", scanning)
  OBVIOUS
<1>3. Asked(q)
  BY <1>1, <1>2, AskedBare
<1>4. PICK a \in Arrivals(q) : Exchange(q, a, Outcome(q, a)) /\ Scanned(Outcome(q, a))
  BY <1>2, Zenon DEF ScanNext
<1>5. /\ Genuine(a.bytes, present) /\ Genuine(line', present)
      /\ a.bytes \in Seq(Byte) /\ a.n \in 0 .. Len(a.bytes)
  BY <1>0, <1>3, <1>4, LineGenuine DEF FoundPresent
<1>6. ASSUME Outcome(q, a).ok PROVE scanning \in present
  <2>1. scanning \in 1 .. 253
    BY <1>1, ReadsAssumption DEF Motors
  <2>2. PICK s \in Seq(Byte) : s = a.bytes
    BY <1>5
  <2>3. PICK l \in Nat : l = Len(s)
    BY LenProperties
  <2>4. PICK n \in 0 .. l : n = a.n
    BY <1>5, <2>2, <2>3
  <2>5. \A i \in 1 .. n : s[i] \in Byte
    BY <2>3, ElementOfSeq
  <2>6. PICK t \in Seq(Byte) : t = SubSeq(s, 1, n) /\ Len(t) = n /\ \A i \in 1 .. n : t[i] = s[i]
    <3>1. PICK t : t = SubSeq(s, 1, n)
      OBVIOUS
    <3>2. /\ t \in Seq(Byte) /\ Len(t) = IF 1 <= n THEN n - 1 + 1 ELSE 0
          /\ \A i \in 1 .. n - 1 + 1 : t[i] = s[1 + i - 1]
      BY <2>5, <3>1, SubSeqProperties
    <3>3. \A i \in 1 .. n : i \in 1 .. n - 1 + 1 /\ 1 + i - 1 = i
      OBVIOUS
    <3>4. Len(t) = n
      BY <3>2
    <3> QED
      BY <3>1, <3>2, <3>3, <3>4
  <2>7. AsyncRead(Bare("Ping", scanning), t).ok
    BY <1>2, <1>6, <2>2, <2>4, <2>6, Zenon DEF Outcome
  <2>8. PICK i \in 1 .. n - 5 : Answers(t, i) /\ t[i + 2] = scanning
    BY <2>1, <2>6, <2>7, PingTakes
  <2>9. i \in 1 .. l - 5 /\ Answers(s, i) /\ s[i + 2] = scanning
    <3>1. /\ i \in 1 .. n /\ i + 1 \in 1 .. n /\ i + 2 \in 1 .. n /\ i + 3 \in 1 .. n
          /\ i + 4 \in 1 .. n /\ i + 5 \in 1 .. n /\ i \in 1 .. l - 5
      OBVIOUS
    <3>2. /\ s[i] = t[i] /\ s[i + 1] = t[i + 1] /\ s[i + 2] = t[i + 2] /\ s[i + 3] = t[i + 3]
          /\ s[i + 4] = t[i + 4] /\ s[i + 5] = t[i + 5]
      BY <2>6, <3>1
    <3>3. Answers(s, i)
      BY <2>8, <3>2 DEF Answers, Begins
    <3> QED
      BY <2>8, <3>1, <3>2, <3>3
  <2> QED
    BY <1>5, <2>2, <2>3, <2>9 DEF Genuine
<1>7. CASE Outcome(q, a).ok
  <2>1. found' = Append(found, scanning)
    BY <1>4, <1>7 DEF Scanned
  <2>2. scanning \in present
    BY <1>6, <1>7
  <2>3. \A i \in DOMAIN found' : found'[i] \in present
    <3>1. PICK n \in Nat : n = Len(found) /\ DOMAIN found = 1 .. n
      BY <1>0, LenProperties
    <3>2. PICK s : s = Append(found, scanning)
      OBVIOUS
    <3>3. /\ DOMAIN s = 1 .. n + 1 /\ s[n + 1] = scanning
          /\ \A i \in 1 .. n : s[i] = found[i]
      <4>1. /\ s \in Seq(Motors) /\ Len(s) = n + 1 /\ s[n + 1] = scanning
            /\ \A i \in 1 .. n : s[i] = found[i]
        BY <1>0, <1>1, <3>1, <3>2, AppendProperties
      <4> QED
        BY <4>1, LenProperties
    <3>4. \A i \in 1 .. n : found[i] \in present
      BY <3>1 DEF FoundPresent
    <3>5. ASSUME NEW i \in 1 .. n + 1 PROVE s[i] \in present
      <4>1. i \in 1 .. n \/ i = n + 1
        OBVIOUS
      <4> QED
        BY <2>2, <3>3, <3>4, <4>1
    <3> QED
      BY <2>1, <3>2, <3>3, <3>5
  <2> QED
    BY <1>1, <1>5, <2>3 DEF FoundPresent
<1>8. CASE ~ Outcome(q, a).ok
  <2>1. found' = found
    BY <1>4, <1>8 DEF Scanned
  <2> QED
    BY <1>1, <1>5, <2>1 DEF FoundPresent
<1> QED
  BY <1>7, <1>8

LEMMA FoundStep == IInv /\ FoundPresent /\ [Next]_vars => FoundPresent'
<1> SUFFICES ASSUME IInv, FoundPresent, [Next]_vars PROVE FoundPresent'
  OBVIOUS
<1>1. /\ Address["PresentPosition"] \in 0 .. 69 /\ Address["PresentSpeed"] \in 0 .. 69
      /\ Address["PresentCurrent"] \in 0 .. 69 /\ Address["PresentLoad"] \in 0 .. 69
      /\ Address["PresentVoltage"] \in 0 .. 69 /\ Address["PresentTemperature"] \in 0 .. 69
      /\ Address["Moving"] \in 0 .. 69
  BY Addresses, Registers
<1>2. 1 \in 1 .. 2 /\ 2 \in 1 .. 2
  OBVIOUS
<1>3. line \in Seq(Byte)
  BY DEF IInv, TypeOK
<1>4. ASSUME NEW m \in Motors, ReadPosition(m) PROVE FoundPresent'
  BY <1>1, <1>2, <1>4, ReadFound DEF ReadPosition
<1>5. ASSUME NEW m \in Motors, ReadVelocity(m) PROVE FoundPresent'
  BY <1>1, <1>2, <1>5, ReadFound DEF ReadVelocity
<1>6. ASSUME NEW m \in Motors, ReadCurrent(m) PROVE FoundPresent'
  BY <1>1, <1>2, <1>6, ReadFound DEF ReadCurrent
<1>7. ASSUME NEW m \in Motors, ReadLoad(m) PROVE FoundPresent'
  BY <1>1, <1>2, <1>7, ReadFound DEF ReadLoad
<1>8. ASSUME NEW m \in Motors, ReadVoltage(m) PROVE FoundPresent'
  BY <1>1, <1>2, <1>8, ReadFound DEF ReadVoltage
<1>9. ASSUME NEW m \in Motors, ReadTemperature(m) PROVE FoundPresent'
  BY <1>1, <1>2, <1>9, ReadFound DEF ReadTemperature
<1>10. ASSUME NEW m \in Motors, IsMoving(m) PROVE FoundPresent'
  BY <1>1, <1>2, <1>10, ReadFound DEF IsMoving
<1>11. ASSUME NEW cmd \in {"Write", "RegWrite"}, NEW m \in Motors, NEW n \in Lengths,
              WriteLong(cmd, m, n)
       PROVE  FoundPresent'
  BY <1>11, WriteFound
<1>12. ASSUME UNCHANGED << present, line, found >> PROVE FoundPresent'
  BY <1>12 DEF FoundPresent
<1>13. ASSUME NEW m \in Motors, DecodeState(m) PROVE FoundPresent'
  BY <1>12, <1>13 DEF DecodeState, Offline, Free, scanVars
<1>14. CASE Normalize
  BY <1>12, <1>14 DEF Normalize, Offline, Free, scanVars
<1>15. ASSUME NEW n \in Lengths, SyncWriteAll(n) PROVE FoundPresent'
  BY <1>12, <1>15 DEF SyncWriteAll, Free, scanVars
<1>16. CASE Drain
  <2>1. present' = present /\ found' = found
    BY <1>16 DEF Drain, Free, scanVars
  <2>2. PICK n \in 0 .. Len(line) : line' = SubSeq(line, n + 1, Len(line))
    BY <1>16 DEF Drain
  <2>3. Genuine(line', present)
    BY <1>3, <2>2, RestGenuine DEF FoundPresent
  <2> QED
    BY <2>1, <2>3 DEF FoundPresent
<1>17. CASE BeginScan
  BY <1>17 DEF BeginScan, FoundPresent
<1>18. CASE UNCHANGED vars
  BY <1>12, <1>18 DEF vars, scanVars
<1> QED
  BY <1>4, <1>5, <1>6, <1>7, <1>8, <1>9, <1>10, <1>11, <1>13, <1>14, <1>15, <1>16, <1>17,
     <1>18, ScanNextFound, Zenon DEF Next

\* A scan reports no motor that is not there, whatever arrives: late, cut or changed
\* replies, noise, and what earlier calls left on the line.  One that starts with an empty
\* line and meets no fault finds every motor, once and in order (driver.rs 285-294).
THEOREM ScanFindsMotorsHolds == Spec => []ScanFindsMotors
<1>1. Init => FoundPresent
  BY DEF Init, FoundPresent, Genuine
<1>2. IInv /\ FoundPresent /\ [Next]_vars => FoundPresent'
  BY FoundStep
<1>3. FoundPresent /\ CleanScanFindsAll => ScanFindsMotors
  BY DEF FoundPresent, CleanScanFindsAll, ScanFindsMotors
<1> QED
  BY <1>1, <1>2, <1>3, Invariance, CleanScanFindsAllHolds, PTL DEF Spec

(***************************************************************************)
(* What read_load returns is in a register.  A read of a word takes eight  *)
(* bytes for an answer: two headers, id, length 4, no flags, the word and  *)
(* the checksum.                                                           *)
(***************************************************************************)
WordChecksum(m, low, high) == 255 - ((m + 4 + low + high) % 256)

\* At i of s a servo's answer with a word begins: it has come as far as the flags.
BeginsWord(s, i) ==
    /\ s[i] = 255 /\ s[i + 1] = 255 /\ s[i + 2] \in 1 .. 253
    /\ s[i + 3] = 4 /\ s[i + 4] = 0

\* What LoadIsRead allows for the two bytes of an answer of m.
Sent(m, a, b) ==
    /\ m \in Motors
    /\ \E r \in TwoByteRegisters :
          LET low == Rams[m][Address[r] + 1]
              high == Rams[m][Address[r] + 2]
          IN  \/ a = low /\ b = high
              \/ low \in Openings /\ a = high
              \/ high \in Openings /\ a = low

\* Every answer with a word in s has sent it; one that is there but for its last byte has,
\* if what a reply can begin with is its checksum; and none ends in its word.
Sound(s) ==
    /\ \A i \in 1 .. Len(s) - 7 :
          BeginsWord(s, i) /\ s[i + 7] = WordChecksum(s[i + 2], s[i + 5], s[i + 6])
            => Sent(s[i + 2], s[i + 5], s[i + 6])
    /\ \A i \in 1 .. Len(s) - 6 :
          i = Len(s) - 6 /\ BeginsWord(s, i) =>
            \A x \in Openings : x = WordChecksum(s[i + 2], s[i + 5], s[i + 6])
                                  => Sent(s[i + 2], s[i + 5], s[i + 6])
    /\ \A i \in 1 .. Len(s) - 4 : i >= Len(s) - 5 => ~ BeginsWord(s, i)

\* What r can complete that stands before it.
OpensWord(r) ==
    /\ Len(r) >= 5 /\ r[1] \in Openings
    /\ r[1] = 255 \/ r[2] = 255
    /\ r[1] = 255 /\ r[2] \in 1 .. 253 /\ r[3] = 4 /\ r[4] = 0 =>
          /\ Len(r) >= 7
          /\ r[7] = WordChecksum(r[2], r[5], r[6]) => Sent(r[2], r[5], r[6])

\* No noise is the length byte of an answer with a word, or its clean flags.
QuietNoise == Noise \cap {0, 4} = {}

LEMMA OpeningsAre ==
    ASSUME QuietNoise
    PROVE  0 \notin Openings /\ 4 \notin Openings /\ 255 \in Openings /\ Openings \subseteq Byte
BY ReadsAssumption DEF QuietNoise, Openings, Header, Byte

LEMMA NotHeader == 4 # 255 /\ 0 # 255 /\ \A id \in 1 .. 253 : id # 255
OBVIOUS

LEMMA JoinSound ==
    ASSUME QuietNoise, NEW s \in Seq(Byte), NEW r \in Seq(Byte),
           Sound(s), Sound(r), r = << >> \/ OpensWord(r)
    PROVE  Sound(s \o r)
<1>1. CASE r = << >>
  <2>1. s \o r = s
    BY <1>1, ConcatEmptySeq
  <2> QED
    BY <2>1
<1>2. CASE OpensWord(r)
  <2>1. PICK m \in Nat, n \in Nat : m = Len(s) /\ n = Len(r)
    BY LenProperties
  <2>2. PICK t : t = s \o r
    OBVIOUS
  <2>3. IsJoin(Byte, t, s, m, r, n)
    BY <2>1, <2>2, Joined
  <2>4. /\ Len(t) = m + n /\ n >= 5
        /\ \A i \in 1 .. m : t[i] = s[i]
        /\ \A i \in 1 .. n : t[m + i] = r[i]
    BY <1>2, <2>1, <2>3 DEF IsJoin, OpensWord
  <2>5. /\ t[m + 1] = r[1] /\ t[m + 2] = r[2] /\ t[m + 3] = r[3] /\ t[m + 4] = r[4]
        /\ t[m + 5] = r[5]
    <3>1. 1 \in 1 .. n /\ 2 \in 1 .. n /\ 3 \in 1 .. n /\ 4 \in 1 .. n /\ 5 \in 1 .. n
      BY <2>4
    <3> QED
      BY <2>4, <3>1
  <2>6. ASSUME NEW i \in 1 .. m, i + 4 <= m, BeginsWord(t, i)
        PROVE  /\ BeginsWord(s, i) /\ t[i + 2] = s[i + 2]
               /\ i + 5 <= m => t[i + 5] = s[i + 5]
               /\ i + 6 <= m => t[i + 6] = s[i + 6]
               /\ i + 7 <= m => t[i + 7] = s[i + 7]
    <3>1. /\ t[i] = s[i] /\ t[i + 1] = s[i + 1] /\ t[i + 2] = s[i + 2]
          /\ t[i + 3] = s[i + 3] /\ t[i + 4] = s[i + 4]
          /\ i + 5 <= m => t[i + 5] = s[i + 5]
          /\ i + 6 <= m => t[i + 6] = s[i + 6]
          /\ i + 7 <= m => t[i + 7] = s[i + 7]
      BY <2>4, <2>6
    <3> QED
      BY <2>6, <3>1, Zenon DEF BeginsWord
  <2>7. ASSUME NEW i \in 1 .. m, m < i + 4, BeginsWord(t, i)
        PROVE  /\ i = m /\ r[1] = 255 /\ r[2] \in 1 .. 253 /\ r[3] = 4 /\ r[4] = 0 /\ n >= 7
    <3>1. /\ t[i] = 255 /\ t[i + 1] = 255 /\ t[i + 2] \in 1 .. 253 /\ t[i + 3] = 4 /\ t[i + 4] = 0
      BY <2>7, Zenon DEF BeginsWord
    <3>2. r[1] # 0 /\ r[1] # 4 /\ (r[1] = 255 \/ r[2] = 255)
      <4>1. r[1] \in Openings /\ (r[1] = 255 \/ r[2] = 255)
        BY <1>2, Zenon DEF OpensWord
      <4>2. 0 \notin Openings /\ 4 \notin Openings
        BY OpeningsAre
      <4> QED
        BY <4>1, <4>2
    <3>3. ASSUME i + 3 = m PROVE FALSE
      <4>1. t[i + 4] = t[m + 1]
        BY <3>3
      <4> QED
        BY <2>5, <3>1, <3>2, <4>1
    <3>4. ASSUME i + 2 = m PROVE FALSE
      <4>1. t[i + 3] = t[m + 1]
        BY <3>4
      <4> QED
        BY <2>5, <3>1, <3>2, <4>1
    <3>5. ASSUME i + 1 = m PROVE FALSE
      <4>1. t[i + 2] = t[m + 1] /\ t[i + 3] = t[m + 2]
        BY <3>5
      <4>2. t[i + 2] # 255 /\ t[i + 3] # 255
        BY <3>1, NotHeader
      <4> QED
        BY <2>5, <3>2, <4>1, <4>2
    <3>6. i = m
      BY <2>7, <3>3, <3>4, <3>5
    <3>7. r[1] = 255 /\ r[2] \in 1 .. 253 /\ r[3] = 4 /\ r[4] = 0
      BY <2>5, <3>1, <3>6, Zenon
    <3> QED
      BY <1>2, <2>1, <3>6, <3>7, Zenon DEF OpensWord
  <2>8. ASSUME NEW k \in 1 .. n - 4, BeginsWord(t, m + k)
        PROVE  /\ BeginsWord(r, k) /\ t[m + k + 2] = r[k + 2]
               /\ k + 5 <= n => t[m + k + 5] = r[k + 5]
               /\ k + 6 <= n => t[m + k + 6] = r[k + 6]
               /\ k + 7 <= n => t[m + k + 7] = r[k + 7]
    <3>1. /\ t[m + k] = r[k] /\ t[m + (k + 1)] = r[k + 1] /\ t[m + (k + 2)] = r[k + 2]
          /\ t[m + (k + 3)] = r[k + 3] /\ t[m + (k + 4)] = r[k + 4]
          /\ k + 5 <= n => t[m + (k + 5)] = r[k + 5]
          /\ k + 6 <= n => t[m + (k + 6)] = r[k + 6]
          /\ k + 7 <= n => t[m + (k + 7)] = r[k + 7]
      BY <2>4
    <3>2. /\ m + (k + 1) = m + k + 1 /\ m + (k + 2) = m + k + 2 /\ m + (k + 3) = m + k + 3
          /\ m + (k + 4) = m + k + 4 /\ m + (k + 5) = m + k + 5 /\ m + (k + 6) = m + k + 6
          /\ m + (k + 7) = m + k + 7
      OBVIOUS
    <3>3. /\ t[m + k] = r[k] /\ t[m + k + 1] = r[k + 1] /\ t[m + k + 2] = r[k + 2]
          /\ t[m + k + 3] = r[k + 3] /\ t[m + k + 4] = r[k + 4]
      BY <3>1, <3>2
    <3>4. /\ k + 5 <= n => t[m + k + 5] = r[k + 5]
          /\ k + 6 <= n => t[m + k + 6] = r[k + 6]
          /\ k + 7 <= n => t[m + k + 7] = r[k + 7]
      BY <3>1, <3>2
    <3>5. BeginsWord(r, k)
      BY <2>8, <3>3, Zenon DEF BeginsWord
    <3> QED
      BY <3>3, <3>4, <3>5
  <2>9. ASSUME NEW i \in 1 .. m + n - 7, BeginsWord(t, i),
               t[i + 7] = WordChecksum(t[i + 2], t[i + 5], t[i + 6])
        PROVE  Sent(t[i + 2], t[i + 5], t[i + 6])
    <3>1. CASE i + 7 <= m
      <4>1. i \in 1 .. m /\ i + 4 <= m /\ i + 5 <= m /\ i + 6 <= m /\ i \in 1 .. Len(s) - 7
        BY <2>1, <3>1
      <4>2. /\ BeginsWord(s, i) /\ t[i + 2] = s[i + 2] /\ t[i + 5] = s[i + 5]
            /\ t[i + 6] = s[i + 6] /\ t[i + 7] = s[i + 7]
        BY <2>6, <2>9, <3>1, <4>1
      <4> QED
        BY <2>9, <4>1, <4>2, Zenon DEF Sound
    <3>2. CASE i + 6 = m
      <4>1. i \in 1 .. m /\ i + 4 <= m /\ i + 5 <= m /\ i + 6 <= m /\ i \in 1 .. Len(s) - 6
            /\ i = Len(s) - 6 /\ i + 7 = m + 1
        BY <2>1, <3>2
      <4>2. /\ BeginsWord(s, i) /\ t[i + 2] = s[i + 2] /\ t[i + 5] = s[i + 5]
            /\ t[i + 6] = s[i + 6] /\ t[i + 7] = r[1]
        BY <2>5, <2>6, <2>9, <4>1
      <4>3. r[1] \in Openings
        BY <1>2 DEF OpensWord
      <4> QED
        BY <2>9, <4>1, <4>2, <4>3, Zenon DEF Sound
    <3>3. CASE i + 5 = m \/ i + 4 = m
      <4>1. i \in 1 .. m /\ i + 4 <= m /\ i \in 1 .. Len(s) - 4 /\ i >= Len(s) - 5
        BY <2>1, <3>3
      <4>2. BeginsWord(s, i)
        BY <2>6, <2>9, <4>1
      <4> QED
        BY <4>1, <4>2, Zenon DEF Sound
    <3>4. CASE i <= m /\ m < i + 4
      <4>1. i \in 1 .. m /\ m < i + 4
        BY <3>4
      <4>2. i = m /\ r[1] = 255 /\ r[2] \in 1 .. 253 /\ r[3] = 4 /\ r[4] = 0 /\ n >= 7
        BY <2>7, <2>9, <4>1
      <4>3. t[i + 2] = r[2] /\ t[i + 5] = r[5] /\ t[i + 6] = r[6] /\ t[i + 7] = r[7]
        <5>1. 2 \in 1 .. n /\ 5 \in 1 .. n /\ 6 \in 1 .. n /\ 7 \in 1 .. n
          BY <4>2
        <5> QED
          BY <2>4, <4>2, <5>1
      <4> QED
        BY <1>2, <2>9, <4>2, <4>3, Zenon DEF OpensWord
    <3>5. CASE i > m
      <4>1. PICK k \in 1 .. n - 7 : i = m + k
        <5>1. i - m \in 1 .. n - 7 /\ i = m + (i - m)
          BY <3>5
        <5> QED
          BY <5>1
      <4>2. k \in 1 .. n - 4 /\ k + 5 <= n /\ k + 6 <= n /\ k + 7 <= n /\ k \in 1 .. Len(r) - 7
        BY <2>1
      <4>3. /\ BeginsWord(r, k) /\ t[i + 2] = r[k + 2] /\ t[i + 5] = r[k + 5]
            /\ t[i + 6] = r[k + 6] /\ t[i + 7] = r[k + 7]
        BY <2>8, <2>9, <4>1, <4>2
      <4> QED
        BY <2>9, <4>2, <4>3, Zenon DEF Sound
    <3> QED
      BY <3>1, <3>2, <3>3, <3>4, <3>5
  <2>10. ASSUME NEW i \in 1 .. m + n - 4, i >= m + n - 6, BeginsWord(t, i) PROVE i > m
    <3> SUFFICES ASSUME i <= m PROVE FALSE
      OBVIOUS
    <3>1. i \in 1 .. m /\ m < i + 4
      BY <2>4, <2>10
    <3>2. i = m /\ n >= 7
      BY <2>7, <2>10, <3>1
    <3> QED
      BY <2>10, <3>2
  <2>11. ASSUME NEW i \in 1 .. m + n - 6, i = m + n - 6, BeginsWord(t, i),
                NEW x \in Openings, x = WordChecksum(t[i + 2], t[i + 5], t[i + 6])
         PROVE  Sent(t[i + 2], t[i + 5], t[i + 6])
    <3>1. i > m
      <4>1. i \in 1 .. m + n - 4 /\ i >= m + n - 6
        BY <2>11
      <4> QED
        BY <2>10, <2>11, <4>1
    <3>2. PICK k \in 1 .. n - 6 : i = m + k /\ k = n - 6
      <4>1. i - m \in 1 .. n - 6 /\ i = m + (i - m) /\ i - m = n - 6
        BY <2>11, <3>1
      <4> QED
        BY <4>1
    <3>3. k \in 1 .. n - 4 /\ k + 5 <= n /\ k + 6 <= n /\ k \in 1 .. Len(r) - 6 /\ k = Len(r) - 6
      BY <2>1, <3>2
    <3>4. /\ BeginsWord(r, k) /\ t[i + 2] = r[k + 2] /\ t[i + 5] = r[k + 5]
          /\ t[i + 6] = r[k + 6]
      <4>1. BeginsWord(t, m + k)
        BY <2>11, <3>2
      <4> QED
        BY <2>8, <3>2, <3>3, <4>1, Zenon
    <3> QED
      BY <2>11, <3>3, <3>4, Zenon DEF Sound
  <2>12. ASSUME NEW i \in 1 .. m + n - 4, i >= m + n - 5, BeginsWord(t, i) PROVE FALSE
    <3>1. i > m
      <4>1. i >= m + n - 6
        BY <2>12
      <4> QED
        BY <2>10, <2>12, <4>1
    <3>2. PICK k \in 1 .. n - 4 : i = m + k
      <4>1. i - m \in 1 .. n - 4 /\ i = m + (i - m)
        BY <2>12, <3>1
      <4> QED
        BY <4>1
    <3>3. k \in 1 .. Len(r) - 4 /\ k >= Len(r) - 5
      BY <2>1, <2>12, <3>2
    <3>4. BeginsWord(r, k)
      BY <2>8, <2>12, <3>2
    <3> QED
      BY <3>3, <3>4, Zenon DEF Sound
  <2>13. Sound(t)
    <3>0. Len(t) = m + n
      BY <2>4
    <3>1. \A i \in 1 .. Len(t) - 7 :
             BeginsWord(t, i) /\ t[i + 7] = WordChecksum(t[i + 2], t[i + 5], t[i + 6])
               => Sent(t[i + 2], t[i + 5], t[i + 6])
      BY <2>9, <3>0
    <3>2. \A i \in 1 .. Len(t) - 6 :
             i = Len(t) - 6 /\ BeginsWord(t, i) =>
               \A x \in Openings : x = WordChecksum(t[i + 2], t[i + 5], t[i + 6])
                                     => Sent(t[i + 2], t[i + 5], t[i + 6])
      BY <2>11, <3>0
    <3>3. \A i \in 1 .. Len(t) - 4 : i >= Len(t) - 5 => ~ BeginsWord(t, i)
      BY <2>12, <3>0
    <3> QED
      BY <3>1, <3>2, <3>3, Zenon DEF Sound
  <2> QED
    BY <2>2, <2>13
<1> QED
  BY <1>1, <1>2

LEMMA RestSound ==
    ASSUME NEW s \in Seq(Byte), Sound(s), NEW k \in 0 .. Len(s)
    PROVE  Sound(SubSeq(s, k + 1, Len(s)))
<1>1. PICK n \in Nat : n = Len(s)
  BY LenProperties
<1>2. PICK t : t = SubSeq(s, k + 1, n)
  OBVIOUS
<1>3. Len(t) = n - k /\ \A i \in 1 .. n - k : t[i] = s[k + i]
  <2>1. \A i \in k + 1 .. n : s[i] \in Byte
    BY <1>1, ElementOfSeq
  <2>2. /\ Len(t) = IF k + 1 <= n THEN n - (k + 1) + 1 ELSE 0
        /\ \A i \in 1 .. n - (k + 1) + 1 : t[i] = s[k + 1 + i - 1]
    BY <1>1, <1>2, <2>1, SubSeqProperties
  <2>3. n - (k + 1) + 1 = n - k /\ k <= n
    BY <1>1
  <2>4. ASSUME NEW i \in 1 .. n - k PROVE t[i] = s[k + i]
    <3>1. k + 1 + i - 1 = k + i
      OBVIOUS
    <3> QED
      BY <2>2, <2>3, <3>1
  <2> QED
    BY <1>1, <2>2, <2>3, <2>4
<1>4. ASSUME NEW i \in 1 .. (n - k) - 4, BeginsWord(t, i)
      PROVE  /\ BeginsWord(s, k + i) /\ t[i + 2] = s[k + i + 2]
             /\ i + 5 <= n - k => t[i + 5] = s[k + i + 5]
             /\ i + 6 <= n - k => t[i + 6] = s[k + i + 6]
             /\ i + 7 <= n - k => t[i + 7] = s[k + i + 7]
  <2>1. /\ i \in 1 .. n - k /\ i + 1 \in 1 .. n - k /\ i + 2 \in 1 .. n - k
        /\ i + 3 \in 1 .. n - k /\ i + 4 \in 1 .. n - k
        /\ i + 5 <= n - k => i + 5 \in 1 .. n - k
        /\ i + 6 <= n - k => i + 6 \in 1 .. n - k
        /\ i + 7 <= n - k => i + 7 \in 1 .. n - k
    BY <1>1
  <2>2. /\ t[i] = s[k + i] /\ t[i + 1] = s[k + (i + 1)] /\ t[i + 2] = s[k + (i + 2)]
        /\ t[i + 3] = s[k + (i + 3)] /\ t[i + 4] = s[k + (i + 4)]
        /\ i + 5 <= n - k => t[i + 5] = s[k + (i + 5)]
        /\ i + 6 <= n - k => t[i + 6] = s[k + (i + 6)]
        /\ i + 7 <= n - k => t[i + 7] = s[k + (i + 7)]
    BY <1>3, <2>1
  <2>3. /\ k + (i + 1) = k + i + 1 /\ k + (i + 2) = k + i + 2 /\ k + (i + 3) = k + i + 3
        /\ k + (i + 4) = k + i + 4 /\ k + (i + 5) = k + i + 5 /\ k + (i + 6) = k + i + 6
        /\ k + (i + 7) = k + i + 7
    BY <1>1
  <2> QED
    BY <1>4, <2>2, <2>3, Zenon DEF BeginsWord
<1>5. ASSUME NEW i \in 1 .. (n - k) - 7, BeginsWord(t, i),
             t[i + 7] = WordChecksum(t[i + 2], t[i + 5], t[i + 6])
      PROVE  Sent(t[i + 2], t[i + 5], t[i + 6])
  <2>1. i \in 1 .. (n - k) - 4 /\ i + 5 <= n - k /\ i + 6 <= n - k /\ i + 7 <= n - k
    BY <1>1
  <2>2. /\ BeginsWord(s, k + i) /\ t[i + 2] = s[k + i + 2] /\ t[i + 5] = s[k + i + 5]
        /\ t[i + 6] = s[k + i + 6] /\ t[i + 7] = s[k + i + 7]
    BY <1>4, <1>5, <2>1
  <2>3. k + i \in 1 .. Len(s) - 7
    BY <1>1
  <2> QED
    BY <1>5, <2>2, <2>3, Zenon DEF Sound
<1>6. ASSUME NEW i \in 1 .. (n - k) - 6, i = (n - k) - 6, BeginsWord(t, i),
             NEW x \in Openings, x = WordChecksum(t[i + 2], t[i + 5], t[i + 6])
      PROVE  Sent(t[i + 2], t[i + 5], t[i + 6])
  <2>1. i \in 1 .. (n - k) - 4 /\ i + 5 <= n - k /\ i + 6 <= n - k
    BY <1>1
  <2>2. /\ BeginsWord(s, k + i) /\ t[i + 2] = s[k + i + 2] /\ t[i + 5] = s[k + i + 5]
        /\ t[i + 6] = s[k + i + 6]
    BY <1>4, <1>6, <2>1
  <2>3. k + i \in 1 .. Len(s) - 6 /\ k + i = Len(s) - 6
    BY <1>1, <1>6
  <2> QED
    BY <1>6, <2>2, <2>3, Zenon DEF Sound
<1>7. ASSUME NEW i \in 1 .. (n - k) - 4, i >= (n - k) - 5, BeginsWord(t, i) PROVE FALSE
  <2>1. BeginsWord(s, k + i)
    BY <1>4, <1>7
  <2>2. k + i \in 1 .. Len(s) - 4 /\ k + i >= Len(s) - 5
    BY <1>1, <1>7
  <2> QED
    BY <2>1, <2>2, Zenon DEF Sound
<1>8. Sound(t)
  BY <1>3, <1>5, <1>6, <1>7, Zenon DEF Sound
<1> QED
  BY <1>1, <1>2, <1>8

LEMMA SumOfFive ==
    ASSUME NEW bytes \in Seq(Nat), Len(bytes) = 5
    PROVE  Sum(bytes) = bytes[1] + bytes[2] + bytes[3] + bytes[4] + bytes[5]
<1>1. PICK S : Totals(bytes, 5, S)
  BY TotalsExist
<1>2. Sum(bytes) = S[5]
  BY <1>1, SumIsTotal
<1>3. /\ S[0] = 0 /\ \A k \in 1 .. 5 : S[k] = S[k - 1] + bytes[k]
  BY <1>1 DEF Totals
<1>4. /\ S[1] = S[0] + bytes[1] /\ S[2] = S[1] + bytes[2] /\ S[3] = S[2] + bytes[3]
      /\ S[4] = S[3] + bytes[4] /\ S[5] = S[4] + bytes[5]
  <2>1. 1 \in 1 .. 5 /\ 2 \in 1 .. 5 /\ 3 \in 1 .. 5 /\ 4 \in 1 .. 5 /\ 5 \in 1 .. 5
    OBVIOUS
  <2>2. 1 - 1 = 0 /\ 2 - 1 = 1 /\ 3 - 1 = 2 /\ 4 - 1 = 3 /\ 5 - 1 = 4
    OBVIOUS
  <2> QED
    BY <1>3, <2>1, <2>2
<1>5. \A i \in 1 .. 5 : bytes[i] \in Nat
  BY ElementOfSeq
<1> QED
  BY <1>2, <1>3, <1>4, <1>5

LEMMA WordChecksumIs ==
    ASSUME NEW m \in Nat, NEW body \in Seq(Byte), Len(body) = 5,
           body[1] = m, body[2] = 4, body[3] = 0
    PROVE  CalculateChecksum(body) = WordChecksum(m, body[4], body[5])
<1>1. body \in Seq(Nat)
  <2>1. Byte \subseteq Nat
    BY DEF Byte
  <2> QED
    BY <2>1, SeqMonotonic
<1>2. PICK a \in Nat, b \in Nat : a = body[4] /\ b = body[5]
  <2>1. 4 \in 1 .. Len(body) /\ 5 \in 1 .. Len(body)
    OBVIOUS
  <2> QED
    BY <1>1, <2>1, ElementOfSeq
<1>3. Sum(body) = body[1] + body[2] + body[3] + body[4] + body[5]
  BY <1>1, SumOfFive
<1>4. Sum(body) = m + 4 + a + b
  BY <1>2, <1>3
<1> QED
  BY <1>2, <1>4 DEF CalculateChecksum, WordChecksum

\* The two bytes of a word in a register of m.
HeldWord(m, a, b) ==
    \E r \in TwoByteRegisters :
        a = Rams[m][Address[r] + 1] /\ b = Rams[m][Address[r] + 2]

\* A servo's reply: where it has a word, that is one from a register, and so is the checksum.
IsReply(p, m, flags) ==
    /\ IsStatus(p, m, flags)
    /\ Len(p) = 8 /\ flags = 0 => /\ HeldWord(m, p[6], p[7])
                                  /\ p[8] = WordChecksum(m, p[6], p[7])

LEMMA ReplyIs ==
    ASSUME NEW m \in 1 .. 253, NEW flags \in {0, 32}, NEW data \in Seq(Byte), Len(data) <= 2,
           Len(data) = 2 => HeldWord(m, data[1], data[2])
    PROVE  IsReply(StatusPacket(m, flags, data), m, flags)
<1>1. PICK p : p = StatusPacket(m, flags, data) /\ IsStatus(p, m, flags)
  BY StatusIs
<1>2. ASSUME Len(p) = 8, flags = 0
      PROVE  HeldWord(m, p[6], p[7]) /\ p[8] = WordChecksum(m, p[6], p[7])
  <2>1. PICK d \in 0 .. 2 : d = Len(data)
    <3>1. PICK n \in Nat : n = Len(data) /\ n <= 2
      BY LenProperties
    <3>2. n \in 0 .. 2
      BY <3>1
    <3> QED
      BY <3>1, <3>2
  <2>2. PICK head : head = << m, d + 2, flags >>
    OBVIOUS
  <2>3. /\ head \in Seq(Byte) /\ Len(head) = 3
        /\ head[1] = m /\ head[2] = d + 2 /\ head[3] = flags
    <3>1. m \in Byte /\ d + 2 \in Byte /\ flags \in Byte
      <4>1. m \in 0 .. 255 /\ d + 2 \in 0 .. 255 /\ flags \in 0 .. 255
        OBVIOUS
      <4> QED
        BY <4>1 DEF Byte
    <3> QED
      BY <2>2, <3>1, Three
  <2>4. PICK body : body = head \o data
    OBVIOUS
  <2>5. IsJoin(Byte, body, head, 3, data, d)
    <3>1. 3 \in Nat /\ d \in Nat
      OBVIOUS
    <3>2. IsJoin(Byte, head \o data, head, 3, data, d)
      BY <2>1, <2>3, <3>1, Joined, Zenon
    <3> QED
      BY <2>4, <3>2, Zenon
  <2>6. PICK n \in 3 .. 5 : n = 3 + d
    OBVIOUS
  <2>7. body \in Seq(Byte) /\ Len(body) = n
    BY <2>5, <2>6 DEF IsJoin
  <2>8. p = Packet(body)
    BY <1>1, <2>1, <2>2, <2>4, Zenon DEF StatusPacket, Packet
  <2>9. Shaped(p, body, n)
    <3>1. n \in Nat
      OBVIOUS
    <3> QED
      BY <2>7, <2>8, <3>1, PacketShape, Zenon
  <2>10. n = 5 /\ d = 2
    <3>1. Len(p) = n + 3
      BY <2>9 DEF Shaped
    <3>2. n + 3 = 8
      BY <1>2, <3>1, Zenon
    <3> QED
      BY <2>6, <3>2
  <2>11. /\ body[1] = m /\ body[2] = 4 /\ body[3] = 0
         /\ body[4] = data[1] /\ body[5] = data[2]
    <3>1. /\ \A i \in 1 .. 3 : body[i] = head[i]
          /\ \A i \in 1 .. 2 : body[3 + i] = data[i]
      BY <2>5, <2>10 DEF IsJoin
    <3>2. /\ 1 \in 1 .. 3 /\ 2 \in 1 .. 3 /\ 3 \in 1 .. 3 /\ 1 \in 1 .. 2 /\ 2 \in 1 .. 2
          /\ 3 + 1 = 4 /\ 3 + 2 = 5 /\ 2 + 2 = 4
      OBVIOUS
    <3>3. /\ body[1] = head[1] /\ body[2] = head[2] /\ body[3] = head[3]
          /\ body[3 + 1] = data[1] /\ body[3 + 2] = data[2]
      BY <3>1, <3>2
    <3> QED
      BY <1>2, <2>3, <2>10, <3>2, <3>3
  <2>12. p[6] = body[4] /\ p[7] = body[5] /\ p[8] = CalculateChecksum(body)
    <3>1. /\ \A i \in 1 .. 5 : p[i + 2] = body[i]
          /\ p[5 + 3] = CalculateChecksum(body)
      BY <2>9, <2>10 DEF Shaped
    <3>2. 4 \in 1 .. 5 /\ 5 \in 1 .. 5 /\ 4 + 2 = 6 /\ 5 + 2 = 7 /\ 5 + 3 = 8
      OBVIOUS
    <3>3. p[4 + 2] = body[4] /\ p[5 + 2] = body[5]
      BY <3>1, <3>2
    <3> QED
      BY <3>1, <3>2, <3>3
  <2>13. CalculateChecksum(body) = WordChecksum(m, body[4], body[5])
    <3>1. m \in Nat /\ Len(body) = 5
      BY <2>7, <2>10
    <3> QED
      BY <2>7, <2>11, <3>1, WordChecksumIs
  <2>14. HeldWord(m, data[1], data[2])
    BY <2>1, <2>10
  <2> QED
    BY <2>11, <2>12, <2>13, <2>14
<1> QED
  BY <1>1, <1>2 DEF IsReply

\* Where an answer with a word begins at j only, that one decides.
LEMMA OneWord ==
    ASSUME NEW r, NEW l \in Nat, Len(r) = l, NEW j \in Nat,
           \A i \in 1 .. l - 4 : BeginsWord(r, i) => i = j /\ l >= j + 6,
           l = j + 6 /\ BeginsWord(r, j) =>
               \A x \in Openings : x = WordChecksum(r[j + 2], r[j + 5], r[j + 6])
                                     => Sent(r[j + 2], r[j + 5], r[j + 6]),
           BeginsWord(r, j) /\ r[j + 7] = WordChecksum(r[j + 2], r[j + 5], r[j + 6]) /\ l >= j + 7
               => Sent(r[j + 2], r[j + 5], r[j + 6])
    PROVE  Sound(r)
<1>1. ASSUME NEW i \in 1 .. l - 7, BeginsWord(r, i),
             r[i + 7] = WordChecksum(r[i + 2], r[i + 5], r[i + 6])
      PROVE  Sent(r[i + 2], r[i + 5], r[i + 6])
  <2>1. i \in 1 .. l - 4
    OBVIOUS
  <2>2. i = j
    BY <1>1, <2>1
  <2> QED
    BY <1>1, <2>2
<1>2. ASSUME NEW i \in 1 .. l - 6, i = l - 6, BeginsWord(r, i),
             NEW x \in Openings, x = WordChecksum(r[i + 2], r[i + 5], r[i + 6])
      PROVE  Sent(r[i + 2], r[i + 5], r[i + 6])
  <2>1. i \in 1 .. l - 4
    OBVIOUS
  <2>2. i = j
    BY <1>2, <2>1
  <2>3. l = j + 6
    BY <1>2, <2>2
  <2> QED
    BY <1>2, <2>2, <2>3
<1>3. ASSUME NEW i \in 1 .. l - 4, i >= l - 5, BeginsWord(r, i) PROVE FALSE
  BY <1>3
<1> QED
  BY <1>1, <1>2, <1>3 DEF Sound

LEMMA HeldIsSent ==
    ASSUME NEW m \in Motors, NEW a, NEW b, HeldWord(m, a, b)
    PROVE  Sent(m, a, b)
BY DEF HeldWord, Sent

LEMMA WholeSound ==
    ASSUME NEW m \in Motors, NEW flags \in {0, 32}, NEW p, IsReply(p, m, flags)
    PROVE  Sound(p) /\ OpensWord(p)
<1>0. PICK n \in 6 .. 8 : n = Len(p)
  BY DEF IsReply, IsStatus
<1>1. p[1] = 255 /\ p[2] = 255 /\ p[3] = m /\ p[4] = n - 4 /\ p[5] = flags
  BY <1>0 DEF IsReply, IsStatus
<1>2. p[3] # 255 /\ p[4] # 255 /\ p[2] \notin 1 .. 253
  <2>1. m \in 1 .. 253
    BY ReadsAssumption DEF Motors
  <2> QED
    BY <1>1, <2>1
<1>3. ASSUME NEW i \in 1 .. n - 4, BeginsWord(p, i)
      PROVE  i = 1 /\ n = 8 /\ flags = 0
  <2>1. p[i] = 255 /\ p[i + 1] = 255 /\ p[i + 3] = 4 /\ p[i + 4] = 0
    BY <1>3, Zenon DEF BeginsWord
  <2>2. i = 1 \/ i = 2 \/ i = 3 \/ i = 4
    OBVIOUS
  <2>3. i = 2 => i + 1 = 3
    OBVIOUS
  <2>4. i # 2 /\ i # 3 /\ i # 4
    BY <1>2, <2>1, <2>3, Zenon
  <2>5. i = 1 /\ i + 3 = 4 /\ i + 4 = 5
    BY <2>2, <2>4
  <2> QED
    BY <1>1, <2>1, <2>5
<1>4. ASSUME BeginsWord(p, 1), n >= 8 PROVE Sent(p[3], p[6], p[7])
  <2>1. n = 8 /\ 1 \in 1 .. n - 4
    BY <1>4
  <2>2. flags = 0
    BY <1>3, <1>4, <2>1
  <2>3. HeldWord(m, p[6], p[7])
    BY <1>0, <2>1, <2>2 DEF IsReply
  <2> QED
    BY <1>1, <2>3, HeldIsSent
<1>5. Sound(p)
  <2>1. n \in Nat /\ 1 \in Nat /\ 1 + 2 = 3 /\ 1 + 5 = 6 /\ 1 + 6 = 7 /\ 1 + 7 = 8
    OBVIOUS
  <2>2. \A i \in 1 .. n - 4 : BeginsWord(p, i) => i = 1 /\ n >= 1 + 6
    BY <1>3
  <2>3. n = 1 + 6 /\ BeginsWord(p, 1) => FALSE
    <3>1. 1 \in 1 .. n - 4
      OBVIOUS
    <3> QED
      BY <1>3, <3>1
  <2> QED
    BY <1>0, <1>4, <2>1, <2>2, <2>3, OneWord
<1>6. OpensWord(p)
  <2>1. Len(p) >= 5
    BY <1>0
  <2>2. 255 \in Openings
    BY DEF Openings, Header
  <2> QED
    BY <1>1, <1>2, <2>1, <2>2, Zenon DEF OpensWord
<1> QED
  BY <1>5, <1>6

\* The remainders by which checksums differ.
LEMMA SameRest ==
    ASSUME NEW x \in Int, NEW y \in Int, x % 256 = y % 256, NEW d \in -255 .. 255, x - y = d
    PROVE  d = 0
OBVIOUS

\* A byte lost from a word is the checksum that the rest asks for.
LEMMA LostIsChecksum ==
    ASSUME NEW m \in 1 .. 253, NEW low \in Byte, NEW high \in Byte, NEW c,
           c = WordChecksum(m, low, high)
    PROVE  WordChecksum(m, high, c) = low /\ WordChecksum(m, low, c) = high
<1>1. PICK s \in Nat : s = m + 4 + low + high
  BY DEF Byte
<1>2. PICK t \in 0 .. 255 : t = s % 256
  BY <1>1
<1>3. PICK k \in Int : s = 256 * k + t
  BY <1>2
<1>4. c = 255 - t
  BY <1>1, <1>2 DEF WordChecksum
<1>5. m + 4 + high + c = 256 * k + 255 - low
  BY <1>1, <1>3, <1>4 DEF Byte
<1>6. (m + 4 + high + c) % 256 = 255 - low
  BY <1>5 DEF Byte
<1>7. m + 4 + low + c = 256 * k + 255 - high
  BY <1>1, <1>3, <1>4 DEF Byte
<1>8. (m + 4 + low + c) % 256 = 255 - high
  BY <1>7 DEF Byte
<1> QED
  BY <1>6, <1>8 DEF WordChecksum, Byte

\* One changed byte changes the checksum.
LEMMA ChangeShows ==
    ASSUME NEW m \in 1 .. 253, NEW low \in Byte, NEW high \in Byte, NEW c \in Byte
    PROVE  /\ c \in 1 .. 253 /\ WordChecksum(c, low, high) = WordChecksum(m, low, high) => c = m
           /\ WordChecksum(m, c, high) = WordChecksum(m, low, high) => c = low
           /\ WordChecksum(m, low, c) = WordChecksum(m, low, high) => c = high
<1> USE DEF Byte
<1>1. PICK s \in Nat : s = m + 4 + low + high
  OBVIOUS
<1>2. WordChecksum(m, low, high) = 255 - (s % 256)
  BY <1>1 DEF WordChecksum
<1>3. ASSUME c \in 1 .. 253, WordChecksum(c, low, high) = WordChecksum(m, low, high) PROVE c = m
  <2>1. PICK u \in Nat : u = c + 4 + low + high /\ u % 256 = s % 256
    BY <1>2, <1>3 DEF WordChecksum
  <2>2. u - s = c - m /\ c - m \in -255 .. 255
    BY <1>1, <2>1
  <2>3. c - m = 0
    BY <2>1, <2>2, SameRest
  <2> QED
    BY <2>3
<1>4. ASSUME WordChecksum(m, c, high) = WordChecksum(m, low, high) PROVE c = low
  <2>1. PICK u \in Nat : u = m + 4 + c + high /\ u % 256 = s % 256
    BY <1>2, <1>4 DEF WordChecksum
  <2>2. u - s = c - low /\ c - low \in -255 .. 255
    BY <1>1, <2>1
  <2>3. c - low = 0
    BY <2>1, <2>2, SameRest
  <2> QED
    BY <2>3
<1>5. ASSUME WordChecksum(m, low, c) = WordChecksum(m, low, high) PROVE c = high
  <2>1. PICK u \in Nat : u = m + 4 + low + c /\ u % 256 = s % 256
    BY <1>2, <1>5 DEF WordChecksum
  <2>2. u - s = c - high /\ c - high \in -255 .. 255
    BY <1>1, <2>1
  <2>3. c - high = 0
    BY <2>1, <2>2, SameRest
  <2> QED
    BY <2>3
<1> QED
  BY <1>3, <1>4, <1>5

LEMMA HeldBytes ==
    ASSUME NEW m \in Motors, NEW a, NEW b, HeldWord(m, a, b)
    PROVE  a \in Byte /\ b \in Byte
<1>1. PICK r \in TwoByteRegisters :
          a = Rams[m][Address[r] + 1] /\ b = Rams[m][Address[r] + 2]
  BY DEF HeldWord
<1>2. PICK k \in 0 .. 69 : k = Address[r]
  <2>1. Address[r] \in 0 .. 69
    BY Addresses, Registers DEF TwoByteRegisters
  <2> QED
    BY <2>1
<1>3. k + 1 \in 1 .. 71 /\ k + 2 \in 1 .. 71
  OBVIOUS
<1>4. Rams[m][k + 1] \in Byte /\ Rams[m][k + 2] \in Byte
  BY <1>3, RamBytes
<1> QED
  BY <1>1, <1>2, <1>4

LEMMA LostIsSent ==
    ASSUME NEW m \in Motors, NEW low, NEW high, HeldWord(m, low, high), NEW b
    PROVE  (low \in Openings => Sent(m, high, b)) /\ (high \in Openings => Sent(m, low, b))
BY DEF HeldWord, Sent

LEMMA LossSound ==
    ASSUME QuietNoise, NEW m \in Motors, NEW p, IsReply(p, m, 0), NEW k \in DOMAIN p
    PROVE  Sound(RemoveAt(p, k)) /\ OpensWord(RemoveAt(p, k))
<1>1. PICK n \in 6 .. 8 : n = Len(p)
  BY DEF IsReply, IsStatus
<1>2. p \in Seq(Byte) /\ k \in 1 .. n
  <2>1. p \in Seq(Byte)
    BY DEF IsReply, IsStatus
  <2> QED
    BY <1>1, <2>1, LenProperties
<1>3. PICK r : r = RemoveAt(p, k)
  OBVIOUS
<1>4. Len(r) = n - 1 /\ \A i \in 1 .. n - 1 : r[i] = IF i < k THEN p[i] ELSE p[i + 1]
  <2>1. n \in Nat
    BY <1>1
  <2>2. p \in Seq(Byte) /\ k \in 1 .. n
    BY <1>2
  <2>3. \A l \in Nat : l = Len(p) => \A o \in 1 .. l :
          /\ Len(RemoveAt(p, o)) = l - 1
          /\ \A i \in 1 .. l - 1 : RemoveAt(p, o)[i] = IF i < o THEN p[i] ELSE p[i + 1]
    BY <2>2, WithoutByte, Zenon
  <2> QED
    BY <1>1, <1>3, <2>1, <2>2, <2>3, Zenon
<1>5. p[1] = 255 /\ p[2] = 255 /\ p[3] = m /\ p[4] = n - 4 /\ p[5] = 0
  BY <1>1 DEF IsReply, IsStatus
<1>6. /\ r[1] = 255
      /\ r[2] = IF k <= 2 THEN m ELSE 255
      /\ r[3] = IF k <= 3 THEN n - 4 ELSE m
      /\ r[4] = IF k <= 4 THEN 0 ELSE n - 4
      /\ r[5] = IF k <= 5 THEN p[6] ELSE 0
  <2>1. /\ 1 \in 1 .. n - 1 /\ 2 \in 1 .. n - 1 /\ 3 \in 1 .. n - 1 /\ 4 \in 1 .. n - 1
        /\ 5 \in 1 .. n - 1
    OBVIOUS
  <2>2. /\ r[1] = (IF 1 < k THEN p[1] ELSE p[2]) /\ r[2] = (IF 2 < k THEN p[2] ELSE p[3])
        /\ r[3] = (IF 3 < k THEN p[3] ELSE p[4]) /\ r[4] = (IF 4 < k THEN p[4] ELSE p[5])
        /\ r[5] = (IF 5 < k THEN p[5] ELSE p[6])
    BY <1>4, <2>1
  <2> QED
    BY <1>2, <1>5, <2>2
<1>7. m \in 1 .. 253
  BY ReadsAssumption DEF Motors
<1>8. r[3] # 255 /\ (k <= 2 => r[2] = m /\ r[2] # 255) /\ (k > 2 => r[2] = 255)
  BY <1>2, <1>6, <1>7
\* With all its bytes but one of the last four it seems to lack one.
<1>9. ASSUME NEW i \in 1 .. (n - 1) - 4, BeginsWord(r, i)
      PROVE  i = 1 /\ k > 4 /\ n = 8
  <2>1. /\ i \in 1 .. 3 /\ r[i] = 255 /\ r[i + 1] = 255 /\ r[i + 3] = 4
    BY <1>9 DEF BeginsWord
  <2>2. i = 1 /\ k > 2
    BY <1>2, <1>8, <2>1
  <2>3. r[4] = 4
    BY <2>1, <2>2
  <2> QED
    BY <1>2, <1>6, <2>2, <2>3
<1>10. PICK low, high, c : low = p[6] /\ high = p[7] /\ c = p[8]
  OBVIOUS
<1>11. ASSUME n = 8
       PROVE  /\ HeldWord(m, low, high) /\ c = WordChecksum(m, low, high)
              /\ low \in Byte /\ high \in Byte
              /\ r[5] = (IF 5 < k THEN 0 ELSE low) /\ r[6] = (IF 6 < k THEN low ELSE high)
              /\ r[7] = (IF 7 < k THEN high ELSE c)
  <2>1. HeldWord(m, low, high) /\ c = WordChecksum(m, low, high)
    BY <1>1, <1>10, <1>11 DEF IsReply
  <2>2. 5 \in 1 .. n - 1 /\ 6 \in 1 .. n - 1 /\ 7 \in 1 .. n - 1
    BY <1>11
  <2>3. /\ r[5] = (IF 5 < k THEN p[5] ELSE p[6]) /\ r[6] = (IF 6 < k THEN p[6] ELSE p[7])
        /\ r[7] = (IF 7 < k THEN p[7] ELSE p[8])
    BY <1>4, <2>2
  <2>4. low \in Byte /\ high \in Byte
    BY <2>1, HeldBytes
  <2> QED
    BY <1>5, <1>10, <2>1, <2>3, <2>4
<1>12. ASSUME BeginsWord(r, 1), NEW x \in Openings, x = WordChecksum(r[3], r[6], r[7])
       PROVE  Sent(r[3], r[6], r[7])
  <2>1. 1 \in 1 .. (n - 1) - 4
    OBVIOUS
  <2>2. k > 4 /\ n = 8 /\ r[3] = m
    BY <1>2, <1>6, <1>9, <1>12, <2>1
  <2>3. /\ HeldWord(m, low, high) /\ c = WordChecksum(m, low, high)
        /\ low \in Byte /\ high \in Byte
    BY <1>11, <2>2
  <2>4. WordChecksum(m, high, c) = low /\ WordChecksum(m, low, c) = high
    BY <1>7, <2>3, LostIsChecksum, SMTT(30)
  <2>5. x = WordChecksum(m, r[6], r[7])
    BY <1>12, <2>2
  <2>6. CASE k = 5
    <3>1. r[5] = low /\ r[6] = high /\ r[7] = c
      BY <1>11, <2>2, <2>6
    <3>2. r[5] = 0
      <4>1. r[1 + 4] = 0
        BY <1>12, Zenon DEF BeginsWord
      <4> QED
        BY <4>1
    <3>3. x = 0
      BY <2>4, <2>5, <3>1, <3>2
    <3> QED
      BY <1>12, <3>3, OpeningsAre
  <2>7. CASE k = 6
    <3>1. r[6] = high /\ r[7] = c
      BY <1>11, <2>2, <2>7
    <3>2. x = low
      BY <2>4, <2>5, <3>1
    <3> QED
      BY <1>12, <2>2, <2>3, <3>1, <3>2, LostIsSent
  <2>8. CASE k = 7
    <3>1. r[6] = low /\ r[7] = c
      BY <1>11, <2>2, <2>8
    <3>2. x = high
      BY <2>4, <2>5, <3>1
    <3> QED
      BY <1>12, <2>2, <2>3, <3>1, <3>2, LostIsSent
  <2>9. CASE k = 8
    <3>1. r[6] = low /\ r[7] = high
      BY <1>11, <2>2, <2>9
    <3> QED
      BY <2>2, <2>3, <3>1, HeldIsSent
  <2> QED
    BY <1>2, <2>2, <2>6, <2>7, <2>8, <2>9
<1>13. Sound(r)
  <2>1. PICK l \in Nat : l = n - 1 /\ l <= 7
    OBVIOUS
  <2>2. 1 \in Nat /\ 1 + 2 = 3 /\ 1 + 5 = 6 /\ 1 + 6 = 7 /\ Len(r) = l
    BY <1>4, <2>1
  <2>3. \A i \in 1 .. l - 4 : BeginsWord(r, i) => i = 1 /\ l >= 1 + 6
    BY <1>9, <2>1
  <2>4. ~ (l >= 1 + 7)
    BY <2>1
  <2> QED
    BY <1>12, <2>2, <2>3, <2>4, OneWord
<1>14. OpensWord(r)
  <2>1. Len(r) >= 5 /\ 255 \in Openings
    BY <1>4, OpeningsAre
  <2>2. ASSUME r[2] \in 1 .. 253, r[3] = 4
        PROVE  Len(r) >= 7 /\ Sent(r[2], r[5], r[6])
    <3>1. k <= 2
      BY <1>2, <1>6, <2>2
    <3>2. n = 8 /\ r[2] = m
      <4>1. r[3] = n - 4 /\ r[2] = m
        <5>1. k <= 3
          BY <1>2, <3>1
        <5> QED
          BY <1>6, <3>1, <5>1, Zenon
      <4> QED
        BY <2>2, <4>1
    <3>3. r[5] = low /\ r[6] = high /\ HeldWord(m, low, high)
      <4>1. ~ (5 < k) /\ ~ (6 < k)
        BY <1>2, <3>1
      <4> QED
        BY <1>11, <3>2, <4>1
    <3> QED
      BY <1>4, <3>2, <3>3, HeldIsSent
  <2> QED
    BY <1>6, <2>1, <2>2, Zenon DEF OpensWord
<1> QED
  BY <1>3, <1>13, <1>14

LEMMA ChangeSound ==
    ASSUME QuietNoise, NEW m \in Motors, NEW p, IsReply(p, m, 0), NEW k \in DOMAIN p,
           NEW c \in Noise
    PROVE  Sound(ReplaceAt(p, k, c)) /\ OpensWord(ReplaceAt(p, k, c))
<1>1. PICK n \in 6 .. 8 : n = Len(p)
  BY DEF IsReply, IsStatus
<1>2. p \in Seq(Byte) /\ k \in 1 .. n
  <2>1. p \in Seq(Byte)
    BY DEF IsReply, IsStatus
  <2> QED
    BY <1>1, <2>1, LenProperties
<1>3. PICK r : r = ReplaceAt(p, k, c)
  OBVIOUS
<1>4. c \in Byte /\ c # 0 /\ c # 4 /\ c \in Openings
  BY ReadsAssumption DEF QuietNoise, Openings, Byte
<1>5. Len(r) = n /\ \A i \in 1 .. n : r[i] = IF i = k THEN c ELSE p[i]
  <2>1. r = [p EXCEPT ![k] = c]
    BY <1>3, Zenon DEF ReplaceAt
  <2>2. [p EXCEPT ![k] = c] \in Seq(Byte) /\ Len([p EXCEPT ![k] = c]) = Len(p)
    BY <1>2, <1>4, ExceptSeq
  <2>3. DOMAIN p = 1 .. n
    BY <1>1, <1>2, LenProperties
  <2> QED
    BY <1>1, <2>1, <2>2, <2>3
<1>6. p[1] = 255 /\ p[2] = 255 /\ p[3] = m /\ p[4] = n - 4 /\ p[5] = 0
  BY <1>1 DEF IsReply, IsStatus
<1>7. /\ r[1] = (IF 1 = k THEN c ELSE 255) /\ r[2] = (IF 2 = k THEN c ELSE 255)
      /\ r[3] = (IF 3 = k THEN c ELSE m) /\ r[4] = (IF 4 = k THEN c ELSE n - 4)
      /\ r[5] = (IF 5 = k THEN c ELSE 0)
  <2>1. /\ 1 \in 1 .. n /\ 2 \in 1 .. n /\ 3 \in 1 .. n /\ 4 \in 1 .. n /\ 5 \in 1 .. n
    OBVIOUS
  <2> QED
    BY <1>5, <1>6, <2>1
<1>8. m \in 1 .. 253
  BY ReadsAssumption DEF Motors
<1>9. ASSUME NEW i \in 1 .. n - 4, BeginsWord(r, i)
      PROVE  i = 1 /\ k # 4 /\ k # 5 /\ n = 8
  <2>1. i = 1 \/ i = 2 \/ i = 3 \/ i = 4
    OBVIOUS
  <2>2. CASE i = 1
    <3>1. r[4] = 4 /\ r[5] = 0
      BY <1>9, <2>2 DEF BeginsWord
    <3> QED
      BY <1>2, <1>4, <1>7, <2>2, <3>1
  <2>3. CASE i = 2
    <3>1. r[3] = 255 /\ r[5] = 4
      BY <1>9, <2>3 DEF BeginsWord
    <3>2. k = 3 /\ k = 5
      BY <1>2, <1>7, <1>8, <3>1
    <3> QED
      BY <3>2
  <2>4. CASE i = 3
    <3>1. r[3] = 255 /\ r[4] = 255
      BY <1>9, <2>4 DEF BeginsWord
    <3>2. k = 3 /\ k = 4
      BY <1>2, <1>7, <1>8, <3>1
    <3> QED
      BY <3>2
  <2>5. CASE i = 4
    <3>1. r[4] = 255 /\ r[5] = 255
      BY <1>9, <2>5 DEF BeginsWord
    <3>2. k = 4 /\ k = 5
      BY <1>2, <1>7, <3>1
    <3> QED
      BY <3>2
  <2> QED
    BY <2>1, <2>2, <2>3, <2>4, <2>5
<1>10. ASSUME BeginsWord(r, 1), r[8] = WordChecksum(r[3], r[6], r[7])
       PROVE  Sent(r[3], r[6], r[7])
  <2>1. 1 \in 1 .. n - 4
    OBVIOUS
  <2>2. k # 4 /\ k # 5 /\ n = 8
    BY <1>9, <1>10, <2>1
  <2>3. PICK low, high, sum : low = p[6] /\ high = p[7] /\ sum = p[8]
    OBVIOUS
  <2>4. HeldWord(m, low, high) /\ sum = WordChecksum(m, low, high)
    BY <1>1, <2>2, <2>3 DEF IsReply
  <2>5. low \in Byte /\ high \in Byte
    BY <2>4, HeldBytes
  <2>6. /\ r[3] = (IF 3 = k THEN c ELSE m) /\ r[6] = (IF 6 = k THEN c ELSE low)
        /\ r[7] = (IF 7 = k THEN c ELSE high) /\ r[8] = (IF 8 = k THEN c ELSE sum)
    <3>1. 6 \in 1 .. n /\ 7 \in 1 .. n /\ 8 \in 1 .. n
      BY <2>2
    <3> QED
      BY <1>5, <1>7, <2>3, <3>1
  <2>7. r[3] \in 1 .. 253
    <3>1. r[1 + 2] \in 1 .. 253
      BY <1>10, Zenon DEF BeginsWord
    <3> QED
      BY <3>1
  <2>8. /\ c \in 1 .. 253 /\ WordChecksum(c, low, high) = WordChecksum(m, low, high) => c = m
        /\ WordChecksum(m, c, high) = WordChecksum(m, low, high) => c = low
        /\ WordChecksum(m, low, c) = WordChecksum(m, low, high) => c = high
    BY <1>4, <1>8, <2>5, ChangeShows, Zenon
  <2>9. r[3] = m /\ r[6] = low /\ r[7] = high
    <3>1. CASE k = 3
      <4>1. r[3] = c /\ r[6] = low /\ r[7] = high /\ r[8] = sum
        BY <2>6, <3>1
      <4> QED
        BY <1>10, <2>4, <2>7, <2>8, <4>1
    <3>2. CASE k = 6
      <4>1. r[3] = m /\ r[6] = c /\ r[7] = high /\ r[8] = sum
        BY <2>6, <3>2
      <4> QED
        BY <1>10, <2>4, <2>8, <4>1
    <3>3. CASE k = 7
      <4>1. r[3] = m /\ r[6] = low /\ r[7] = c /\ r[8] = sum
        BY <2>6, <3>3
      <4> QED
        BY <1>10, <2>4, <2>8, <4>1
    <3>4. CASE k # 3 /\ k # 6 /\ k # 7
      BY <2>6, <3>4
    <3> QED
      BY <3>1, <3>2, <3>3, <3>4
  <2> QED
    BY <2>4, <2>9, HeldIsSent
<1>11. Sound(r)
  <2>1. n \in Nat /\ 1 \in Nat /\ 1 + 2 = 3 /\ 1 + 5 = 6 /\ 1 + 6 = 7 /\ 1 + 7 = 8
    OBVIOUS
  <2>2. \A i \in 1 .. n - 4 : BeginsWord(r, i) => i = 1 /\ n >= 1 + 6
    BY <1>9
  <2>3. n = 1 + 6 /\ BeginsWord(r, 1) => FALSE
    <3>1. 1 \in 1 .. n - 4
      OBVIOUS
    <3> QED
      BY <1>9, <3>1
  <2> QED
    BY <1>5, <1>10, <2>1, <2>2, <2>3, OneWord
<1>12. OpensWord(r)
  <2>1. Len(r) >= 5
    BY <1>5
  <2>2. r[1] \in Openings /\ (r[1] = 255 \/ r[2] = 255)
    BY <1>2, <1>4, <1>7, OpeningsAre
  <2>3. ASSUME r[2] \in 1 .. 253, r[4] = 0 PROVE FALSE
    <3>1. k = 2 /\ k = 4
      BY <1>2, <1>7, <2>3
    <3> QED
      BY <3>1
  <2> QED
    BY <2>1, <2>2, <2>3, Zenon DEF OpensWord
<1> QED
  BY <1>3, <1>11, <1>12

LEMMA NoiseSound ==
    ASSUME QuietNoise, NEW m \in Motors, NEW p, IsReply(p, m, 0), NEW c \in Noise
    PROVE  Sound(<< c >> \o p) /\ OpensWord(<< c >> \o p)
<1>1. PICK n \in 6 .. 8 : n = Len(p)
  BY DEF IsReply, IsStatus
<1>2. PICK r : r = << c >> \o p
  OBVIOUS
<1>3. c \in Byte /\ c \in Openings
  BY ReadsAssumption DEF Openings, Byte
<1>4. IsJoin(Byte, r, << c >>, 1, p, n)
  <2>1. << c >> \in Seq(Byte) /\ Len(<< c >>) = 1 /\ 1 \in Nat /\ n \in Nat
    BY <1>3, One
  <2>2. p \in Seq(Byte)
    BY DEF IsReply, IsStatus
  <2> QED
    BY <1>1, <1>2, <2>1, <2>2, Joined
<1>5. Len(r) = n + 1 /\ r[1] = c /\ \A i \in 1 .. n : r[1 + i] = p[i]
  <2>1. Len(r) = 1 + n /\ (\A i \in 1 .. 1 : r[i] = << c >>[i]) /\ \A i \in 1 .. n : r[1 + i] = p[i]
    BY <1>4 DEF IsJoin
  <2>2. << c >>[1] = c /\ 1 \in 1 .. 1 /\ 1 + n = n + 1
    OBVIOUS
  <2> QED
    BY <2>1, <2>2
<1>6. p[1] = 255 /\ p[2] = 255 /\ p[3] = m /\ p[4] = n - 4
  BY <1>1 DEF IsReply, IsStatus
<1>7. r[2] = 255 /\ r[3] = 255 /\ r[4] = m /\ r[5] = n - 4
  <2>1. 1 \in 1 .. n /\ 2 \in 1 .. n /\ 3 \in 1 .. n /\ 4 \in 1 .. n
    OBVIOUS
  <2>2. r[1 + 1] = p[1] /\ r[1 + 2] = p[2] /\ r[1 + 3] = p[3] /\ r[1 + 4] = p[4]
    BY <1>5, <2>1
  <2> QED
    BY <1>6, <2>2
<1>8. r[4] # 255 /\ r[5] # 255 /\ r[2] \notin 1 .. 253 /\ r[3] \notin 1 .. 253
  <2>1. m \in 1 .. 253
    BY ReadsAssumption DEF Motors
  <2> QED
    BY <1>7, <2>1
<1>9. ASSUME NEW i \in 1 .. (n + 1) - 4, BeginsWord(r, i) PROVE i = 2 /\ n = 8
  <2>1. /\ i \in 1 .. 5 /\ r[i] = 255 /\ r[i + 1] = 255 /\ r[i + 2] \in 1 .. 253
        /\ r[i + 3] = 4
    BY <1>9 DEF BeginsWord
  <2>2. i = 2
    <3>1. (i = 1 => i + 2 = 3) /\ (i = 3 => i + 1 = 4)
      OBVIOUS
    <3>2. i # 1 /\ i # 3 /\ i # 4 /\ i # 5
      BY <1>8, <2>1, <3>1, Zenon
    <3> QED
      BY <2>1, <3>2
  <2>3. r[5] = 4
    BY <2>1, <2>2
  <2> QED
    BY <1>7, <2>2, <2>3
<1>10. ASSUME BeginsWord(r, 2) PROVE Sent(r[4], r[7], r[8])
  <2>1. 2 \in 1 .. (n + 1) - 4
    OBVIOUS
  <2>2. n = 8
    BY <1>9, <1>10, <2>1
  <2>3. HeldWord(m, p[6], p[7])
    BY <1>1, <2>2 DEF IsReply
  <2>4. r[7] = p[6] /\ r[8] = p[7]
    <3>1. 6 \in 1 .. n /\ 7 \in 1 .. n
      BY <2>2
    <3>2. r[1 + 6] = p[6] /\ r[1 + 7] = p[7]
      BY <1>5, <3>1
    <3> QED
      BY <3>2
  <2> QED
    BY <1>7, <2>3, <2>4, HeldIsSent
<1>11. Sound(r)
  <2>1. PICK l \in Nat : l = n + 1
    OBVIOUS
  <2>2. 2 \in Nat /\ 2 + 2 = 4 /\ 2 + 5 = 7 /\ 2 + 6 = 8 /\ Len(r) = l
    BY <1>5, <2>1
  <2>3. \A i \in 1 .. l - 4 : BeginsWord(r, i) => i = 2 /\ l >= 2 + 6
    BY <1>9, <2>1
  <2> QED
    BY <1>10, <2>2, <2>3, OneWord
<1>12. OpensWord(r)
  <2>1. Len(r) >= 5
    BY <1>5
  <2> QED
    BY <1>3, <1>5, <1>7, <1>8, <2>1, Zenon DEF OpensWord
<1> QED
  BY <1>2, <1>11, <1>12

\* An answer of m with that word stands in bytes.
HoldsAnswer(bytes, m, data) ==
    \E i \in 1 .. Len(bytes) - 7 :
        /\ BeginsWord(bytes, i) /\ bytes[i + 2] = m
        /\ bytes[i + 7] = WordChecksum(m, bytes[i + 5], bytes[i + 6])
        /\ data[1] = bytes[i + 5] /\ data[2] = bytes[i + 6]

LEMMA WordTakes ==
    ASSUME NEW q, NEW m \in 1 .. 253, q.motor = m, ExpectedLength(q) = 2,
           NEW bytes \in Seq(Byte), NEW read, read = AsyncRead(q, bytes), read.ok
    PROVE  HoldsAnswer(bytes, m, read.data)
<1>3. PICK i \in 1 .. Len(bytes) - 7 : \E body : Taken(q, bytes, 2, i, body)
  <2>1. AsyncRead(q, bytes).ok /\ 2 \in Nat /\ 2 + 5 = 7
    OBVIOUS
  <2>2. \E i \in 1 .. Len(bytes) - (2 + 5) : \E body : Taken(q, bytes, 2, i, body)
    BY <2>1, PacketTakes
  <2> QED
    BY <2>1, <2>2
<1>4. PICK body : Taken(q, bytes, 2, i, body)
  BY <1>3
<1>5. /\ body \in Seq(Byte) /\ Len(body) = 5
      /\ body[1] = m /\ body[2] = 4 /\ body[3] = 0
      /\ bytes[i] = 255 /\ bytes[i + 1] = 255 /\ bytes[i + 7] = CalculateChecksum(body)
  <2>1. /\ body \in Seq(Byte) /\ Len(body) = 2 + 3
        /\ body[1] = q.motor /\ body[2] = 2 + 2 /\ body[3] = 0
        /\ bytes[i] = 255 /\ bytes[i + 1] = 255 /\ bytes[i + 2 + 5] = CalculateChecksum(body)
    BY <1>4 DEF Taken
  <2>2. 2 + 3 = 5 /\ 2 + 2 = 4 /\ i + 2 + 5 = i + 7
    OBVIOUS
  <2> QED
    BY <2>1, <2>2
<1>6. /\ bytes[i + 2] = m /\ bytes[i + 3] = 4 /\ bytes[i + 4] = 0
      /\ bytes[i + 5] = body[4] /\ bytes[i + 6] = body[5]
  <2>1. \A j \in 1 .. 2 + 3 : body[j] = bytes[i + 1 + j]
    BY <1>4 DEF Taken
  <2>2. /\ 1 \in 1 .. 2 + 3 /\ 2 \in 1 .. 2 + 3 /\ 3 \in 1 .. 2 + 3 /\ 4 \in 1 .. 2 + 3
        /\ 5 \in 1 .. 2 + 3
    OBVIOUS
  <2>3. /\ i + 1 + 1 = i + 2 /\ i + 1 + 2 = i + 3 /\ i + 1 + 3 = i + 4 /\ i + 1 + 4 = i + 5
        /\ i + 1 + 5 = i + 6
    OBVIOUS
  <2>4. /\ body[1] = bytes[i + 1 + 1] /\ body[2] = bytes[i + 1 + 2] /\ body[3] = bytes[i + 1 + 3]
        /\ body[4] = bytes[i + 1 + 4] /\ body[5] = bytes[i + 1 + 5]
    BY <2>1, <2>2
  <2> QED
    BY <1>5, <2>3, <2>4
<1>7. bytes[i + 7] = WordChecksum(m, bytes[i + 5], bytes[i + 6])
  <2>1. m \in Nat
    OBVIOUS
  <2>2. CalculateChecksum(body) = WordChecksum(m, body[4], body[5])
    BY <1>5, <2>1, WordChecksumIs
  <2> QED
    BY <1>5, <1>6, <2>2
<1>8. read.data[1] = bytes[i + 5] /\ read.data[2] = bytes[i + 6]
  <2>1. \A j \in 1 .. 2 : read.data[j] = body[j + 3]
    BY <1>4 DEF Taken
  <2>2. 1 \in 1 .. 2 /\ 2 \in 1 .. 2 /\ 1 + 3 = 4 /\ 2 + 3 = 5
    OBVIOUS
  <2>3. read.data[1] = body[1 + 3] /\ read.data[2] = body[2 + 3]
    BY <2>1, <2>2
  <2> QED
    BY <1>6, <2>2, <2>3
<1>9. BeginsWord(bytes, i)
  BY <1>5, <1>6, Zenon DEF BeginsWord
<1> QED
  BY <1>6, <1>7, <1>8, <1>9 DEF HoldsAnswer

\* Requests whose answers have no word in them, or one from a register.
AsksWord(q) ==
    /\ Asked(q)
    /\ Len(Data(q)) = 2 => HeldWord(q.motor, Data(q)[1], Data(q)[2])

LEMMA PingAsks ==
    ASSUME NEW m \in Motors
    PROVE  AsksWord(Bare("Ping", m))
<1>1. PICK q : q = Bare("Ping", m)
  OBVIOUS
<1>2. Data(q) = << >>
  <2>1. q.cmd = "Ping"
    BY <1>1 DEF Bare, Request
  <2> QED
    BY <2>1 DEF Data
<1>3. Asked(q)
  BY <1>1, AskedBare
<1> QED
  BY <1>1, <1>2, <1>3 DEF AsksWord

LEMMA WriteAsks ==
    ASSUME NEW cmd \in {"Write", "RegWrite"}, NEW m \in Motors, NEW n \in Lengths
    PROVE  AsksWord(Write(cmd, m, 40, Zeros(n)))
<1>1. PICK q : q = Write(cmd, m, 40, Zeros(n))
  OBVIOUS
<1>2. Data(q) = << >>
  <2>1. q.cmd # "Read"
    BY <1>1 DEF Write, Request
  <2> QED
    BY <2>1 DEF Data
<1>3. Asked(q)
  BY <1>1, AskedWrite
<1> QED
  BY <1>1, <1>2, <1>3 DEF AsksWord

LEMMA ReadAsks ==
    ASSUME NEW m \in Motors, NEW register, Address[register] \in 0 .. 69,
           NEW length \in 1 .. 2, length = 2 => register \in TwoByteRegisters
    PROVE  AsksWord(Read(m, Address[register], length))
<1>1. PICK address \in 0 .. 69 : address = Address[register]
  OBVIOUS
<1>2. PICK q : q = Read(m, address, length)
  OBVIOUS
<1>3. Asked(q) /\ q.motor = m
  <2>1. q.motor = m
    BY <1>2 DEF Read, Request
  <2> QED
    BY <1>2, <2>1, AskedRead
<1>4. Data(q) = SubSeq(Rams[m], address + 1, address + length)
  <2>1. q.motor = m /\ q.cmd = "Read" /\ q.params[1] = address /\ q.params[2] = length
    BY <1>2 DEF Read, Request
  <2> QED
    BY <2>1 DEF Data
<1>5. PICK data : data = SubSeq(Rams[m], address + 1, address + length)
  OBVIOUS
<1>6. /\ Len(data) = length
      /\ \A i \in 1 .. length : data[i] = Rams[m][address + i]
  <2>1. \A i \in address + 1 .. address + length : Rams[m][i] \in Byte
    <3>1. \A i \in address + 1 .. address + length : i \in 1 .. 71
      OBVIOUS
    <3> QED
      BY <3>1, RamBytes
  <2>2. /\ Len(data) = (IF address + 1 <= address + length
                        THEN address + length - (address + 1) + 1 ELSE 0)
        /\ \A i \in 1 .. address + length - (address + 1) + 1 :
              data[i] = Rams[m][address + 1 + i - 1]
    BY <1>5, <2>1, SubSeqProperties
  <2>3. address + length - (address + 1) + 1 = length /\ address + 1 <= address + length
    OBVIOUS
  <2>4. \A i \in 1 .. length : address + 1 + i - 1 = address + i
    OBVIOUS
  <2> QED
    BY <2>2, <2>3, <2>4
<1>7. ASSUME Len(data) = 2 PROVE HeldWord(m, data[1], data[2])
  <2>1. length = 2
    BY <1>6, <1>7
  <2>2. data[1] = Rams[m][address + 1] /\ data[2] = Rams[m][address + 2]
    BY <1>6, <2>1
  <2> QED
    BY <1>1, <2>1, <2>2 DEF HeldWord
<1> QED
  BY <1>1, <1>2, <1>3, <1>4, <1>5, <1>7, Zenon DEF AsksWord

LEMMA RepliesSound ==
    ASSUME QuietNoise, NEW q, AsksWord(q), NEW reply \in Replies(q)
    PROVE  Sound(reply.bytes) /\ (reply.bytes = << >> \/ OpensWord(reply.bytes))
<1>1. /\ q.motor \in 1 .. 253 /\ q.motor \in Motors
      /\ Data(q) \in Seq(Byte) /\ Len(Data(q)) <= 2
      /\ Len(Data(q)) = 2 => HeldWord(q.motor, Data(q)[1], Data(q)[2])
  <2>1. Motors \subseteq 1 .. 253
    BY ReadsAssumption DEF Motors
  <2> QED
    BY <2>1 DEF AsksWord, Asked
<1>2. Sound(<< >>)
  BY DEF Sound
<1>3. PICK p : p = StatusPacket(q.motor, 0, Data(q)) /\ IsReply(p, q.motor, 0)
  <2>1. 0 \in {0, 32}
    OBVIOUS
  <2> QED
    BY <1>1, <2>1, ReplyIs, Zenon
<1>4. PICK bad : bad = StatusPacket(q.motor, 32, Data(q)) /\ IsReply(bad, q.motor, 32)
  <2>1. 32 \in {0, 32}
    OBVIOUS
  <2> QED
    BY <1>1, <2>1, ReplyIs, Zenon
<1>5. CASE reply = [bytes |-> << >>, cost |-> 0]
  BY <1>2, <1>5
<1>6. CASE reply = [bytes |-> p, cost |-> 0]
  <2>1. Sound(p) /\ OpensWord(p)
    BY <1>1, <1>3, WholeSound
  <2> QED
    BY <1>6, <2>1
<1>7. CASE reply = [bytes |-> bad, cost |-> 1]
  <2>1. Sound(bad) /\ OpensWord(bad)
    BY <1>1, <1>4, WholeSound
  <2> QED
    BY <1>7, <2>1
<1>8. ASSUME NEW b \in Damaged(p), reply = [bytes |-> b, cost |-> 1]
      PROVE  Sound(reply.bytes) /\ (reply.bytes = << >> \/ OpensWord(reply.bytes))
  <2>1. reply.bytes = b
    BY <1>8
  <2>2. ASSUME NEW i \in DOMAIN p, b = RemoveAt(p, i) PROVE Sound(b) /\ OpensWord(b)
    BY <1>1, <1>3, <2>2, LossSound
  <2>3. ASSUME NEW i \in DOMAIN p, NEW c \in Noise, b = ReplaceAt(p, i, c)
        PROVE  Sound(b) /\ OpensWord(b)
    BY <1>1, <1>3, <2>3, ChangeSound
  <2>4. ASSUME NEW c \in Noise, b = << c >> \o p PROVE Sound(b) /\ OpensWord(b)
    BY <1>1, <1>3, <2>4, NoiseSound
  <2>5. \/ b = << >>
        \/ \E i \in DOMAIN p : b = RemoveAt(p, i)
        \/ \E i \in DOMAIN p : \E c \in Noise : b = ReplaceAt(p, i, c)
        \/ \E c \in Noise : b = << c >> \o p
    BY Zenon DEF Damaged
  <2> QED
    BY <1>2, <2>1, <2>2, <2>3, <2>4, <2>5, Zenon
<1> QED
  BY <1>3, <1>4, <1>5, <1>6, <1>7, <1>8, Zenon DEF Replies

LEMMA LineSound ==
    ASSUME QuietNoise, NEW q, AsksWord(q), line \in Seq(Byte), faults \in 0 .. MaxFaults,
           Sound(line), NEW a \in Arrivals(q), Exchange(q, a, Outcome(q, a))
    PROVE  /\ Sound(a.bytes) /\ Sound(line')
           /\ a.bytes \in Seq(Byte) /\ a.n \in 0 .. Len(a.bytes)
<1>0. Asked(q)
  BY DEF AsksWord
<1>1. IsArrival(a)
  BY <1>0, ArrivalsAre
<1>2. PICK s \in Seq(Byte) : s = a.bytes /\ a.n \in 0 .. Len(s)
  BY <1>1 DEF IsArrival
<1>3. PICK l \in Nat : l = Len(s)
  BY LenProperties
<1>4. Sound(s)
  <2>1. PICK reply \in Replies(q) : s = line \o reply.bytes
    BY <1>2, ArrivalOf, Zenon
  <2>2. PICK r \in Seq(Byte) : r = reply.bytes
    BY <1>0, RepliesBytes
  <2>3. Sound(r) /\ (r = << >> \/ OpensWord(r))
    BY <2>2, RepliesSound
  <2>4. Sound(line \o r)
    BY <2>3, JoinSound
  <2> QED
    BY <2>1, <2>2, <2>4
<1>5. PICK n \in 0 .. l : n = a.n
  BY <1>2, <1>3
<1>6. PICK t \in Seq(Byte) : t = SubSeq(s, 1, n) /\ Len(t) = n
  <2>1. \A i \in 1 .. n : s[i] \in Byte
    BY <1>3, ElementOfSeq
  <2>2. PICK t : t = SubSeq(s, 1, n)
    OBVIOUS
  <2>3. t \in Seq(Byte) /\ Len(t) = IF 1 <= n THEN n - 1 + 1 ELSE 0
    BY <2>1, <2>2, SubSeqProperties
  <2>4. Len(t) = n
    BY <2>3
  <2> QED
    BY <2>2, <2>3, <2>4
<1>7. PICK used : used = Outcome(q, a).used
  OBVIOUS
<1>8. used \in 0 .. Len(s)
  <2>1. Outcome(q, a) = AsyncRead(q, t)
    BY <1>2, <1>5, <1>6, Zenon DEF Outcome
  <2>2. AsyncRead(q, t).used \in 0 .. n
    BY <1>6, ReadUses
  <2> QED
    BY <1>3, <1>7, <2>1, <2>2
<1>9. line' = SubSeq(s, used + 1, Len(s))
  BY <1>2, <1>7, Zenon DEF Exchange
<1>10. Sound(line')
  BY <1>4, <1>8, <1>9, RestSound
<1> QED
  BY <1>2, <1>4, <1>10

\* What is on the line was sent, and so was what read_load returned.
LoadsSound == Sound(line) /\ LoadIsRead

LEMMA LoadOfSent ==
    ASSUME NEW m \in Motors, NEW a \in Byte, NEW b \in Byte, Sent(m, a, b),
           answer' = Answer("load", m, a + 256 * b)
    PROVE  LoadIsRead'
<1>1. PICK r \in TwoByteRegisters :
          LET low == Rams[m][Address[r] + 1]
              high == Rams[m][Address[r] + 2]
          IN  \/ a = low /\ b = high
              \/ low \in Openings /\ a = high
              \/ high \in Openings /\ a = low
  BY DEF Sent
<1>2. PICK low, high : low = Rams[m][Address[r] + 1] /\ high = Rams[m][Address[r] + 2]
  OBVIOUS
<1>3. low \in Byte /\ high \in Byte
  <2>1. HeldWord(m, low, high)
    BY <1>2 DEF HeldWord
  <2> QED
    BY <2>1, HeldBytes
<1>4. PICK word \in Nat : word = Word(Rams[m], Address[r]) /\ word = low + 256 * high
  <2>1. PICK word \in Nat : word = low + 256 * high
    BY <1>3 DEF Byte
  <2>2. Word(Rams[m], Address[r]) = word
    BY <1>2, <2>1 DEF Word
  <2> QED
    BY <2>1, <2>2
<1>5. word % 256 = low /\ word \div 256 = high
  BY <1>3, <1>4 DEF Byte
<1>6. PICK value \in Nat : value = a + 256 * b /\ value % 256 = a
  BY DEF Byte
<1>7. answer'.motor = m /\ answer'.value = value
  BY <1>6 DEF Answer
<1>8. \/ value = word
      \/ low \in Openings /\ value % 256 = high
      \/ high \in Openings /\ value % 256 = low
  <2>1. \/ a = low /\ b = high
        \/ low \in Openings /\ a = high
        \/ high \in Openings /\ a = low
    BY <1>1, <1>2, Zenon
  <2>2. a = low /\ b = high => value = word
    BY <1>4, <1>6
  <2> QED
    BY <1>6, <2>1, <2>2, Zenon
<1>9. \/ value = word
      \/ word % 256 \in Openings /\ value % 256 = word \div 256
      \/ word \div 256 \in Openings /\ value % 256 = word % 256
  BY <1>5, <1>8
<1>10. word = Word(Rams[answer'.motor], Address[r])
  BY <1>4, <1>7
<1> QED
  BY <1>7, <1>9, <1>10, ZenonT(40) DEF LoadIsRead

LEMMA ReadSound ==
    ASSUME QuietNoise, IInv, Sound(line), NEW kind, kind # "load", NEW m \in Motors,
           NEW register, Address[register] \in 0 .. 69,
           NEW length \in 1 .. 2, length = 2 => register \in TwoByteRegisters,
           ReadRegister(kind, m, register, length)
    PROVE  LoadsSound'
<1>1. PICK q : q = Read(m, Address[register], length)
  OBVIOUS
<1>2. AsksWord(q)
  BY <1>1, ReadAsks
<1>3. PICK a \in Arrivals(q) :
        /\ Exchange(q, a, Outcome(q, a))
        /\ answer' = IF Outcome(q, a).ok THEN Answer(kind, m, Value(kind, Outcome(q, a).data))
                     ELSE [kind |-> "error", error |-> Outcome(q, a).error]
  BY <1>1, Zenon DEF ReadRegister
<1>4. Sound(line')
  BY <1>2, <1>3, LineSound DEF IInv, TypeOK
<1>5. answer'.kind # "load"
  BY <1>3 DEF Answer
<1> QED
  BY <1>4, <1>5 DEF LoadsSound, LoadIsRead

LEMMA LoadSound ==
    ASSUME QuietNoise, IInv, Sound(line), NEW m \in Motors, ReadLoad(m)
    PROVE  LoadsSound'
<1>1. PICK address \in 0 .. 69 : address = Address["PresentLoad"]
  BY Addresses, Registers
<1>2. PICK q : q = Read(m, address, 2)
  OBVIOUS
<1>3. AsksWord(q)
  <2>1. 2 \in 1 .. 2 /\ "PresentLoad" \in TwoByteRegisters
    BY DEF TwoByteRegisters
  <2> QED
    BY <1>1, <1>2, <2>1, ReadAsks
<1>4. PICK a \in Arrivals(q) :
        /\ Exchange(q, a, Outcome(q, a))
        /\ answer' = IF Outcome(q, a).ok THEN Answer("load", m, Value("load", Outcome(q, a).data))
                     ELSE [kind |-> "error", error |-> Outcome(q, a).error]
  BY <1>1, <1>2, Zenon DEF ReadLoad, ReadRegister
<1>5. /\ Sound(a.bytes) /\ Sound(line')
      /\ a.bytes \in Seq(Byte) /\ a.n \in 0 .. Len(a.bytes)
  BY <1>3, <1>4, LineSound DEF IInv, TypeOK
<1>6. CASE ~ Outcome(q, a).ok
  <2>1. answer'.kind # "load"
    BY <1>4, <1>6
  <2> QED
    BY <1>5, <2>1 DEF LoadsSound, LoadIsRead
<1>7. CASE Outcome(q, a).ok
  <2>1. m \in 1 .. 253
    BY ReadsAssumption DEF Motors
  <2>2. PICK s \in Seq(Byte) : s = a.bytes
    BY <1>5
  <2>3. PICK l \in Nat : l = Len(s)
    BY LenProperties
  <2>4. PICK n \in 0 .. l : n = a.n
    BY <1>5, <2>2, <2>3
  <2>5. \A i \in 1 .. n : s[i] \in Byte
    BY <2>3, ElementOfSeq
  <2>6. PICK t \in Seq(Byte) : t = SubSeq(s, 1, n) /\ Len(t) = n /\ \A i \in 1 .. n : t[i] = s[i]
    <3>1. PICK t : t = SubSeq(s, 1, n)
      OBVIOUS
    <3>2. /\ t \in Seq(Byte) /\ Len(t) = IF 1 <= n THEN n - 1 + 1 ELSE 0
          /\ \A i \in 1 .. n - 1 + 1 : t[i] = s[1 + i - 1]
      BY <2>5, <3>1, SubSeqProperties
    <3>3. \A i \in 1 .. n : i \in 1 .. n - 1 + 1 /\ 1 + i - 1 = i
      OBVIOUS
    <3>4. Len(t) = n
      BY <3>2
    <3> QED
      BY <3>1, <3>2, <3>3, <3>4
  <2>7. PICK read : read = Outcome(q, a) /\ read = AsyncRead(q, t)
    BY <2>2, <2>4, <2>6, Zenon DEF Outcome
  <2>8. q.motor = m /\ ExpectedLength(q) = 2 /\ read.ok
    <3>1. q.motor = m /\ q.cmd = "Read" /\ q.params[2] = 2
      BY <1>2 DEF Read, Request
    <3>2. ExpectedLength(q) = 2
      BY <3>1 DEF ExpectedLength
    <3> QED
      BY <1>7, <2>7, <3>1, <3>2
  <2>9. PICK i \in 1 .. n - 7 :
          /\ BeginsWord(t, i) /\ t[i + 2] = m
          /\ t[i + 7] = WordChecksum(m, t[i + 5], t[i + 6])
          /\ read.data[1] = t[i + 5] /\ read.data[2] = t[i + 6]
    <3>1. HoldsAnswer(t, m, read.data)
      BY <2>1, <2>7, <2>8, WordTakes, Zenon
    <3>2. Len(t) = n
      BY <2>6
    <3> QED
      BY <3>1, <3>2 DEF HoldsAnswer
  <2>10. /\ s[i] = t[i] /\ s[i + 1] = t[i + 1] /\ s[i + 2] = t[i + 2] /\ s[i + 3] = t[i + 3]
         /\ s[i + 4] = t[i + 4] /\ s[i + 5] = t[i + 5] /\ s[i + 6] = t[i + 6]
         /\ s[i + 7] = t[i + 7]
    <3>1. /\ i \in 1 .. n /\ i + 1 \in 1 .. n /\ i + 2 \in 1 .. n /\ i + 3 \in 1 .. n
          /\ i + 4 \in 1 .. n /\ i + 5 \in 1 .. n /\ i + 6 \in 1 .. n /\ i + 7 \in 1 .. n
      OBVIOUS
    <3> QED
      BY <2>6, <3>1
  <2>11. Sent(m, t[i + 5], t[i + 6])
    <3>1. BeginsWord(s, i)
      BY <2>9, <2>10, Zenon DEF BeginsWord
    <3>2. s[i + 7] = WordChecksum(s[i + 2], s[i + 5], s[i + 6])
      BY <2>9, <2>10, Zenon
    <3>3. i \in 1 .. Len(s) - 7
      BY <2>3
    <3>4. Sent(s[i + 2], s[i + 5], s[i + 6])
      BY <1>5, <2>2, <3>1, <3>2, <3>3, Zenon DEF Sound
    <3> QED
      BY <2>9, <2>10, <3>4, Zenon
  <2>12. t[i + 5] \in Byte /\ t[i + 6] \in Byte
    <3>1. i + 5 \in 1 .. n /\ i + 6 \in 1 .. n
      OBVIOUS
    <3> QED
      BY <2>5, <2>6, <3>1
  <2>13. answer' = Answer("load", m, t[i + 5] + 256 * t[i + 6])
    <3>1. Value("load", read.data) = read.data[1] + 256 * read.data[2]
      BY DEF Value
    <3> QED
      BY <1>4, <1>7, <2>7, <2>9, <3>1, Zenon
  <2>14. LoadIsRead'
    BY <2>11, <2>12, <2>13, LoadOfSent
  <2> QED
    BY <1>5, <2>14 DEF LoadsSound
<1> QED
  BY <1>6, <1>7

LEMMA WriteSound ==
    ASSUME QuietNoise, IInv, Sound(line), NEW cmd \in {"Write", "RegWrite"}, NEW m \in Motors,
           NEW n \in Lengths, WriteLong(cmd, m, n)
    PROVE  LoadsSound'
<1>1. PICK q : q = Write(cmd, m, 40, Zeros(n))
  OBVIOUS
<1>2. AsksWord(q)
  BY <1>1, WriteAsks
<1>3. PICK a \in Arrivals(q) :
        /\ Exchange(q, a, Outcome(q, a))
        /\ answer' = [kind |-> "status", error |-> Outcome(q, a).error]
  BY <1>1, Zenon DEF WriteLong
<1>4. Sound(line')
  BY <1>2, <1>3, LineSound DEF IInv, TypeOK
<1>5. answer'.kind # "load"
  BY <1>3
<1> QED
  BY <1>4, <1>5 DEF LoadsSound, LoadIsRead

LEMMA SoundStep == QuietNoise /\ IInv /\ LoadsSound /\ [Next]_vars => LoadsSound'
<1> SUFFICES ASSUME QuietNoise, IInv, LoadsSound, [Next]_vars PROVE LoadsSound'
  OBVIOUS
<1>0. Sound(line) /\ line \in Seq(Byte) /\ faults \in 0 .. MaxFaults
  BY DEF LoadsSound, IInv, TypeOK
<1>1. /\ Address["PresentPosition"] \in 0 .. 69 /\ Address["PresentSpeed"] \in 0 .. 69
      /\ Address["PresentCurrent"] \in 0 .. 69
      /\ Address["PresentVoltage"] \in 0 .. 69 /\ Address["PresentTemperature"] \in 0 .. 69
      /\ Address["Moving"] \in 0 .. 69
  BY Addresses, Registers
<1>2. /\ 1 \in 1 .. 2 /\ 2 \in 1 .. 2 /\ 1 # 2
      /\ "PresentPosition" \in TwoByteRegisters /\ "PresentSpeed" \in TwoByteRegisters
      /\ "PresentCurrent" \in TwoByteRegisters
  BY DEF TwoByteRegisters
<1>3. ASSUME NEW m \in Motors, ReadPosition(m) PROVE LoadsSound'
  BY <1>0, <1>1, <1>2, <1>3, ReadSound DEF ReadPosition
<1>4. ASSUME NEW m \in Motors, ReadVelocity(m) PROVE LoadsSound'
  BY <1>0, <1>1, <1>2, <1>4, ReadSound DEF ReadVelocity
<1>5. ASSUME NEW m \in Motors, ReadCurrent(m) PROVE LoadsSound'
  BY <1>0, <1>1, <1>2, <1>5, ReadSound DEF ReadCurrent
<1>6. ASSUME NEW m \in Motors, ReadLoad(m) PROVE LoadsSound'
  BY <1>0, <1>6, LoadSound
<1>7. ASSUME NEW m \in Motors, ReadVoltage(m) PROVE LoadsSound'
  BY <1>0, <1>1, <1>2, <1>7, ReadSound DEF ReadVoltage
<1>8. ASSUME NEW m \in Motors, ReadTemperature(m) PROVE LoadsSound'
  BY <1>0, <1>1, <1>2, <1>8, ReadSound DEF ReadTemperature
<1>9. ASSUME NEW m \in Motors, IsMoving(m) PROVE LoadsSound'
  BY <1>0, <1>1, <1>2, <1>9, ReadSound DEF IsMoving
<1>10. ASSUME NEW cmd \in {"Write", "RegWrite"}, NEW m \in Motors, NEW n \in Lengths,
              WriteLong(cmd, m, n)
       PROVE  LoadsSound'
  BY <1>0, <1>10, WriteSound
<1>11. ASSUME Sound(line'), answer' = answer \/ answer'.kind # "load" PROVE LoadsSound'
  <2>1. CASE answer' = answer
    BY <1>11, <2>1 DEF LoadsSound, LoadIsRead
  <2>2. CASE answer'.kind # "load"
    BY <1>11, <2>2 DEF LoadsSound, LoadIsRead
  <2> QED
    BY <1>11, <2>1, <2>2
<1>12. ASSUME NEW m \in Motors, DecodeState(m) PROVE LoadsSound'
  <2>1. line' = line /\ answer'.kind # "load"
    BY <1>12 DEF DecodeState, Offline
  <2> QED
    BY <1>0, <1>11, <2>1
<1>13. CASE Normalize
  <2>1. line' = line /\ answer'.kind # "load"
    BY <1>13 DEF Normalize, Offline
  <2> QED
    BY <1>0, <1>11, <2>1
<1>14. ASSUME NEW n \in Lengths, SyncWriteAll(n) PROVE LoadsSound'
  <2>1. line' = line /\ answer'.kind # "load"
    BY <1>14 DEF SyncWriteAll
  <2> QED
    BY <1>0, <1>11, <2>1
<1>15. CASE Drain
  <2>1. answer' = answer
    BY <1>15 DEF Drain
  <2>2. PICK n \in 0 .. Len(line) : line' = SubSeq(line, n + 1, Len(line))
    BY <1>15 DEF Drain
  <2>3. Sound(line')
    BY <1>0, <2>2, RestSound
  <2> QED
    BY <1>11, <2>1, <2>3
<1>16. CASE BeginScan
  <2>1. line' = line /\ answer'.kind # "load"
    BY <1>16 DEF BeginScan
  <2> QED
    BY <1>0, <1>11, <2>1
<1>17. CASE ScanNext
  <2>1. scanning \in Motors /\ answer' = answer
    BY <1>17 DEF ScanNext, IInv, TypeOK
  <2>2. PICK q : q = Bare("Ping", scanning)
    OBVIOUS
  <2>3. AsksWord(q)
    BY <2>1, <2>2, PingAsks
  <2>4. PICK a \in Arrivals(q) : Exchange(q, a, Outcome(q, a))
    BY <1>17, <2>2, Zenon DEF ScanNext
  <2>5. Sound(line')
    BY <1>0, <2>3, <2>4, LineSound
  <2> QED
    BY <1>11, <2>1, <2>5
<1>18. CASE UNCHANGED vars
  <2>1. line' = line /\ answer' = answer
    BY <1>18 DEF vars
  <2> QED
    BY <1>0, <1>11, <2>1
<1> QED
  BY <1>3, <1>4, <1>5, <1>6, <1>7, <1>8, <1>9, <1>10, <1>12, <1>13, <1>14, <1>15, <1>16,
     <1>17, <1>18, Zenon DEF Next

\* What read_load returns was in one of the motor's registers, whatever arrives: late, cut
\* or changed replies and noise make no value of their own, but where a byte of a word is
\* lost and the next reply begins with an equal one (packet.rs 254-368).  Noise that is the
\* length byte or the clean flags of such an answer is left out: it turns one-byte answers
\* into words, or hides a flag.
THEOREM LoadIsReadHolds == QuietNoise => (Spec => []LoadIsRead)
<1> SUFFICES ASSUME QuietNoise PROVE Spec => []LoadIsRead
  OBVIOUS
<1>1. Init => LoadsSound
  BY DEF Init, LoadsSound, Sound, LoadIsRead, NoAnswer
<1>2. IInv /\ LoadsSound /\ [Next]_vars => LoadsSound'
  BY SoundStep
<1>3. LoadsSound => LoadIsRead
  BY DEF LoadsSound
<1> QED
  BY <1>1, <1>2, <1>3, Invariance, PTL DEF Spec
===============================================================================
