---------------------------- MODULE EncoderArcProofs ----------------------------
(***************************************************************************)
(* Lemmas about the arithmetic of EncoderArc, for every encoder            *)
(* resolution: positions on the circle, the arc of a set of readings, its  *)
(* midpoint, and the offset and the goals computed from it.                *)
(***************************************************************************)
EXTENDS EncoderArc, TLAPS, WellFoundedInduction

USE HalfAssumption

ArcType == [min : Encoder, max : Encoder]

(***************************************************************************)
(* Arithmetic of the circle.                                               *)
(***************************************************************************)
\* A position less than a turn off is brought back by at most one turn.
LEMMA WrapOnce ==
    ASSUME NEW x \in Int, 0 <= x, x < 2 * FullRange
    PROVE  x % FullRange = IF x < FullRange THEN x ELSE x - FullRange
BY DEF FullRange

LEMMA WrapInRange == \A x \in Int : x % FullRange \in Encoder
BY DEF FullRange, Encoder

LEMMA InRangeStays == \A x \in Encoder : x % FullRange = x
BY DEF FullRange, Encoder

\* A position is its turns and what is left of the last one, in one way only.
LEMMA TurnsAndRest ==
    ASSUME NEW x \in Int
    PROVE  /\ x \div FullRange \in Int /\ x % FullRange \in Encoder
           /\ x = FullRange * (x \div FullRange) + (x % FullRange)
<1>1. FullRange \in Nat /\ FullRange >= 1
  BY DEF FullRange
<1> HIDE DEF FullRange
<1> QED
  BY <1>1 DEF Encoder

LEMMA RestIsUnique ==
    ASSUME NEW p \in Int, NEW q \in Int, NEW r \in Encoder, NEW s \in Encoder,
           FullRange * p + r = FullRange * q + s
    PROVE  r = s
<1>1. FullRange \in Nat /\ FullRange >= 1 /\ r \in 0 .. FullRange - 1 /\ s \in 0 .. FullRange - 1
  BY DEF FullRange, Encoder
<1>2. ASSUME NEW m \in Int, NEW n \in Int, m < n
      PROVE  FullRange * n >= FullRange * m + FullRange
  <2>1. PICK k \in Nat : n = m + 1 + k
    BY <1>2
  <2>2. FullRange * n = FullRange * m + FullRange + FullRange * k
    BY <1>1, <2>1
  <2>3. FullRange * k >= 0
    BY <1>1
  <2>4. FullRange * m \in Int /\ FullRange * k \in Int
    BY <1>1
  <2> QED
    BY <1>1, <2>2, <2>3, <2>4
<1>3. FullRange * p \in Int /\ FullRange * q \in Int
  BY <1>1
<1>4. CASE p = q
  BY <1>1, <1>3, <1>4
<1>5. CASE p < q
  BY <1>1, <1>2, <1>3, <1>5
<1>6. CASE q < p
  BY <1>1, <1>2, <1>3, <1>6
<1> QED
  BY <1>4, <1>5, <1>6

\* Whole turns do not move a position.
LEMMA TurnsVanish ==
    ASSUME NEW x \in Int, NEW q \in Int
    PROVE  (x + FullRange * q) % FullRange = x % FullRange
<1> DEFINE y == x + FullRange * q
           k == x \div FullRange
           l == y \div FullRange
           r == x % FullRange
           s == y % FullRange
<1>1. FullRange \in Int /\ y \in Int
  BY DEF FullRange
<1>2. k \in Int /\ r \in Encoder /\ x = FullRange * k + r
  BY TurnsAndRest
<1>3. l \in Int /\ s \in Encoder /\ y = FullRange * l + s
  BY <1>1, TurnsAndRest
<1> HIDE DEF k, l, r, s
<1>4. FullRange * (k + q) + r = FullRange * l + s
  <2>1. r \in Int
    BY <1>2 DEF Encoder, FullRange
  <2> QED
    BY <1>1, <1>2, <1>3, <2>1
<1>5. k + q \in Int
  BY <1>2
<1>6. r = s
  BY <1>2, <1>3, <1>4, <1>5, RestIsUnique
<1> QED
  BY <1>6 DEF r, s

\* It does not matter whether a position is brought into range before something is
\* added to it.
LEMMA WrapThenAdd ==
    ASSUME NEW x \in Int, NEW d \in Int
    PROVE  ((x % FullRange) + d) % FullRange = (x + d) % FullRange
<1> DEFINE k == x \div FullRange
           r == x % FullRange
<1>1. FullRange \in Int
  BY DEF FullRange
<1>2. k \in Int /\ r \in Encoder /\ x = FullRange * k + r
  BY TurnsAndRest
<1>3. r \in Int
  BY <1>2 DEF Encoder, FullRange
<1> HIDE DEF k, r
<1>4. x + d = (r + d) + FullRange * k
  BY <1>1, <1>2, <1>3
<1>5. (r + d) % FullRange = (x + d) % FullRange
  BY <1>2, <1>3, <1>4, TurnsVanish
<1> QED
  BY <1>5 DEF r

(***************************************************************************)
(* The arc.                                                                *)
(***************************************************************************)
\* The least-number principle, from the well-foundedness of < on Nat.
LEMMA LeastNatural ==
    ASSUME NEW S \in SUBSET Nat, S # {}
    PROVE  \E x \in S : \A y \in S : x <= y
<1> DEFINE R == OpToRel(<, Nat)
<1>1. IsWellFoundedOn(R, Nat)
  BY NatLessThanWellFounded, Zenon
<1>2. PICK x \in S : \A y \in S : ~ (<< y, x >> \in R)
  <2> HIDE DEF R
  <2> QED
    BY <1>1, WFMin, Zenon
<1>3. x \in Nat /\ \A y \in S : y \in Nat
  OBVIOUS
<1>4. \A y \in S : ~ (y < x)
  BY <1>2, <1>3 DEF OpToRel
<1> QED
  BY <1>3, <1>4

\* A set of readings has a least and a greatest one.
LEMMA Extremes ==
    ASSUME NEW S \in SUBSET Encoder, S # {}
    PROVE  /\ Least(S) \in S /\ \A y \in S : Least(S) <= y
           /\ Greatest(S) \in S /\ \A y \in S : y <= Greatest(S)
<1>1. \E x \in S : \A y \in S : x <= y
  <2>1. S \in SUBSET Nat
    BY DEF Encoder, FullRange
  <2> QED
    BY <2>1, LeastNatural
<1>2. \E x \in S : \A y \in S : y <= x
  <2> DEFINE T == { FullRange - 1 - x : x \in S }
  <2>1. T \in SUBSET Nat
    BY DEF Encoder, FullRange
  <2>2. T # {}
    OBVIOUS
  <2>3. PICK t \in T : \A u \in T : t <= u
    BY <2>1, <2>2, LeastNatural
  <2>4. PICK x \in S : t = FullRange - 1 - x
    BY <2>3
  <2>5. ASSUME NEW y \in S PROVE y <= x
    <3>1. FullRange - 1 - y \in T
      OBVIOUS
    <3>2. t <= FullRange - 1 - y
      BY <3>1, <2>3
    <3> QED
      BY <3>2, <2>4 DEF Encoder, FullRange
  <2> QED
    BY <2>5
<1> QED
  BY <1>1, <1>2 DEF Least, Greatest

\* Whichever gap is left out, the arc runs between readings and covers them all.
LEMMA ArcCovers ==
    ASSUME NEW S \in SUBSET Encoder, S # {}, NEW a \in Arcs(S)
    PROVE  a \in ArcType /\ \A p \in S : On(a, p)
<1>0. /\ Least(S) \in S /\ \A y \in S : Least(S) <= y
      /\ Greatest(S) \in S /\ \A y \in S : y <= Greatest(S)
      /\ \A y \in S : y \in Int
  BY Extremes DEF Encoder, FullRange
<1>1. CASE Gaps(S) = {}
  <2>1. PICK v \in S : a = Arc(v, v)
    BY <1>1 DEF Arcs
  <2>2. ASSUME NEW p \in S PROVE p = v
    <3>1. SUFFICES ASSUME p # v PROVE FALSE
      OBVIOUS
    <3>2. Least(S) \in S /\ Greatest(S) \in S /\ Least(S) # Greatest(S)
      BY <3>1, <1>0
    <3>3. Gap(S, Greatest(S), Least(S))
      BY <3>2, <1>0 DEF Gap
    <3>4. << Greatest(S), Least(S) >> \in Gaps(S)
      BY <3>2, <3>3 DEF Gaps
    <3> QED
      BY <1>1, <3>4
  <2> QED
    BY <2>1, <2>2 DEF Arc, ArcType, On, Encoder, FullRange
<1>2. CASE Gaps(S) # {}
  <2>1. PICK g \in LargestGaps(S) : a = ArcAround(S, g)
    BY <1>2 DEF Arcs
  <2>2. PICK x \in S, y \in S : x = g[1] /\ y = g[2] /\ Gap(S, x, y)
    BY <2>1 DEF LargestGaps, Gaps
  <2>3. CASE a = DirectArc(S)
    BY <2>3, <1>0 DEF DirectArc, Arc, ArcType, On
  <2>4. CASE a = Arc(y, x) /\ x < y
    <3>1. a.min = y /\ a.max = x
      BY <2>4 DEF Arc
    <3>2. \A z \in S : z <= x \/ y <= z
      BY <2>2, <2>4, <1>0 DEF Gap
    <3>3. a \in ArcType
      BY <2>4, <2>2 DEF Arc, ArcType
    <3>4. \A p \in S : On(a, p)
      BY <3>1, <3>2, <2>4, <1>0 DEF On
    <3> QED
      BY <3>3, <3>4
  <2> QED
    BY <2>1, <2>2, <2>3, <2>4 DEF ArcAround
<1> QED
  BY <1>1, <1>2

(***************************************************************************)
(* Midpoint, offset and goal.                                              *)
(***************************************************************************)
\* The midpoint in one formula: half the range on from the arc's start.
LEMMA MidpointValue ==
    ASSUME NEW a \in ArcType
    PROVE  /\ RangeOf(a) \in 0 .. FullRange - 1
           /\ Midpoint(a) = IF a.min + RangeOf(a) \div 2 < FullRange
                            THEN a.min + RangeOf(a) \div 2
                            ELSE a.min + RangeOf(a) \div 2 - FullRange
           /\ Midpoint(a) \in Encoder
<1>1. a.min \in Encoder /\ a.max \in Encoder
  BY DEF ArcType
<1>2. RangeOf(a) \in 0 .. FullRange - 1
  BY <1>1 DEF RangeOf, Encoder, FullRange
<1>3. CASE a.max >= a.min
  <2>1. a.min + RangeOf(a) \div 2 <= a.max
    BY <1>1, <1>3 DEF RangeOf, Encoder, FullRange
  <2> QED
    BY <2>1, <1>1, <1>2, <1>3 DEF Midpoint, Encoder, FullRange
<1>4. CASE ~ (a.max >= a.min)
  <2>0. PICK m \in Int : m = a.min + RangeOf(a) \div 2
    BY <1>1, <1>2 DEF Encoder, FullRange
  <2>1. Midpoint(a) = m % FullRange
    BY <1>4, <2>0 DEF Midpoint
  <2>2. 0 <= m /\ m < 2 * FullRange
    BY <1>1, <1>2, <2>0 DEF Encoder, FullRange
  <2>3. m % FullRange = IF m < FullRange THEN m ELSE m - FullRange
    BY <2>2, WrapOnce
  <2>4. m % FullRange \in Encoder
    BY <2>2, WrapInRange
  <2>5. Midpoint(a) \in Encoder
    BY <2>1, <2>4
  <2>6. Midpoint(a) = IF m < FullRange THEN m ELSE m - FullRange
    BY <2>1, <2>3
  <2> QED
    BY <1>1, <1>2, <2>0, <2>5, <2>6 DEF Encoder, FullRange
<1> QED
  BY <1>3, <1>4

LEMMA MidpointOfArc ==
    ASSUME NEW a \in ArcType
    PROVE  /\ On(a, Midpoint(a))
           /\ RangeOf(Arc(Midpoint(a), a.max)) - RangeOf(Arc(a.min, Midpoint(a))) \in {0, 1}
<1> DEFINE r == RangeOf(a)
           m == Midpoint(a)
<1>1. a.min \in Encoder /\ a.max \in Encoder
  BY DEF ArcType
<1>2. r \in 0 .. FullRange - 1 /\ m \in Encoder
      /\ m = IF a.min + r \div 2 < FullRange THEN a.min + r \div 2
             ELSE a.min + r \div 2 - FullRange
  BY MidpointValue
<1>3. r = IF a.max >= a.min THEN a.max - a.min ELSE FullRange - a.min + a.max
  BY DEF RangeOf
<1>4. PICK h \in Int : h = r \div 2 /\ r - 2 * h \in {0, 1} /\ h >= 0 /\ h <= r
  BY <1>2 DEF FullRange
<1> HIDE DEF r, m
<1>5. On(a, m)
  BY <1>1, <1>2, <1>3, <1>4 DEF On, Encoder, FullRange
<1>6. RangeOf(Arc(m, a.max)) = IF a.max >= m THEN a.max - m ELSE FullRange - m + a.max
  BY DEF RangeOf, Arc
<1>7. RangeOf(Arc(a.min, m)) = IF m >= a.min THEN m - a.min ELSE FullRange - a.min + m
  BY DEF RangeOf, Arc
<1>8. RangeOf(Arc(a.min, m)) = h
  BY <1>1, <1>2, <1>3, <1>4, <1>7 DEF Encoder, FullRange
<1>9. RangeOf(Arc(m, a.max)) = r - h
  BY <1>1, <1>2, <1>3, <1>4, <1>6 DEF Encoder, FullRange
<1> QED
  BY <1>5, <1>8, <1>9, <1>4, <1>2 DEF r, m, Encoder, FullRange

\* freeze_calibration's offset puts the midpoint in the middle, but for midpoint 0.
LEMMA CorrectionCentres ==
    ASSUME NEW m \in Encoder
    PROVE  /\ Correction(m) \in 1 - Half .. Half - 1
           /\ EncoderOf(IF m = 0 THEN Half + 1 ELSE Half, Correction(m)) = m
<1>1. CASE m = 0
  <2>1. Correction(m) = Half - 1
    BY <1>1 DEF Correction, Clamp, FullRange
  <2>2. EncoderOf(Half + 1, Half - 1) = (2 * FullRange) % FullRange
    BY DEF EncoderOf, FullRange
  <2>3. (2 * FullRange) % FullRange = 0
    BY DEF FullRange
  <2> QED
    BY <1>1, <2>1, <2>2, <2>3 DEF FullRange
<1>2. CASE m # 0
  <2>1. Correction(m) = m - Half
    BY <1>2 DEF Correction, Clamp, Encoder, FullRange
  <2>2. EncoderOf(Half, Correction(m)) = (m + FullRange) % FullRange
    BY <2>1 DEF EncoderOf, Encoder, FullRange
  <2>3. (m + FullRange) % FullRange = m
    BY WrapOnce DEF Encoder, FullRange
  <2> QED
    BY <1>2, <2>1, <2>2, <2>3 DEF Encoder, FullRange
<1> QED
  BY <1>1, <1>2

\* Half of the range, up or down, is as far as a goal lies from the midpoint.
LEMMA GoalDistance ==
    ASSUME NEW r \in Nat, NEW percent \in 0 .. 100
    PROVE  /\ Truncate((2 * percent - 100) * r, 200) \in Int
           /\ 2 * Truncate((2 * percent - 100) * r, 200) <= r
           /\ - r <= 2 * Truncate((2 * percent - 100) * r, 200)
<1> DEFINE k == 2 * percent - 100
           n == k * r
<1>1. k \in Int /\ k <= 100 /\ -100 <= k
  OBVIOUS
<1> HIDE DEF k
<1>2. n \in Int /\ n <= 100 * r /\ - (100 * r) <= n
  BY <1>1
<1> HIDE DEF n
<1>3. /\ Truncate(n, 200) \in Int
      /\ 2 * Truncate(n, 200) <= r
      /\ - r <= 2 * Truncate(n, 200)
  BY <1>2 DEF Truncate
<1> QED
  BY <1>3 DEF k, n

LEMMA GoalStaysOnArc ==
    ASSUME NEW a \in ArcType, NEW percent \in 0 .. 100
    PROVE  /\ FloatOffset(Midpoint(a)) \in 1 - Half .. Half - 1
           /\ GoalAt(a, percent) \in Encoder
           /\ Midpoint(a) # 0 =>
                 On(a, EncoderOf(GoalAt(a, percent), FloatOffset(Midpoint(a))))
<1> DEFINE r == RangeOf(a)
           m == Midpoint(a)
           t == Truncate((2 * percent - 100) * r, 200)
           goal == (Half + t) % FullRange
<1>1. a.min \in Encoder /\ a.max \in Encoder
  BY DEF ArcType
<1>2. r \in 0 .. FullRange - 1 /\ m \in Encoder
      /\ m = IF a.min + r \div 2 < FullRange THEN a.min + r \div 2
             ELSE a.min + r \div 2 - FullRange
  BY MidpointValue
<1>3. r = IF a.max >= a.min THEN a.max - a.min ELSE FullRange - a.min + a.max
  BY DEF RangeOf
<1>4. t \in Int /\ 2 * t <= r /\ - r <= 2 * t
  <2>1. r \in Nat
    BY <1>2 DEF FullRange
  <2> HIDE DEF r
  <2> QED
    BY <2>1, GoalDistance
<1>5. PICK h \in Int : h = r \div 2 /\ r - 2 * h \in {0, 1}
  BY <1>2 DEF FullRange
<1>6. GoalAt(a, percent) = goal
  BY DEF GoalAt
<1> HIDE DEF r, m, t
<1>7. goal = IF Half + t < FullRange THEN Half + t ELSE Half + t - FullRange
  <2>0. PICK x \in Int : x = Half + t
    BY <1>4
  <2>1. 0 <= x /\ x < 2 * FullRange
    BY <1>2, <1>4, <2>0 DEF FullRange
  <2>2. goal = x % FullRange
    BY <2>0
  <2>3. x % FullRange = IF x < FullRange THEN x ELSE x - FullRange
    BY <2>1, WrapOnce
  <2> QED
    BY <1>4, <2>0, <2>2, <2>3 DEF FullRange
<1>8. goal \in Encoder
  BY <1>4, WrapInRange
<1> HIDE DEF goal
<1>9. FloatOffset(m) \in 1 - Half .. Half - 1
  BY <1>2 DEF FloatOffset, Clamp, Encoder, FullRange
<1>10. ASSUME m # 0
       PROVE  On(a, EncoderOf(goal, FloatOffset(m)))
  <2>1. FloatOffset(m) = m - Half
    BY <1>2, <1>10 DEF FloatOffset, Clamp, Encoder, FullRange
  <2> DEFINE e == EncoderOf(goal, m - Half)
             x == goal + (m - Half) + FullRange
  <2>2. x \in Int /\ 0 <= x /\ x < 3 * FullRange
    BY <1>2, <1>8 DEF Encoder, FullRange
  <2>3. x % FullRange = IF x < FullRange THEN x
                        ELSE IF x < 2 * FullRange THEN x - FullRange ELSE x - 2 * FullRange
    BY <2>2 DEF FullRange
  <2>4. e = IF x < FullRange THEN x
            ELSE IF x < 2 * FullRange THEN x - FullRange ELSE x - 2 * FullRange
    BY <2>3 DEF EncoderOf
  <2> HIDE DEF e
  <2>5. /\ e \in Encoder
        /\ e = m + t \/ e = m + t - FullRange \/ e = m + t + FullRange
    BY <2>2, <2>4, <1>7, <1>4, <1>2 DEF Encoder, FullRange
  <2>6. On(a, e)
    BY <2>5, <1>1, <1>2, <1>3, <1>4, <1>5 DEF On, Encoder, FullRange
  <2> QED
    BY <2>1, <2>6 DEF e
<1> QED
  BY <1>6, <1>8, <1>9, <1>10 DEF m, goal
==============================================================================
