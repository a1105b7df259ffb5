--------------------------- MODULE TravelArcProofs ---------------------------
(***************************************************************************)
(* Proofs about TravelArc, for every encoder resolution: the arc that is   *)
(* computed covers every reading, a sweep's arc is the sweep, the midpoint *)
(* is the arc's middle, and the offset and the goals stay on it.           *)
(***************************************************************************)
EXTENDS TravelArc, EncoderArcProofs

USE HalfAssumption, StepAssumption, PercentsAssumption

(***************************************************************************)
(* A sweep.                                                                *)
(***************************************************************************)
\* Steps from x up to y, going round if need be.
Ahead(x, y) == IF x <= y THEN y - x ELSE FullRange - x + y

\* S is what was read on a sweep from s over n positions to e: no two
\* neighbouring readings are more than a step apart, but for the unswept rest.
SweepOf(S, s, n, e) ==
    /\ s \in S /\ e \in S /\ n \in 0 .. FullRange - 1
    /\ Ahead(s, e) = n
    /\ \A r \in S : Ahead(s, r) <= n
    /\ \A x, y \in S : Gap(S, x, y) => (x = e /\ y = s) \/ Size(<< x, y >>) <= MaxStep

\* A sample further on continues the sweep.
LEMMA SweepGrows ==
    ASSUME NEW S \in SUBSET Encoder, NEW s \in Encoder, NEW n \in 0 .. FullRange - 1,
           NEW e \in Encoder, SweepOf(S, s, n, e),
           NEW d \in 1 .. MaxStep, n + d < FullRange,
           NEW f \in Encoder, f = (s + n + d) % FullRange
    PROVE  SweepOf(S \cup {f}, s, n + d, f)
<1> DEFINE T == S \cup {f}
<1>1. /\ s \in Int /\ 0 <= s /\ s < FullRange /\ e \in Int /\ 0 <= e /\ e < FullRange
      /\ n \in Int /\ 0 <= n /\ d \in Int /\ 1 <= d /\ d <= MaxStep
      /\ FullRange \in Int /\ MaxStep \in Int
      /\ \A r \in S : r \in Int /\ 0 <= r /\ r < FullRange
  BY DEF Encoder, FullRange
<1>2. f = IF s + n + d < FullRange THEN s + n + d ELSE s + n + d - FullRange
  <2>1. PICK x \in Int : x = s + n + d
    BY <1>1
  <2>2. 0 <= x /\ x < 2 * FullRange
    BY <1>1, <2>1
  <2>3. f = x % FullRange
    BY <2>1
  <2>4. x % FullRange = IF x < FullRange THEN x ELSE x - FullRange
    BY <2>2, WrapOnce
  <2> QED
    BY <1>1, <2>1, <2>3, <2>4
<1>3. f \in Int /\ 0 <= f /\ f < FullRange
  BY <1>1, <1>2
<1>4. /\ s \in S /\ e \in S
      /\ n = IF s <= e THEN e - s ELSE FullRange - s + e
      /\ \A r \in S : (IF s <= r THEN r - s ELSE FullRange - s + r) <= n
  BY DEF SweepOf, Ahead
<1>5. Ahead(s, f) = n + d
  BY <1>1, <1>2, <1>3 DEF Ahead
<1>6. ASSUME NEW r \in T PROVE Ahead(s, r) <= n + d
  BY <1>1, <1>4, <1>5 DEF Ahead
<1>7. ASSUME NEW x \in T, NEW y \in T, Gap(T, x, y)
      PROVE  (x = f /\ y = s) \/ Size(<< x, y >>) <= MaxStep
  <2>1. CASE x \in S /\ y \in S
    <3>1. Gap(S, x, y)
      BY <1>7 DEF Gap
    <3>2. ~ (x = e /\ y = s)
      <4>1. SUFFICES ASSUME x = e, y = s PROVE FALSE
        OBVIOUS
      <4>2. f \in T /\ s # e
        BY <1>7, <1>1, <4>1 DEF Gap
      <4>3. (e < s /\ (f <= e \/ s <= f)) \/ (s < e /\ s <= f /\ f <= e)
        BY <1>7, <4>1, <4>2 DEF Gap
      <4> QED
        BY <4>3, <1>1, <1>2, <1>3, <1>4
    <3> QED
      BY <2>1, <3>1, <3>2 DEF SweepOf
  <2>2. CASE x = f /\ y \in S
    <3>1. SUFFICES ASSUME y # s PROVE FALSE
      BY <2>2
    <3>2. s \in T
      BY <1>4
    <3>3. (f < y /\ (s <= f \/ y <= s)) \/ (y < f /\ y <= s /\ s <= f)
      BY <1>7, <2>2, <3>2 DEF Gap
    <3>4. (IF s <= y THEN y - s ELSE FullRange - s + y) <= n
      BY <1>4, <2>2
    <3>5. y \in Int /\ 0 <= y /\ y < FullRange
      BY <1>1, <2>2
    <3> QED
      BY <3>1, <3>3, <3>4, <3>5, <1>1, <1>2, <1>3
  <2>3. CASE x \in S /\ y = f
    <3>1. e \in T
      BY <1>4
    <3>2. (x < f /\ (e <= x \/ f <= e)) \/ (f < x /\ f <= e /\ e <= x)
      BY <1>7, <2>3, <3>1 DEF Gap
    <3>3. (IF s <= x THEN x - s ELSE FullRange - s + x) <= n
      BY <1>4, <2>3
    <3>4. x \in Int /\ 0 <= x /\ x < FullRange
      BY <1>1, <2>3
    <3>5. x = e
      BY <3>2, <3>3, <3>4, <1>1, <1>2, <1>3, <1>4
    <3>6. Size(<< x, y >>) = IF e < f THEN f - e ELSE FullRange - e + f
      BY <2>3, <3>5 DEF Size
    <3> QED
      BY <3>6, <1>1, <1>2, <1>3, <1>4
  <2>4. CASE x = f /\ y = f
    BY <1>7, <2>4, <1>3 DEF Gap
  <2> QED
    BY <2>1, <2>2, <2>3, <2>4
<1>8. n + d \in 0 .. FullRange - 1
  BY <1>1
<1> QED
  BY <1>4, <1>5, <1>6, <1>7, <1>8 DEF SweepOf

\* The arc of a sweep whose rest is more than three steps is the sweep.
LEMMA SweepArc ==
    ASSUME NEW S \in SUBSET Encoder, NEW s \in Encoder, NEW n \in 0 .. FullRange - 1,
           NEW e \in Encoder, SweepOf(S, s, n, e), FullRange - n > 3 * MaxStep
    PROVE  Arcs(S) = {Arc(s, e)}
<1>1. /\ s \in Int /\ 0 <= s /\ s < FullRange /\ e \in Int /\ 0 <= e /\ e < FullRange
      /\ n \in Int /\ 0 <= n /\ FullRange \in Int /\ MaxStep \in Int /\ MaxStep >= 1
      /\ \A r \in S : r \in Int /\ 0 <= r /\ r < FullRange
  BY DEF Encoder, FullRange
<1>2. /\ s \in S /\ e \in S
      /\ n = IF s <= e THEN e - s ELSE FullRange - s + e
      /\ \A r \in S : (IF s <= r THEN r - s ELSE FullRange - s + r) <= n
  BY DEF SweepOf, Ahead
<1>3. CASE s = e
  <2>1. \A r \in S : r = s
    BY <1>1, <1>2, <1>3
  <2>2. Gaps(S) = {}
    <3>1. \A x, y \in S : ~ (x < y) /\ ~ (y < x)
      BY <2>1, <1>1
    <3> QED
      BY <3>1 DEF Gaps, Gap
  <2>3. S = {s}
    BY <2>1, <1>2
  <2> QED
    BY <2>2, <2>3, <1>3 DEF Arcs
<1>4. CASE s # e
  <2> DEFINE g == << e, s >>
  <2>1. Gap(S, e, s)
    <3>1. CASE e < s
      BY <3>1, <1>1, <1>2 DEF Gap
    <3>2. CASE s < e
      BY <3>2, <1>1, <1>2 DEF Gap
    <3> QED
      BY <1>1, <1>4, <3>1, <3>2
  <2>2. g \in Gaps(S) /\ g[1] = e /\ g[2] = s
    BY <2>1, <1>2 DEF Gaps
  <2>3. Size(g) = FullRange - n
    BY <1>1, <1>2, <1>4 DEF Size
  <2>4. ASSUME NEW h \in Gaps(S), h # g
        PROVE  Size(h) \in Int /\ Size(h) <= MaxStep
    <3>1. PICK x \in S, y \in S : h = << x, y >> /\ Gap(S, x, y)
      BY DEF Gaps
    <3>2. Size(h) <= MaxStep
      BY <3>1, <2>4 DEF SweepOf
    <3>3. Size(h) = IF x < y THEN y - x ELSE FullRange - x + y
      BY <3>1 DEF Size
    <3> QED
      BY <3>1, <3>2, <3>3, <1>1
  <2>5. \A h \in Gaps(S) \ {g} : Size(h) < Size(g) /\ Size(g) > 3 * Size(h)
    BY <2>3, <2>4, <1>1
  <2>6. ClearlyLargest(S, g)
    BY <2>5 DEF ClearlyLargest
  <2>7. LargestGaps(S) = {g}
    <3>1. g \in LargestGaps(S)
      BY <2>2, <2>3, <2>4, <2>5, <1>1 DEF LargestGaps
    <3>2. ASSUME NEW h \in LargestGaps(S), h # g PROVE FALSE
      <4>1. h \in Gaps(S) /\ Size(g) <= Size(h)
        BY <2>2 DEF LargestGaps
      <4> QED
        BY <4>1, <3>2, <2>3, <2>4, <1>1
    <3> QED
      BY <3>1, <3>2
  <2>8. Arcs(S) = {ArcAround(S, g)}
    BY <2>2, <2>7, <1>2 DEF Arcs
  <2>9. ArcAround(S, g) = Arc(s, e)
    <3>1. CASE e < s
      BY <3>1, <2>2, <2>6 DEF ArcAround
    <3>2. CASE ~ (e < s)
      <4>1. ArcAround(S, g) = DirectArc(S)
        BY <3>2, <2>2 DEF ArcAround
      <4>2. \A z \in S : s <= z /\ z <= e
        BY <2>1, <3>2 DEF Gap
      <4>3. Least(S) = s /\ Greatest(S) = e
        <5>1. /\ Least(S) \in S /\ \A y \in S : Least(S) <= y
              /\ Greatest(S) \in S /\ \A y \in S : y <= Greatest(S)
          BY <1>2, Extremes
        <5>2. Least(S) <= s /\ s <= Least(S) /\ Greatest(S) <= e /\ e <= Greatest(S)
          BY <5>1, <4>2, <1>2
        <5>3. Least(S) \in Int /\ Greatest(S) \in Int
          BY <5>1, <1>1
        <5> QED
          BY <5>2, <5>3, <1>1
      <4> QED
        BY <4>1, <4>3 DEF DirectArc
    <3> QED
      BY <3>1, <3>2
  <2> QED
    BY <2>8, <2>9
<1> QED
  BY <1>3, <1>4

(***************************************************************************)
(* The invariant: the state's type, what a computed command says and what  *)
(* the readings of an undisturbed sweep look like.                         *)
(***************************************************************************)
Computed ==
    /\ readings # {}
    /\ SavedCentred
    /\ GoalOnArc

Swept ==
    sweep # NoSweep =>
        sweep.length >= 0 /\ SweepOf(readings, sweep.start, sweep.length, SweepEnd)

IInv == TypeOK /\ Computed /\ Swept

THEOREM Invariance == Spec => []IInv
<1>1. Init => IInv
  <2> SUFFICES ASSUME Init PROVE IInv
    OBVIOUS
  <2>1. PICK p \in Encoder : readings = {p} /\ sweep = [start |-> p, length |-> 0]
    BY DEF Init
  <2>2. command = Nothing
    BY DEF Init
  <2>3. command.kind = "none"
    BY <2>2 DEF Nothing
  <2>4. TypeOK
    BY <2>1, <2>2 DEF TypeOK, FullRange
  <2>5. Swept
    <3>1. sweep.start = p /\ sweep.length = 0
      BY <2>1
    <3>2. SweepEnd = p
      <4>1. p \in Int /\ 0 <= p /\ p < FullRange
        BY DEF Encoder, FullRange
      <4>2. p % FullRange = p
        BY <4>1, WrapOnce DEF FullRange
      <4> QED
        BY <3>1, <4>1, <4>2 DEF SweepEnd
    <3>3. SweepOf({p}, p, 0, p)
      BY DEF SweepOf, Ahead, Encoder, FullRange
    <3> QED
      BY <3>1, <3>2, <3>3, <2>1 DEF Swept
  <2> QED
    BY <2>1, <2>3, <2>4, <2>5 DEF IInv, Computed, SavedCentred, GoalOnArc
<1>2. IInv /\ [Next]_vars => IInv'
  <2> SUFFICES ASSUME IInv, [Next]_vars PROVE IInv'
    OBVIOUS
  <2> USE DEF IInv
  <2>0. readings \in SUBSET Encoder /\ readings # {}
    BY DEF TypeOK, Computed
  <2>1. CASE Sample
    <3>1. PICK d \in 1 .. MaxStep :
             /\ sweep.length + d < FullRange
             /\ sweep' = [sweep EXCEPT !.length = @ + d]
             /\ readings' = readings \cup {(sweep.start + sweep.length + d) % FullRange}
      BY <2>1 DEF Sample
    <3>2. command = Nothing /\ command' = Nothing
      BY <2>1 DEF Sample
    <3>3. sweep.start \in Encoder /\ sweep.length \in -1 .. FullRange - 1
      BY DEF TypeOK
    <3>4. (sweep.start + sweep.length + d) % FullRange \in Encoder
      <4>1. sweep.start + sweep.length + d \in Int
        BY <3>3 DEF Encoder, FullRange
      <4> QED
        BY <4>1, WrapInRange
    <3>5. sweep' \in [start : Encoder, length : -1 .. FullRange - 1]
      <4>1. sweep.length + d \in -1 .. FullRange - 1
        BY <3>1, <3>3 DEF FullRange
      <4> QED
        BY <3>1, <4>1 DEF TypeOK
    <3>6. TypeOK'
      BY <3>1, <3>2, <3>4, <3>5 DEF TypeOK
    <3>7. Swept'
      <4> DEFINE f == (sweep.start + sweep.length + d) % FullRange
      <4>1. sweep # NoSweep /\ sweep.length >= 0
            /\ SweepOf(readings, sweep.start, sweep.length, SweepEnd)
        BY <2>1 DEF Sample, Swept
      <4>2. sweep.length \in 0 .. FullRange - 1 /\ SweepEnd \in Encoder
        <5>1. sweep.length \in 0 .. FullRange - 1
          BY <3>3, <4>1 DEF FullRange
        <5>2. sweep.start + sweep.length \in Int
          BY <3>3, <5>1 DEF Encoder, FullRange
        <5>3. SweepEnd \in Encoder
          BY <5>2, WrapInRange DEF SweepEnd
        <5> QED
          BY <5>1, <5>3
      <4>3. f \in Encoder
        BY <3>4
      <4>4. SweepOf(readings \cup {f}, sweep.start, sweep.length + d, f)
        BY <2>0, <3>1, <3>3, <4>1, <4>2, <4>3, SweepGrows
      <4>5. sweep'.start = sweep.start /\ sweep'.length = sweep.length + d
        BY <3>1, <3>3 DEF TypeOK
      <4>6. SweepEnd' = f
        <5>1. sweep'.start + sweep'.length = sweep.start + sweep.length + d
          BY <3>3, <4>2, <4>5 DEF Encoder, FullRange
        <5> QED
          BY <5>1 DEF SweepEnd
      <4>7. sweep.length + d >= 0
        BY <4>2 DEF FullRange
      <4> QED
        BY <3>1, <4>4, <4>5, <4>6, <4>7 DEF Swept
    <3> QED
      BY <3>1, <3>2, <3>6, <3>7 DEF Computed, SavedCentred, GoalOnArc, Nothing
  <2>2. CASE Stray
    <3>1. command = Nothing /\ command' = Nothing
      BY <2>2 DEF Stray
    <3>2. NoSweep \in [start : Encoder, length : -1 .. FullRange - 1]
      BY DEF NoSweep, Encoder, FullRange
    <3>3. TypeOK' /\ readings' # {}
      BY <2>2, <3>1, <3>2, <2>0 DEF Stray, TypeOK
    <3>4. Swept'
      BY <2>2 DEF Stray, Swept
    <3> QED
      BY <3>1, <3>3, <3>4 DEF Computed, SavedCentred, GoalOnArc, Nothing
  <2>3. CASE Save
    <3>1. PICK a \in Arcs(readings) :
             command' = [kind |-> "save", arc |-> a, offset |-> Correction(Midpoint(a))]
      BY <2>3 DEF Save
    <3>2. a \in ArcType
      BY <2>0, ArcCovers
    <3>3. Midpoint(a) \in Encoder
      BY <3>2, MidpointValue
    <3>4. /\ Correction(Midpoint(a)) \in 1 - Half .. Half - 1
          /\ EncoderOf(IF Midpoint(a) = 0 THEN Half + 1 ELSE Half, Correction(Midpoint(a)))
                = Midpoint(a)
      BY <3>3, CorrectionCentres
    <3>5. readings' = readings /\ sweep' = sweep
      BY <2>3 DEF Save
    <3>6. /\ command'.kind = "save" /\ command'.arc = a
          /\ command'.offset = Correction(Midpoint(a))
      BY <3>1
    <3>7. SavedCentred' /\ GoalOnArc'
      BY <3>4, <3>6 DEF SavedCentred, GoalOnArc
    <3>8. TypeOK'
      BY <3>1, <3>2, <3>4, <3>5 DEF TypeOK, ArcType
    <3>9. Swept'
      BY <3>5 DEF Swept, SweepEnd
    <3> QED
      BY <3>5, <3>7, <3>8, <3>9, <2>0 DEF Computed
  <2>4. CASE GoToFloatPosition
    <3>1. PICK a \in Arcs(readings), percent \in Percents :
             command' = [kind |-> "float", arc |-> a, offset |-> FloatOffset(Midpoint(a)),
                         goal |-> GoalAt(a, percent)]
      BY <2>4 DEF GoToFloatPosition
    <3>2. a \in ArcType
      BY <2>0, ArcCovers
    <3>3. /\ FloatOffset(Midpoint(a)) \in 1 - Half .. Half - 1
          /\ GoalAt(a, percent) \in Encoder
          /\ Midpoint(a) # 0 =>
                On(a, EncoderOf(GoalAt(a, percent), FloatOffset(Midpoint(a))))
      BY <3>2, GoalStaysOnArc
    <3>4. readings' = readings /\ sweep' = sweep
      BY <2>4 DEF GoToFloatPosition
    <3>5. /\ command'.kind = "float" /\ command'.arc = a
          /\ command'.offset = FloatOffset(Midpoint(a))
          /\ command'.goal = GoalAt(a, percent)
      BY <3>1
    <3>6. SavedCentred' /\ GoalOnArc'
      BY <3>3, <3>5 DEF SavedCentred, GoalOnArc
    <3>7. TypeOK'
      BY <3>1, <3>2, <3>3, <3>4 DEF TypeOK, ArcType
    <3>8. Swept'
      BY <3>4 DEF Swept, SweepEnd
    <3> QED
      BY <3>4, <3>6, <3>7, <3>8, <2>0 DEF Computed
  <2>5. CASE NextSweep
    <3>1. command' = Nothing /\ readings' = readings /\ sweep' = sweep
      BY <2>5 DEF NextSweep
    <3> QED
      BY <3>1, <2>0 DEF TypeOK, Computed, SavedCentred, GoalOnArc, Nothing, Swept, SweepEnd
  <2>6. CASE UNCHANGED vars
    BY <2>6 DEF vars, TypeOK, Computed, SavedCentred, GoalOnArc, Swept, SweepEnd
  <2> QED
    BY <2>1, <2>2, <2>3, <2>4, <2>5, <2>6 DEF Next
<1> QED
  BY <1>1, <1>2, PTL DEF Spec

(***************************************************************************)
(* Theorems.                                                               *)
(***************************************************************************)
\* The survey's state is always well typed.
THEOREM TypeCorrect == Spec => []TypeOK
<1>1. IInv => TypeOK
  BY DEF IInv
<1> QED
  BY <1>1, Invariance, PTL

\* The arc calculate_arc returns covers every recorded position, for every set of
\* readings and every way of breaking ties (calibrate.rs 51-82).
THEOREM ArcCoversReadingsHolds == Spec => []ArcCoversReadings
<1>1. IInv => ArcCoversReadings
  BY ArcCovers DEF IInv, TypeOK, Computed, ArcCoversReadings
<1> QED
  BY <1>1, Invariance, PTL

\* From a sweep that leaves more than three sampling steps unswept calculate_arc
\* recovers exactly the stretch that was swept (calibrate.rs 63-74).
THEOREM SweepRecoveredHolds == Spec => []SweepRecovered
<1>1. IInv => SweepRecovered
  <2> SUFFICES ASSUME IInv, sweep # NoSweep, FullRange - sweep.length > 3 * MaxStep
               PROVE  Arcs(readings) = {Arc(sweep.start, SweepEnd)}
    BY DEF SweepRecovered
  <2>1. /\ readings \in SUBSET Encoder /\ sweep.start \in Encoder
        /\ sweep.length \in 0 .. FullRange - 1
        /\ SweepOf(readings, sweep.start, sweep.length, SweepEnd)
    BY DEF IInv, TypeOK, Swept
  <2>2. SweepEnd \in Encoder
    <3>1. sweep.start + sweep.length \in Int
      BY <2>1 DEF Encoder, FullRange
    <3> QED
      BY <3>1, WrapInRange DEF SweepEnd
  <2> QED
    BY <2>1, <2>2, SweepArc
<1> QED
  BY <1>1, Invariance, PTL

\* The midpoint is on the arc and halves it, across the encoder's zero as well.
THEOREM MidpointCentredHolds == Spec => []MidpointCentred
<1>1. IInv => MidpointCentred
  <2> SUFFICES ASSUME IInv, NEW a \in Arcs(readings)
               PROVE  /\ On(a, Midpoint(a))
                      /\ RangeOf(Arc(Midpoint(a), a.max)) - RangeOf(Arc(a.min, Midpoint(a)))
                            \in {0, 1}
    BY DEF MidpointCentred
  <2>1. a \in ArcType
    BY ArcCovers DEF IInv, TypeOK, Computed
  <2> QED
    BY <2>1, MidpointOfArc
<1> QED
  BY <1>1, Invariance, PTL

\* What freeze_calibration saves centres the arc (driver.rs 226-232).
THEOREM SavedCentredHolds == Spec => []SavedCentred
<1>1. IInv => SavedCentred
  BY DEF IInv, Computed
<1> QED
  BY <1>1, Invariance, PTL

\* go_to_float_position never sends a motor off its recorded arc, midpoint 0 apart.
THEOREM GoalOnArcHolds == Spec => []GoalOnArc
<1>1. IInv => GoalOnArc
  BY DEF IInv, Computed
<1> QED
  BY <1>1, Invariance, PTL
==============================================================================
