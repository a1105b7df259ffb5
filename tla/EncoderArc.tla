------------------------------ MODULE EncoderArc ------------------------------
(***************************************************************************)
(* The arithmetic of encoder positions: calculate_arc (calibrate.rs), the  *)
(* midpoint and goal of calibrator.rs and the offset correction of         *)
(* freeze_calibration (driver.rs), on a circle of 2 * Half encoder         *)
(* positions (Half is 2048 in the code).                                   *)
(***************************************************************************)
EXTENDS Integers

CONSTANT Half         \* half a turn

ASSUME HalfAssumption == Half \in Nat /\ Half >= 1

FullRange == 2 * Half
Encoder == 0 .. FullRange - 1

(***************************************************************************)
(* calculate_arc.                                                          *)
(***************************************************************************)
Least(S) == CHOOSE x \in S : \A y \in S : x <= y
Greatest(S) == CHOOSE x \in S : \A y \in S : y <= x

\* x and y bound a gap: y is the next reading after x, or x the last and y the first.
Gap(S, x, y) ==
    \/ x < y /\ \A z \in S : z <= x \/ y <= z
    \/ y < x /\ \A z \in S : y <= z /\ z <= x

Gaps(S) == { g \in S \X S : Gap(S, g[1], g[2]) }

Size(g) == IF g[1] < g[2] THEN g[2] - g[1] ELSE FullRange - g[1] + g[2]

\* Ties are broken by sort_unstable_by, that is, arbitrarily.
LargestGaps(S) == { g \in Gaps(S) : \A h \in Gaps(S) : Size(h) <= Size(g) }

ClearlyLargest(S, g) == \A h \in Gaps(S) \ {g} : Size(g) > 3 * Size(h)

Arc(min, max) == [min |-> min, max |-> max]
DirectArc(S) == Arc(Least(S), Greatest(S))

\* Position p is on the arc, the ends included (for the properties).
On(a, p) == IF a.min <= a.max THEN a.min <= p /\ p <= a.max
                              ELSE a.min <= p \/ p <= a.max

\* Variants: the wrap-around arc with its ends swapped, and without the second
\* gap being looked at.
ArcAroundSwapped(S, g) ==
    IF g[1] < g[2] /\ ClearlyLargest(S, g) THEN Arc(g[1], g[2]) ELSE DirectArc(S)

ArcAroundStrict(S, g) ==
    IF g[1] < g[2] /\ \A h \in Gaps(S) \ {g} : Size(g) > 4 * Size(h)
    THEN Arc(g[2], g[1]) ELSE DirectArc(S)

\* The arc that leaves out gap g, the largest one.
ArcAround(S, g) ==
    IF g[1] < g[2] /\ ClearlyLargest(S, g) THEN Arc(g[2], g[1]) ELSE DirectArc(S)

\* The arcs calculate_arc may return.
Arcs(S) ==
    IF S = {} THEN {Arc(0, 0)}
    ELSE IF Gaps(S) = {} THEN { Arc(v, v) : v \in S }
    ELSE { ArcAround(S, g) : g \in LargestGaps(S) }

(***************************************************************************)
(* What the calibration makes of an arc.                                   *)
(***************************************************************************)
RangeOf(a) == IF a.max >= a.min THEN a.max - a.min ELSE FullRange - a.min + a.max

\* Variant: no wrap-around.
MidpointUnwrapped(a) == (a.min + a.max) \div 2

Midpoint(a) ==
    IF a.max >= a.min THEN a.min + RangeOf(a) \div 2
    ELSE (a.min + RangeOf(a) \div 2) % FullRange

Clamp(o) == IF o > Half - 1 THEN Half - 1 ELSE IF o < 1 - Half THEN 1 - Half ELSE o

\* Variants: an offset of -Half is not clamped; the midpoint itself is the offset.
CorrectionUnclamped(midpoint) ==
    LET c == midpoint - Half
    IN  IF c > Half - 1 THEN c - FullRange
        ELSE IF c < 1 - Half THEN c + FullRange ELSE c

CorrectionUncentred(midpoint) == Clamp(midpoint)

\* freeze_calibration.
Correction(midpoint) ==
    LET c == midpoint - Half
    IN  Clamp(IF c > Half - 1 THEN c - FullRange
              ELSE IF c < 1 - Half THEN c + FullRange ELSE c)

\* go_to_float_position's offset is clamped and not wrapped.
FloatOffset(midpoint) == Clamp(midpoint - Half)

Truncate(n, d) == IF n >= 0 THEN n \div d ELSE - ((- n) \div d)

\* Variant: the whole range to either side of the midpoint.
GoalAtDoubled(a, percent) ==
    (Half + Truncate((2 * percent - 100) * RangeOf(a), 100)) % FullRange

GoalAt(a, percent) ==
    (Half + Truncate((2 * percent - 100) * RangeOf(a), 200)) % FullRange

\* read_encoder_position: a servo displays its encoder position less its offset.
EncoderOf(displayed, offset) == (displayed + offset + FullRange) % FullRange
==============================================================================
