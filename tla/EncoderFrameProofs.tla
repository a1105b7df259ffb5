-------------------------- MODULE EncoderFrameProofs --------------------------
(***************************************************************************)
(* Proofs about EncoderFrame, for every encoder resolution, part of the    *)
(* circle that a joint can reach and position of its motor: the offset     *)
(* that a primitive writes leaves the whole of its way ahead of what it    *)
(* read, and its goals cover that way in as many steps as it takes.        *)
(***************************************************************************)
EXTENDS EncoderFrame, EncoderArcProofs

USE HalfAssumption, SweepAssumption

(***************************************************************************)
(* The frame: displayed positions and the offset that a primitive chooses. *)
(***************************************************************************)
LEMMA ReadsInRange ==
    ASSUME lower \in Int, offset \in Int, NEW y \in Int
    PROVE  /\ ReadPosition(Displayed(y)) \in Encoder
           /\ ReadEncoderPosition(y) \in Encoder
<1>1. Displayed(y) \in Encoder
  BY WrapInRange DEF Displayed
<1>2. 0 \in Encoder
  BY DEF Encoder, FullRange
<1>3. ReadPosition(Displayed(y)) \in Encoder
  BY <1>1, <1>2 DEF ReadPosition
<1>4. ReadPosition(Displayed(y)) + offset + FullRange \in Int
  BY <1>3 DEF Encoder, FullRange
<1> QED
  BY <1>3, <1>4, WrapInRange DEF ReadEncoderPosition, EncoderOf

\* An offset whose distance from start is whole turns, but for a step, displays start
\* but for that step.
LEMMA PlacedBy ==
    ASSUME NEW e \in Int, NEW o \in Int, NEW shown \in Encoder, NEW q \in {-1, 0, 1},
           (e % FullRange) - o = shown + FullRange * q
    PROVE  (e - o) % FullRange = shown
<1>1. ((e % FullRange) + (- o)) % FullRange = (e + (- o)) % FullRange
  BY WrapThenAdd
<1>2. e % FullRange \in Int
  BY DEF FullRange
<1>3. (e % FullRange) + (- o) = shown + FullRange * q /\ e + (- o) = e - o
  BY <1>2
<1>4. shown \in Int
  BY DEF Encoder, FullRange
<1> QED
  BY <1>1, <1>3, <1>4, TurnsVanish, InRangeStays

Ends == {SafeOffset, High}

\* The offset that find_min, find_max and shift write displays the position that was
\* read at the end of the range that they start from.  Half a turn from there the
\* offset is clamped, which moves the display one step away from the move's end of the
\* range, not towards it.
LEMMA OffsetPlaces ==
    ASSUME NEW e \in Encoder, NEW start \in Ends
    PROVE  /\ OffsetFor(start, e) \in 1 - Half .. Half - 1
           /\ LET shown == (e - OffsetFor(start, e)) % FullRange
              IN  IF start = SafeOffset THEN shown \in {start - 1, start}
                                        ELSE shown \in {start, start + 1}
<1> DEFINE r == e % FullRange
           new == r - start
           o == OffsetFor(start, e)
<1>1. e \in Int /\ r \in Encoder /\ r = e
  BY InRangeStays DEF Encoder, FullRange
<1>4. o = Clamp(IF new < 1 - Half THEN new + FullRange
                ELSE IF new > Half - 1 THEN new - FullRange ELSE new)
  BY <1>1 DEF OffsetFor
<1>5. r \in Int /\ 0 <= r /\ r < FullRange /\ FullRange = 2 * Half
  BY <1>1 DEF Encoder, FullRange
<1>6. start \in Encoder /\ start \in Int /\ 0 <= start /\ start < FullRange /\ Half \in Int
  BY DEF Ends, High, Encoder, FullRange
<1>7. SafeOffset \in Int /\ 0 < SafeOffset /\ SafeOffset < Half
  OBVIOUS
<1>8. start = SafeOffset \/ start = FullRange - 1 - SafeOffset
  BY DEF Ends, High
<1> HIDE DEF r, o
<1>9. o \in 1 - Half .. Half - 1
  BY <1>4, <1>5, <1>6 DEF Clamp
<1>10. \E q \in {-1, 0, 1} :
          \/ r - o = start + FullRange * q
          \/ start = SafeOffset /\ r - o = start - 1 + FullRange * q
          \/ start # SafeOffset /\ r - o = start + 1 + FullRange * q
  <2>1. CASE new < 1 - Half
    <3>1. CASE new = - Half
      <4>1. o = Half - 1
        BY <1>4, <1>5, <1>6, <3>1 DEF Clamp
      <4>2. start # SafeOffset
        BY <1>5, <1>7, <3>1
      <4>3. r - o = start + 1 + FullRange * (-1)
        BY <4>1, <1>5, <1>6, <3>1
      <4> QED
        BY <4>2, <4>3
    <3>2. CASE new # - Half
      <4>1. o = new + FullRange
        BY <1>4, <1>5, <1>6, <2>1, <3>2 DEF Clamp
      <4>2. r - o = start + FullRange * (-1)
        BY <4>1, <1>5, <1>6
      <4> QED
        BY <4>2
    <3> QED
      BY <3>1, <3>2
  <2>2. CASE new > Half - 1
    <3>1. CASE new = Half
      <4>1. o = 1 - Half
        BY <1>4, <1>5, <1>6, <1>7, <3>1 DEF Clamp
      <4>2. start = SafeOffset
        BY <1>5, <1>6, <1>7, <1>8, <3>1
      <4>3. r - o = start - 1 + FullRange * 1
        BY <4>1, <1>5, <1>6, <3>1
      <4> QED
        BY <4>2, <4>3
    <3>2. CASE new # Half
      <4>1. o = new - FullRange
        BY <1>4, <1>5, <1>6, <1>7, <2>2, <3>2 DEF Clamp
      <4>2. r - o = start + FullRange * 1
        BY <4>1, <1>5, <1>6
      <4> QED
        BY <4>2
    <3> QED
      BY <3>1, <3>2
  <2>3. CASE ~ (new < 1 - Half) /\ ~ (new > Half - 1)
    <3>1. o = new
      BY <1>4, <1>5, <1>6, <2>3 DEF Clamp
    <3>2. r - o = start + FullRange * 0
      BY <3>1, <1>5, <1>6
    <3> QED
      BY <3>2
  <2> QED
    BY <2>1, <2>2, <2>3
<1>11. o \in Int
  BY <1>9
<1>12. PICK q \in {-1, 0, 1} :
          \/ r - o = start + FullRange * q
          \/ start = SafeOffset /\ r - o = start - 1 + FullRange * q
          \/ start # SafeOffset /\ r - o = start + 1 + FullRange * q
  BY <1>10
<1>13. CASE r - o = start + FullRange * q
  <2>1. (e - o) % FullRange = start
    BY <1>1, <1>6, <1>11, <1>13, PlacedBy DEF r
  <2> QED
    BY <2>1, <1>9 DEF o
<1>14. CASE start = SafeOffset /\ r - o = start - 1 + FullRange * q
  <2>1. start - 1 \in Encoder
    BY <1>5, <1>6, <1>7, <1>14 DEF Encoder
  <2>2. (e - o) % FullRange = start - 1
    BY <1>1, <1>11, <1>14, <2>1, PlacedBy DEF r
  <2> QED
    BY <2>2, <1>9, <1>14 DEF o
<1>15. CASE start # SafeOffset /\ r - o = start + 1 + FullRange * q
  <2>1. start + 1 \in Encoder
    BY <1>5, <1>6, <1>7, <1>8, <1>15 DEF Encoder
  <2>2. (e - o) % FullRange = start + 1
    BY <1>1, <1>11, <1>15, <2>1, PlacedBy DEF r
  <2> QED
    BY <2>2, <1>9, <1>15 DEF o
<1> QED
  BY <1>12, <1>13, <1>14, <1>15

(***************************************************************************)
(* The invariant.                                                          *)
(***************************************************************************)
\* A primitive starts from the end of the range that its kind starts from.
StartPlaced ==
    /\ pass.kind = "min" => pass.start = High
    /\ pass.kind = "max" => pass.start = SafeOffset
    /\ pass.kind = "shift" => pass.start = StartOf(pass.steps)

\* How far the goals of the pass have come on its way.
Gone == CASE pass.kind = "min"   -> pass.start - pass.target
          [] pass.kind = "max"   -> pass.target - pass.start
          [] pass.kind = "shift" -> IF pass.steps > 0 THEN pass.target - pass.start
                                    ELSE pass.start - pass.target
          [] OTHER               -> 0

\* n steps of a way of length w.
Capped(n, w) == IF n * CalibrationStep < w THEN n * CalibrationStep ELSE w

\* The goals have come as many steps as there were, the last one cut at the end.
Covered ==
    /\ Gone = Capped(goals, Way)
    /\ goals > 0 => (goals - 1) * CalibrationStep < Way

\* The loops of find_min and find_max leave when there is no more way, and shift's
\* then only.
LeavesInTime ==
    /\ pass.running /\ pass.kind \in {"min", "max"} => Gone < Way
    /\ ~ pass.running /\ pass.kind = "shift" => Gone = Way

IInv == TypeOK /\ RoomAhead /\ StartPlaced /\ Covered /\ LeavesInTime

(***************************************************************************)
(* The steps.                                                              *)
(***************************************************************************)
LEMMA PassFields ==
    ASSUME TypeOK
    PROVE  /\ pass.running \in BOOLEAN /\ pass.framed \in BOOLEAN
           /\ pass.kind \in {"none", "min", "max", "shift"}
           /\ pass.target \in Encoder /\ pass.target \in Int
           /\ 0 <= pass.target /\ pass.target <= FullRange - 1
           /\ pass.start \in Encoder /\ pass.start \in Int /\ pass.read \in Encoder
           /\ pass.steps \in Int /\ pass.steps \in Shifts \cup {0}
           /\ FullRange \in Int /\ goals \in Nat /\ goals * CalibrationStep \in Nat
<1>1. /\ pass.running \in BOOLEAN /\ pass.framed \in BOOLEAN
      /\ pass.kind \in {"none", "min", "max", "shift"}
      /\ pass.target \in Encoder /\ pass.start \in Encoder /\ pass.read \in Encoder
      /\ pass.steps \in Shifts \cup {0} /\ goals \in Nat
  BY DEF TypeOK, Passes
<1>2. pass.steps \in Int
  <2>1. \A steps \in Shifts \cup {0} : steps \in Int
    OBVIOUS
  <2> QED
    BY <1>1, <2>1, Zenon
<1>3. /\ pass.target \in Int /\ 0 <= pass.target /\ pass.target <= FullRange - 1
      /\ pass.start \in Int /\ FullRange \in Int
  BY <1>1 DEF Encoder, FullRange
<1>4. goals * CalibrationStep \in Nat
  BY <1>1
<1> QED
  BY <1>1, <1>2, <1>3, <1>4

\* The ways are within the encoder, and that of a sweep is not empty.
LEMMA Ways ==
    ASSUME TypeOK, StartPlaced
    PROVE  /\ Way \in Nat
           /\ pass.kind \in {"min", "max"} => Way > 0
<1>1. CASE pass.kind = "min"
  BY <1>1, PassFields DEF Way, StartPlaced, High, FullRange
<1>2. CASE pass.kind = "max"
  BY <1>2, PassFields DEF Way, StartPlaced, High, FullRange
<1>3. CASE pass.kind = "shift"
  <2>1. /\ Limited(pass.start + pass.steps) \in Int
        /\ pass.steps > 0 => pass.start <= Limited(pass.start + pass.steps)
        /\ ~ (pass.steps > 0) => Limited(pass.start + pass.steps) <= pass.start
    BY <1>3, PassFields DEF Limited, Encoder
  <2> QED
    BY <1>3, <2>1, PassFields DEF Way
<1>4. CASE pass.kind = "none"
  BY <1>4 DEF Way
<1> QED
  BY <1>1, <1>2, <1>3, <1>4, PassFields

\* Wherever its goal is, a move leaves the motor on its travel and records positions of
\* the encoder.
LEMMA MoveTyped ==
    ASSUME TypeOK, NEW goal \in Encoder, MoveTo(goal), pass' \in Passes,
           swept' \subseteq {"min", "max"}
    PROVE  TypeOK'
<1>0. /\ lower \in Int /\ travel \in Int /\ at \in Int /\ offset \in Int
      /\ 0 <= at /\ at <= travel
  BY DEF TypeOK, Encoder, FullRange
<1>1. at' \in 0 .. travel
  <2>1. at + goal - Displayed(at) \in Int
    <3>1. Displayed(at) \in Encoder
      BY <1>0, WrapInRange DEF Displayed
    <3> QED
      BY <1>0, <3>1 DEF Encoder, FullRange
  <2>2. InTravel(at + goal - Displayed(at)) \in 0 .. travel
    BY <1>0, <2>1 DEF InTravel
  <2>3. Ahead(goal) \subseteq 0 .. travel
    BY <2>2 DEF Ahead
  <2>4. PICK z \in Ahead(goal) : at' \in Between(at, z)
    BY DEF MoveTo
  <2>5. z \in 0 .. travel
    BY <2>3, <2>4
  <2> QED
    BY <1>0, <2>4, <2>5 DEF Between
<1>2. recorded' \subseteq Encoder
  <2>1. \A y \in Between(at, at') : y \in Int
    BY DEF Between
  <2>2. \A y \in Between(at, at') : ReadPosition(Displayed(y)) \in Encoder
    BY <1>0, <2>1, ReadsInRange
  <2>3. recorded' = recorded \cup { ReadPosition(Displayed(y)) : y \in Between(at, at') }
    BY DEF MoveTo
  <2> QED
    BY <2>2, <2>3 DEF TypeOK
<1>3. /\ UNCHANGED << lower, travel, offset, passes, saved >>
      /\ goals' \in Nat /\ arrived' \in BOOLEAN
  BY DEF MoveTo, TypeOK
<1> QED
  BY <1>1, <1>2, <1>3 DEF TypeOK

\* One goal further.
LEMMA OneMoreGoal ==
    ASSUME NEW n \in Nat, NEW w \in Int, NEW g \in Int, g = Capped(n, w), g < w
    PROVE  /\ n * CalibrationStep < w /\ g = n * CalibrationStep
           /\ Capped(n + 1, w) = IF g + CalibrationStep < w THEN g + CalibrationStep ELSE w
<1>1. n * CalibrationStep \in Int /\ (n + 1) * CalibrationStep = n * CalibrationStep + CalibrationStep
  OBVIOUS
<1>2. g = n * CalibrationStep
  BY <1>1 DEF Capped
<1> QED
  BY <1>1, <1>2 DEF Capped

\* A primitive begins: its way is ahead of what it read, and no goal has been sent.
LEMMA BeginStep ==
    ASSUME IInv, NEW kind \in {"min", "max", "shift"}, NEW steps \in Shifts \cup {0},
           NEW start \in Ends,
           kind = "min" => start = High,
           kind = "max" => start = SafeOffset,
           kind = "shift" => start = StartOf(steps),
           Begin(kind, steps, start)
    PROVE  IInv'
<1>0. TypeOK /\ lower \in Int /\ offset \in Int
  BY DEF IInv, TypeOK, Encoder, FullRange
<1>1. PICK framed \in BOOLEAN :
         /\ offset' = IF framed THEN OffsetFor(start, ReadEncoderPosition(at')) ELSE offset
         /\ pass' = [kind |-> kind, steps |-> steps, start |-> start, target |-> start,
                     running |-> TRUE, read |-> ReadEncoderPosition(at'), framed |-> framed]
  BY DEF Begin
<1>2. /\ UNCHANGED << lower, travel, recorded, saved, swept >>
      /\ at' \in 0 .. travel /\ passes' = passes + 1 /\ passes < MaxPasses
      /\ goals' = 0 /\ arrived' = TRUE
  BY DEF Begin
<1>3. PICK read \in Encoder : read = ReadEncoderPosition(at')
  <2>1. at' \in Int
    BY <1>2
  <2> QED
    BY <1>0, <2>1, ReadsInRange
<1>4. /\ pass'.kind = kind /\ pass'.steps = steps /\ pass'.running = TRUE
      /\ pass'.start = start /\ pass'.target = start
      /\ pass'.read = read /\ pass'.framed = framed
  BY <1>1, <1>3
<1>5. start \in Encoder /\ start \in Int
  BY DEF Ends, High, Encoder, FullRange
<1>6. offset' \in 1 - Half .. Half - 1
  BY <1>0, <1>1, <1>3, OffsetPlaces DEF TypeOK
<1>7. TypeOK'
  <2>1. pass' \in Passes
    BY <1>1, <1>3, <1>5 DEF Passes
  <2>2. passes' \in 0 .. MaxPasses
    BY <1>0, <1>2 DEF TypeOK
  <2> QED
    BY <1>0, <1>2, <1>6, <2>1, <2>2 DEF TypeOK
<1>8. RoomAhead'
  <2> SUFFICES ASSUME framed
               PROVE  IF start = SafeOffset
                      THEN (read - offset') % FullRange \in {SafeOffset - 1, SafeOffset}
                      ELSE (read - offset') % FullRange \in {High, High + 1}
    BY <1>4 DEF RoomAhead, High, FullRange
  <2>1. offset' = OffsetFor(start, read)
    BY <1>1, <1>3
  <2>2. LET shown == (read - OffsetFor(start, read)) % FullRange
        IN  IF start = SafeOffset THEN shown \in {start - 1, start}
                                  ELSE shown \in {start, start + 1}
    BY OffsetPlaces
  <2>3. start # SafeOffset => start = High
    BY DEF Ends
  <2> QED
    BY <2>1, <2>2, <2>3
<1>9. StartPlaced'
  BY <1>4 DEF StartPlaced, High, StartOf, FullRange
<1>10. Gone' = 0
  BY <1>4, <1>5 DEF Gone
<1>11. Way' \in Nat /\ (kind \in {"min", "max"} => Way' > 0)
  <2>0. /\ 0 <= start /\ start < FullRange /\ FullRange \in Int /\ FullRange = 2 * Half
        /\ SafeOffset \in Int /\ 0 < SafeOffset /\ SafeOffset < Half /\ Half \in Int
    BY <1>5 DEF Encoder, FullRange
  <2>1. CASE kind = "min"
    <3>1. Way' = start
      BY <1>4, <2>1 DEF Way
    <3> QED
      BY <1>5, <2>0, <2>1, <3>1 DEF High
  <2>2. CASE kind = "max"
    <3>1. Way' = FullRange - 1 - start
      BY <1>4, <2>2 DEF Way, FullRange
    <3> QED
      BY <1>5, <2>0, <2>2, <3>1
  <2>3. CASE kind = "shift"
    <3> DEFINE end == Limited(start + steps)
    <3>1. Way' = IF steps > 0 THEN end - start ELSE start - end
      BY <1>4, <2>3 DEF Way, Limited, FullRange
    <3>2. steps \in Int
      <4>1. \A k \in Shifts \cup {0} : k \in Int
        OBVIOUS
      <4> QED
        BY <4>1, Zenon
    <3>3. /\ end \in Int
          /\ steps > 0 => start <= end
          /\ ~ (steps > 0) => end <= start
      BY <1>5, <2>0, <3>2 DEF Limited
    <3> HIDE DEF end
    <3> QED
      BY <1>5, <2>3, <3>1, <3>3
  <2> QED
    BY <2>1, <2>2, <2>3
<1>12. 0 * CalibrationStep = 0
  OBVIOUS
<1>13. Covered'
  BY <1>2, <1>10, <1>11, <1>12 DEF Covered, Capped
<1>14. LeavesInTime'
  BY <1>4, <1>10, <1>11 DEF LeavesInTime
<1> QED
  BY <1>7, <1>8, <1>9, <1>13, <1>14 DEF IInv

\* What a turn of a loop makes of pass.
LEMMA ContinueFields ==
    ASSUME TypeOK, NEW goal \in Encoder, NEW over \in BOOLEAN, Continue(goal, over)
    PROVE  /\ pass' \in Passes
           /\ pass'.kind = pass.kind /\ pass'.steps = pass.steps
           /\ pass'.start = pass.start /\ pass'.framed = pass.framed
           /\ pass'.read = pass.read
           /\ pass'.target = goal
           /\ pass'.running = ~ over
BY DEF TypeOK, Passes, Continue

\* A turn that sends a goal: the goal is a step further on the way, or at its end, and
\* a sweep's loop leaves at the end.
LEMMA TurnStep ==
    ASSUME IInv, NEW goal \in Encoder, NEW over \in BOOLEAN, pass.running,
           MoveTo(goal), Continue(goal, over), Gone < Way,
           Gone' = IF Gone + CalibrationStep < Way THEN Gone + CalibrationStep ELSE Way,
           pass.kind \in {"min", "max"} /\ Gone' = Way => over,
           pass.kind = "shift" => ~ over,
           swept' \subseteq {"min", "max"}
    PROVE  IInv'
<1>1. /\ pass' \in Passes
      /\ pass'.kind = pass.kind /\ pass'.steps = pass.steps
      /\ pass'.start = pass.start /\ pass'.framed = pass.framed
      /\ pass'.read = pass.read /\ pass'.running = ~ over
  BY ContinueFields DEF IInv
<1>2. TypeOK'
  BY <1>1, MoveTyped DEF IInv
<1>3. /\ UNCHANGED << offset, saved >> /\ goals' = goals + 1 /\ goals \in Nat
  BY DEF MoveTo, IInv, TypeOK
<1>4. RoomAhead' /\ StartPlaced'
  BY <1>1, <1>3 DEF IInv, RoomAhead, StartPlaced, High, StartOf, FullRange
<1>5. Way' = Way
  BY <1>1 DEF Way, Limited, FullRange
<1>6. Way \in Int /\ Gone \in Int
  <2>1. Way \in Nat
    BY Ways DEF IInv
  <2>2. Gone = Capped(goals, Way) /\ goals * CalibrationStep \in Nat
    BY PassFields DEF IInv, Covered
  <2> QED
    BY <2>1, <2>2 DEF Capped
<1>7. /\ goals * CalibrationStep < Way
      /\ Capped(goals + 1, Way) = IF Gone + CalibrationStep < Way THEN Gone + CalibrationStep ELSE Way
  BY <1>3, <1>6, OneMoreGoal DEF IInv, Covered
<1>8. Covered'
  <2>1. goals' - 1 = goals
    BY <1>3
  <2> QED
    BY <1>3, <1>5, <1>7, <2>1 DEF Covered, Capped
<1>9. LeavesInTime'
  <2>1. CASE ~ over
    <3>1. pass.kind \in {"min", "max"} => Gone' # Way
      BY <2>1
    <3>2. Gone' \in Int /\ Gone' <= Way
      BY <1>6
    <3> QED
      BY <1>1, <1>5, <1>6, <2>1, <3>1, <3>2 DEF LeavesInTime
  <2>2. CASE over
    BY <1>1, <2>2 DEF LeavesInTime
  <2> QED
    BY <2>1, <2>2
<1> QED
  BY <1>2, <1>4, <1>8, <1>9 DEF IInv

\* find_min: down to 0.
LEMMA MinStep ==
    ASSUME IInv, MinTurn
    PROVE  IInv'
<1> DEFINE goal == Down(pass.target)
           over == FoundMin(goal) \/ goal = 0
<1>0. TypeOK
  BY DEF IInv
<1>1. pass.running /\ pass.kind = "min" /\ MoveTo(goal) /\ Continue(goal, over)
  BY DEF MinTurn
<1>9. swept' \subseteq {"min", "max"}
  BY <1>0, <1>1 DEF MinTurn, Swept, TypeOK
<1>2. /\ goal \in Encoder /\ goal \in Int
      /\ goal = IF pass.target >= CalibrationStep THEN pass.target - CalibrationStep ELSE 0
  BY <1>0, PassFields DEF Down, Encoder, FullRange
<1>3. over \in BOOLEAN /\ (goal = 0 => over)
  OBVIOUS
<1> HIDE DEF goal, over
<1>4. pass'.kind = "min" /\ pass'.start = pass.start /\ pass'.target = goal
  BY <1>0, <1>1, <1>2, <1>3, ContinueFields
<1>5. Gone = pass.start - pass.target /\ Way = pass.start /\ Gone' = pass.start - goal
  BY <1>1, <1>4 DEF Gone, Way
<1>6. Gone < Way
  BY <1>1 DEF IInv, LeavesInTime
<1>7. Gone' = IF Gone + CalibrationStep < Way THEN Gone + CalibrationStep ELSE Way
  BY <1>0, <1>2, <1>5, PassFields
<1>8. Gone' = Way => over
  BY <1>0, <1>2, <1>3, <1>5, PassFields
<1> QED
  BY <1>1, <1>2, <1>3, <1>6, <1>7, <1>8, <1>9, TurnStep

\* find_max: up to the end of the range.
LEMMA MaxStep ==
    ASSUME IInv, MaxTurn
    PROVE  IInv'
<1> DEFINE goal == Up(pass.target)
           over == FoundMax(goal) \/ goal = FullRange - 1
<1>0. TypeOK
  BY DEF IInv
<1>1. pass.running /\ pass.kind = "max" /\ MoveTo(goal) /\ Continue(goal, over)
  BY DEF MaxTurn
<1>9. swept' \subseteq {"min", "max"}
  BY <1>0, <1>1 DEF MaxTurn, Swept, TypeOK
<1>2. /\ goal \in Encoder /\ goal \in Int
      /\ goal = IF pass.target + CalibrationStep < FullRange
                THEN pass.target + CalibrationStep ELSE FullRange - 1
  BY <1>0, PassFields DEF Up, Encoder, FullRange
<1>3. over \in BOOLEAN /\ (goal = FullRange - 1 => over)
  OBVIOUS
<1> HIDE DEF goal, over
<1>4. pass'.kind = "max" /\ pass'.start = pass.start /\ pass'.target = goal
  BY <1>0, <1>1, <1>2, <1>3, ContinueFields
<1>5. /\ Gone = pass.target - pass.start /\ Way = FullRange - 1 - pass.start
      /\ Gone' = goal - pass.start
  BY <1>1, <1>4 DEF Gone, Way
<1>6. Gone < Way
  BY <1>1 DEF IInv, LeavesInTime
<1>7. Gone' = IF Gone + CalibrationStep < Way THEN Gone + CalibrationStep ELSE Way
  BY <1>0, <1>2, <1>5, PassFields
<1>8. Gone' = Way => over
  BY <1>0, <1>2, <1>3, <1>5, PassFields
<1> QED
  BY <1>1, <1>2, <1>3, <1>6, <1>7, <1>8, <1>9, TurnStep

\* shift: towards its target, and no further.
LEMMA ShiftStep ==
    ASSUME IInv, ShiftTurn
    PROVE  IInv'
<1> DEFINE target == Limited(pass.start + pass.steps)
           goal == IF pass.steps > 0 THEN Smaller(pass.target + CalibrationStep, target)
                   ELSE Larger(pass.target - CalibrationStep, target)
           more == (pass.steps > 0 /\ pass.target < target) \/ (pass.steps <= 0 /\ pass.target > target)
<1>0. TypeOK /\ pass.running /\ pass.kind = "shift"
  BY DEF IInv, ShiftTurn
<1>1. IF more THEN MoveTo(goal) /\ Continue(goal, FALSE) /\ UNCHANGED swept
      ELSE /\ Continue(pass.target, TRUE)
           /\ UNCHANGED << lower, travel, at, offset, recorded, passes, saved, history >>
  BY DEF ShiftTurn
<1>2. target \in Encoder /\ target \in Int
  BY <1>0, PassFields DEF Limited, Encoder, FullRange
<1>3. /\ pass.steps > 0 => Gone = pass.target - pass.start /\ Way = target - pass.start
      /\ ~ (pass.steps > 0) => Gone = pass.start - pass.target /\ Way = pass.start - target
  BY <1>0 DEF Gone, Way
<1> HIDE DEF target
<1>4. CASE more
  <2>1. /\ goal \in Encoder /\ goal \in Int
        /\ goal = IF pass.steps > 0
                  THEN IF pass.target + CalibrationStep < target THEN pass.target + CalibrationStep ELSE target
                  ELSE IF pass.target - CalibrationStep > target THEN pass.target - CalibrationStep ELSE target
    BY <1>0, <1>2, PassFields DEF Smaller, Larger, Encoder
  <2>2. MoveTo(goal) /\ Continue(goal, FALSE) /\ swept' \subseteq {"min", "max"}
    BY <1>0, <1>1, <1>4 DEF TypeOK
  <2> HIDE DEF goal
  <2>3. /\ pass'.kind = "shift" /\ pass'.start = pass.start /\ pass'.target = goal
        /\ pass'.steps = pass.steps
    BY <1>0, <2>1, <2>2, ContinueFields
  <2>4. Gone' = IF pass.steps > 0 THEN goal - pass.start ELSE pass.start - goal
    BY <2>3 DEF Gone
  <2>5. Gone < Way
    BY <1>0, <1>2, <1>3, <1>4, PassFields
  <2>6. Gone' = IF Gone + CalibrationStep < Way THEN Gone + CalibrationStep ELSE Way
    BY <1>0, <1>2, <1>3, <2>1, <2>4, PassFields
  <2> QED
    BY <1>0, <2>1, <2>2, <2>5, <2>6, TurnStep
<1>5. CASE ~ more
  <2>1. /\ Continue(pass.target, TRUE)
        /\ UNCHANGED << lower, travel, at, offset, recorded, passes, saved, goals, arrived, swept >>
    BY <1>1, <1>5 DEF history
  <2>2. /\ pass' \in Passes
        /\ pass'.kind = pass.kind /\ pass'.steps = pass.steps
        /\ pass'.start = pass.start /\ pass'.framed = pass.framed
        /\ pass'.read = pass.read /\ pass'.target = pass.target /\ pass'.running = FALSE
    BY <1>0, <2>1, PassFields, ContinueFields
  <2>3. TypeOK'
    BY <1>0, <2>1, <2>2 DEF TypeOK
  <2>4. RoomAhead' /\ StartPlaced'
    BY <2>1, <2>2 DEF IInv, RoomAhead, StartPlaced, High, StartOf, FullRange
  <2>5. Way' = Way /\ Gone' = Gone
    BY <2>2 DEF Way, Gone, Limited, FullRange
  <2>6. Covered'
    BY <2>1, <2>5 DEF IInv, Covered, Capped
  <2>7. Gone = Way
    <3>1. Gone \in Int /\ Way \in Int /\ Gone >= Way
      BY <1>0, <1>2, <1>3, <1>5, PassFields
    <3>2. Gone = Capped(goals, Way) /\ goals * CalibrationStep \in Nat
      BY <1>0, PassFields DEF IInv, Covered
    <3> QED
      BY <3>1, <3>2 DEF Capped
  <2>8. LeavesInTime'
    BY <2>2, <2>5, <2>7 DEF LeavesInTime
  <2> QED
    BY <2>3, <2>4, <2>6, <2>8 DEF IInv
<1> QED
  BY <1>4, <1>5

\* save_calibration changes the offset: by then no primitive relies on it.
LEMMA SaveStep ==
    ASSUME IInv, Save
    PROVE  IInv'
<1>1. /\ UNCHANGED << lower, travel, at, recorded, pass, passes, goals, arrived, swept >>
      /\ recorded # {} /\ saved' \in Arcs(recorded)
      /\ offset' \in {offset, Correction(Midpoint(saved'))}
  BY DEF Save, history
<1>2. recorded \in SUBSET Encoder
  BY DEF IInv, TypeOK
<1>3. saved' \in ArcType
  BY <1>1, <1>2, ArcCovers
<1>4. offset' \in 1 - Half .. Half - 1
  BY <1>1, <1>3, MidpointValue, CorrectionCentres DEF IInv, TypeOK
<1>5. TypeOK'
  BY <1>1, <1>3, <1>4 DEF IInv, TypeOK, ArcType
<1>6. saved' # NoArc
  BY <1>3 DEF ArcType, NoArc, Arc, Encoder, FullRange
<1>7. RoomAhead'
  BY <1>6 DEF RoomAhead, NoArc
<1>8. Way' = Way /\ Gone' = Gone
  BY <1>1 DEF Way, Gone, Limited, FullRange
<1>9. StartPlaced' /\ Covered' /\ LeavesInTime'
  BY <1>1, <1>8 DEF IInv, StartPlaced, Covered, Capped, LeavesInTime, High, StartOf, FullRange
<1> QED
  BY <1>5, <1>7, <1>9 DEF IInv

THEOREM Invariance == Spec => []IInv
<1>1. Init => IInv
  <2> SUFFICES ASSUME Init PROVE IInv
    OBVIOUS
  <2>1. /\ pass = NoPass /\ goals = 0 /\ arrived = TRUE
        /\ lower \in Encoder /\ travel \in 0 .. FullRange - 1 /\ at \in 0 .. travel
        /\ offset \in {0} \cup OldOffsets
        /\ recorded = {} /\ passes = 0 /\ saved = NoArc /\ swept = {}
    BY DEF Init
  <2>2. pass.kind = "none" /\ pass.framed = FALSE
    BY <2>1 DEF NoPass
  <2>3. pass \in Passes
    <3>1. 0 \in Encoder
      BY DEF Encoder, FullRange
    <3> QED
      BY <2>1, <3>1 DEF Passes, NoPass
  <2>4. offset \in 1 - Half .. Half - 1 /\ passes \in 0 .. MaxPasses
    BY <2>1
  <2>5. TypeOK
    BY <2>1, <2>3, <2>4 DEF TypeOK
  <2>6. Gone = 0 /\ Way = 0 /\ 0 * CalibrationStep = 0
    BY <2>2 DEF Gone, Way
  <2>7. Covered
    BY <2>1, <2>6 DEF Covered, Capped
  <2> QED
    BY <2>2, <2>5, <2>7 DEF IInv, RoomAhead, StartPlaced, LeavesInTime
<1>2. IInv /\ [Next]_vars => IInv'
  <2> SUFFICES ASSUME IInv, [Next]_vars PROVE IInv'
    OBVIOUS
  <2>0. SafeOffset \in Ends /\ High \in Ends
    BY DEF Ends
  <2>1. CASE FindMin
    BY <2>0, <2>1, BeginStep DEF FindMin
  <2>2. CASE FindMax
    BY <2>0, <2>2, BeginStep DEF FindMax
  <2>3. ASSUME NEW s \in Shifts, Shift(s) PROVE IInv'
    <3>1. StartOf(s) \in Ends
      BY <2>0 DEF StartOf
    <3> QED
      BY <2>3, <3>1, BeginStep DEF Shift
  <2>4. CASE MinTurn
    BY <2>4, MinStep
  <2>5. CASE MaxTurn
    BY <2>5, MaxStep
  <2>6. CASE ShiftTurn
    BY <2>6, ShiftStep
  <2>7. CASE Save
    BY <2>7, SaveStep
  <2>8. CASE UNCHANGED vars
    <3>1. UNCHANGED << lower, travel, at, offset, recorded, pass, passes, saved, goals, arrived, swept >>
      BY <2>8 DEF vars, history
    <3>2. Way' = Way /\ Gone' = Gone
      BY <3>1 DEF Way, Gone, Limited, FullRange
    <3>3. TypeOK' /\ RoomAhead' /\ StartPlaced'
      BY <3>1 DEF IInv, TypeOK, RoomAhead, StartPlaced, High, StartOf, FullRange
    <3> QED
      BY <3>1, <3>2, <3>3 DEF IInv, Covered, Capped, LeavesInTime
  <2> QED
    BY <2>1, <2>2, <2>3, <2>4, <2>5, <2>6, <2>7, <2>8 DEF Next
<1> QED
  BY <1>1, <1>2, PTL DEF Spec

(***************************************************************************)
(* Theorems.                                                               *)
(***************************************************************************)
\* Positions stay on the travel, goals and recorded positions on the encoder and
\* offsets within the register, whether or not the offset writes took.
THEOREM TypeCorrect == Spec => []TypeOK
<1>1. IInv => TypeOK
  BY DEF IInv
<1> QED
  BY <1>1, Invariance, PTL

\* Whatever a primitive read and whichever offset was in force, the one that it writes
\* leaves the whole of its way ahead of that position (calibrator.rs 194-204).
THEOREM RoomAheadHolds == Spec => []RoomAhead
<1>1. IInv => RoomAhead
  BY DEF IInv
<1> QED
  BY <1>1, Invariance, PTL

\* Whether or not its offset was written and whatever it reads, a primitive sends as
\* many goals as its way has steps, and no more (calibrator.rs 204-214, 234-244,
\* 265-279).
THEOREM GoalsFitWayHolds == Spec => []GoalsFitWay
<1>1. IInv => GoalsFitWay
  <2> SUFFICES ASSUME IInv, pass.kind = "shift", ~ pass.running
               PROVE  Way <= goals * CalibrationStep
    BY DEF IInv, Covered, GoalsFitWay
  <2>1. Way = Capped(goals, Way)
    BY DEF IInv, Covered, LeavesInTime
  <2>2. Way \in Int /\ goals * CalibrationStep \in Int
    BY Ways, PassFields DEF IInv
  <2> QED
    BY <2>1, <2>2 DEF Capped
<1> QED
  BY <1>1, Invariance, PTL
==============================================================================
