----------------------------- MODULE EncoderFrame -----------------------------
(***************************************************************************)
(* Where the sweeps of calibrator.rs take a motor.  The joint has two      *)
(* mechanical limits; its encoder counts on a circle; the servo displays   *)
(* the encoder position less the offset, and takes its goals in displayed  *)
(* positions.  find_min, find_max and shift each choose a new offset from  *)
(* the position that they read, so that the move ahead does not cross the  *)
(* end of the displayed range, and then send one goal after another.       *)
(*                                                                         *)
(* At this commit a read of the position gives 0 (see MotorReads), so that *)
(* wait_for_stall sees no displacement and returns after its hundred reads *)
(* with the motor wherever it has got to by then.                          *)
(***************************************************************************)
EXTENDS EncoderArc

CONSTANTS SafeOffset,        \* SAFE_OFFSET (60 in the code)
          CalibrationStep,   \* CALIBRATION_STEP (1020)
          Slack,             \* what final_pos may be off its target (50)
          Shifts,            \* the steps shift is called with
          OldOffsets,        \* what the register may hold if its reset did not take
          MaxPasses          \* primitives in a behaviour (a bound)

ASSUME SweepAssumption ==
    /\ SafeOffset \in Nat /\ CalibrationStep \in Nat /\ Slack \in Nat
    /\ Slack < SafeOffset /\ SafeOffset < Half /\ SafeOffset < CalibrationStep
    /\ Shifts \subseteq Int /\ OldOffsets \subseteq 1 - Half .. Half - 1
    /\ MaxPasses \in Nat

VARIABLES lower, travel,   \* the lower limit's encoder position, the upper one's distance
          at,              \* the motor's distance from the lower limit
          offset,          \* the servo's Offset register
          recorded,        \* motor_positions
          pass,            \* the last primitive: what it is, where its goals begin, ...
          passes,          \* primitives so far
          saved,           \* the arc that save_calibration froze
          goals,           \* goals that the pass has sent (history)
          arrived,         \* the motor came to where its last goal led (history)
          swept            \* the sweeps that are over, whose offset was written and whose
                           \* motor came to where its last goal led (history)

history == << goals, arrived, swept >>
vars == << lower, travel, at, offset, recorded, pass, passes, saved, history >>

\* read: the encoder position that the primitive took the motor to be at.
\* framed: the offset write took.  find_min, find_max and shift drop the bool of
\* write_eeprom_verified and go on either way.
Passes == [kind : {"none", "min", "max", "shift"}, steps : Shifts \cup {0},
           start : Encoder, target : Encoder, running : BOOLEAN,
           read : Encoder, framed : BOOLEAN]

NoArc == Arc(-1, -1)
NoPass == [kind |-> "none", steps |-> 0, start |-> 0, target |-> 0, running |-> FALSE,
           read |-> 0, framed |-> FALSE]

TypeOK ==
    /\ lower \in Encoder /\ travel \in 0 .. FullRange - 1
    /\ at \in 0 .. travel
    /\ offset \in 1 - Half .. Half - 1
    /\ recorded \subseteq Encoder
    /\ pass \in Passes
    /\ passes \in 0 .. MaxPasses
    /\ saved \in {NoArc} \cup [min : Encoder, max : Encoder]
    /\ goals \in Nat /\ arrived \in BOOLEAN /\ swept \subseteq {"min", "max"}

\* prepare_motor resets the offset, but drops the bool that tells whether it did.
Init ==
    /\ lower \in Encoder /\ travel \in 0 .. FullRange - 1
    /\ at \in 0 .. travel
    /\ offset \in {0} \cup OldOffsets
    /\ recorded = {} /\ passes = 0 /\ saved = NoArc /\ pass = NoPass
    /\ goals = 0 /\ arrived = TRUE /\ swept = {}

Displayed(y) == (lower + y - offset) % FullRange

(***************************************************************************)
(* read_position.  The two bytes of the register go to an extractor of the *)
(* whole state, which looks for them at their address and finds no such    *)
(* bytes.                                                                  *)
(***************************************************************************)
PositionLength == 2
PositionAddress == 56

ReadPosition(shown) == IF PositionLength < PositionAddress + 2 THEN 0 ELSE shown

ReadEncoderPosition(y) == EncoderOf(ReadPosition(Displayed(y)), offset)

(***************************************************************************)
(* The first half of a primitive: choose and write an offset under which   *)
(* the position that was read displays as start.                           *)
(***************************************************************************)
\* Variant: no wrap before the clamp.
OffsetForUnwrapped(start, read) == Clamp(read - start)

OffsetFor(start, read) ==
    LET new == read - start
    IN  Clamp(IF new < 1 - Half THEN new + FullRange
              ELSE IF new > Half - 1 THEN new - FullRange ELSE new)

\* Between two primitives the joint may move: it is limp, or still on its way.
Begin(kind, steps, start) ==
    /\ ~ pass.running /\ saved = NoArc
    /\ passes < MaxPasses /\ passes' = passes + 1
    /\ at' \in 0 .. travel
    /\ LET read == ReadEncoderPosition(at')
       IN  \E framed \in BOOLEAN :
              /\ offset' = IF framed THEN OffsetFor(start, read) ELSE offset
              /\ pass' = [kind |-> kind, steps |-> steps, start |-> start, target |-> start,
                          running |-> TRUE, read |-> read, framed |-> framed]
    /\ goals' = 0 /\ arrived' = TRUE
    /\ UNCHANGED << lower, travel, recorded, saved, swept >>

High == FullRange - 1 - SafeOffset

FindMin == Begin("min", 0, High)
FindMax == Begin("max", 0, SafeOffset)

StartOf(steps) == IF steps >= 0 THEN SafeOffset ELSE High
Shift(steps) == Begin("shift", steps, StartOf(steps))

(***************************************************************************)
(* One turn of a primitive's loop: a goal, the wait, and what follows from *)
(* the position that the wait returns.                                     *)
(***************************************************************************)
Within(x, y, d) == x - y <= d /\ y - x <= d

InTravel(y) == IF y < 0 THEN 0 ELSE IF y > travel THEN travel ELSE y

\* Where a goal leads, through displayed positions: to the goal, up to the servo's
\* steady error, or to the limit on the way.
Ahead(goal) ==
    LET y == at + goal - Displayed(at)
    IN  IF y = InTravel(y) THEN { z \in 0 .. travel : Within(z, y, Slack) } ELSE {InTravel(y)}

Between(y, z) == (y .. z) \cup (z .. y)

\* The wait returns when the motor is there, or before; what it reads on the way is
\* recorded.
MoveTo(goal) ==
    /\ \E z \in Ahead(goal) : at' \in Between(at, z)
    /\ arrived' = (at' \in Ahead(goal))
    /\ recorded' = recorded \cup { ReadPosition(Displayed(y)) : y \in Between(at, at') }
    /\ goals' = goals + 1
    /\ UNCHANGED << lower, travel, offset, passes, saved >>

FoundMin(goal) == ReadPosition(Displayed(at')) > goal + Slack

\* saturating_sub
FoundMax(goal) == ReadPosition(Displayed(at')) < (IF goal >= Slack THEN goal - Slack ELSE 0)

\* Variant: current_target is not moved on.
ContinueInPlace(goal, over) == pass' = [pass EXCEPT !.running = ~ over]

Continue(goal, over) == pass' = [pass EXCEPT !.target = goal, !.running = ~ over]

Swept(over) ==
    swept' = IF over /\ pass.framed /\ arrived' THEN swept \cup {pass.kind} ELSE swept

\* Variant: the last step is not cut at the end of the range.
DownUncut(target) == target - CalibrationStep

Down(target) == IF target >= CalibrationStep THEN target - CalibrationStep ELSE 0

Up(target) == IF target + CalibrationStep < FullRange THEN target + CalibrationStep ELSE FullRange - 1

MinTurn ==
    /\ pass.running /\ pass.kind = "min"
    /\ LET goal == Down(pass.target)
           over == FoundMin(goal) \/ goal = 0
       IN  MoveTo(goal) /\ Continue(goal, over) /\ Swept(over)

MaxTurn ==
    /\ pass.running /\ pass.kind = "max"
    /\ LET goal == Up(pass.target)
           over == FoundMax(goal) \/ goal = FullRange - 1
       IN  MoveTo(goal) /\ Continue(goal, over) /\ Swept(over)

Limited(p) == IF p < 0 THEN 0 ELSE IF p > FullRange - 1 THEN FullRange - 1 ELSE p

Smaller(x, y) == IF x < y THEN x ELSE y
Larger(x, y) == IF x > y THEN x ELSE y

ShiftTurn ==
    /\ pass.running /\ pass.kind = "shift"
    /\ LET target == Limited(pass.start + pass.steps)
           goal == IF pass.steps > 0 THEN Smaller(pass.target + CalibrationStep, target)
                   ELSE Larger(pass.target - CalibrationStep, target)
       IN  IF (pass.steps > 0 /\ pass.target < target) \/ (pass.steps <= 0 /\ pass.target > target)
           THEN MoveTo(goal) /\ Continue(goal, FALSE) /\ UNCHANGED swept
           ELSE /\ Continue(pass.target, TRUE)
                /\ UNCHANGED << lower, travel, at, offset, recorded, passes, saved, history >>

\* save_calibration: the arc of whatever is recorded becomes the motor's offset, if the
\* write takes; Ok(false) passes.
Save ==
    /\ ~ pass.running /\ saved = NoArc /\ recorded # {}
    /\ saved' \in Arcs(recorded)
    /\ offset' \in {offset, Correction(Midpoint(saved'))}
    /\ UNCHANGED << lower, travel, at, recorded, pass, passes, history >>

Next == FindMin \/ FindMax \/ (\E s \in Shifts : Shift(s)) \/ MinTurn \/ MaxTurn \/ ShiftTurn \/ Save

Spec == Init /\ [][Next]_vars

(***************************************************************************)
(* Properties.                                                             *)
(***************************************************************************)
\* A pass whose offset was written has the whole of its way ahead of it in displayed
\* positions: under that offset the position it read, across the encoder's zero too,
\* displays as the start of its way, or where the offset is clamped one step behind it
\* (calibrator.rs 194-204, 224-234, 254-268).
RoomAhead ==
    pass.framed /\ saved = NoArc =>
        LET shown == (pass.read - offset) % FullRange
        IN  IF pass.start = SafeOffset THEN shown \in {SafeOffset - 1, SafeOffset}
                                       ELSE shown \in {High, High + 1}

\* How far the goals of a pass go, at most.
Way == CASE pass.kind = "min"   -> pass.start
         [] pass.kind = "max"   -> FullRange - 1 - pass.start
         [] pass.kind = "shift" -> IF pass.steps > 0
                                   THEN Limited(pass.start + pass.steps) - pass.start
                                   ELSE pass.start - Limited(pass.start + pass.steps)
         [] OTHER               -> 0

\* Whether or not its offset was written and whatever it reads, a pass sends no more
\* goals than its way has CALIBRATION_STEPs, rounded up (AutoCalibration's MovesFor),
\* and a shift that is over, which breaks at no limit, has sent no less
\* (calibrator.rs 204-214, 234-244, 265-279).
GoalsFitWay ==
    /\ goals > 0 => (goals - 1) * CalibrationStep < Way
    /\ pass.kind = "shift" /\ ~ pass.running => Way <= goals * CalibrationStep

\* "Sweeps each motor to its mechanical limits (detecting stall via velocity), records the
\* encoder positions, and computes the valid travel arc." (calibrator.rs 3-4): when both
\* sweeps of a joint that can move by a step at least have gone as they should, the arc
\* that is saved is one whose ends the joint can reach.
SavedArcIsTravel ==
    saved # NoArc /\ swept = {"min", "max"} /\ travel >= CalibrationStep =>
        {saved.min, saved.max} \subseteq { (lower + y) % FullRange : y \in 0 .. travel }
===============================================================================
