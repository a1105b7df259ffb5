------------------------------ MODULE TravelArc ------------------------------
(***************************************************************************)
(* From a motor's recorded positions to a saved offset or a goal: what     *)
(* save_calibration and go_to_float_position make of the positions that    *)
(* one sweep, or several, have recorded.                                   *)
(***************************************************************************)
EXTENDS EncoderArc

CONSTANTS MaxStep,    \* how far a sweeping motor gets between two reads (a bound)
          Percents    \* the float positions asked for, in percent of the arc

ASSUME StepAssumption == MaxStep \in Nat /\ MaxStep >= 1
ASSUME PercentsAssumption == Percents \subseteq 0 .. 100

(***************************************************************************)
(* A motor's survey.                                                       *)
(***************************************************************************)
VARIABLES readings,   \* motor_positions of the motor
          sweep,      \* the swept stretch, while the readings are one sweep (history)
          command     \* what was last computed from the readings

vars == << readings, sweep, command >>

NoSweep == [start |-> 0, length |-> -1]
Nothing == [kind |-> "none"]

SweepEnd == (sweep.start + sweep.length) % FullRange

TypeOK ==
    /\ readings \subseteq Encoder
    /\ sweep \in [start : Encoder, length : -1 .. FullRange - 1]
    /\ command \in {Nothing}
          \cup [kind : {"save"}, arc : [min : Encoder, max : Encoder],
                offset : 1 - Half .. Half - 1]
          \cup [kind : {"float"}, arc : [min : Encoder, max : Encoder],
                offset : 1 - Half .. Half - 1, goal : Encoder]

Init ==
    /\ \E p \in Encoder : readings = {p} /\ sweep = [start |-> p, length |-> 0]
    /\ command = Nothing

\* The motor sweeps on, and its position is read.
Sample ==
    /\ command = Nothing
    /\ sweep # NoSweep
    /\ \E d \in 1 .. MaxStep :
          /\ sweep.length + d < FullRange
          /\ sweep' = [sweep EXCEPT !.length = @ + d]
          /\ readings' = readings \cup {(sweep.start + sweep.length + d) % FullRange}
    /\ UNCHANGED command

\* A position from anywhere: another pass, another offset in force.
Stray ==
    /\ command = Nothing
    /\ \E p \in Encoder : readings' = readings \cup {p}
    /\ sweep' = NoSweep
    /\ UNCHANGED command

\* save_calibration and freeze_calibration.
Save ==
    /\ command = Nothing
    /\ \E a \in Arcs(readings) :
          command' = [kind |-> "save", arc |-> a, offset |-> Correction(Midpoint(a))]
    /\ UNCHANGED << readings, sweep >>

GoToFloatPosition ==
    /\ command = Nothing
    /\ \E a \in Arcs(readings), percent \in Percents :
          command' = [kind |-> "float", arc |-> a, offset |-> FloatOffset(Midpoint(a)),
                      goal |-> GoalAt(a, percent)]
    /\ UNCHANGED << readings, sweep >>

\* The next sweep, which starts with an offset of its own.
NextSweep ==
    /\ command # Nothing
    /\ command' = Nothing
    /\ UNCHANGED << readings, sweep >>

Next == Sample \/ Stray \/ Save \/ GoToFloatPosition \/ NextSweep

Spec == Init /\ [][Next]_vars

(***************************************************************************)
(* Properties.                                                             *)
(***************************************************************************)
\* No recorded position is ever left out of the arc, wherever the readings lie
\* and however ties between gaps are broken (calibrate.rs 51-82).
ArcCoversReadings == \A a \in Arcs(readings), p \in readings : On(a, p)

\* From a sweep that leaves more than three times its sampling step unswept the
\* arc is recovered exactly, across the encoder's zero as well (calibrate.rs 63-74).
SweepRecovered ==
    sweep # NoSweep /\ FullRange - sweep.length > 3 * MaxStep =>
        Arcs(readings) = {Arc(sweep.start, SweepEnd)}

\* The midpoint lies on the arc, as far from one end as from the other.
MidpointCentred ==
    \A a \in Arcs(readings) :
        /\ On(a, Midpoint(a))
        /\ LET before == RangeOf(Arc(a.min, Midpoint(a)))
               after  == RangeOf(Arc(Midpoint(a), a.max))
           IN  after - before \in {0, 1}

\* Once saved, the middle of the arc displays as the middle of the encoder's
\* range; midpoint 0 would need an offset of -Half, and is one step off.
SavedCentred ==
    command.kind = "save" =>
        LET middle == Midpoint(command.arc)
        IN  EncoderOf(IF middle = 0 THEN Half + 1 ELSE Half, command.offset) = middle

\* A float position is on the arc that was computed from the record, whatever that holds,
\* under the offset in force (calibrator.rs 307-313), but for the step lost to the clamp
\* at midpoint 0.
GoalOnArc ==
    command.kind = "float" /\ Midpoint(command.arc) # 0 =>
        On(command.arc, EncoderOf(command.goal, command.offset))
==============================================================================
