--------------------------- MODULE AutoCalibration ---------------------------
(***************************************************************************)
(* The automatic calibration of the 8-motor arm (elrobot.rs) on the        *)
(* primitives of calibrator.rs: which motor moves, which ones hold, what   *)
(* has been recorded and saved, and what a stop request does.              *)
(*                                                                         *)
(* Positions and offsets are left to other modules: here a sweep either    *)
(* ends early at a limit or runs through its targets, and a verified write *)
(* is ok, gives up (EepromDriver's "unverified") or fails.                 *)
(***************************************************************************)
EXTENDS Naturals, Sequences

CONSTANT MaxFaults    \* bus errors and servo faults in a behaviour (a bound)

ASSUME MaxFaultsAssumption == MaxFaults \in Nat

Motors == 1 .. 8

(***************************************************************************)
(* The sequence of auto_calibrate_elrobot.  A step names the primitive, its *)
(* motor, the goal positions it sends at most and its torque_after.        *)
(***************************************************************************)
Step(do, m, moves, after) == [do |-> do, motor |-> m, moves |-> moves, after |-> after]

\* Goal positions on the way to a target `distance' away (CALIBRATION_STEP).
MovesFor(distance) == (distance + 1019) \div 1020

Prepare(m)              == Step("prepare", m, 0, FALSE)
CurrentLimit(m)         == Step("limit", m, 0, FALSE)
FindMin(m, after)       == Step("find", m, MovesFor(4035), after)
FindMax(m, after)       == Step("find", m, MovesFor(4035), after)
Shift(m, steps, after)  == Step("shift", m, MovesFor(steps), after)
GoToFloat(m, after)     == Step("float", m, 1, after)
SetTorque(m, enable)    == Step("torque", m, 0, enable)
Freeze(m)               == Step("freeze", m, 0, FALSE)

Sweep(m, steps, after) == << FindMin(m, FALSE), FindMax(m, FALSE), Shift(m, steps, after) >>

Preparation == [m \in Motors |-> Prepare(m)] \o [m \in Motors |-> CurrentLimit(m)]

\* Variant: the temporary range of motor 6 is used before it is swept.
RaiseWristFirst == << GoToFloat(6, TRUE), FindMin(6, FALSE), FindMax(6, FALSE) >>

\* Motor 6 takes the wrist out of the way of the joints below it.
RaiseWrist == << FindMin(6, FALSE), FindMax(6, FALSE), GoToFloat(6, TRUE) >>

\* Variant: motor 7 is forgotten.
SweepWrist5 == Sweep(5, 2120, FALSE)

SweepWrist == Sweep(7, 1782, FALSE) \o Sweep(5, 2120, FALSE)

FirstPasses ==
    Sweep(8, 700, FALSE) \o Sweep(1, 1000, TRUE) \o RaiseWrist
        \o << FindMin(2, TRUE), SetTorque(4, TRUE), FindMin(3, TRUE), FindMax(4, TRUE) >>
        \o Sweep(6, 1130, TRUE) \o SweepWrist

FinalPasses ==
    << Shift(2, 1030, TRUE), FindMin(4, TRUE), FindMax(3, FALSE), FindMin(3, TRUE),
       FindMax(2, FALSE), Shift(2, 1030, TRUE), FindMax(3, TRUE), FindMin(2, TRUE),
       GoToFloat(3, TRUE), GoToFloat(4, TRUE), GoToFloat(2, FALSE), GoToFloat(4, FALSE) >>

Save == [m \in Motors |-> Freeze(m)]

Sequence == Preparation \o FirstPasses \o FinalPasses \o Save

(***************************************************************************)
(* State.                                                                  *)
(***************************************************************************)
VARIABLES at,        \* the step of Sequence
          stage,     \* ready, aim, goal, wait, settle, and done between runs
          left,      \* goal positions the step may still send
          torque,    \* motors whose torque is on
          recorded,  \* motors with an entry in motor_positions
          frozen,    \* what freeze_calibration returned for each motor
          stop,      \* the caller's stop flag
          late,      \* goal positions sent since stop was set (history)
          asked,     \* when this run was asked to stop: before the last check_stop
                     \* on its way, after it, or not at all (history)
          faults,
          out

vars == << at, stage, left, torque, recorded, frozen, stop, late, asked, faults, out >>

Current == Sequence[at]
motor == Current.motor

TypeOK ==
    /\ at \in 1 .. Len(Sequence)
    /\ stage \in {"ready", "aim", "goal", "wait", "settle", "done"}
    /\ left \in 0 .. 4
    /\ torque \subseteq Motors
    /\ recorded \subseteq Motors
    /\ frozen \in [Motors -> {"no", "verified", "unverified"}]
    /\ stop \in BOOLEAN
    /\ late \in Nat
    /\ asked \in {"no", "ahead", "over"}
    /\ faults \in 0 .. MaxFaults
    /\ out \in {"none", "ok", "err", "stopped", "stop_failed", "no_positions"}
    /\ (out = "none") = (stage # "done")

NothingFrozen == [m \in Motors |-> "no"]

Init ==
    /\ at = 1 /\ stage = "ready" /\ left = 0
    /\ torque = {} /\ recorded = {} /\ frozen = NothingFrozen
    /\ stop = FALSE /\ late = 0 /\ asked = "no" /\ faults = 0
    /\ out = "none"

(***************************************************************************)
(* The caller.                                                             *)
(***************************************************************************)
\* The steps that look at the stop flag before they do anything.
Checked == {"find", "shift", "float"}

\* The run will come to a check_stop: it is in a primitive before or in its wait, or
\* such a step is to come.
CheckAhead ==
    \/ stage \in {"aim", "goal", "wait"}
    \/ stage = "ready" /\ Current.do \in Checked
    \/ \E i \in at + 1 .. Len(Sequence) : Sequence[i].do \in Checked

RequestStop ==
    /\ ~ stop
    /\ stop' = TRUE
    /\ asked' = IF stage = "done" THEN asked ELSE IF CheckAhead THEN "ahead" ELSE "over"
    /\ UNCHANGED << at, stage, left, torque, recorded, frozen, late, faults, out >>

\* Another run, with a new calibrator; the motors are as the last one left them.
StartAgain ==
    /\ stage = "done"
    /\ at' = 1 /\ stage' = "ready" /\ left' = 0
    /\ recorded' = {} /\ frozen' = NothingFrozen
    /\ stop' = FALSE /\ late' = 0 /\ asked' = "no"
    /\ out' = "none"
    /\ UNCHANGED << torque, faults >>

(***************************************************************************)
(* The calibrator.                                                         *)
(***************************************************************************)
Fault == faults < MaxFaults /\ faults' = faults + 1

Return(result) ==
    /\ stage' = "done"
    /\ out' = result
    /\ UNCHANGED << at, left, recorded, frozen, stop, late, asked >>

NextStep ==
    /\ IF at = Len(Sequence)
       THEN stage' = "done" /\ out' = "ok" /\ UNCHANGED at
       ELSE stage' = "ready" /\ at' = at + 1 /\ UNCHANGED out
    /\ UNCHANGED << left, stop, late, asked >>

Goto(next) ==
    /\ stage' = next
    /\ UNCHANGED << at, frozen, stop, asked, out >>

\* Variant: the run goes on after the motors are switched off.
LimpOnly ==
    torque' = {} /\ UNCHANGED << at, stage, left, recorded, frozen, stop, late, asked, out >>

Limp == torque' = {} /\ Return("stopped")

\* disable_all_motors_torque: motor by motor, up to the first that fails.
DisableAll ==
    \/ Limp /\ UNCHANGED faults
    \/ /\ Fault
       /\ \E k \in 0 .. 7 : torque' = torque \ (1 .. k)
       /\ Return("stop_failed")

\* check_stop, on entry to a step and in every turn of wait_for_stall.
CheckStop ==
    /\ stop
    /\ \/ stage = "ready" /\ Current.do \in Checked
       \/ stage = "wait"
    /\ DisableAll

\* Variant: torque_after is ignored.
TorqueOff == torque \ {motor}

\* set_torque(motor, torque_after).
TorqueAfter == IF Current.after THEN torque \cup {motor} ELSE torque \ {motor}

\* The final set_torque of a primitive, or one by itself.
SettingTorque == stage = "settle" \/ (stage = "ready" /\ Current.do = "torque")

\* A bus error (an Err other than a servo fault while waiting) ends the run.
\* Up to then the motor may already have been switched on or off.
BusError ==
    /\ stage \in {"aim", "goal", "wait", "settle"}
       \/ (stage = "ready" /\ Current.do \notin Checked)
    /\ stage = "wait" => ~ stop
    /\ Fault
    /\ \/ UNCHANGED torque
       \/ stage = "goal" /\ torque' = torque \cup {motor}
       \/ SettingTorque /\ torque' = TorqueAfter
       \/ /\ stage = "ready" /\ Current.do = "prepare"
          /\ torque' = torque \ {motor}
    /\ Return("err")

\* The verified writes' results are dropped, so giving up is the same as success.
PrepareMotor ==
    /\ stage = "ready" /\ Current.do = "prepare"
    /\ torque' = torque \ {motor}
    /\ NextStep
    /\ UNCHANGED << recorded, frozen, faults >>

WriteLimit ==
    /\ stage = "ready" /\ Current.do = "limit"
    /\ NextStep
    /\ UNCHANGED << torque, recorded, frozen, faults >>

Begin ==
    /\ stage = "ready" /\ Current.do \in Checked
    /\ ~ stop
    /\ IF Current.do = "float" /\ motor \notin recorded
       THEN Return("no_positions")
       ELSE Goto("aim") /\ left' = Current.moves /\ UNCHANGED << recorded, late >>
    /\ UNCHANGED << torque, faults >>

\* Read the encoder, write the offset that makes room for the sweep.
WriteOffset ==
    /\ stage = "aim"
    /\ Goto("goal")
    /\ UNCHANGED << left, torque, recorded, late, faults >>

\* set_position.  A servo given a goal position switches its torque on; the
\* sequence counts on it (motor 8 moves first, with torque never enabled).
SendGoal ==
    /\ stage = "goal"
    /\ torque' = torque \cup {motor}
    /\ left' = left - 1
    /\ late' = IF stop THEN late + 1 ELSE late
    /\ Goto("wait")
    /\ UNCHANGED << recorded, faults >>

\* Variant: the flag is not looked at while waiting.
TurnUnchecked == stage = "wait"

\* A turn of wait_for_stall past its check_stop.
Turn == stage = "wait" /\ ~ stop

\* It reads a position and goes on waiting.
StillMoving ==
    /\ Turn
    /\ recorded' = recorded \cup {motor}
    /\ UNCHANGED << at, stage, left, torque, frozen, stop, late, asked, faults, out >>

\* Variant: the loop over the targets turns once more.
MoreGoalsAlways == TRUE

MoreGoals == left > 0

\* It reads a stall.  find_min and find_max break at a limit.
Stalled ==
    /\ Turn
    /\ recorded' = recorded \cup {motor}
    /\ \/ Current.do = "find" /\ Goto("settle")
       \/ MoreGoals /\ Goto("goal")
       \/ left = 0 /\ Goto("settle")
    /\ UNCHANGED << left, torque, late, faults >>

\* It meets a servo fault: torque off and on again, results ignored.
Recover ==
    /\ Turn
    /\ Fault
    /\ \E on \in BOOLEAN :
          torque' = IF on THEN torque \cup {motor} ELSE torque \ {motor}
    /\ UNCHANGED << at, stage, left, recorded, frozen, stop, late, asked, out >>

Settle ==
    /\ SettingTorque
    /\ torque' = TorqueAfter
    /\ NextStep
    /\ UNCHANGED << recorded, frozen, faults >>

\* save_calibration: a motor without positions is skipped, and Ok(false) passes.
FreezeMotor ==
    /\ stage = "ready" /\ Current.do = "freeze"
    /\ IF motor \in recorded
       THEN \E result \in {"verified", "unverified"} :
               frozen' = [frozen EXCEPT ![motor] = result]
       ELSE UNCHANGED frozen
    /\ NextStep
    /\ UNCHANGED << torque, recorded, faults >>

CalibratorStep ==
    \/ CheckStop \/ BusError \/ PrepareMotor \/ WriteLimit \/ Begin \/ WriteOffset
    \/ SendGoal \/ StillMoving \/ Stalled \/ Recover \/ Settle \/ FreezeMotor

Next == RequestStop \/ StartAgain \/ CalibratorStep

Spec == Init /\ [][Next]_vars

\* What the calibrator does by itself: its calls return (EepromDriver's
\* Terminates) and its timers fire.  Whether a wait ends is up to the motor.
Progress ==
    \/ CheckStop \/ PrepareMotor \/ WriteLimit \/ Begin \/ WriteOffset
    \/ SendGoal \/ Settle \/ FreezeMotor

FairSpec == Spec /\ WF_vars(Progress)

(***************************************************************************)
(* Properties.                                                             *)
(***************************************************************************)
\* After the stop flag is set the arm is sent at most one more goal position
\* (calibrator.rs: set_position never follows set_position without check_stop).
StopHaltsMotion == late <= 1

\* A stop request that comes before the last check_stop on the run's way is not passed
\* over: the run does not end as if it had not been made, and unless an error is
\* reported, that of switching the motors off included, every motor is limp
\* (calibrator.rs 51-68, 116; elrobot.rs:14-15).
StopHeeded ==
    asked = "ahead" /\ stage = "done" =>
        out \in {"err", "stop_failed"} \/ (out = "stopped" /\ torque = {})

\* "`stop` lets the caller abort mid-run; on stop, torque is disabled for all motors so
\* the arm goes limp." (elrobot.rs:14-15): whenever in a run the request comes, the run
\* leaves every motor limp.
StopMakesLimp == asked # "no" /\ stage = "done" => torque = {}

\* A run that returns Ok has frozen every motor: none is skipped for want of
\* recorded positions (calibrator.rs:328-334).
OkSavesEveryMotor == out = "ok" => \A m \in Motors : frozen[m] # "no"

\* go_to_float_position never lacks recorded positions (calibrator.rs:290-296).
FloatHasPositions == out # "no_positions"

Sweeping(m) == stage \in {"goal", "wait"} /\ motor = m

\* While the wrist motors 7 and 5 are swept, every joint that carries them holds
\* (elrobot.rs:66-100), whatever was recovered or left by an earlier run.
CarriersHold == Sweeping(7) \/ Sweeping(5) => {1, 2, 3, 4, 6} \subseteq torque

\* A stop request ends the run, even if the motor that is being waited for never
\* stalls and never stops failing (elrobot.rs:14).
StopEnds == stop ~> stage = "done"
==============================================================================
