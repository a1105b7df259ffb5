---------------------------- MODULE StallDetector ----------------------------
(***************************************************************************)
(* wait_for_stall (calibrator.rs 106-164): poll a motor that has been sent *)
(* a goal until it stands still, and record every position on the way.     *)
(*                                                                         *)
(* The code counts the same reads twice, as startup_steps and total_reads: *)
(* here `reads'.                                                           *)
(***************************************************************************)
EXTENDS Integers

CONSTANTS Positions,        \* what read_position may return
          Velocities,       \* what read_velocity may return
          MaxFast,          \* reads at speed in a wait (a bound)
          MaxServoFaults    \* servo faults in a wait (a bound)

ASSUME ReadingsAssumption == Positions \subseteq 0 .. 4095 /\ Velocities \subseteq Nat
ASSUME BoundsAssumption == MaxFast \in Nat /\ MaxServoFaults \in Nat

VelocityThreshold == 10
SkipInitialSamples == 3
MotorStartupSteps == 4
MinDisplacement == 5
MaxReadsWithoutDisplacement == 100

VARIABLES stop, recorded, torque, result,   \* as in StallWait
          start,      \* start_position, or -1 before the first read
          reads, stableCount,
          fast,       \* reads at speed so far
          faults      \* servo faults so far

vars == << stop, recorded, torque, result, start, reads, stableCount, fast, faults >>

Waiting == result.end = "none"

\* The longest a wait may take: see ReadsBounded.
MaxReads == MaxReadsWithoutDisplacement - 1 + (SkipInitialSamples + 1) * (MaxFast + 1)

TypeOK ==
    /\ stop \in BOOLEAN
    /\ recorded \subseteq Positions
    /\ torque \in [waiting : BOOLEAN, others : BOOLEAN]
    /\ result \in [end : {"none", "stopped", "error"}]
                    \cup [end : {"ok"}, position : Positions]
    /\ start \in Positions \cup {-1}
    /\ reads \in 0 .. MaxReads
    /\ stableCount \in 0 .. SkipInitialSamples + 1
    /\ fast \in 0 .. MaxFast
    /\ faults \in 0 .. MaxServoFaults

Init ==
    /\ stop = FALSE /\ recorded = {}
    /\ torque = [waiting |-> TRUE, others |-> TRUE]
    /\ result = [end |-> "none"]
    /\ start = -1 /\ reads = 0 /\ stableCount = 0
    /\ fast = 0 /\ faults = 0

RequestStop ==
    /\ ~ stop
    /\ stop' = TRUE
    /\ UNCHANGED << recorded, torque, result, start, reads, stableCount, fast, faults >>

\* Variant: only the motor that is being waited for is switched off.
AllOffButOthers == [torque EXCEPT !.waiting = FALSE]
AllOff == [waiting |-> FALSE, others |-> FALSE]

\* check_stop at the top of the loop; switching the motors off may fail midway.
CheckStop ==
    /\ Waiting /\ stop
    /\ \/ torque' = AllOff /\ result' = [end |-> "stopped"]
       \/ /\ \E w, o \in BOOLEAN :
                torque' = [waiting |-> torque.waiting /\ w, others |-> torque.others /\ o]
          /\ result' = [end |-> "error"]
    /\ UNCHANGED << stop, recorded, start, reads, stableCount, fast, faults >>

Displacement(p) == LET d == p - (IF start = -1 THEN p ELSE start)
                   IN  IF d >= 0 THEN d ELSE - d

\* stable_count after a read of position p and velocity v.
Stable(p, v) ==
    IF reads + 1 >= MotorStartupSteps /\ Displacement(p) >= MinDisplacement
    THEN IF v < VelocityThreshold THEN stableCount + 1 ELSE 0
    ELSE stableCount

StallSeen(p, v) ==
    /\ reads + 1 >= MotorStartupSteps
    /\ Displacement(p) >= MinDisplacement
    /\ Stable(p, v) > SkipInitialSamples

\* Variants: the limit is met at exactly 100 reads only; at any number of them.
AtLimitExactly == reads + 1 = MaxReadsWithoutDisplacement
AtLimitEarly == TRUE
AtLimit == reads + 1 >= MaxReadsWithoutDisplacement

NeverMoved(p) ==
    /\ reads + 1 >= MotorStartupSteps
    /\ Displacement(p) < MinDisplacement
    /\ AtLimit

\* Variant: a read close to the start starts the count over.
CountedFromMove(p) == IF reads > 0 /\ Displacement(p) < MinDisplacement THEN 0 ELSE reads + 1
Counted(p) == reads + 1

\* Both reads succeeded.
ReadBoth(p, v) ==
    /\ Waiting /\ ~ stop
    /\ v >= VelocityThreshold => fast < MaxFast
    /\ fast' = IF v >= VelocityThreshold THEN fast + 1 ELSE fast
    /\ recorded' = recorded \cup {p}
    /\ start' = IF start = -1 THEN p ELSE start
    /\ reads' = Counted(p)
    /\ stableCount' = Stable(p, v)
    /\ result' = IF StallSeen(p, v) \/ NeverMoved(p)
                 THEN [end |-> "ok", position |-> p] ELSE result
    /\ UNCHANGED << stop, torque, faults >>

Read == \E p \in Positions, v \in Velocities : ReadBoth(p, v)

\* One of the reads returned a servo fault: set_torque off, then on, whatever
\* becomes of them.  The read is not counted.
Recover ==
    /\ Waiting /\ ~ stop
    /\ faults < MaxServoFaults /\ faults' = faults + 1
    /\ \E on \in BOOLEAN : torque' = [torque EXCEPT !.waiting = on]
    /\ UNCHANGED << stop, recorded, result, start, reads, stableCount, fast >>

\* Any other error of a read ends the wait.
ReadError ==
    /\ Waiting /\ ~ stop
    /\ result' = [end |-> "error"]
    /\ UNCHANGED << stop, recorded, torque, start, reads, stableCount, fast, faults >>

Poll == CheckStop \/ Read \/ Recover \/ ReadError

Next == RequestStop \/ Poll

Spec == Init /\ [][Next]_vars

\* The 10 ms timer fires and the driver's reads return.  Every turn counts its
\* read or its fault, so none of them is a stuttering step.
FairSpec == Spec /\ WF_vars(Poll)

(***************************************************************************)
(* Properties.                                                             *)
(***************************************************************************)
\* A wait takes at most 99 reads, and then four for every read at speed and four
\* more: a motor that swings, creeps or comes back cannot make it longer
\* (calibrator.rs:131-149).
ReadsBounded ==
    reads <= MaxReadsWithoutDisplacement - 1 + (SkipInitialSamples + 1) * (fast + 1)

\* A position that is returned close to the start is returned after 100 reads:
\* a motor that is slow to get going is not taken for one that has stalled.
NoEarlyStall ==
    result.end = "ok" /\ reads < MaxReadsWithoutDisplacement =>
        Displacement(result.position) >= MinDisplacement /\ reads > SkipInitialSamples

\* The wait ends, however the motor moves, as long as it runs at speed for a
\* limited time only and its faults pass.
WaitEnds == Waiting ~> ~ Waiting

\* The wait keeps its promise to the calibration (StallWait).
Promise == INSTANCE StallWait WITH Positions <- Positions, stop <- stop,
              recorded <- recorded, torque <- torque, result <- result
PromiseKept == Promise!Spec
==============================================================================
