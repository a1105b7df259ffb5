------------------------------ MODULE StallWait ------------------------------
(***************************************************************************)
(* What a wait for a stall promises the calibration (calibrator.rs 106-164):*)
(* it ends with a position it has recorded, with every motor limp because  *)
(* of a stop request, or with an error.                                    *)
(***************************************************************************)
CONSTANT Positions    \* what read_position may return

VARIABLES stop,       \* the caller's stop flag
          recorded,   \* positions recorded for the motor
          torque,     \* torque of the waiting motor and of the others
          result      \* none while waiting, then how the wait ended

vars == << stop, recorded, torque, result >>

Init ==
    /\ stop = FALSE
    /\ recorded = {}
    /\ torque = [waiting |-> TRUE, others |-> TRUE]
    /\ result = [end |-> "none"]

RequestStop == stop' = TRUE /\ UNCHANGED << recorded, torque, result >>

Record ==
    /\ result.end = "none"
    /\ \E p \in Positions : recorded' = recorded \cup {p}
    /\ UNCHANGED << stop, torque, result >>

ReturnPosition ==
    /\ result.end = "none"
    /\ \E p \in Positions :
          recorded' = recorded \cup {p} /\ result' = [end |-> "ok", position |-> p]
    /\ UNCHANGED << stop, torque >>

\* A servo fault: the waiting motor may be left without torque.
Recover ==
    /\ result.end = "none"
    /\ \E on \in BOOLEAN : torque' = [torque EXCEPT !.waiting = on]
    /\ UNCHANGED << stop, recorded, result >>

ReturnStopped ==
    /\ result.end = "none" /\ stop
    /\ torque' = [waiting |-> FALSE, others |-> FALSE]
    /\ result' = [end |-> "stopped"]
    /\ UNCHANGED << stop, recorded >>

\* A bus error, or a stop that could not switch every motor off.
ReturnError ==
    /\ result.end = "none"
    /\ \E w, o \in BOOLEAN :
          torque' = [waiting |-> torque.waiting /\ w, others |-> torque.others /\ o]
    /\ torque' # torque => stop
    /\ result' = [end |-> "error"]
    /\ UNCHANGED << stop, recorded >>

Next == RequestStop \/ Record \/ ReturnPosition \/ Recover \/ ReturnStopped \/ ReturnError

Spec == Init /\ [][Next]_vars
==============================================================================
