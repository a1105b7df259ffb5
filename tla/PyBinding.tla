------------------------------ MODULE PyBinding ------------------------------
(***************************************************************************)
(* py.rs: the driver and the calibration called from Python threads.       *)
(*                                                                         *)
(* A method runs from beginning to end with the interpreter's lock held:   *)
(* each one blocks in rt.block_on, and none of them gives the lock up.     *)
(* A thread that calls a method in the meantime waits for the lock.        *)
(* Behaviours start when a thread has entered its first calibration.       *)
(***************************************************************************)
EXTENDS AutoCalibration

CONSTANT Threads      \* Python threads that share the St3215 object

\* "command" stands for every other method.
Methods == {"command", "auto_calibrate_elrobot", "stop_calibration"}

Idle == "idle"
Nobody == "nobody"

VARIABLES gil,        \* the thread that holds the interpreter's lock
          method      \* by thread: the method it has called and not returned from

pyVars == << vars, gil, method >>

PyTypeOK ==
    /\ TypeOK
    /\ gil \in Threads \cup {Nobody}
    /\ method \in [Threads -> Methods \cup {Idle}]

PyInit ==
    /\ Init
    /\ gil \in Threads
    /\ method = [t \in Threads |-> IF t = gil THEN "auto_calibrate_elrobot" ELSE Idle]

Call(t) ==
    /\ method[t] = Idle
    /\ \E m \in Methods : method' = [method EXCEPT ![t] = m]
    /\ UNCHANGED << vars, gil >>

\* set_torque switches a motor on or off, and so may a method that sends it a position or
\* writes its registers; the others change nothing that AutoCalibration knows of.
Command ==
    /\ \E m \in Motors : torque' \in {torque, torque \cup {m}, torque \ {m}}
    /\ UNCHANGED << at, stage, left, recorded, frozen, stop, late, asked, faults, out >>

\* The call gets the lock.  A calibration clears the flag before anything else.
Enter(t) ==
    /\ method[t] # Idle /\ gil = Nobody
    /\ gil' = t
    /\ CASE method[t] = "auto_calibrate_elrobot" -> StartAgain
         [] method[t] = "stop_calibration"       -> IF stop THEN UNCHANGED vars ELSE RequestStop
         [] method[t] = "command"                -> Command
    /\ UNCHANGED method

Calibrate(t) ==
    /\ gil = t /\ method[t] = "auto_calibrate_elrobot"
    /\ CalibratorStep
    /\ UNCHANGED << gil, method >>

Leave(t) ==
    /\ gil = t
    /\ method[t] = "auto_calibrate_elrobot" => stage = "done"
    /\ gil' = Nobody
    /\ method' = [method EXCEPT ![t] = Idle]
    /\ UNCHANGED vars

PyNext == \E t \in Threads : Call(t) \/ Enter(t) \/ Calibrate(t) \/ Leave(t)

PySpec == PyInit /\ [][PyNext]_pyVars

\* The calibration and the methods go on by themselves, and no thread waits for a
\* free lock for ever.
PyFairSpec ==
    /\ PySpec
    /\ \A t \in Threads :
          /\ WF_pyVars(Calibrate(t) /\ Progress)
          /\ SF_pyVars(Enter(t))
          /\ WF_pyVars(Leave(t))

(***************************************************************************)
(* Properties.                                                             *)
(***************************************************************************)
\* "Call `stop_calibration()` from another thread to abort it." (py.rs:176): a run
\* during which that is called ends, even if the motor that is being waited for
\* never stalls.
StopAborts ==
    \A t \in Threads : method[t] = "stop_calibration" /\ stage # "done" ~> stage = "done"
==============================================================================
