----------------------- MODULE AutoCalibrationProofs -----------------------
(***************************************************************************)
(* Proofs about the calibration of the arm (AutoCalibration), for any      *)
(* number of faults.  The first invariant says of the sequence only that   *)
(* every step that looks at the stop flag sends at least one goal          *)
(* position; the second one, RunInv, speaks of the steps that are over, so *)
(* that what it gives at a step follows from the 58 steps themselves.      *)
(***************************************************************************)
EXTENDS AutoCalibration, SequenceTheorems, TLAPS

Dos == {"prepare", "limit", "find", "shift", "float", "torque", "freeze"}

Steps == { s \in [do : Dos, motor : Motors, moves : 0 .. 4, after : BOOLEAN] :
               s.do \in Checked => s.moves >= 1 }

(***************************************************************************)
(* The sequence.                                                           *)
(***************************************************************************)
LEMMA Cat ==
    ASSUME NEW s \in Seq(Steps), NEW t \in Seq(Steps)
    PROVE  s \o t \in Seq(Steps) /\ Len(s \o t) = Len(s) + Len(t)
BY ConcatProperties

\* The distances of the sequence are covered in up to four goal positions.
LEMMA Moves ==
    /\ MovesFor(4035) \in 1 .. 4 /\ MovesFor(700) \in 1 .. 4 /\ MovesFor(1000) \in 1 .. 4
    /\ MovesFor(1030) \in 1 .. 4 /\ MovesFor(1130) \in 1 .. 4 /\ MovesFor(1782) \in 1 .. 4
    /\ MovesFor(2120) \in 1 .. 4
BY DEF MovesFor

LEMMA StepIn ==
    ASSUME NEW do \in Dos, NEW m \in Motors, NEW k \in 0 .. 4, NEW after \in BOOLEAN,
           do \in Checked => k >= 1
    PROVE  Step(do, m, k, after) \in Steps
<1>1. Step(do, m, k, after) \in [do : Dos, motor : Motors, moves : 0 .. 4, after : BOOLEAN]
  BY DEF Step
<1>2. Step(do, m, k, after).do = do /\ Step(do, m, k, after).moves = k
  BY DEF Step
<1> QED
  BY <1>1, <1>2 DEF Steps

LEMMA FindSteps ==
    ASSUME NEW m \in Motors
    PROVE  /\ FindMin(m, TRUE) \in Steps /\ FindMin(m, FALSE) \in Steps
           /\ FindMax(m, TRUE) \in Steps /\ FindMax(m, FALSE) \in Steps
<1>1. ASSUME NEW k \in 1 .. 4, NEW after \in BOOLEAN PROVE Step("find", m, k, after) \in Steps
  BY StepIn DEF Dos
<1>2. PICK k \in 1 .. 4 : k = MovesFor(4035)
  BY Moves
<1>3. /\ FindMin(m, TRUE) = Step("find", m, k, TRUE)
      /\ FindMin(m, FALSE) = Step("find", m, k, FALSE)
      /\ FindMax(m, TRUE) = Step("find", m, k, TRUE)
      /\ FindMax(m, FALSE) = Step("find", m, k, FALSE)
  BY <1>2 DEF FindMin, FindMax
<1>4. Step("find", m, k, TRUE) \in Steps /\ Step("find", m, k, FALSE) \in Steps
  BY <1>1, Zenon
<1> QED
  BY <1>3, <1>4, Zenon

LEMMA ShiftSteps ==
    ASSUME NEW m \in Motors, NEW d \in Nat, MovesFor(d) \in 1 .. 4
    PROVE  Shift(m, d, TRUE) \in Steps /\ Shift(m, d, FALSE) \in Steps
<1>1. ASSUME NEW k \in 1 .. 4, NEW after \in BOOLEAN PROVE Step("shift", m, k, after) \in Steps
  BY StepIn DEF Dos
<1> QED
  BY <1>1 DEF Shift

LEMMA TorqueSteps ==
    ASSUME NEW m \in Motors
    PROVE  /\ SetTorque(m, TRUE) \in Steps
           /\ GoToFloat(m, TRUE) \in Steps /\ GoToFloat(m, FALSE) \in Steps
<1>1. ASSUME NEW after \in BOOLEAN PROVE Step("float", m, 1, after) \in Steps
  BY StepIn DEF Dos
<1>2. Step("torque", m, 0, TRUE) \in Steps
  BY DEF Step, Steps, Dos, Checked
<1> QED
  BY <1>1, <1>2 DEF SetTorque, GoToFloat

LEMMA OtherSteps ==
    ASSUME NEW m \in Motors
    PROVE  Prepare(m) \in Steps /\ CurrentLimit(m) \in Steps /\ Freeze(m) \in Steps
BY DEF Prepare, CurrentLimit, Freeze, Step, Steps, Dos, Checked

LEMMA Triple ==
    ASSUME NEW a \in Steps, NEW b \in Steps, NEW c \in Steps
    PROVE  << a, b, c >> \in Seq(Steps)
OBVIOUS

LEMMA Quadruple ==
    ASSUME NEW a \in Steps, NEW b \in Steps, NEW c \in Steps, NEW d \in Steps
    PROVE  << a, b, c, d >> \in Seq(Steps)
OBVIOUS

LEMMA SweepSteps ==
    ASSUME NEW m \in Motors, NEW d \in Nat, MovesFor(d) \in 1 .. 4
    PROVE  Sweep(m, d, TRUE) \in Seq(Steps) /\ Sweep(m, d, FALSE) \in Seq(Steps)
<1>1. /\ FindMin(m, FALSE) \in Steps /\ FindMax(m, FALSE) \in Steps
      /\ Shift(m, d, TRUE) \in Steps /\ Shift(m, d, FALSE) \in Steps
  BY FindSteps, ShiftSteps
<1> QED
  BY <1>1, Triple DEF Sweep

LEMMA EightMotors ==
    /\ 1 \in Motors /\ 2 \in Motors /\ 3 \in Motors /\ 4 \in Motors
    /\ 5 \in Motors /\ 6 \in Motors /\ 7 \in Motors /\ 8 \in Motors
BY DEF Motors

LEMMA PreparationSteps == Preparation \in Seq(Steps) /\ Save \in Seq(Steps) /\ Len(Save) = 8
<1>1. /\ [m \in Motors |-> Prepare(m)] \in Seq(Steps)
      /\ [m \in Motors |-> CurrentLimit(m)] \in Seq(Steps)
  BY OtherSteps DEF Motors
<1>2. Save \in Seq(Steps) /\ Len(Save) = 8
  BY OtherSteps DEF Save, Motors
<1>3. Preparation \in Seq(Steps)
  BY <1>1, Cat, Zenon DEF Preparation
<1> QED
  BY <1>2, <1>3

LEMMA FirstPassesSteps == FirstPasses \in Seq(Steps)
<1>1. PICK h \in Nat, i \in Nat, j \in Nat, k \in Nat, l \in Nat :
          h = 700 /\ i = 1000 /\ j = 1130 /\ k = 1782 /\ l = 2120
  OBVIOUS
<1>2. /\ MovesFor(h) \in 1 .. 4 /\ MovesFor(i) \in 1 .. 4 /\ MovesFor(j) \in 1 .. 4
      /\ MovesFor(k) \in 1 .. 4 /\ MovesFor(l) \in 1 .. 4
  BY <1>1, Moves
<1>3. /\ Sweep(8, h, FALSE) \in Seq(Steps) /\ Sweep(1, i, TRUE) \in Seq(Steps)
      /\ Sweep(6, j, TRUE) \in Seq(Steps)
      /\ Sweep(7, k, FALSE) \in Seq(Steps) /\ Sweep(5, l, FALSE) \in Seq(Steps)
  BY <1>2, EightMotors, SweepSteps, Zenon
<1>4. PICK c \in Seq(Steps) : c = RaiseWrist
  <2>1. FindMin(6, FALSE) \in Steps /\ FindMax(6, FALSE) \in Steps /\ GoToFloat(6, TRUE) \in Steps
    BY EightMotors, FindSteps, TorqueSteps, Zenon
  <2> QED
    BY <2>1, Triple, Zenon DEF RaiseWrist
<1>5. PICK d \in Seq(Steps) :
          d = << FindMin(2, TRUE), SetTorque(4, TRUE), FindMin(3, TRUE), FindMax(4, TRUE) >>
  <2>1. /\ FindMin(2, TRUE) \in Steps /\ SetTorque(4, TRUE) \in Steps
        /\ FindMin(3, TRUE) \in Steps /\ FindMax(4, TRUE) \in Steps
    BY EightMotors, FindSteps, TorqueSteps, Zenon
  <2> QED
    BY <2>1, Quadruple, Zenon
<1>6. FirstPasses =
          Sweep(8, h, FALSE) \o Sweep(1, i, TRUE) \o c \o d \o Sweep(6, j, TRUE)
              \o (Sweep(7, k, FALSE) \o Sweep(5, l, FALSE))
  BY <1>1, <1>4, <1>5 DEF FirstPasses, SweepWrist
<1>7. Sweep(8, h, FALSE) \o Sweep(1, i, TRUE) \o c \o d \o Sweep(6, j, TRUE)
          \o (Sweep(7, k, FALSE) \o Sweep(5, l, FALSE)) \in Seq(Steps)
  BY <1>3, Cat, Zenon
<1> QED
  BY <1>6, <1>7, Zenon

LEMMA Twelve ==
    ASSUME NEW a \in Steps, NEW b \in Steps, NEW c \in Steps, NEW d \in Steps,
           NEW e \in Steps, NEW f \in Steps, NEW g \in Steps, NEW h \in Steps,
           NEW i \in Steps, NEW j \in Steps, NEW k \in Steps, NEW l \in Steps
    PROVE  << a, b, c, d, e, f, g, h, i, j, k, l >> \in Seq(Steps)
OBVIOUS

LEMMA FinalPassesSteps == FinalPasses \in Seq(Steps)
<1>1. PICK k \in Nat : k = 1030
  OBVIOUS
<1>2. MovesFor(k) \in 1 .. 4
  BY <1>1, Moves
<1>3. Shift(2, k, TRUE) \in Steps
  BY <1>2, EightMotors, ShiftSteps, Zenon
<1>4. /\ FindMin(4, TRUE) \in Steps /\ FindMin(3, TRUE) \in Steps /\ FindMin(2, TRUE) \in Steps
      /\ FindMax(3, FALSE) \in Steps /\ FindMax(2, FALSE) \in Steps /\ FindMax(3, TRUE) \in Steps
  BY EightMotors, FindSteps, Zenon
<1>5. /\ GoToFloat(3, TRUE) \in Steps /\ GoToFloat(4, TRUE) \in Steps
      /\ GoToFloat(2, FALSE) \in Steps /\ GoToFloat(4, FALSE) \in Steps
  BY EightMotors, TorqueSteps, Zenon
<1>6. FinalPasses =
          << Shift(2, k, TRUE), FindMin(4, TRUE), FindMax(3, FALSE), FindMin(3, TRUE),
             FindMax(2, FALSE), Shift(2, k, TRUE), FindMax(3, TRUE), FindMin(2, TRUE),
             GoToFloat(3, TRUE), GoToFloat(4, TRUE), GoToFloat(2, FALSE), GoToFloat(4, FALSE) >>
  BY <1>1 DEF FinalPasses
<1> QED
  BY <1>3, <1>4, <1>5, <1>6, Twelve, Zenon

LEMMA SequenceSteps == Sequence \in Seq(Steps) /\ Len(Sequence) \in Nat \ {0}
<1>1. (Preparation \o FirstPasses) \o FinalPasses \in Seq(Steps)
  BY PreparationSteps, FirstPassesSteps, FinalPassesSteps, Cat, Zenon
<1>2. /\ Sequence \in Seq(Steps)
      /\ Len(Sequence) = Len((Preparation \o FirstPasses) \o FinalPasses) + Len(Save)
  BY <1>1, PreparationSteps, Cat, Zenon DEF Sequence
<1>3. Len((Preparation \o FirstPasses) \o FinalPasses) \in Nat
  BY <1>1, LenProperties
<1> QED
  BY <1>2, <1>3, PreparationSteps
(***************************************************************************)
(* The invariant.                                                          *)
(***************************************************************************)
\* A goal position is sent only while there are any left.
HasGoals == stage \in {"aim", "goal"} => left >= 1

\* The goal position that a stop request can no longer prevent is followed by a wait,
\* which begins with check_stop.
LateGoal == late = 0 \/ (late = 1 /\ stop /\ stage \in {"wait", "done"})

\* A request that the run has still to notice stays set until it comes to a check_stop.
StopAhead == asked = "ahead" /\ stage # "done" => stop /\ CheckAhead

IInv == TypeOK /\ HasGoals /\ LateGoal /\ StopAhead /\ StopHeeded

LEMMA CurrentStep ==
    ASSUME TypeOK
    PROVE  Current \in Steps /\ motor \in Motors
<1>1. Current \in Steps
  BY SequenceSteps, ElementOfSeq DEF TypeOK, Current
<1> QED
  BY <1>1 DEF motor, Steps

LEMMA InitHolds == Init => IInv
<1> SUFFICES ASSUME Init PROVE IInv
  OBVIOUS
<1>1. at \in 1 .. Len(Sequence)
  BY SequenceSteps DEF Init
<1>2. frozen \in [Motors -> {"no", "verified", "unverified"}]
  BY DEF Init, NothingFrozen
<1>3. 0 \in 0 .. 4 /\ 0 \in 0 .. MaxFaults
  BY MaxFaultsAssumption
<1>4. TypeOK
  BY <1>1, <1>2, <1>3 DEF Init, TypeOK
<1> QED
  BY <1>4 DEF Init, IInv, HasGoals, LateGoal, StopAhead, StopHeeded

\* A run that returns: one that was to stop reports an error or leaves the motors limp.
LEMMA ReturnKeeps ==
    ASSUME IInv, NEW r \in {"err", "stopped", "stop_failed", "no_positions"}, Return(r),
           torque' \subseteq Motors, faults' \in 0 .. MaxFaults,
           r = "stopped" => torque' = {},
           r = "no_positions" => stage # "done" /\ ~ stop
    PROVE  IInv'
<1>1. /\ stage' = "done" /\ out' = r
      /\ UNCHANGED << at, left, recorded, frozen, stop, late, asked >>
  BY DEF Return
<1>2. TypeOK'
  BY <1>1 DEF IInv, TypeOK
<1>3. HasGoals' /\ LateGoal' /\ StopAhead' /\ StopHeeded'
  BY <1>1 DEF IInv, HasGoals, LateGoal, StopAhead, StopHeeded
<1> QED
  BY <1>2, <1>3 DEF IInv

LEMMA NextStepKeeps ==
    ASSUME IInv, NextStep, stage \in {"ready", "settle"},
           stage = "ready" => Current.do \notin Checked,
           torque' \subseteq Motors, recorded' = recorded, faults' = faults,
           frozen' \in [Motors -> {"no", "verified", "unverified"}]
    PROVE  IInv'
<1>1. late = 0 /\ UNCHANGED << left, stop, late, asked >>
  BY DEF IInv, LateGoal, NextStep
<1>0. asked = "ahead" => stop /\ \E i \in at + 1 .. Len(Sequence) : Sequence[i].do \in Checked
  BY DEF IInv, StopAhead, CheckAhead
<1>2. CASE at = Len(Sequence)
  <2>1. stage' = "done" /\ out' = "ok" /\ at' = at
    BY <1>2 DEF NextStep
  <2>2. TypeOK'
    BY <1>1, <2>1 DEF IInv, TypeOK
  <2>3. asked # "ahead"
    <3>1. at + 1 .. Len(Sequence) = {}
      BY <1>2, SequenceSteps
    <3> QED
      BY <1>0, <3>1
  <2> QED
    BY <1>1, <2>1, <2>2, <2>3 DEF IInv, HasGoals, LateGoal, StopAhead, StopHeeded
<1>3. CASE at # Len(Sequence)
  <2>1. stage' = "ready" /\ at' = at + 1 /\ out' = out
    BY <1>3 DEF NextStep
  <2>2. at' \in 1 .. Len(Sequence) /\ out = "none"
    BY <1>3, <2>1, SequenceSteps DEF IInv, TypeOK
  <2>3. TypeOK'
    BY <1>1, <2>1, <2>2 DEF IInv, TypeOK
  <2>4. ASSUME asked = "ahead" PROVE CheckAhead'
    <3>1. PICK i \in at + 1 .. Len(Sequence) : Sequence[i].do \in Checked
      BY <1>0, <2>4
    <3>2. at \in Int /\ Len(Sequence) \in Int
      BY SequenceSteps DEF IInv, TypeOK
    <3>3. CASE i = at + 1
      BY <2>1, <3>1, <3>3 DEF CheckAhead, Current
    <3>4. CASE i # at + 1
      <4>1. i \in at' + 1 .. Len(Sequence)
        BY <2>1, <3>2, <3>4
      <4> QED
        BY <3>1, <4>1 DEF CheckAhead
    <3> QED
      BY <3>3, <3>4
  <2>5. StopAhead'
    BY <1>0, <1>1, <2>4 DEF StopAhead
  <2> QED
    BY <1>1, <2>1, <2>2, <2>3, <2>5 DEF IInv, HasGoals, LateGoal, StopHeeded
<1> QED
  BY <1>2, <1>3

\* A step that goes on to another stage of the same primitive.
LEMMA GotoKeeps ==
    ASSUME IInv, NEW s \in {"aim", "goal", "wait", "settle"}, Goto(s), stage # "done",
           torque' \subseteq Motors, recorded' \subseteq Motors, faults' = faults,
           left' \in 0 .. 4, s \in {"aim", "goal"} => left' >= 1,
           late' = 0 \/ (late' = 1 /\ stop /\ s = "wait"),
           s = "settle" => ~ stop
    PROVE  IInv'
<1>1. stage' = s /\ UNCHANGED << at, frozen, stop, asked, out >> /\ out = "none"
  BY DEF Goto, IInv, TypeOK
<1>2. TypeOK'
  BY <1>1 DEF IInv, TypeOK
<1>3. HasGoals' /\ LateGoal' /\ StopHeeded'
  BY <1>1 DEF HasGoals, LateGoal, StopHeeded
<1>4. StopAhead'
  BY <1>1 DEF IInv, StopAhead, CheckAhead
<1> QED
  BY <1>2, <1>3, <1>4 DEF IInv

(***************************************************************************)
(* The actions.                                                            *)
(***************************************************************************)
LEMMA CallerKeeps ==
    ASSUME IInv, RequestStop \/ StartAgain
    PROVE  IInv'
<1>1. CASE RequestStop
  <2>1. late = 0 /\ stop' = TRUE
        /\ UNCHANGED << at, stage, left, torque, recorded, frozen, late, faults, out >>
    BY <1>1 DEF RequestStop, IInv, LateGoal
  <2>2. /\ asked' \in {"no", "ahead", "over"}
        /\ IF stage = "done" THEN asked' = asked ELSE asked' = "ahead" => CheckAhead
    BY <1>1 DEF RequestStop, IInv, TypeOK
  <2>3. CheckAhead' = CheckAhead
    BY <2>1 DEF CheckAhead, Current
  <2>4. StopAhead' /\ StopHeeded'
    BY <2>1, <2>2, <2>3 DEF IInv, StopAhead, StopHeeded
  <2> QED
    BY <2>1, <2>2, <2>4 DEF IInv, TypeOK, HasGoals, LateGoal
<1>2. CASE StartAgain
  <2>1. /\ at' = 1 /\ stage' = "ready" /\ left' = 0 /\ recorded' = {} /\ frozen' = NothingFrozen
        /\ stop' = FALSE /\ late' = 0 /\ asked' = "no" /\ out' = "none"
        /\ UNCHANGED << torque, faults >>
    BY <1>2 DEF StartAgain
  <2>2. at' \in 1 .. Len(Sequence)
    BY <2>1, SequenceSteps
  <2>3. frozen' \in [Motors -> {"no", "verified", "unverified"}]
    BY <2>1 DEF NothingFrozen
  <2>4. left' \in 0 .. 4 /\ late' \in Nat /\ recorded' \subseteq Motors /\ stop' \in BOOLEAN
    <3>1. 0 \in 0 .. 4 /\ 0 \in Nat /\ {} \subseteq Motors /\ FALSE \in BOOLEAN
      OBVIOUS
    <3> QED
      BY <2>1, <3>1, Zenon
  <2>5. torque' \subseteq Motors /\ faults' \in 0 .. MaxFaults
    BY <2>1 DEF IInv, TypeOK
  <2>6. stage' = "ready" /\ out' = "none"
    BY <2>1
  <2>7. TypeOK'
    BY <2>1, <2>2, <2>3, <2>4, <2>5, <2>6 DEF TypeOK
  <2> QED
    BY <2>1, <2>7 DEF IInv, HasGoals, LateGoal, StopAhead, StopHeeded
<1> QED
  BY <1>1, <1>2

LEMMA FaultCounted == ASSUME TypeOK, Fault PROVE faults' \in 0 .. MaxFaults
BY MaxFaultsAssumption DEF TypeOK, Fault

LEMMA CheckStopKeeps ==
    ASSUME IInv, CheckStop
    PROVE  IInv'
<1>1. CASE Limp /\ UNCHANGED faults
  BY <1>1, ReturnKeeps DEF Limp, IInv, TypeOK
<1>2. CASE Fault /\ (\E k \in 0 .. 7 : torque' = torque \ (1 .. k)) /\ Return("stop_failed")
  <2>1. torque' \subseteq Motors /\ faults' \in 0 .. MaxFaults
    BY <1>2, FaultCounted DEF IInv, TypeOK
  <2> QED
    BY <1>2, <2>1, ReturnKeeps
<1> QED
  BY <1>1, <1>2 DEF CheckStop, DisableAll

LEMMA BusErrorKeeps ==
    ASSUME IInv, BusError
    PROVE  IInv'
<1>1. torque' \subseteq Motors
  BY CurrentStep DEF BusError, TorqueAfter, IInv, TypeOK
<1>2. faults' \in 0 .. MaxFaults /\ Return("err")
  BY FaultCounted DEF BusError, IInv
<1> QED
  BY <1>1, <1>2, ReturnKeeps

LEMMA StepsKeep ==
    ASSUME IInv, PrepareMotor \/ WriteLimit \/ Settle \/ FreezeMotor
    PROVE  IInv'
<1>1. /\ NextStep /\ UNCHANGED << recorded, faults >> /\ stage \in {"ready", "settle"}
      /\ stage = "ready" => Current.do \notin Checked
  BY DEF PrepareMotor, WriteLimit, Settle, SettingTorque, FreezeMotor, Checked
<1>2. torque' \subseteq Motors
  BY CurrentStep DEF PrepareMotor, WriteLimit, Settle, TorqueAfter, FreezeMotor, IInv, TypeOK
<1>3. frozen' \in [Motors -> {"no", "verified", "unverified"}]
  BY DEF PrepareMotor, WriteLimit, Settle, FreezeMotor, IInv, TypeOK
<1> QED
  BY <1>1, <1>2, <1>3, NextStepKeeps

LEMMA BeginKeeps ==
    ASSUME IInv, Begin
    PROVE  IInv'
<1>1. stage = "ready" /\ Current.do \in Checked /\ ~ stop /\ UNCHANGED << torque, faults >>
  BY DEF Begin
<1>2. CASE Return("no_positions")
  BY <1>1, <1>2, ReturnKeeps DEF IInv, TypeOK
<1>3. CASE Goto("aim") /\ left' = Current.moves /\ UNCHANGED << recorded, late >>
  <2>1. left' \in 0 .. 4 /\ left' >= 1
    BY <1>1, <1>3, CurrentStep DEF Steps, IInv
  <2>2. late' = 0 /\ recorded' \subseteq Motors /\ torque' \subseteq Motors
    BY <1>1, <1>3 DEF IInv, LateGoal, TypeOK
  <2> QED
    BY <1>1, <1>3, <2>1, <2>2, GotoKeeps
<1> QED
  BY <1>2, <1>3 DEF Begin

LEMMA MotionKeeps ==
    ASSUME IInv, WriteOffset \/ SendGoal \/ Stalled
    PROVE  IInv'
<1>0. left \in 0 .. 4 /\ torque \subseteq Motors /\ recorded \subseteq Motors /\ motor \in Motors
  BY CurrentStep DEF IInv, TypeOK
<1>1. CASE WriteOffset
  <2>1. /\ stage = "aim" /\ Goto("goal") /\ late = 0 /\ left >= 1
        /\ UNCHANGED << left, torque, recorded, late, faults >>
    BY <1>1 DEF WriteOffset, IInv, LateGoal, HasGoals
  <2> QED
    BY <1>0, <2>1, GotoKeeps
<1>2. CASE SendGoal
  <2>1. /\ stage = "goal" /\ Goto("wait") /\ late = 0 /\ left >= 1
        /\ torque' = torque \cup {motor} /\ left' = left - 1
        /\ late' = (IF stop THEN late + 1 ELSE late) /\ UNCHANGED << recorded, faults >>
    BY <1>2 DEF SendGoal, IInv, LateGoal, HasGoals
  <2>2. left' \in 0 .. 4 /\ torque' \subseteq Motors
    BY <1>0, <2>1
  <2>3. late' = 0 \/ (late' = 1 /\ stop)
    BY <2>1
  <2> QED
    BY <1>0, <2>1, <2>2, <2>3, GotoKeeps
<1>3. CASE Stalled
  <2>1. /\ stage = "wait" /\ ~ stop /\ late = 0 /\ recorded' = recorded \cup {motor}
        /\ UNCHANGED << left, torque, late, faults >>
    BY <1>3 DEF Stalled, Turn, IInv, LateGoal
  <2>2. Goto("settle") \/ (left >= 1 /\ Goto("goal"))
    BY <1>0, <1>3 DEF Stalled, MoreGoals
  <2>3. recorded' \subseteq Motors
    BY <1>0, <2>1
  <2> QED
    BY <1>0, <2>1, <2>2, <2>3, GotoKeeps
<1> QED
  BY <1>1, <1>2, <1>3

LEMMA WaitKeeps ==
    ASSUME IInv, StillMoving \/ Recover
    PROVE  IInv'
<1>1. /\ UNCHANGED << at, stage, left, frozen, stop, late, asked, out >> /\ stage = "wait"
      /\ recorded' \in {recorded, recorded \cup {motor}}
      /\ torque' \in {torque, torque \cup {motor}, torque \ {motor}}
  BY DEF StillMoving, Recover, Turn
<1>2. faults' \in 0 .. MaxFaults
  BY FaultCounted DEF StillMoving, Recover, IInv, TypeOK
<1>3. recorded' \subseteq Motors /\ torque' \subseteq Motors
  BY <1>1, CurrentStep DEF IInv, TypeOK
<1>4. TypeOK'
  BY <1>1, <1>2, <1>3 DEF IInv, TypeOK
<1>5. out' = "none"
  BY <1>1 DEF IInv, TypeOK
<1> QED
  BY <1>1, <1>4, <1>5 DEF IInv, HasGoals, LateGoal, StopAhead, CheckAhead, StopHeeded

LEMMA NextKeeps == IInv /\ [Next]_vars => IInv'
<1> SUFFICES ASSUME IInv, [Next]_vars PROVE IInv'
  OBVIOUS
<1>1. CASE UNCHANGED vars
  BY <1>1 DEF vars, IInv, TypeOK, HasGoals, LateGoal, StopAhead, CheckAhead, Current, StopHeeded
<1>2. CASE RequestStop \/ StartAgain
  BY <1>2, CallerKeeps
<1>3. CASE CalibratorStep
  BY <1>3, CheckStopKeeps, BusErrorKeeps, StepsKeep, BeginKeeps, MotionKeeps, WaitKeeps
     DEF CalibratorStep
<1> QED
  BY <1>1, <1>2, <1>3 DEF Next

LEMMA IInvHolds == Spec => []IInv
BY InitHolds, NextKeeps, PTL DEF Spec

\* The run keeps its types: it stays within the sequence and sends no more goal
\* positions than its step has, and its outcome is set just when it is over.
THEOREM TypeCorrect == Spec => []TypeOK
<1>1. IInv => TypeOK
  BY DEF IInv
<1> QED
  BY <1>1, IInvHolds, PTL

\* However many faults there are and whenever a stop is requested, at most one more
\* goal position goes to the arm (calibrator.rs: check_stop in every turn of a wait).
THEOREM StopHaltsMotionHolds == Spec => []StopHaltsMotion
<1>1. IInv => StopHaltsMotion
  BY DEF IInv, LateGoal, StopHaltsMotion
<1> QED
  BY <1>1, IInvHolds, PTL

\* Whenever the request comes and however the faults fall, a run that is asked to stop
\* before its last check_stop does not end with Ok, and leaves every motor limp unless
\* it reports an error (calibrator.rs 51-68, 116; elrobot.rs:14-15).
THEOREM StopHeededHolds == Spec => []StopHeeded
<1>1. IInv => StopHeeded
  BY DEF IInv
<1> QED
  BY <1>1, IInvHolds, PTL

(***************************************************************************)
(* The elements of the sequence.                                           *)
(***************************************************************************)
LEMMA CatElements ==
    ASSUME NEW s \in Seq(Steps), NEW t \in Seq(Steps)
    PROVE  /\ \A i \in 1 .. Len(s) : (s \o t)[i] = s[i]
           /\ \A i \in 1 .. Len(t) : (s \o t)[Len(s) + i] = t[i]
BY ConcatProperties

Is(step, do, m, after) == step.do = do /\ step.motor = m /\ step.after = after

LEMMA Fields ==
    ASSUME NEW m, NEW d, NEW after
    PROVE  /\ Is(FindMin(m, after), "find", m, after)
           /\ Is(FindMax(m, after), "find", m, after)
           /\ Is(Shift(m, d, after), "shift", m, after)
           /\ Is(GoToFloat(m, after), "float", m, after)
           /\ Is(SetTorque(m, after), "torque", m, after)
           /\ Is(Prepare(m), "prepare", m, FALSE)
           /\ Is(CurrentLimit(m), "limit", m, FALSE)
           /\ Is(Freeze(m), "freeze", m, FALSE)
<1>1. Is(FindMin(m, after), "find", m, after)
  BY DEF Is, Step, FindMin
<1>2. Is(FindMax(m, after), "find", m, after)
  BY DEF Is, Step, FindMax
<1>3. Is(Shift(m, d, after), "shift", m, after)
  BY DEF Is, Step, Shift
<1>4. Is(GoToFloat(m, after), "float", m, after)
  BY DEF Is, Step, GoToFloat
<1>5. Is(SetTorque(m, after), "torque", m, after)
  BY DEF Is, Step, SetTorque
<1>6. Is(Prepare(m), "prepare", m, FALSE) /\ Is(CurrentLimit(m), "limit", m, FALSE)
  BY DEF Is, Step, Prepare, CurrentLimit
<1>7. Is(Freeze(m), "freeze", m, FALSE)
  BY DEF Is, Step, Freeze
<1> QED
  BY <1>1, <1>2, <1>3, <1>4, <1>5, <1>6, <1>7, Zenon

LEMMA SweepElements ==
    ASSUME NEW m, NEW d, NEW after
    PROVE  /\ Len(Sweep(m, d, after)) = 3
           /\ Is(Sweep(m, d, after)[1], "find", m, FALSE)
           /\ Is(Sweep(m, d, after)[2], "find", m, FALSE)
           /\ Is(Sweep(m, d, after)[3], "shift", m, after)
<1>1. ASSUME NEW a, NEW b, NEW c
      PROVE  Len(<< a, b, c >>) = 3 /\ << a, b, c >>[1] = a /\ << a, b, c >>[2] = b
             /\ << a, b, c >>[3] = c
  OBVIOUS
<1> QED
  BY <1>1, Fields, Zenon DEF Sweep

LEMMA PreparationElements ==
    /\ Len(Preparation) = 16
    /\ \A m \in Motors : Is(Preparation[m], "prepare", m, FALSE)
    /\ \A m \in Motors : Is(Preparation[8 + m], "limit", m, FALSE)
<1>1. PICK p, c : p = [m \in Motors |-> Prepare(m)] /\ c = [m \in Motors |-> CurrentLimit(m)]
  OBVIOUS
<1>2. p \in Seq(Steps) /\ c \in Seq(Steps) /\ Len(p) = 8 /\ Len(c) = 8
  BY <1>1, OtherSteps DEF Motors
<1>3. Len(p \o c) = Len(p) + Len(c)
  BY <1>2, Cat, Zenon
<1>4. /\ \A m \in 1 .. Len(p) : (p \o c)[m] = p[m]
      /\ \A m \in 1 .. Len(c) : (p \o c)[Len(p) + m] = c[m]
  BY <1>2, CatElements, Zenon
<1>5. /\ \A m \in Motors : (p \o c)[m] = p[m]
      /\ \A m \in Motors : (p \o c)[8 + m] = c[m]
  BY <1>2, <1>4 DEF Motors
<1>6. Preparation = p \o c
  BY <1>1 DEF Preparation
<1> QED
  <2>1. Len(Preparation) = 16
    BY <1>2, <1>3, <1>6
  <2>2. \A m \in Motors : Preparation[m] = Prepare(m) /\ Preparation[8 + m] = CurrentLimit(m)
    BY <1>1, <1>5, <1>6
  <2> QED
    BY <2>1, <2>2, Fields, Zenon

Joins(u, s, t) ==
    /\ Len(u) = Len(s) + Len(t)
    /\ \A i \in 1 .. Len(s) : u[i] = s[i]
    /\ \A i \in 1 .. Len(t) : u[Len(s) + i] = t[i]

LEMMA Joined ==
    ASSUME NEW s \in Seq(Steps), NEW t \in Seq(Steps)
    PROVE  s \o t \in Seq(Steps) /\ Joins(s \o t, s, t)
BY Cat, CatElements, Zenon DEF Joins

LEMMA FirstPassesElements ==
    /\ Len(FirstPasses) = 22
    /\ Is(FirstPasses[1], "find", 8, FALSE) /\ Is(FirstPasses[2], "find", 8, FALSE)
    /\ Is(FirstPasses[3], "shift", 8, FALSE) /\ Is(FirstPasses[4], "find", 1, FALSE)
    /\ Is(FirstPasses[5], "find", 1, FALSE) /\ Is(FirstPasses[6], "shift", 1, TRUE)
    /\ Is(FirstPasses[7], "find", 6, FALSE) /\ Is(FirstPasses[8], "find", 6, FALSE)
    /\ Is(FirstPasses[9], "float", 6, TRUE) /\ Is(FirstPasses[10], "find", 2, TRUE)
    /\ Is(FirstPasses[11], "torque", 4, TRUE) /\ Is(FirstPasses[12], "find", 3, TRUE)
    /\ Is(FirstPasses[13], "find", 4, TRUE) /\ Is(FirstPasses[14], "find", 6, FALSE)
    /\ Is(FirstPasses[15], "find", 6, FALSE) /\ Is(FirstPasses[16], "shift", 6, TRUE)
    /\ Is(FirstPasses[17], "find", 7, FALSE) /\ Is(FirstPasses[18], "find", 7, FALSE)
    /\ Is(FirstPasses[19], "shift", 7, FALSE) /\ Is(FirstPasses[20], "find", 5, FALSE)
    /\ Is(FirstPasses[21], "find", 5, FALSE) /\ Is(FirstPasses[22], "shift", 5, FALSE)
<1>1. PICK h \in Nat, i \in Nat, j \in Nat, k \in Nat, l \in Nat :
          h = 700 /\ i = 1000 /\ j = 1130 /\ k = 1782 /\ l = 2120
  OBVIOUS
<1>2. /\ MovesFor(h) \in 1 .. 4 /\ MovesFor(i) \in 1 .. 4 /\ MovesFor(j) \in 1 .. 4
      /\ MovesFor(k) \in 1 .. 4 /\ MovesFor(l) \in 1 .. 4
  BY <1>1, Moves
<1>3. PICK a, b, e, f, g :
          /\ a = Sweep(8, h, FALSE) /\ b = Sweep(1, i, TRUE) /\ e = Sweep(6, j, TRUE)
          /\ f = Sweep(7, k, FALSE) /\ g = Sweep(5, l, FALSE)
  BY Zenon
<1>4. PICK c, d :
          /\ c = RaiseWrist
          /\ d = << FindMin(2, TRUE), SetTorque(4, TRUE), FindMin(3, TRUE), FindMax(4, TRUE) >>
  BY Zenon
<1>5. FirstPasses = a \o b \o c \o d \o e \o (f \o g)
  BY <1>1, <1>3, <1>4 DEF FirstPasses, SweepWrist
<1>6. /\ a \in Seq(Steps) /\ b \in Seq(Steps) /\ e \in Seq(Steps)
      /\ f \in Seq(Steps) /\ g \in Seq(Steps)
  BY <1>2, <1>3, EightMotors, SweepSteps, Zenon
<1>7. c \in Seq(Steps)
  <2>1. FindMin(6, FALSE) \in Steps /\ FindMax(6, FALSE) \in Steps /\ GoToFloat(6, TRUE) \in Steps
    BY EightMotors, FindSteps, TorqueSteps, Zenon
  <2> QED
    BY <1>4, <2>1, Triple, Zenon DEF RaiseWrist
<1>8. d \in Seq(Steps)
  <2>1. /\ FindMin(2, TRUE) \in Steps /\ SetTorque(4, TRUE) \in Steps
        /\ FindMin(3, TRUE) \in Steps /\ FindMax(4, TRUE) \in Steps
    BY EightMotors, FindSteps, TorqueSteps, Zenon
  <2> QED
    BY <1>4, <2>1, Quadruple, Zenon
<1>9. /\ Len(a) = 3 /\ Len(b) = 3 /\ Len(e) = 3 /\ Len(f) = 3 /\ Len(g) = 3
      /\ Is(a[1], "find", 8, FALSE) /\ Is(a[2], "find", 8, FALSE) /\ Is(a[3], "shift", 8, FALSE)
      /\ Is(b[1], "find", 1, FALSE) /\ Is(b[2], "find", 1, FALSE) /\ Is(b[3], "shift", 1, TRUE)
      /\ Is(e[1], "find", 6, FALSE) /\ Is(e[2], "find", 6, FALSE) /\ Is(e[3], "shift", 6, TRUE)
      /\ Is(f[1], "find", 7, FALSE) /\ Is(f[2], "find", 7, FALSE) /\ Is(f[3], "shift", 7, FALSE)
      /\ Is(g[1], "find", 5, FALSE) /\ Is(g[2], "find", 5, FALSE) /\ Is(g[3], "shift", 5, FALSE)
  BY <1>3, SweepElements, Zenon
<1>10. /\ Len(c) = 3
       /\ Is(c[1], "find", 6, FALSE) /\ Is(c[2], "find", 6, FALSE) /\ Is(c[3], "float", 6, TRUE)
  <2>1. ASSUME NEW x, NEW y, NEW z
        PROVE  Len(<< x, y, z >>) = 3 /\ << x, y, z >>[1] = x /\ << x, y, z >>[2] = y
               /\ << x, y, z >>[3] = z
    OBVIOUS
  <2> QED
    BY <1>4, <2>1, Fields, Zenon DEF RaiseWrist
<1>11. /\ Len(d) = 4
       /\ Is(d[1], "find", 2, TRUE) /\ Is(d[2], "torque", 4, TRUE)
       /\ Is(d[3], "find", 3, TRUE) /\ Is(d[4], "find", 4, TRUE)
  <2>1. ASSUME NEW w, NEW x, NEW y, NEW z
        PROVE  /\ Len(<< w, x, y, z >>) = 4
               /\ << w, x, y, z >>[1] = w /\ << w, x, y, z >>[2] = x
               /\ << w, x, y, z >>[3] = y /\ << w, x, y, z >>[4] = z
    OBVIOUS
  <2> QED
    BY <1>4, <2>1, Fields, Zenon
<1>12. PICK r \in Seq(Steps) : r = a \o b /\ Joins(r, a, b)
  BY <1>6, Joined, Zenon
<1>13. PICK s \in Seq(Steps) : s = r \o c /\ Joins(s, r, c)
  BY <1>7, <1>12, Joined, Zenon
<1>14. PICK t \in Seq(Steps) : t = s \o d /\ Joins(t, s, d)
  BY <1>8, <1>13, Joined, Zenon
<1>15. PICK u \in Seq(Steps) : u = t \o e /\ Joins(u, t, e)
  BY <1>6, <1>14, Joined, Zenon
<1>16. PICK v \in Seq(Steps) : v = f \o g /\ Joins(v, f, g)
  BY <1>6, Joined, Zenon
<1>17. PICK w \in Seq(Steps) : w = u \o v /\ Joins(w, u, v)
  BY <1>15, <1>16, Joined, Zenon
<1>18. FirstPasses = w
  BY <1>5, <1>12, <1>13, <1>14, <1>15, <1>16, <1>17, Zenon
<1>19. /\ Joins(r, a, b) /\ Joins(s, r, c) /\ Joins(t, s, d)
       /\ Joins(u, t, e) /\ Joins(v, f, g) /\ Joins(w, u, v)
  BY <1>12, <1>13, <1>14, <1>15, <1>16, <1>17, Zenon
<1>20. /\ Len(r) = 6 /\ Len(s) = 9 /\ Len(t) = 13 /\ Len(u) = 16 /\ Len(v) = 6 /\ Len(w) = 22
  BY <1>9, <1>10, <1>11, <1>19 DEF Joins
<1>21. /\ w[1] = a[1] /\ w[2] = a[2] /\ w[3] = a[3] /\ w[4] = b[1] /\ w[5] = b[2] /\ w[6] = b[3]
       /\ w[7] = c[1] /\ w[8] = c[2] /\ w[9] = c[3]
       /\ w[10] = d[1] /\ w[11] = d[2] /\ w[12] = d[3] /\ w[13] = d[4]
       /\ w[14] = e[1] /\ w[15] = e[2] /\ w[16] = e[3]
       /\ w[17] = f[1] /\ w[18] = f[2] /\ w[19] = f[3]
       /\ w[20] = g[1] /\ w[21] = g[2] /\ w[22] = g[3]
  BY <1>9, <1>10, <1>11, <1>19, <1>20 DEF Joins
<1> QED
  BY <1>9, <1>10, <1>11, <1>18, <1>20, <1>21, Zenon

LEMMA FinalPassesElements ==
    /\ Len(FinalPasses) = 12
    /\ Is(FinalPasses[1], "shift", 2, TRUE) /\ Is(FinalPasses[2], "find", 4, TRUE)
    /\ Is(FinalPasses[3], "find", 3, FALSE) /\ Is(FinalPasses[4], "find", 3, TRUE)
    /\ Is(FinalPasses[5], "find", 2, FALSE) /\ Is(FinalPasses[6], "shift", 2, TRUE)
    /\ Is(FinalPasses[7], "find", 3, TRUE) /\ Is(FinalPasses[8], "find", 2, TRUE)
    /\ Is(FinalPasses[9], "float", 3, TRUE) /\ Is(FinalPasses[10], "float", 4, TRUE)
    /\ Is(FinalPasses[11], "float", 2, FALSE) /\ Is(FinalPasses[12], "float", 4, FALSE)
<1>1. ASSUME NEW a, NEW b, NEW c, NEW d, NEW e, NEW f, NEW g, NEW h, NEW i, NEW j, NEW k, NEW l,
             NEW s, s = << a, b, c, d, e, f, g, h, i, j, k, l >>
      PROVE  /\ Len(s) = 12 /\ s[1] = a /\ s[2] = b /\ s[3] = c /\ s[4] = d /\ s[5] = e
             /\ s[6] = f /\ s[7] = g /\ s[8] = h /\ s[9] = i /\ s[10] = j /\ s[11] = k /\ s[12] = l
  BY <1>1
<1>2. PICK n : n = 1030
  OBVIOUS
<1>3. FinalPasses =
          << Shift(2, n, TRUE), FindMin(4, TRUE), FindMax(3, FALSE), FindMin(3, TRUE),
             FindMax(2, FALSE), Shift(2, n, TRUE), FindMax(3, TRUE), FindMin(2, TRUE),
             GoToFloat(3, TRUE), GoToFloat(4, TRUE), GoToFloat(2, FALSE), GoToFloat(4, FALSE) >>
  BY <1>2 DEF FinalPasses
<1>4. /\ Len(FinalPasses) = 12
      /\ FinalPasses[1] = Shift(2, n, TRUE) /\ FinalPasses[2] = FindMin(4, TRUE)
      /\ FinalPasses[3] = FindMax(3, FALSE) /\ FinalPasses[4] = FindMin(3, TRUE)
      /\ FinalPasses[5] = FindMax(2, FALSE) /\ FinalPasses[6] = Shift(2, n, TRUE)
      /\ FinalPasses[7] = FindMax(3, TRUE) /\ FinalPasses[8] = FindMin(2, TRUE)
      /\ FinalPasses[9] = GoToFloat(3, TRUE) /\ FinalPasses[10] = GoToFloat(4, TRUE)
      /\ FinalPasses[11] = GoToFloat(2, FALSE) /\ FinalPasses[12] = GoToFloat(4, FALSE)
  BY <1>1, <1>3, Zenon
<1> QED
  BY <1>4, Fields, Zenon

LEMMA SaveElements == Len(Save) = 8 /\ \A m \in Motors : Is(Save[m], "freeze", m, FALSE)
<1>1. Len(Save) = 8 /\ \A m \in Motors : Save[m] = Freeze(m)
  BY PreparationSteps DEF Save
<1> QED
  BY <1>1, Fields, Zenon

LEMMA SequenceParts ==
    /\ Len(Sequence) = 58
    /\ \A i \in 1 .. 16 : Sequence[i] = Preparation[i]
    /\ \A i \in 1 .. 22 : Sequence[16 + i] = FirstPasses[i]
    /\ \A i \in 1 .. 12 : Sequence[38 + i] = FinalPasses[i]
    /\ \A i \in 1 .. 8 : Sequence[50 + i] = Save[i]
<1>1. PICK r \in Seq(Steps) : r = Preparation \o FirstPasses /\ Joins(r, Preparation, FirstPasses)
  BY PreparationSteps, FirstPassesSteps, Joined, Zenon
<1>2. PICK s \in Seq(Steps) : s = r \o FinalPasses /\ Joins(s, r, FinalPasses)
  BY <1>1, FinalPassesSteps, Joined, Zenon
<1>3. Joins(Sequence, s, Save)
  BY <1>1, <1>2, PreparationSteps, Joined, Zenon DEF Sequence
<1>4. Joins(r, Preparation, FirstPasses) /\ Joins(s, r, FinalPasses)
  BY <1>1, <1>2, Zenon
<1>5. /\ Len(Preparation) = 16 /\ Len(FirstPasses) = 22 /\ Len(FinalPasses) = 12 /\ Len(Save) = 8
  BY PreparationElements, FirstPassesElements, FinalPassesElements, SaveElements, Zenon
<1>6. Len(r) = 38 /\ Len(s) = 50 /\ Len(Sequence) = 58
  BY <1>3, <1>4, <1>5 DEF Joins
<1> QED
  BY <1>3, <1>4, <1>5, <1>6 DEF Joins

\* What each of the 58 steps is, which motor it is about and how it leaves its torque.
LEMMA SequenceElements ==
    /\ \A m \in Motors : Is(Sequence[m], "prepare", m, FALSE)
    /\ \A m \in Motors : Is(Sequence[8 + m], "limit", m, FALSE)
    /\ Is(Sequence[17], "find", 8, FALSE) /\ Is(Sequence[18], "find", 8, FALSE)
    /\ Is(Sequence[19], "shift", 8, FALSE) /\ Is(Sequence[20], "find", 1, FALSE)
    /\ Is(Sequence[21], "find", 1, FALSE) /\ Is(Sequence[22], "shift", 1, TRUE)
    /\ Is(Sequence[23], "find", 6, FALSE) /\ Is(Sequence[24], "find", 6, FALSE)
    /\ Is(Sequence[25], "float", 6, TRUE) /\ Is(Sequence[26], "find", 2, TRUE)
    /\ Is(Sequence[27], "torque", 4, TRUE) /\ Is(Sequence[28], "find", 3, TRUE)
    /\ Is(Sequence[29], "find", 4, TRUE) /\ Is(Sequence[30], "find", 6, FALSE)
    /\ Is(Sequence[31], "find", 6, FALSE) /\ Is(Sequence[32], "shift", 6, TRUE)
    /\ Is(Sequence[33], "find", 7, FALSE) /\ Is(Sequence[34], "find", 7, FALSE)
    /\ Is(Sequence[35], "shift", 7, FALSE) /\ Is(Sequence[36], "find", 5, FALSE)
    /\ Is(Sequence[37], "find", 5, FALSE) /\ Is(Sequence[38], "shift", 5, FALSE)
    /\ Is(Sequence[39], "shift", 2, TRUE) /\ Is(Sequence[40], "find", 4, TRUE)
    /\ Is(Sequence[41], "find", 3, FALSE) /\ Is(Sequence[42], "find", 3, TRUE)
    /\ Is(Sequence[43], "find", 2, FALSE) /\ Is(Sequence[44], "shift", 2, TRUE)
    /\ Is(Sequence[45], "find", 3, TRUE) /\ Is(Sequence[46], "find", 2, TRUE)
    /\ Is(Sequence[47], "float", 3, TRUE) /\ Is(Sequence[48], "float", 4, TRUE)
    /\ Is(Sequence[49], "float", 2, FALSE) /\ Is(Sequence[50], "float", 4, FALSE)
    /\ \A m \in Motors : Is(Sequence[50 + m], "freeze", m, FALSE)
<1>1. /\ \A m \in Motors : Sequence[m] = Preparation[m] /\ Sequence[8 + m] = Preparation[8 + m]
      /\ \A m \in Motors : Sequence[50 + m] = Save[m]
  BY SequenceParts DEF Motors
<1>2. /\ Sequence[17] = FirstPasses[1] /\ Sequence[18] = FirstPasses[2]
      /\ Sequence[19] = FirstPasses[3] /\ Sequence[20] = FirstPasses[4]
      /\ Sequence[21] = FirstPasses[5] /\ Sequence[22] = FirstPasses[6]
      /\ Sequence[23] = FirstPasses[7] /\ Sequence[24] = FirstPasses[8]
      /\ Sequence[25] = FirstPasses[9] /\ Sequence[26] = FirstPasses[10]
      /\ Sequence[27] = FirstPasses[11] /\ Sequence[28] = FirstPasses[12]
      /\ Sequence[29] = FirstPasses[13] /\ Sequence[30] = FirstPasses[14]
      /\ Sequence[31] = FirstPasses[15] /\ Sequence[32] = FirstPasses[16]
      /\ Sequence[33] = FirstPasses[17] /\ Sequence[34] = FirstPasses[18]
      /\ Sequence[35] = FirstPasses[19] /\ Sequence[36] = FirstPasses[20]
      /\ Sequence[37] = FirstPasses[21] /\ Sequence[38] = FirstPasses[22]
  BY SequenceParts
<1>3. /\ Sequence[39] = FinalPasses[1] /\ Sequence[40] = FinalPasses[2]
      /\ Sequence[41] = FinalPasses[3] /\ Sequence[42] = FinalPasses[4]
      /\ Sequence[43] = FinalPasses[5] /\ Sequence[44] = FinalPasses[6]
      /\ Sequence[45] = FinalPasses[7] /\ Sequence[46] = FinalPasses[8]
      /\ Sequence[47] = FinalPasses[9] /\ Sequence[48] = FinalPasses[10]
      /\ Sequence[49] = FinalPasses[11] /\ Sequence[50] = FinalPasses[12]
  BY SequenceParts
<1>4. /\ \A m \in Motors : Is(Sequence[m], "prepare", m, FALSE)
      /\ \A m \in Motors : Is(Sequence[8 + m], "limit", m, FALSE)
      /\ \A m \in Motors : Is(Sequence[50 + m], "freeze", m, FALSE)
  BY <1>1, PreparationElements, SaveElements, Zenon
<1>5. /\ Is(Sequence[17], "find", 8, FALSE) /\ Is(Sequence[18], "find", 8, FALSE)
      /\ Is(Sequence[19], "shift", 8, FALSE) /\ Is(Sequence[20], "find", 1, FALSE)
      /\ Is(Sequence[21], "find", 1, FALSE) /\ Is(Sequence[22], "shift", 1, TRUE)
      /\ Is(Sequence[23], "find", 6, FALSE) /\ Is(Sequence[24], "find", 6, FALSE)
      /\ Is(Sequence[25], "float", 6, TRUE) /\ Is(Sequence[26], "find", 2, TRUE)
      /\ Is(Sequence[27], "torque", 4, TRUE) /\ Is(Sequence[28], "find", 3, TRUE)
      /\ Is(Sequence[29], "find", 4, TRUE) /\ Is(Sequence[30], "find", 6, FALSE)
      /\ Is(Sequence[31], "find", 6, FALSE) /\ Is(Sequence[32], "shift", 6, TRUE)
      /\ Is(Sequence[33], "find", 7, FALSE) /\ Is(Sequence[34], "find", 7, FALSE)
      /\ Is(Sequence[35], "shift", 7, FALSE) /\ Is(Sequence[36], "find", 5, FALSE)
      /\ Is(Sequence[37], "find", 5, FALSE) /\ Is(Sequence[38], "shift", 5, FALSE)
  BY <1>2, FirstPassesElements, Zenon
<1>6. /\ Is(Sequence[39], "shift", 2, TRUE) /\ Is(Sequence[40], "find", 4, TRUE)
      /\ Is(Sequence[41], "find", 3, FALSE) /\ Is(Sequence[42], "find", 3, TRUE)
      /\ Is(Sequence[43], "find", 2, FALSE) /\ Is(Sequence[44], "shift", 2, TRUE)
      /\ Is(Sequence[45], "find", 3, TRUE) /\ Is(Sequence[46], "find", 2, TRUE)
      /\ Is(Sequence[47], "float", 3, TRUE) /\ Is(Sequence[48], "float", 4, TRUE)
      /\ Is(Sequence[49], "float", 2, FALSE) /\ Is(Sequence[50], "float", 4, FALSE)
  BY <1>3, FinalPassesElements, Zenon
<1> QED
  BY <1>4, <1>5, <1>6, Zenon

\* Step j is the last one of its motor before step k.
LastOf(j, k) == \A i \in j + 1 .. k - 1 : Sequence[i].motor # Sequence[j].motor

\* A step before k has swept or moved motor m.
Swept(m, k) == \E i \in 1 .. k - 1 : Sequence[i].do \in Checked /\ Sequence[i].motor = m

LEMMA WristSteps ==
    ASSUME NEW k \in 1 .. 58, Sequence[k].do \in Checked, Sequence[k].motor \in {5, 7}
    PROVE  k \in 33 .. 38
<1>1. k \in 1 .. 8 \/ k \in 9 .. 16 \/ k \in 17 .. 32 \/ k \in 33 .. 38 \/ k \in 39 .. 50 \/ k \in 51 .. 58
  OBVIOUS
<1>2. CASE k \in 1 .. 8
  BY <1>2, SequenceElements DEF Is, Motors, Checked
<1>3. CASE k \in 9 .. 16
  <2>1. PICK m \in Motors : k = 8 + m
    BY <1>3 DEF Motors
  <2> QED
    BY <2>1, SequenceElements DEF Is, Checked
<1>4. CASE k \in 17 .. 32
  BY <1>4, SequenceElements DEF Is
<1>5. CASE k \in 39 .. 50
  BY <1>5, SequenceElements DEF Is
<1>6. CASE k \in 51 .. 58
  <2>1. PICK m \in Motors : k = 50 + m
    BY <1>6 DEF Motors
  <2> QED
    BY <2>1, SequenceElements DEF Is, Checked
<1> QED
  BY <1>1, <1>2, <1>3, <1>4, <1>5, <1>6

\* Before a step that moves a wrist motor, the last step of every joint that carries it
\* has switched that joint on.
LEMMA CarriersSwitchedOn ==
    ASSUME NEW k \in 33 .. 38, NEW c \in {1, 2, 3, 4, 6}
    PROVE  \E j \in 1 .. k - 1 :
               /\ Sequence[j].motor = c /\ Sequence[j].after = TRUE
               /\ LastOf(j, k)
<1>1. /\ \A i \in 23 .. 37 : Sequence[i].motor # 1
      /\ \A i \in 27 .. 37 : Sequence[i].motor # 2
      /\ \A i \in 29 .. 37 : Sequence[i].motor # 3
      /\ \A i \in 30 .. 37 : Sequence[i].motor # 4
      /\ \A i \in 33 .. 37 : Sequence[i].motor # 6
  BY SequenceElements DEF Is
<1>2. /\ Sequence[22].motor = 1 /\ Sequence[22].after = TRUE
      /\ Sequence[26].motor = 2 /\ Sequence[26].after = TRUE
      /\ Sequence[28].motor = 3 /\ Sequence[28].after = TRUE
      /\ Sequence[29].motor = 4 /\ Sequence[29].after = TRUE
      /\ Sequence[32].motor = 6 /\ Sequence[32].after = TRUE
  BY SequenceElements DEF Is
<1>3. LastOf(22, k) /\ LastOf(26, k) /\ LastOf(28, k) /\ LastOf(29, k) /\ LastOf(32, k)
  BY <1>1, <1>2 DEF LastOf
<1> QED
  BY <1>2, <1>3

\* A motor is swept before the arm goes to a position within its range, and before
\* it is frozen.
LEMMA FloatsSwept ==
    ASSUME NEW k \in 1 .. 58, Sequence[k].do \in {"float", "freeze"}
    PROVE  Swept(Sequence[k].motor, k)
<1>1. k \in 1 .. 8 \/ k \in 9 .. 16 \/ k \in (17 .. 46) \ {25} \/ k = 25 \/ k \in 47 .. 58
  OBVIOUS
<1>2. CASE k \in 1 .. 8
  BY <1>2, SequenceElements DEF Is, Motors
<1>3. CASE k \in 9 .. 16
  <2>1. PICK m \in Motors : k = 8 + m
    BY <1>3 DEF Motors
  <2> QED
    BY <2>1, SequenceElements DEF Is
<1>4. CASE k \in (17 .. 46) \ {25}
  BY <1>4, SequenceElements DEF Is
<1>5. CASE k = 25
  <2>1. Sequence[25].motor = 6 /\ Sequence[23].motor = 6 /\ Sequence[23].do \in Checked
    BY SequenceElements DEF Is, Checked
  <2> QED
    BY <1>5, <2>1 DEF Swept
<1>6. CASE k \in 47 .. 58
  <2>1. /\ Sequence[20].motor = 1 /\ Sequence[26].motor = 2 /\ Sequence[28].motor = 3
        /\ Sequence[29].motor = 4 /\ Sequence[36].motor = 5 /\ Sequence[23].motor = 6
        /\ Sequence[33].motor = 7 /\ Sequence[17].motor = 8
        /\ \A i \in {17, 20, 23, 26, 28, 29, 33, 36} : Sequence[i].do \in Checked
    BY SequenceElements DEF Is, Checked
  <2>2. \A m \in Motors : Swept(m, k)
    BY <1>6, <2>1 DEF Swept, Motors
  <2>3. Sequence[k] \in Steps
    BY SequenceSteps, SequenceParts, ElementOfSeq
  <2>4. Sequence[k].motor \in Motors
    BY <2>3 DEF Steps
  <2> QED
    BY <2>2, <2>4
<1> QED
  BY <1>1, <1>2, <1>3, <1>4, <1>5, <1>6

\* Only a step that ends with set_torque leaves a motor's torque on.
LEMMA AfterSettles ==
    ASSUME NEW k \in 1 .. 58, Sequence[k].do \in {"prepare", "limit", "freeze"}
    PROVE  Sequence[k].after = FALSE
<1>1. k \in 1 .. 8 \/ k \in 9 .. 16 \/ k \in 17 .. 50 \/ k \in 51 .. 58
  OBVIOUS
<1>2. CASE k \in 1 .. 8
  BY <1>2, SequenceElements DEF Is, Motors
<1>3. CASE k \in 9 .. 16
  <2>1. PICK m \in Motors : k = 8 + m
    BY <1>3 DEF Motors
  <2> QED
    BY <2>1, SequenceElements DEF Is
<1>4. CASE k \in 17 .. 50
  BY <1>4, SequenceElements DEF Is
<1>5. CASE k \in 51 .. 58
  <2>1. PICK m \in Motors : k = 50 + m
    BY <1>5 DEF Motors
  <2> QED
    BY <2>1, SequenceElements DEF Is
<1> QED
  BY <1>1, <1>2, <1>3, <1>4, <1>5

(***************************************************************************)
(* What a run has done by the time it comes to a step.                     *)
(***************************************************************************)
\* The steps that are over.
Past == IF out = "ok" THEN 1 .. at ELSE 1 .. at - 1

InPrimitive == stage \in {"aim", "goal", "wait", "settle"} => Current.do \in Checked

\* A motor that its last step switched on is on, until it is its turn again.
Held ==
    stage # "done" =>
        \A j \in 1 .. at - 1 :
            Sequence[j].after /\ LastOf(j, at) /\ (stage = "ready" \/ Sequence[j].motor # motor)
                => Sequence[j].motor \in torque

\* A primitive that has run has recorded a position of its motor.
Recorded ==
    /\ stage = "settle" => motor \in recorded
    /\ \A j \in Past : Sequence[j].do \in Checked => Sequence[j].motor \in recorded

\* A motor that was swept is frozen when its turn comes.
Frozen ==
    \A j \in Past : Sequence[j].do = "freeze" /\ Swept(Sequence[j].motor, j)
                        => frozen[Sequence[j].motor] # "no"

\* The end is reached with the last step, and no step lacks its positions.
EndsWell == (out = "ok" => at = Len(Sequence)) /\ FloatHasPositions

RunInv == InPrimitive /\ Held /\ Recorded /\ Frozen /\ EndsWell

LEMMA AtStep ==
    ASSUME TypeOK
    PROVE  at \in 1 .. 58 /\ Current \in Steps /\ motor \in Motors /\ Len(Sequence) = 58
BY CurrentStep, SequenceParts DEF TypeOK

LEMMA InitRuns == Init => RunInv
BY DEF Init, RunInv, InPrimitive, Held, Recorded, Frozen, EndsWell, FloatHasPositions, Past

\* A run that returns before its end leaves everything as it is but the torques.
LEMMA ReturnRuns ==
    ASSUME IInv, RunInv, stage # "done",
           NEW r \in {"err", "stopped", "stop_failed"}, Return(r)
    PROVE  RunInv'
<1>1. out = "none" /\ stage' = "done" /\ out' = r /\ UNCHANGED << at, recorded, frozen >>
  BY DEF Return, IInv, TypeOK
<1>2. Past' = Past
  BY <1>1 DEF Past
<1> QED
  BY <1>1, <1>2 DEF RunInv, InPrimitive, Held, Recorded, Frozen, EndsWell, FloatHasPositions

\* Within a primitive only its own motor is switched off.
LEMMA PrimitiveRuns ==
    ASSUME IInv, RunInv, stage # "done",
           UNCHANGED << at, out, frozen >>,
           stage' \in {"aim", "goal", "wait", "settle"}, Current.do \in Checked,
           torque \ {motor} \subseteq torque', recorded \subseteq recorded',
           stage' = "settle" => motor \in recorded'
    PROVE  RunInv'
<1>1. Past' = Past /\ Current' = Current /\ motor' = motor
  BY DEF Past, Current, motor
<1>2. InPrimitive'
  BY <1>1 DEF InPrimitive
<1>3. Held'
  <2> SUFFICES ASSUME NEW j \in 1 .. at - 1, Sequence[j].after, LastOf(j, at),
                      Sequence[j].motor # motor
               PROVE  Sequence[j].motor \in torque'
    BY <1>1 DEF Held
  <2> QED
    BY DEF RunInv, Held
<1>4. Recorded' /\ Frozen' /\ EndsWell'
  BY <1>1 DEF RunInv, Recorded, Frozen, EndsWell, FloatHasPositions
<1> QED
  BY <1>2, <1>3, <1>4 DEF RunInv

\* A step ends: its motor's torque is as it says, and the other motors' are as they were.
LEMMA EndRuns ==
    ASSUME IInv, RunInv, stage # "done", NextStep, recorded' = recorded,
           torque \ {motor} \subseteq torque',
           Current.after => motor \in torque',
           Current.do \in Checked => motor \in recorded,
           \A m \in Motors : frozen[m] # "no" => frozen'[m] # "no",
           Current.do = "freeze" /\ motor \in recorded => frozen'[motor] # "no"
    PROVE  RunInv'
<1>0. ASSUME NEW j \in 1 .. 58 PROVE Sequence[j].motor \in Motors
  <2>1. Sequence[j] \in Steps
    BY SequenceSteps, SequenceParts, ElementOfSeq
  <2> QED
    BY <2>1 DEF Steps
<1>1. at \in 1 .. 58 /\ Len(Sequence) = 58 /\ out = "none"
  BY AtStep DEF IInv, TypeOK
<1>2. /\ \/ at = 58 /\ stage' = "done" /\ out' = "ok" /\ at' = at
         \/ stage' = "ready" /\ at' = at + 1 /\ out' = "none"
      /\ Past = 1 .. at - 1 /\ Past' = 1 .. at
  <2>1. CASE at = 58
    BY <1>1, <2>1 DEF NextStep, Past
  <2>2. CASE at # 58
    <3>1. stage' = "ready" /\ at' = at + 1 /\ out' = "none"
      BY <1>1, <2>2 DEF NextStep
    <3>2. at' - 1 = at
      BY <1>1, <3>1
    <3> QED
      BY <1>1, <3>1, <3>2 DEF Past
  <2> QED
    BY <2>1, <2>2
<1>3. InPrimitive'
  BY <1>2 DEF InPrimitive
<1>4. Held'
  <2> SUFFICES ASSUME stage' = "ready", at' = at + 1, NEW j \in 1 .. at, Sequence[j].after,
                      LastOf(j, at + 1)
               PROVE  Sequence[j].motor \in torque'
    <3>1. CASE stage' = "done"
      BY <3>1 DEF Held
    <3>2. CASE stage' = "ready" /\ at' = at + 1
      <4>1. at' - 1 = at
        BY <1>1, <3>2
      <4> QED
        BY <3>2, <4>1 DEF Held
    <3> QED
      BY <1>2, <3>1, <3>2
  <2>1. CASE j = at
    BY <2>1 DEF Current, motor
  <2>2. CASE j # at
    <3>1. j \in 1 .. at - 1 /\ LastOf(j, at) /\ Sequence[j].motor # motor
      BY <1>1, <2>2 DEF LastOf, motor, Current
    <3>2. Sequence[j].motor \in torque
      BY <3>1 DEF RunInv, Held
    <3> QED
      BY <3>1, <3>2
  <2> QED
    BY <2>1, <2>2
<1>5. Recorded'
  <2> SUFFICES ASSUME NEW j \in 1 .. at, Sequence[j].do \in Checked
               PROVE  Sequence[j].motor \in recorded
    BY <1>2 DEF Recorded
  <2>1. CASE j = at
    BY <2>1 DEF Current, motor
  <2>2. CASE j # at
    <3>1. j \in Past
      BY <1>1, <1>2, <2>2
    <3> QED
      BY <3>1 DEF RunInv, Recorded
  <2> QED
    BY <2>1, <2>2
<1>6. Frozen'
  <2> SUFFICES ASSUME NEW j \in 1 .. at, Sequence[j].do = "freeze", Swept(Sequence[j].motor, j)
               PROVE  frozen'[Sequence[j].motor] # "no"
    BY <1>2 DEF Frozen
  <2>1. CASE j = at
    <3>1. motor \in recorded
      BY <1>1, <1>2, <2>1 DEF Swept, RunInv, Recorded, Current, motor
    <3> QED
      BY <2>1, <3>1 DEF Current, motor
  <2>2. CASE j # at
    <3>1. j \in Past /\ j \in 1 .. 58
      BY <1>1, <1>2, <2>2
    <3>2. Sequence[j].motor \in Motors
      BY <1>0, <3>1, Zenon
    <3> QED
      BY <3>1, <3>2 DEF RunInv, Frozen
  <2> QED
    BY <2>1, <2>2
<1>7. EndsWell'
  BY <1>1, <1>2 DEF EndsWell, FloatHasPositions
<1> QED
  BY <1>3, <1>4, <1>5, <1>6, <1>7 DEF RunInv

LEMMA NextRuns == IInv /\ RunInv /\ [Next]_vars => RunInv'
<1> SUFFICES ASSUME IInv, RunInv, [Next]_vars PROVE RunInv'
  OBVIOUS
<1>0. motor \in Motors /\ Current \in Steps /\ at \in 1 .. 58
      /\ frozen \in [Motors -> {"no", "verified", "unverified"}]
  BY AtStep DEF IInv, TypeOK
<1>1. CASE UNCHANGED vars \/ RequestStop
  <2>1. UNCHANGED << at, stage, torque, recorded, frozen, out >>
    BY <1>1 DEF vars, RequestStop
  <2> QED
    BY <2>1 DEF RunInv, InPrimitive, Held, Recorded, Frozen, EndsWell, FloatHasPositions,
               Past, Current, motor
<1>2. CASE StartAgain
  BY <1>2 DEF StartAgain, RunInv, InPrimitive, Held, Recorded, Frozen, EndsWell, FloatHasPositions,
               Past
<1>3. CASE CheckStop \/ BusError
  <2>1. stage # "done"
    BY <1>3 DEF CheckStop, BusError
  <2>2. \E r \in {"err", "stopped", "stop_failed"} : Return(r)
    BY <1>3 DEF CheckStop, DisableAll, Limp, BusError
  <2> QED
    BY <2>1, <2>2, ReturnRuns
<1>4. CASE PrepareMotor \/ WriteLimit
  <2>1. Current.do \in {"prepare", "limit"} /\ Current.after = FALSE
    BY <1>0, <1>4, AfterSettles DEF PrepareMotor, WriteLimit, Current
  <2>2. /\ stage # "done" /\ NextStep /\ UNCHANGED << recorded, frozen >>
        /\ torque \ {motor} \subseteq torque'
    BY <1>4 DEF PrepareMotor, WriteLimit
  <2> QED
    BY <2>1, <2>2, EndRuns DEF Checked
<1>5. CASE FreezeMotor
  <2>1. Current.do = "freeze" /\ Current.after = FALSE
    BY <1>0, <1>5, AfterSettles DEF FreezeMotor, Current
  <2>2. stage # "done" /\ NextStep /\ UNCHANGED << recorded, torque >>
    BY <1>5 DEF FreezeMotor
  <2>3. /\ \A m \in Motors : frozen[m] # "no" => frozen'[m] # "no"
        /\ motor \in recorded => frozen'[motor] # "no"
    BY <1>0, <1>5 DEF FreezeMotor
  <2> QED
    BY <2>1, <2>2, <2>3, EndRuns DEF Checked
<1>6. CASE Settle
  <2>1. /\ stage # "done" /\ NextStep /\ UNCHANGED << recorded, frozen >>
        /\ torque' = TorqueAfter
    BY <1>6 DEF Settle, SettingTorque
  <2>2. Current.do # "freeze" /\ (Current.do \in Checked => motor \in recorded)
    BY <1>6 DEF Settle, SettingTorque, RunInv, InPrimitive, Recorded, Checked
  <2>3. torque \ {motor} \subseteq torque' /\ (Current.after => motor \in torque')
    BY <2>1 DEF TorqueAfter
  <2> QED
    BY <2>1, <2>2, <2>3, EndRuns
<1>7. CASE Begin
  <2>1. stage = "ready" /\ Current.do \in Checked
    BY <1>7 DEF Begin
  <2>2. Current.do = "float" => motor \in recorded
    <3>1. SUFFICES ASSUME Current.do = "float" PROVE motor \in recorded
      OBVIOUS
    <3>2. Swept(motor, at)
      BY <1>0, <3>1, FloatsSwept DEF Current, motor
    <3>3. 1 .. at - 1 = Past
      BY <2>1 DEF Past, IInv, TypeOK
    <3> QED
      BY <3>2, <3>3 DEF Swept, RunInv, Recorded
  <2>3. Goto("aim") /\ UNCHANGED << recorded, torque >>
    BY <1>7, <2>2 DEF Begin
  <2>4. /\ stage # "done" /\ UNCHANGED << at, out, frozen >> /\ stage' = "aim"
        /\ torque \ {motor} \subseteq torque' /\ recorded \subseteq recorded'
    BY <2>1, <2>3 DEF Goto
  <2> QED
    BY <2>1, <2>4, PrimitiveRuns
<1>8. CASE WriteOffset \/ SendGoal \/ Stalled \/ StillMoving \/ Recover
  <2>1. stage \in {"aim", "goal", "wait"} /\ Current.do \in Checked
    BY <1>8 DEF WriteOffset, SendGoal, Stalled, StillMoving, Recover, Turn, RunInv, InPrimitive
  <2>2. /\ UNCHANGED << at, out, frozen >> /\ stage' \in {"aim", "goal", "wait", "settle"}
        /\ stage' = "settle" => motor \in recorded'
    BY <1>8, <2>1 DEF WriteOffset, SendGoal, Stalled, StillMoving, Recover, Turn, Goto
  <2>3. torque \ {motor} \subseteq torque' /\ recorded \subseteq recorded'
    BY <1>8 DEF WriteOffset, SendGoal, Stalled, StillMoving, Recover
  <2> QED
    BY <2>1, <2>2, <2>3, PrimitiveRuns
<1> QED
  BY <1>1, <1>2, <1>3, <1>4, <1>5, <1>6, <1>7, <1>8 DEF Next, CalibratorStep

LEMMA RunInvHolds == Spec => [](IInv /\ RunInv)
BY InitHolds, NextKeeps, InitRuns, NextRuns, PTL DEF Spec

\* However the faults fall, while the wrist motors are swept every joint that carries
\* them is switched on (elrobot.rs:66-100).
THEOREM CarriersHoldHolds == Spec => []CarriersHold
<1>1. IInv /\ RunInv => CarriersHold
  <2> SUFFICES ASSUME IInv, RunInv, stage \in {"goal", "wait"}, motor \in {5, 7},
                      NEW c \in {1, 2, 3, 4, 6}
               PROVE  c \in torque
    BY DEF CarriersHold, Sweeping
  <2>1. at \in 33 .. 38
    BY AtStep, WristSteps DEF IInv, RunInv, InPrimitive, Current, motor
  <2>2. PICK j \in 1 .. at - 1 :
            Sequence[j].motor = c /\ Sequence[j].after = TRUE /\ LastOf(j, at)
    BY <2>1, CarriersSwitchedOn
  <2> QED
    BY <2>2 DEF RunInv, Held
<1> QED
  BY <1>1, RunInvHolds, PTL

\* A run that returns Ok has frozen all eight motors: the sequence sweeps each of them,
\* and a sweep that goes on has recorded a position (calibrator.rs:328-334).
THEOREM OkSavesEveryMotorHolds == Spec => []OkSavesEveryMotor
<1>1. IInv /\ RunInv => OkSavesEveryMotor
  <2> SUFFICES ASSUME IInv, RunInv, out = "ok", NEW m \in Motors PROVE frozen[m] # "no"
    BY DEF OkSavesEveryMotor
  <2>1. at = 58
    BY SequenceParts DEF RunInv, EndsWell
  <2>2. 50 + m \in 1 .. 58 /\ Sequence[50 + m].do = "freeze" /\ Sequence[50 + m].motor = m
    BY SequenceElements DEF Is, Motors
  <2>3. Swept(m, 50 + m)
    BY <2>2, FloatsSwept
  <2> QED
    BY <2>1, <2>2, <2>3 DEF RunInv, Frozen, Past
<1> QED
  BY <1>1, RunInvHolds, PTL

\* go_to_float_position always finds positions of its motor (calibrator.rs:290-296).
THEOREM FloatHasPositionsHolds == Spec => []FloatHasPositions
<1>1. IInv /\ RunInv => FloatHasPositions
  BY DEF RunInv, EndsWell
<1> QED
  BY <1>1, RunInvHolds, PTL

=============================================================================
