------------------------- MODULE StallDetectorProofs -------------------------
(***************************************************************************)
(* Proofs about wait_for_stall (StallDetector), for any positions and      *)
(* velocities a servo may report and any number of reads at speed.         *)
(***************************************************************************)
EXTENDS StallDetector, TLAPS

\* The budget of a wait that goes on: 99 reads, four for every read at speed,
\* and one for every slow read since.  ReadsBounded alone does not say that the
\* slow reads of the last stretch are the ones stableCount has counted.
Budget ==
    Waiting => /\ stableCount <= SkipInitialSamples
               /\ reads <= MaxReadsWithoutDisplacement - 1
                              + (SkipInitialSamples + 1) * fast + stableCount

\* The types without the bound on reads, which needs Budget.
Typed ==
    /\ stop \in BOOLEAN
    /\ recorded \subseteq Positions
    /\ torque \in [waiting : BOOLEAN, others : BOOLEAN]
    /\ result \in [end : {"none", "stopped", "error"}]
                    \cup [end : {"ok"}, position : Positions]
    /\ start \in Positions \cup {-1}
    /\ reads \in Nat
    /\ stableCount \in Nat
    /\ fast \in 0 .. MaxFast
    /\ faults \in 0 .. MaxServoFaults

IInv ==
    /\ Typed
    /\ Budget
    /\ stableCount <= SkipInitialSamples + 1
    /\ ReadsBounded
    /\ NoEarlyStall

LEMMA Limits ==
    /\ SkipInitialSamples = 3 /\ MotorStartupSteps = 4 /\ MinDisplacement = 5
    /\ MaxReadsWithoutDisplacement = 100 /\ VelocityThreshold = 10
    /\ Positions \subseteq Int /\ Velocities \subseteq Int /\ -1 \notin Positions
BY ReadingsAssumption DEF SkipInitialSamples, MotorStartupSteps, MinDisplacement,
      MaxReadsWithoutDisplacement, VelocityThreshold

LEMMA DisplacementIsNat ==
    ASSUME Typed, NEW p \in Positions
    PROVE  Displacement(p) \in Nat
BY Limits DEF Typed, Displacement

\* The arithmetic of the budget.
LEMMA OneMoreRead ==
    ASSUME NEW r \in Nat, NEW f \in Nat, NEW c \in Nat, NEW g \in Nat, NEW d \in Nat,
           r <= 99 + 4 * f + c, c <= 3,
           r + 1 < 100 \/ (g = f /\ d = c + 1) \/ (g = f + 1 /\ d = 0)
    PROVE  r + 1 <= 100 - 1 + (3 + 1) * g + d
OBVIOUS

LEMMA LastRead ==
    ASSUME NEW r \in Nat, NEW f \in Nat, NEW c \in Nat, NEW g \in Nat,
           r <= 99 + 4 * f + c, c <= 3, g = f \/ g = f + 1
    PROVE  r + 1 <= 100 - 1 + (3 + 1) * (g + 1)
OBVIOUS

LEMMA InitHolds == Init => IInv
<1> USE DEF SkipInitialSamples, MotorStartupSteps, MinDisplacement,
          MaxReadsWithoutDisplacement, VelocityThreshold
<1> SUFFICES ASSUME Init PROVE IInv
  OBVIOUS
<1>1. Typed
  <2>1. 0 \in 0 .. MaxFast /\ 0 \in 0 .. MaxServoFaults
    BY BoundsAssumption
  <2>2. result \in [end : {"none", "stopped", "error"}]
    BY DEF Init
  <2> QED
    BY <2>1, <2>2 DEF Init, Typed
<1>2. reads = 0 /\ stableCount = 0 /\ fast = 0 /\ result.end = "none"
  BY DEF Init
<1> QED
  BY <1>1, <1>2, Limits DEF IInv, Budget, ReadsBounded, NoEarlyStall

\* What a read does to the counters.
LEMMA ReadCounts ==
    ASSUME IInv, NEW p \in Positions, NEW v \in Velocities, ReadBoth(p, v)
    PROVE  /\ reads' = reads + 1
           /\ stableCount' \in Nat
           /\ stableCount' <= stableCount + 1
           /\ stableCount' > 3 => StallSeen(p, v)
           /\ reads + 1 >= 100 /\ ~ NeverMoved(p) =>
                \/ fast' = fast /\ stableCount' = stableCount + 1
                \/ fast' = fast + 1 /\ stableCount' = 0
<1>1. Displacement(p) \in Nat /\ v \in Int
  BY DisplacementIsNat, Limits DEF IInv
<1>2. /\ reads' = reads + 1 /\ stableCount' = Stable(p, v)
      /\ fast' = IF v >= VelocityThreshold THEN fast + 1 ELSE fast
  BY DEF ReadBoth, Counted
<1>3. stableCount \in Nat /\ stableCount <= 3 /\ reads \in Nat /\ fast \in Nat
  BY Limits, BoundsAssumption DEF IInv, Typed, Budget, ReadBoth
<1> QED
  BY <1>1, <1>2, <1>3, Limits DEF Stable, StallSeen, NeverMoved, AtLimit

\* A read keeps the invariant.
LEMMA ReadKeeps ==
    ASSUME IInv, NEW p \in Positions, NEW v \in Velocities, ReadBoth(p, v)
    PROVE  IInv'
<1> USE DEF SkipInitialSamples, MotorStartupSteps, MinDisplacement,
          MaxReadsWithoutDisplacement, VelocityThreshold
<1> DEFINE ended == StallSeen(p, v) \/ NeverMoved(p)
<1>0. /\ Waiting /\ result' = IF ended THEN [end |-> "ok", position |-> p] ELSE result
  BY DEF ReadBoth
<1>1. /\ stableCount \in Nat /\ stableCount <= 3 /\ reads \in Nat
      /\ fast \in Nat /\ fast' \in Nat /\ fast' <= MaxFast
      /\ reads <= 99 + 4 * fast + stableCount
  BY <1>0, Limits, BoundsAssumption, ReadingsAssumption
     DEF IInv, Typed, Budget, ReadBoth
<1>2. start' = IF start = -1 THEN p ELSE start
  BY DEF ReadBoth
<1>3. Typed'
  <2>1. /\ stop' = stop /\ torque' = torque /\ faults' = faults
        /\ recorded' = recorded \cup {p}
    BY DEF ReadBoth
  <2>2. fast' \in 0 .. MaxFast
    BY <1>1, BoundsAssumption
  <2> QED
    BY <1>0, <1>1, <1>2, <2>1, <2>2, ReadCounts DEF IInv, Typed
<1>4. fast' = fast \/ fast' = fast + 1
  BY DEF ReadBoth
<1>5. /\ reads \in Nat /\ stableCount \in Nat /\ stableCount' \in Nat
      /\ reads' = reads + 1 /\ stableCount' <= 4 /\ fast \in Nat /\ fast' \in Nat
  BY <1>1, ReadCounts
<1>6. reads' <= 100 - 1 + (3 + 1) * (fast' + 1)
  BY <1>1, <1>4, <1>5, LastRead
<1>7. Budget'
  <2> SUFFICES ASSUME Waiting'
               PROVE  stableCount' <= 3 /\ reads' <= 100 - 1 + (3 + 1) * fast' + stableCount'
    BY DEF Budget
  <2>1. ~ ended
    BY <1>0 DEF Waiting
  <2>2. stableCount' <= 3
    BY <2>1, <1>5, ReadCounts
  <2>3. \/ reads + 1 < 100
        \/ fast' = fast /\ stableCount' = stableCount + 1
        \/ fast' = fast + 1 /\ stableCount' = 0
    BY <2>1, <1>5, ReadCounts
  <2>4. reads + 1 <= 100 - 1 + (3 + 1) * fast' + stableCount'
    BY <2>3, <1>1, <1>5, OneMoreRead
  <2> QED
    BY <2>2, <2>4, <1>5
<1>8. NoEarlyStall'
  <2> SUFFICES ASSUME result'.end = "ok", reads' < 100
               PROVE  (Displacement(result.position))' >= 5 /\ reads' > 3
    BY DEF NoEarlyStall
  <2>1. ended /\ result'.position = p
    BY <1>0 DEF Waiting
  <2>2. NeverMoved(p) => reads' >= 100
    BY <1>5 DEF NeverMoved, AtLimit
  <2>3. StallSeen(p, v)
    BY <2>1, <2>2, <1>5
  <2>4. Displacement(p)' = Displacement(p)
    BY <1>2, Limits DEF Displacement
  <2>5. Displacement(p) >= 5 /\ reads + 1 >= 4
    BY <2>3 DEF StallSeen
  <2>6. (Displacement(result.position))' = Displacement(p)'
    BY <2>1 DEF Displacement
  <2> QED
    BY <2>4, <2>5, <2>6, <1>5
<1>9. ReadsBounded'
  BY <1>6 DEF ReadsBounded
<1>10. (stableCount <= SkipInitialSamples + 1)'
  BY <1>5
<1> QED
  BY <1>3, <1>7, <1>8, <1>9, <1>10 DEF IInv

LEMMA NextKeeps == IInv /\ [Next]_vars => IInv'
<1> USE DEF SkipInitialSamples, MotorStartupSteps, MinDisplacement,
          MaxReadsWithoutDisplacement, VelocityThreshold
<1> SUFFICES ASSUME IInv, [Next]_vars PROVE IInv'
  OBVIOUS
<1> USE DEF IInv
<1>1. CASE UNCHANGED vars
  BY <1>1 DEF vars, Typed, Budget, ReadsBounded, NoEarlyStall, Waiting, Displacement
<1>2. CASE RequestStop
  BY <1>2 DEF RequestStop, Typed, Budget, ReadsBounded, NoEarlyStall, Waiting, Displacement
<1>3. CASE CheckStop
  <2>1. torque' \in [waiting : BOOLEAN, others : BOOLEAN]
    <3>1. torque.waiting \in BOOLEAN /\ torque.others \in BOOLEAN
      BY DEF Typed
    <3>2. CASE torque' = AllOff
      BY <3>2 DEF AllOff
    <3>3. CASE \E w, o \in BOOLEAN :
                  torque' = [waiting |-> torque.waiting /\ w, others |-> torque.others /\ o]
      <4>1. PICK w \in BOOLEAN, o \in BOOLEAN :
                torque' = [waiting |-> torque.waiting /\ w, others |-> torque.others /\ o]
        BY <3>3
      <4>2. (torque.waiting /\ w) \in BOOLEAN /\ (torque.others /\ o) \in BOOLEAN
        BY Zenon
      <4> QED
        BY <4>1, <4>2, Zenon
    <3> QED
      BY <1>3, <3>2, <3>3, Zenon DEF CheckStop
  <2>2. result' \in [end : {"none", "stopped", "error"}] /\ result'.end \in {"stopped", "error"}
    BY <1>3 DEF CheckStop
  <2> QED
    BY <1>3, <2>1, <2>2
       DEF CheckStop, Typed, Budget, ReadsBounded, NoEarlyStall, Waiting
<1>4. CASE Read
  BY <1>4, ReadKeeps DEF Read
<1>5. CASE Recover
  <2>1. torque' \in [waiting : BOOLEAN, others : BOOLEAN]
    BY <1>5 DEF Recover, Typed
  <2> QED
    BY <1>5, <2>1, BoundsAssumption
       DEF Recover, Typed, Budget, ReadsBounded, NoEarlyStall, Waiting, Displacement
<1>6. CASE ReadError
  BY <1>6 DEF ReadError, Typed, Budget, ReadsBounded, NoEarlyStall, Waiting
<1> QED
  BY <1>1, <1>2, <1>3, <1>4, <1>5, <1>6 DEF Next, Poll

LEMMA IInvHolds == Spec => []IInv
<1>1. Init => IInv
  BY InitHolds
<1>2. IInv /\ [Next]_vars => IInv'
  BY NextKeeps
<1> QED
  BY <1>1, <1>2, PTL DEF Spec

LEMMA IInvTypes == IInv => TypeOK
<1> USE DEF SkipInitialSamples, MotorStartupSteps, MinDisplacement,
          MaxReadsWithoutDisplacement, VelocityThreshold
<1> SUFFICES ASSUME IInv PROVE TypeOK
  OBVIOUS
<1>1. reads <= 99 + 4 * (fast + 1) /\ fast \in Nat /\ fast <= MaxFast /\ reads \in Nat
  BY Limits, BoundsAssumption DEF IInv, ReadsBounded, Typed
<1>2. reads \in 0 .. MaxReads
  BY <1>1, Limits, BoundsAssumption DEF MaxReads
<1>3. stableCount \in 0 .. SkipInitialSamples + 1
  BY Limits DEF IInv, Typed
<1> QED
  BY <1>2, <1>3 DEF IInv, Typed, TypeOK

\* Every variable keeps its type, and the counters their bounds.
THEOREM TypeCorrect == Spec => []TypeOK
BY IInvHolds, IInvTypes, PTL

\* However the motor moves, a wait takes at most 99 reads, and four for every
\* read at speed and four more (calibrator.rs:131-149).
THEOREM ReadsBoundedHolds == Spec => []ReadsBounded
<1>1. IInv => ReadsBounded
  BY DEF IInv
<1> QED
  BY <1>1, IInvHolds, PTL

\* A position close to the start is returned after 100 reads only.
THEOREM NoEarlyStallHolds == Spec => []NoEarlyStall
<1>1. IInv => NoEarlyStall
  BY DEF IInv
<1> QED
  BY <1>1, IInvHolds, PTL

\* wait_for_stall refines what StallWait promises the calibration: it ends with
\* a position it has recorded, with every motor limp because of a stop request,
\* or with an error.
THEOREM PromiseHolds == Spec => PromiseKept
<1>1. Init => Promise!Init
  BY DEF Init, Promise!Init
<1>2. IInv /\ [Next]_vars => [Promise!Next]_Promise!vars
  <2> SUFFICES ASSUME IInv, [Next]_vars PROVE [Promise!Next]_Promise!vars
    OBVIOUS
  <2>1. CASE UNCHANGED vars
    BY <2>1 DEF vars, Promise!vars
  <2>2. CASE RequestStop
    BY <2>2 DEF RequestStop, Promise!Next, Promise!RequestStop
  <2>3. CASE CheckStop
    <3>1. result.end = "none" /\ stop /\ UNCHANGED << stop, recorded >>
      BY <2>3 DEF CheckStop, Waiting
    <3>2. CASE torque' = AllOff /\ result' = [end |-> "stopped"]
      BY <3>1, <3>2 DEF AllOff, Promise!Next, Promise!ReturnStopped
    <3>3. CASE /\ \E w, o \in BOOLEAN :
                    torque' = [waiting |-> torque.waiting /\ w, others |-> torque.others /\ o]
               /\ result' = [end |-> "error"]
      BY <3>1, <3>3, Zenon DEF Promise!Next, Promise!ReturnError
    <3> QED
      BY <2>3, <3>2, <3>3, Zenon DEF CheckStop
  <2>4. CASE Read
    <3>1. PICK p \in Positions, v \in Velocities : ReadBoth(p, v)
      BY <2>4 DEF Read
    <3>2. /\ result.end = "none" /\ recorded' = recorded \cup {p}
          /\ UNCHANGED << stop, torque >>
          /\ result' = [end |-> "ok", position |-> p] \/ result' = result
      BY <3>1 DEF ReadBoth, Waiting
    <3>3. Promise!Record \/ Promise!ReturnPosition
      BY <3>2 DEF Promise!Record, Promise!ReturnPosition
    <3> QED
      BY <3>3 DEF Promise!Next
  <2>5. CASE Recover
    BY <2>5 DEF Recover, Waiting, Promise!Next, Promise!Recover
  <2>6. CASE ReadError
    <3>1. torque = [waiting |-> torque.waiting, others |-> torque.others]
          /\ torque.waiting \in BOOLEAN /\ torque.others \in BOOLEAN
      BY DEF IInv, Typed
    <3>2. torque' = [waiting |-> torque.waiting /\ TRUE, others |-> torque.others /\ TRUE]
      BY <2>6, <3>1, Zenon DEF ReadError
    <3>3. \E w, o \in BOOLEAN :
             torque' = [waiting |-> torque.waiting /\ w, others |-> torque.others /\ o]
      BY <3>2, Zenon
    <3> QED
      BY <2>6, <3>3, Zenon DEF ReadError, Waiting, Promise!Next, Promise!ReturnError
  <2> QED
    BY <2>1, <2>2, <2>3, <2>4, <2>5, <2>6 DEF Next, Poll
<1> QED
  BY <1>1, <1>2, IInvHolds, PTL DEF Spec, PromiseKept, Promise!Spec
==============================================================================
