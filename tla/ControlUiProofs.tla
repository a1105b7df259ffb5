--------------------------- MODULE ControlUiProofs ---------------------------
(***************************************************************************)
(* Proofs about the shared state of control_ui.py (ControlUi), for any     *)
(* number of handler threads, joints, angles and requests.                 *)
(***************************************************************************)
EXTENDS ControlUi, TLAPS

\* A handler is inside a /set's critical section only with the lock.
HolderWrites ==
    \A h \in Handlers : next[h] # 0 => lock = h /\ request[h].kind = "set"

\* Between critical sections the targets are ones that a whole /set has left.
SettledWhenFree == lock = Free => targets \in settled

\* What the holder of the lock has written so far is what it was asked for.
WrittenAsAsked ==
    \A h \in Handlers : lock = h =>
        \A j \in JointIds :
            j < next[h] => request[h].targets[j] \in {Absent, Angle(targets[j])}

IInv ==
    /\ TypeOK
    /\ HolderWrites
    /\ SettledWhenFree
    /\ WrittenAsAsked
    /\ NoTornTargets
    /\ ResetNotLost

LEMMA Constants ==
    /\ Angles \subseteq Int /\ 0 \in Angles /\ -1 \notin Angles
    /\ MaxSteps \in Nat /\ MaxRequests \in Nat
    /\ Len(Joints) \in Nat /\ JointIds = 1 .. Len(Joints)
    /\ Free \notin Handlers
BY HandlersAssumption, RequestsAssumption, JointsAssumption, AnglesAssumption DEF JointIds

\* A request of kind "set" has a value for every joint.
LEMMA SetRequest ==
    ASSUME NEW r \in Bodies \cup {NoBody}, r.kind = "set"
    PROVE  r.targets \in [JointIds -> Values]
BY DEF Bodies, NoBody

LEMMA HomeIsTarget == Home \in Targets
BY Constants DEF Home, Targets

LEMMA InitHolds == Init => IInv
<1> SUFFICES ASSUME Init PROVE IInv
  OBVIOUS
<1>1. TypeOK
  <2>1. Home \in Targets /\ Home \in [JointIds -> Int]
    BY HomeIsTarget, Constants DEF Home
  <2>2. request \in [Handlers -> Bodies \cup {NoBody}]
    BY DEF Init
  <2>3. next \in [Handlers -> 0 .. Len(Joints) + 1]
    BY Constants DEF Init
  <2>4. requests \in 0 .. MaxRequests
    BY Constants DEF Init
  <2>5. settled \subseteq Targets /\ targets \in Targets /\ snapshot \in Targets
    BY <2>1 DEF Init
  <2>6. /\ resetBlock \in BOOLEAN /\ lookatMoved \in BOOLEAN /\ doResetBlock \in BOOLEAN
        /\ panned \in BOOLEAN /\ resetDue \in BOOLEAN
    BY DEF Init
  <2>7. /\ lock \in Handlers \cup {Free} /\ served \in Targets \cup {<< >>}
        /\ simStage \in {"snapshot", "step", "publish"} /\ ref \in [JointIds -> Int]
        /\ block \in {"home", "away"} /\ drag \in {"none", "left", "right"}
    BY <2>1 DEF Init
  <2> QED
    BY <2>2, <2>3, <2>4, <2>5, <2>6, <2>7, Zenon DEF TypeOK
<1>2. HolderWrites /\ SettledWhenFree /\ WrittenAsAsked
  BY Constants DEF Init, HolderWrites, SettledWhenFree, WrittenAsAsked
<1>3. NoTornTargets /\ ResetNotLost
  BY DEF Init, NoTornTargets, ResetNotLost
<1> QED
  BY <1>1, <1>2, <1>3 DEF IInv

\* A handler that writes has the lock, and its request is a /set.
LEMMA Writer ==
    ASSUME IInv, NEW h \in Handlers, next[h] # 0
    PROVE  /\ lock = h /\ lock # Free
           /\ request[h].targets \in [JointIds -> Values]
           /\ \A g \in Handlers \ {h} : next[g] = 0
BY SetRequest, Constants DEF IInv, TypeOK, HolderWrites

\* With the lock free nobody is inside a critical section.
LEMMA NobodyInside ==
    ASSUME IInv, lock = Free, NEW h \in Handlers
    PROVE  next[h] = 0
<1>1. next[h] # 0 => lock = h
  BY DEF IInv, HolderWrites
<1> QED
  BY <1>1, HandlersAssumption

(***************************************************************************)
(* Steps that leave the shared targets, the lock and the handlers' place   *)
(* in their critical sections alone.                                       *)
(***************************************************************************)
LEMMA PagesKeep ==
    ASSUME IInv, ClientRequest \/ MouseDown \/ MouseUp \/ MouseMove
    PROVE  IInv'
<1>1. /\ UNCHANGED << sharedVars, simVars, history, lock, next, served >>
      /\ drag' \in {"none", "left", "right"} /\ panned' \in BOOLEAN
      /\ \/ request' = request /\ requests' = requests
         \/ /\ requests < MaxRequests /\ requests' = requests + 1
            /\ \E body \in Bodies : \E h \in Handlers :
                  request[h] = NoBody /\ request' = [request EXCEPT ![h] = body]
  <2>1. CASE ClientRequest
    BY <2>1 DEF ClientRequest, Post, sharedVars, simVars, history, IInv, TypeOK
  <2>2. CASE MouseDown
    BY <2>2 DEF MouseDown, handlerVars, IInv, TypeOK
  <2>3. CASE MouseUp
    BY <2>3 DEF MouseUp, handlerVars, IInv, TypeOK
  <2>4. CASE MouseMove
    <3>1. [kind |-> "cam", fields |-> PageCamera, bad |-> FALSE] \in Bodies
      BY DEF Bodies
    <3>2. panned' \in BOOLEAN /\ drag' = drag /\ UNCHANGED << sharedVars, simVars, history >>
      BY <2>4 DEF MouseMove, IInv, TypeOK
    <3>3. CASE UNCHANGED << handlerVars, requests >>
      BY <3>2, <3>3 DEF handlerVars, IInv, TypeOK
    <3>4. CASE Post([kind |-> "cam", fields |-> PageCamera, bad |-> FALSE])
      BY <3>1, <3>2, <3>4 DEF Post, IInv, TypeOK
    <3> QED
      BY <2>4, <3>3, <3>4 DEF MouseMove
  <2> QED
    BY <2>1, <2>2, <2>3, <2>4
<1>2. request' \in [Handlers -> Bodies \cup {NoBody}] /\ requests' \in 0 .. MaxRequests
  BY <1>1, Constants DEF IInv, TypeOK
<1>3. \A h \in Handlers : next[h] # 0 => request'[h] = request[h]
  BY <1>1 DEF IInv, TypeOK, HolderWrites, NoBody
<1>4. TypeOK'
  BY <1>1, <1>2 DEF IInv, TypeOK, sharedVars, simVars, history
<1>5. HolderWrites'
  BY <1>1, <1>3 DEF IInv, HolderWrites
<1>6. SettledWhenFree' /\ NoTornTargets' /\ ResetNotLost'
  BY <1>1 DEF IInv, SettledWhenFree, NoTornTargets, ResetNotLost, sharedVars, simVars, history
<1>7. WrittenAsAsked'
  <2>1. next \in [Handlers -> 0 .. Len(Joints) + 1] /\ targets' = targets
        /\ lock' = lock /\ next' = next
    BY <1>1 DEF IInv, TypeOK, sharedVars
  <2> SUFFICES ASSUME NEW h \in Handlers, lock = h, NEW j \in JointIds, j < next[h]
               PROVE  request'[h].targets[j] \in {Absent, Angle(targets[j])}
    BY <2>1 DEF WrittenAsAsked, Angle
  <2>2. next[h] # 0
    BY <2>1, Constants
  <2> QED
    BY <2>2, <1>3 DEF IInv, WrittenAsAsked
<1> QED
  BY <1>4, <1>5, <1>6, <1>7 DEF IInv

LEMMA SimKeeps ==
    ASSUME IInv, SimStep
    PROVE  IInv'
<1>1. /\ UNCHANGED << targets, lookatMoved, handlerVars, pageVars, settled >>
      /\ resetBlock' \in BOOLEAN
  BY DEF SimStep, Snapshot, StepPhysics, Publish, TakeReset, sharedVars, history, IInv, TypeOK
<1>2. HolderWrites' /\ SettledWhenFree' /\ WrittenAsAsked'
  BY <1>1 DEF IInv, HolderWrites, SettledWhenFree, WrittenAsAsked, handlerVars, Angle
<1>3. CASE Snapshot
  <2>1. /\ simStage' = "step" /\ snapshot' = targets /\ doResetBlock' = resetBlock
        /\ lock = Free /\ UNCHANGED << ref, block, history >>
    BY <1>3 DEF Snapshot, TakeReset, MayEnter
  <2>2. TypeOK'
    BY <1>1, <2>1 DEF IInv, TypeOK, handlerVars, pageVars, history
  <2>3. NoTornTargets'
    BY <1>1, <2>1 DEF IInv, NoTornTargets, SettledWhenFree, handlerVars
  <2>4. ResetNotLost'
    BY <1>3, <2>1 DEF Snapshot, IInv, ResetNotLost, history
  <2> QED
    BY <1>2, <2>2, <2>3, <2>4 DEF IInv
<1>4. CASE StepPhysics
  <2>1. /\ simStage' = "publish" /\ block' \in {"home", "away"}
        /\ UNCHANGED << resetBlock, snapshot, doResetBlock >>
        /\ resetDue' = ((resetDue /\ ~ doResetBlock) \/ resetBlock)
    BY <1>4 DEF StepPhysics, sharedVars, IInv, TypeOK
  <2>2. ref' \in [JointIds -> Int]
    <3>1. PICK n \in 1 .. MaxSteps :
              ref' = [j \in JointIds |-> Toward(ref[j], snapshot[j], n)]
      BY <1>4 DEF StepPhysics
    <3>2. \A j \in JointIds : ref[j] \in Int /\ snapshot[j] \in Int
      BY Constants DEF IInv, TypeOK, Targets
    <3>3. \A j \in JointIds : Toward(ref[j], snapshot[j], n) \in Int
      BY <3>2, Constants DEF Toward
    <3> QED
      BY <3>1, <3>3
  <2>3. resetDue' \in BOOLEAN
    BY <2>1, Zenon
  <2>4. TypeOK'
    BY <1>1, <2>1, <2>2, <2>3 DEF IInv, TypeOK, handlerVars, pageVars
  <2>5. NoTornTargets'
    BY <1>1, <2>1 DEF IInv, NoTornTargets, handlerVars
  <2>6. ResetNotLost'
    <3>1. ResetNotLost
      BY DEF IInv
    <3>2. resetDue' => resetBlock
      BY <2>1, <3>1, Zenon DEF ResetNotLost
    <3> QED
      BY <2>1, <3>2 DEF ResetNotLost
  <2> QED
    BY <1>2, <2>4, <2>5, <2>6 DEF IInv
<1>5. CASE Publish
  <2>1. simStage' = "snapshot" /\ simStage = "publish"
        /\ UNCHANGED << resetBlock, snapshot, doResetBlock, ref, block, history >>
    BY <1>5 DEF Publish, sharedVars
  <2>2. TypeOK'
    BY <1>1, <2>1 DEF IInv, TypeOK, handlerVars, pageVars, history
  <2>3. NoTornTargets' /\ ResetNotLost'
    BY <1>1, <2>1 DEF IInv, NoTornTargets, ResetNotLost, handlerVars, history
  <2> QED
    BY <1>2, <2>2, <2>3 DEF IInv
<1> QED
  BY <1>3, <1>4, <1>5 DEF SimStep

(***************************************************************************)
(* Handler threads.                                                        *)
(***************************************************************************)
LEMMA BeginSetKeeps ==
    ASSUME IInv, NEW h \in Handlers, BeginSet(h)
    PROVE  IInv'
<1>1. /\ lock = Free /\ lock' = h /\ next' = [next EXCEPT ![h] = 1]
      /\ request[h].kind = "set" /\ UNCHANGED << request, targets, served, settled, resetBlock,
                                                 lookatMoved, simVars, pageVars, resetDue >>
  BY DEF BeginSet, MayEnter, sharedVars, history
<1>2. \A g \in Handlers : next[g] = 0
  BY <1>1, NobodyInside
<1>3. TypeOK'
  <2>1. next' \in [Handlers -> 0 .. Len(Joints) + 1]
    BY <1>1, Constants DEF IInv, TypeOK
  <2> QED
    BY <1>1, <2>1 DEF IInv, TypeOK, simVars, pageVars
<1>4. HolderWrites'
  BY <1>1, <1>2 DEF IInv, TypeOK, HolderWrites
<1>5. SettledWhenFree' /\ NoTornTargets' /\ ResetNotLost'
  BY <1>1, Constants DEF IInv, SettledWhenFree, NoTornTargets, ResetNotLost, simVars
<1>6. WrittenAsAsked'
  <2>1. \A j \in JointIds : ~ (j < 1)
    BY Constants
  <2> QED
    BY <1>1, <2>1 DEF IInv, TypeOK, WrittenAsAsked
<1> QED
  BY <1>3, <1>4, <1>5, <1>6 DEF IInv

LEMMA WriteTargetKeeps ==
    ASSUME IInv, NEW h \in Handlers, WriteTarget(h)
    PROVE  IInv'
<1> DEFINE j == next[h]
<1>1. /\ j \in JointIds /\ ~ Throws(Asked(h)) /\ next' = [next EXCEPT ![h] = @ + 1]
      /\ UNCHANGED << resetBlock, lookatMoved, lock, request, served, simVars, pageVars,
                      settled, resetDue >>
      /\ targets' = IF Asked(h) = Absent THEN targets
                    ELSE [targets EXCEPT ![j] = Asked(h).angle]
  BY DEF WriteTarget, Writing, history
<1>2. j # 0 /\ j \in Nat /\ next \in [Handlers -> 0 .. Len(Joints) + 1]
  BY <1>1, Constants DEF IInv, TypeOK
<1>3. /\ lock = h /\ lock # Free /\ request[h].targets \in [JointIds -> Values]
      /\ \A g \in Handlers \ {h} : next[g] = 0
  BY <1>2, Writer
<1>4. Asked(h) \in Values /\ Asked(h) # Bad
  BY <1>1, <1>3 DEF Asked, Throws
<1>5. Asked(h) = Absent \/ \E a \in Angles : Asked(h) = Angle(a) /\ Asked(h).angle = a
  BY <1>4 DEF Values, Angle
<1>6. targets' \in Targets /\ Asked(h) \in {Absent, Angle(targets'[j])}
      /\ \A i \in JointIds : i # j => targets'[i] = targets[i]
  <2>1. CASE Asked(h) = Absent
    BY <2>1, <1>1 DEF IInv, TypeOK
  <2>2. CASE Asked(h) # Absent
    <3>1. PICK a \in Angles : Asked(h) = Angle(a) /\ Asked(h).angle = a
      BY <1>5, <2>2
    <3> QED
      BY <3>1, <2>2, <1>1 DEF IInv, TypeOK, Targets
  <2> QED
    BY <2>1, <2>2
<1>7. TypeOK'
  <2>1. next' \in [Handlers -> 0 .. Len(Joints) + 1]
    BY <1>1, <1>2, Constants
  <2> QED
    BY <1>1, <1>6, <2>1 DEF IInv, TypeOK, simVars, pageVars
<1>8. HolderWrites'
  BY <1>1, <1>2, <1>3 DEF IInv, HolderWrites
<1>9. SettledWhenFree' /\ NoTornTargets' /\ ResetNotLost'
  BY <1>1, <1>3 DEF IInv, SettledWhenFree, NoTornTargets, ResetNotLost, simVars
<1>10. WrittenAsAsked'
  <2> SUFFICES ASSUME NEW g \in Handlers, lock = g, NEW i \in JointIds, i < next'[g]
               PROVE  request[g].targets[i] \in {Absent, Angle(targets'[i])}
    BY <1>1 DEF WrittenAsAsked, Angle
  <2>1. g = h /\ next'[h] = j + 1
    BY <1>1, <1>2, <1>3
  <2>2. CASE i = j
    BY <2>1, <2>2, <1>6 DEF Asked
  <2>3. CASE i # j
    <3>1. i < next[h]
      BY <2>1, <2>3, <1>2, Constants
    <3> QED
      BY <2>1, <2>3, <3>1, <1>6, <1>3 DEF IInv, WrittenAsAsked
  <2> QED
    BY <2>2, <2>3
<1> QED
  BY <1>7, <1>8, <1>9, <1>10 DEF IInv

LEMMA EndSetKeeps ==
    ASSUME IInv, NEW h \in Handlers, EndSet(h)
    PROVE  IInv'
<1>1. /\ lock' = Free /\ next' = [next EXCEPT ![h] = 0]
      /\ request' = [request EXCEPT ![h] = NoBody]
      /\ settled' = settled \cup {targets}
      /\ UNCHANGED << targets, resetBlock, lookatMoved, served, simVars, pageVars, resetDue >>
  BY DEF EndSet, Over, Released, sharedVars
<1>2. next[h] # 0
  BY Constants DEF EndSet, Done, Writing, IInv, TypeOK
<1>3. \A g \in Handlers \ {h} : next[g] = 0
  BY <1>2, Writer
<1>4. TypeOK'
  <2>1. next' \in [Handlers -> 0 .. Len(Joints) + 1]
    BY <1>1, Constants DEF IInv, TypeOK
  <2>2. request' \in [Handlers -> Bodies \cup {NoBody}]
    BY <1>1 DEF IInv, TypeOK
  <2> QED
    BY <1>1, <2>1, <2>2 DEF IInv, TypeOK, simVars, pageVars
<1>5. HolderWrites'
  BY <1>1, <1>3 DEF IInv, TypeOK, HolderWrites
<1>6. SettledWhenFree' /\ NoTornTargets' /\ ResetNotLost'
  BY <1>1 DEF IInv, SettledWhenFree, NoTornTargets, ResetNotLost, simVars
<1>7. WrittenAsAsked'
  BY <1>1, Constants DEF WrittenAsAsked
<1> QED
  BY <1>4, <1>5, <1>6, <1>7 DEF IInv

\* The critical sections that are over in one step.
LEMMA SectionKeeps ==
    ASSUME IInv, NEW h \in Handlers, ResetBlock(h) \/ SetCamera(h) \/ GetState(h)
    PROVE  IInv'
<1>1. /\ lock = Free /\ request' = [request EXCEPT ![h] = NoBody]
      /\ UNCHANGED << targets, lock, next, simVars, pageVars, settled >>
      /\ resetBlock' \in BOOLEAN /\ lookatMoved' \in BOOLEAN /\ resetDue' \in BOOLEAN
      /\ served' = served \/ served' = targets
      /\ \/ UNCHANGED << resetBlock, resetDue >>
         \/ resetBlock' = TRUE
  <2>1. /\ lock = Free /\ request' = [request EXCEPT ![h] = NoBody]
        /\ UNCHANGED << targets, lock, next, simVars, pageVars, settled >>
    BY DEF ResetBlock, SetCamera, GetState, Section, MayEnter, Over, sharedVars
  <2>2. CASE ResetBlock(h)
    BY <2>1, <2>2 DEF ResetBlock, IInv, TypeOK
  <2>3. CASE SetCamera(h)
    <3>1. lookatMoved' \in BOOLEAN
      BY <2>3, Zenon DEF SetCamera
    <3> QED
      BY <2>1, <2>3, <3>1 DEF SetCamera, IInv, TypeOK
  <2>4. CASE GetState(h)
    BY <2>1, <2>4 DEF GetState, sharedVars, IInv, TypeOK
  <2> QED
    BY <2>2, <2>3, <2>4
<1>2. \A g \in Handlers : next[g] = 0
  BY <1>1, NobodyInside
<1>3. TypeOK'
  <2>1. request' \in [Handlers -> Bodies \cup {NoBody}]
    BY <1>1 DEF IInv, TypeOK
  <2> QED
    BY <1>1, <2>1 DEF IInv, TypeOK, simVars, pageVars
<1>4. HolderWrites' /\ SettledWhenFree'
  BY <1>1, <1>2 DEF IInv, HolderWrites, SettledWhenFree
<1>5. NoTornTargets'
  BY <1>1 DEF IInv, NoTornTargets, SettledWhenFree, simVars
<1>6. ResetNotLost'
  <2>1. CASE resetBlock' = TRUE
    BY <2>1 DEF ResetNotLost
  <2>2. CASE UNCHANGED << resetBlock, resetDue >>
    BY <1>1, <2>2 DEF IInv, ResetNotLost, simVars
  <2> QED
    BY <1>1, <2>1, <2>2
<1>7. WrittenAsAsked'
  BY <1>1, Constants DEF WrittenAsAsked
<1> QED
  BY <1>3, <1>4, <1>5, <1>6, <1>7 DEF IInv

LEMMA StutterKeeps == IInv /\ UNCHANGED vars => IInv'
<1> SUFFICES ASSUME IInv, UNCHANGED vars PROVE IInv'
  OBVIOUS
<1>1. UNCHANGED << targets, resetBlock, lookatMoved, lock, request, next, served, simStage,
                   snapshot, doResetBlock, ref, block, drag, panned, requests, settled,
                   resetDue >>
  BY DEF vars, sharedVars, handlerVars, simVars, pageVars, history
<1>2. TypeOK'
  BY <1>1 DEF IInv, TypeOK
<1>3. HolderWrites' /\ SettledWhenFree' /\ WrittenAsAsked'
  BY <1>1 DEF IInv, HolderWrites, SettledWhenFree, WrittenAsAsked, Angle
<1>4. NoTornTargets' /\ ResetNotLost'
  BY <1>1 DEF IInv, NoTornTargets, ResetNotLost
<1> QED
  BY <1>2, <1>3, <1>4 DEF IInv

LEMMA NextKeeps == IInv /\ [Next]_vars => IInv'
<1> SUFFICES ASSUME IInv, [Next]_vars PROVE IInv'
  OBVIOUS
<1>1. CASE UNCHANGED vars
  BY <1>1, StutterKeeps
<1>2. CASE ClientRequest \/ MouseDown \/ MouseUp \/ MouseMove
  BY <1>2, PagesKeep
<1>3. CASE SimStep
  BY <1>3, SimKeeps
<1>4. CASE \E h \in Handlers : Handle(h)
  BY <1>4, BeginSetKeeps, WriteTargetKeeps, EndSetKeeps, SectionKeeps DEF Handle
<1> QED
  BY <1>1, <1>2, <1>3, <1>4 DEF Next

LEMMA IInvHolds == Spec => []IInv
BY InitHolds, NextKeeps, PTL DEF Spec

\* The shared state, the handlers, the loop and the pages are always well typed: a
\* value that float() refuses never becomes a target.
THEOREM TypeCorrect == Spec => []TypeOK
<1>1. IInv => TypeOK
  BY DEF IInv
<1> QED
  BY <1>1, IInvHolds, PTL

\* Neither the simulation nor /state ever sees half of a /set.
THEOREM NoTornTargetsHolds == Spec => []NoTornTargets
<1>1. IInv => NoTornTargets
  BY DEF IInv
<1> QED
  BY <1>1, IInvHolds, PTL

\* A reset that was acknowledged is never lost.
THEOREM ResetNotLostHolds == Spec => []ResetNotLost
<1>1. IInv => ResetNotLost
  BY DEF IInv
<1> QED
  BY <1>1, IInvHolds, PTL

\* A /set that ends without an error leaves exactly the targets that it asked for.
THEOREM SetNotMixedHolds == Spec => SetNotMixed
<1> DEFINE Whole ==
      \A h \in Handlers :
          EndSet(h) /\ Done(h) =>
              \A j \in JointIds : request[h].targets[j] \in {Absent, Angle(targets[j])}
<1>1. IInv => Whole
  <2> SUFFICES ASSUME IInv, NEW h \in Handlers, EndSet(h), Done(h), NEW j \in JointIds
               PROVE  request[h].targets[j] \in {Absent, Angle(targets[j])}
    OBVIOUS
  <2>1. next[h] \in Nat /\ next[h] > Len(Joints)
    BY Constants DEF Done, IInv, TypeOK
  <2>2. next[h] # 0 /\ j < next[h]
    BY <2>1, Constants
  <2>3. lock = h
    BY <2>2, Writer
  <2> QED
    BY <2>2, <2>3 DEF IInv, WrittenAsAsked
<1>2. IInv => [Whole]_vars
  BY <1>1
<1> QED
  BY <1>2, IInvHolds, PTL DEF SetNotMixed
==============================================================================
