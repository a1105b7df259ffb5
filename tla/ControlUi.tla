------------------------------ MODULE ControlUi ------------------------------
(***************************************************************************)
(* control_ui.py: browser pages, the HTTP server's handler threads and the *)
(* simulation loop, which share targets, camera and a reset request under  *)
(* one lock (SharedState); and controller.py: the reference by which the   *)
(* simulated servos follow the targets.                                    *)
(*                                                                         *)
(* A critical section that several steps of another thread could tear is   *)
(* modelled step by step; one that is over in a single step takes the lock *)
(* and gives it back in that step.  Rendering and physics are left out.    *)
(***************************************************************************)
EXTENDS Integers, Sequences

CONSTANTS Handlers,     \* threads of the HTTP server
          Joints,       \* joint_names, in order
          Angles,       \* target angles, in units of MAX_VELOCITY * timestep
          MaxSteps,     \* physics steps in a turn of the loop (200 in the code)
          MaxRequests   \* requests in a behaviour (a bound)

Free == "free"

ASSUME HandlersAssumption == Free \notin Handlers
ASSUME RequestsAssumption == MaxRequests \in Nat
ASSUME JointsAssumption == Joints \in Seq(STRING) /\ Joints # << >>
ASSUME AnglesAssumption == Angles \subseteq Int \ {-1} /\ 0 \in Angles /\ MaxSteps \in Nat \ {0}

JointIds == 1 .. Len(Joints)
Home == [j \in JointIds |-> 0]

\* What float() makes of a value: an angle, or Bad if it throws (-1 is no angle here);
\* Absent is the value of a joint that a /set does not name.
Angle(a) == [kind |-> "angle", angle |-> a]
Absent == [kind |-> "absent"]
Bad == [kind |-> "bad", angle |-> -1]
Values == { Angle(a) : a \in Angles } \cup {Absent, Bad}

Targets == [JointIds -> Angles]

\* What a page's camera object has (control_ui.py:266): no lookat.
PageCamera == {"azimuth", "elevation", "distance"}

\* A page names every joint in a /set (collect()); another client may leave some out,
\* send a lookat (of three entries) in a /cam, and values that are no numbers.
Bodies == [kind : {"set"}, targets : [JointIds -> Values]]
              \cup [kind : {"reset_block", "state"}]
              \cup [kind : {"cam"}, fields : {PageCamera, PageCamera \cup {"lookat"}},
                   bad : BOOLEAN]

NoBody == [kind |-> "none"]

VARIABLES targets, resetBlock, lookatMoved,  \* SharedState
          lock,      \* who holds its lock
          request,   \* the request each handler is working on
          next,      \* by handler: the joint its /set is at, 0 outside the section
          served,    \* targets that /state has returned, or none
          simStage, snapshot, doResetBlock,  \* the simulation loop
          ref,       \* ServoController.ref
          block,     \* is the test block at home?
          drag,      \* the mouse button a page has down
          panned,    \* the user has moved the mouse with the right button
          requests,
          settled,   \* targets there have been with the lock free (history)
          resetDue   \* a reset was acknowledged and has not happened yet (history)

sharedVars == << targets, resetBlock, lookatMoved >>
handlerVars == << lock, request, next, served >>
simVars == << simStage, snapshot, doResetBlock, ref, block >>
pageVars == << drag, panned, requests >>
history == << settled, resetDue >>
vars == << sharedVars, handlerVars, simVars, pageVars, history >>

TypeOK ==
    /\ targets \in Targets /\ resetBlock \in BOOLEAN /\ lookatMoved \in BOOLEAN
    /\ lock \in Handlers \cup {Free}
    /\ request \in [Handlers -> Bodies \cup {NoBody}]
    /\ next \in [Handlers -> 0 .. Len(Joints) + 1]
    /\ served \in Targets \cup {<< >>}
    /\ simStage \in {"snapshot", "step", "publish"}
    /\ snapshot \in Targets /\ doResetBlock \in BOOLEAN
    /\ ref \in [JointIds -> Int]
    /\ block \in {"home", "away"}
    /\ drag \in {"none", "left", "right"}
    /\ panned \in BOOLEAN /\ requests \in 0 .. MaxRequests
    /\ settled \subseteq Targets /\ resetDue \in BOOLEAN

Init ==
    /\ targets = Home /\ resetBlock = FALSE /\ lookatMoved = FALSE
    /\ lock = Free
    /\ request = [h \in Handlers |-> NoBody] /\ next = [h \in Handlers |-> 0]
    /\ served = << >>
    /\ simStage = "snapshot" /\ snapshot = Home /\ doResetBlock = FALSE
    /\ ref = Home /\ block = "home"
    /\ drag = "none" /\ panned = FALSE /\ requests = 0
    /\ settled = {Home} /\ resetDue = FALSE

(***************************************************************************)
(* Pages and other clients.                                                *)
(***************************************************************************)
Post(body) ==
    /\ requests < MaxRequests /\ requests' = requests + 1
    /\ \E h \in Handlers :
          request[h] = NoBody /\ request' = [request EXCEPT ![h] = body]
    /\ UNCHANGED << lock, next, served >>

ClientRequest ==
    /\ \E body \in Bodies : Post(body)
    /\ UNCHANGED << sharedVars, simVars, drag, panned, history >>

MouseDown ==
    /\ drag' \in {"left", "right"}
    /\ UNCHANGED << sharedVars, handlerVars, simVars, panned, requests, history >>

MouseUp ==
    /\ drag # "none" /\ drag' = "none"
    /\ UNCHANGED << sharedVars, handlerVars, simVars, panned, requests, history >>

\* The left button turns the page's camera and sends it, as do the wheel and
\* resetView() (ClientRequest).  The right button adds to cam.lookat first: without one the handler
\* throws before it sends.
MouseMove ==
    /\ \/ drag = "left" /\ UNCHANGED panned
       \/ drag = "right" /\ panned' = TRUE
    /\ IF drag = "left" \/ "lookat" \in PageCamera
       THEN Post([kind |-> "cam", fields |-> PageCamera, bad |-> FALSE])
       ELSE UNCHANGED << handlerVars, requests >>
    /\ UNCHANGED << sharedVars, simVars, drag, history >>

(***************************************************************************)
(* Handler threads.                                                        *)
(***************************************************************************)
\* Variants: nobody waits for the lock; a value is stored as it came; the exception of
\* float() leaves the lock taken.
MayEnterAtOnce == TRUE
ThrowsNever(value) == FALSE
ReleasedIfDone(done) == IF done THEN Free ELSE lock

\* with state.lock
MayEnter == lock = Free

\* float() of a value
Throws(value) == value = Bad

\* The with statement gives the lock back, whether or not its body threw.
Released(done) == Free

\* The request is over, answered or not: an exception closes the connection.
Over(h) == request' = [request EXCEPT ![h] = NoBody]

BeginSet(h) ==
    /\ request[h].kind = "set" /\ next[h] = 0
    /\ MayEnter /\ lock' = h
    /\ next' = [next EXCEPT ![h] = 1]
    /\ UNCHANGED << sharedVars, request, served, simVars, pageVars, history >>

Writing(h) == next[h] \in JointIds
Asked(h) == request[h].targets[next[h]]

WriteTarget(h) ==
    /\ Writing(h) /\ ~ Throws(Asked(h))
    /\ targets' = IF Asked(h) = Absent THEN targets
                  ELSE [targets EXCEPT ![next[h]] = Asked(h).angle]
    /\ next' = [next EXCEPT ![h] = @ + 1]
    /\ UNCHANGED << resetBlock, lookatMoved, lock, request, served, simVars, pageVars,
                    history >>

Done(h) == next[h] > Len(Joints)

\* All joints are written, or float() throws: the joints written before stay so.
EndSet(h) ==
    /\ Done(h) \/ (Writing(h) /\ Throws(Asked(h)))
    /\ lock' = Released(Done(h))
    /\ Over(h)
    /\ next' = [next EXCEPT ![h] = 0]
    /\ settled' = settled \cup {targets}
    /\ UNCHANGED << sharedVars, served, simVars, pageVars, resetDue >>

\* A critical section of handler h that is over in one step.
Section(h, kind) ==
    /\ request[h].kind = kind
    /\ MayEnter
    /\ Over(h)
    /\ UNCHANGED << lock, next, simVars, pageVars, settled >>

ResetBlock(h) ==
    /\ Section(h, "reset_block")
    /\ resetBlock' = TRUE /\ resetDue' = TRUE
    /\ UNCHANGED << targets, lookatMoved, served >>

\* The lookat comes last, and as a whole: float() of another field, or of one of its own
\* entries, throws before it is stored.  The lock is given back either way.
SetCamera(h) ==
    /\ Section(h, "cam")
    /\ lookatMoved' = (lookatMoved \/ ("lookat" \in request[h].fields /\ ~ request[h].bad))
    /\ UNCHANGED << targets, resetBlock, served, resetDue >>

GetState(h) ==
    /\ Section(h, "state")
    /\ served' = targets
    /\ UNCHANGED << sharedVars, resetDue >>

Handle(h) ==
    BeginSet(h) \/ WriteTarget(h) \/ EndSet(h) \/ ResetBlock(h) \/ SetCamera(h) \/ GetState(h)

(***************************************************************************)
(* The simulation loop.                                                    *)
(***************************************************************************)
\* Variant: the request is cleared before it is looked at.
TakeResetCleared == resetBlock' = FALSE /\ doResetBlock' = resetBlock'

TakeReset == doResetBlock' = resetBlock /\ resetBlock' = FALSE

Snapshot ==
    /\ simStage = "snapshot" /\ simStage' = "step"
    /\ MayEnter
    /\ snapshot' = targets
    /\ TakeReset
    /\ UNCHANGED << targets, lookatMoved, handlerVars, ref, block, pageVars, history >>

\* Variant: the reference is limited on its way up only.
TowardUpOnly(r, target, n) == IF target - r > n THEN r + n ELSE r

\* n times step(): the reference goes towards the target, a unit in each.
Toward(r, target, n) ==
    IF target - r > n THEN r + n ELSE IF r - target > n THEN r - n ELSE target

\* The block is put back first; the arm may push it away again while it moves.
StepPhysics ==
    /\ simStage = "step" /\ simStage' = "publish"
    /\ \E pushed \in BOOLEAN :
          block' = IF pushed THEN "away" ELSE IF doResetBlock THEN "home" ELSE block
    /\ \E n \in 1 .. MaxSteps : ref' = [j \in JointIds |-> Toward(ref[j], snapshot[j], n)]
    /\ resetDue' = ((resetDue /\ ~ doResetBlock) \/ resetBlock)
    /\ UNCHANGED << sharedVars, handlerVars, snapshot, doResetBlock, pageVars, settled >>

\* The joints' actual angles and the frame, which nothing here depends on, are
\* published.
Publish ==
    /\ simStage = "publish" /\ simStage' = "snapshot"
    /\ MayEnter
    /\ UNCHANGED << sharedVars, handlerVars, snapshot, doResetBlock, ref, block, pageVars,
                    history >>

SimStep == Snapshot \/ StepPhysics \/ Publish

Next ==
    \/ ClientRequest \/ MouseDown \/ MouseUp \/ MouseMove
    \/ \E h \in Handlers : Handle(h)
    \/ SimStep

Spec == Init /\ [][Next]_vars

\* Threads run on.  A weakly fair lock will do, as there are finitely many requests.
FairSpec == Spec /\ WF_vars(SimStep) /\ \A h \in Handlers : WF_vars(Handle(h))

(***************************************************************************)
(* Properties.                                                             *)
(***************************************************************************)
\* The simulation and /state never see the targets of a /set that is still being
\* written (SharedState, "Thread-safe bridge", control_ui.py:66).
NoTornTargets == snapshot \in settled /\ served \in settled \cup {<< >>}

\* Two /set requests are never mixed: what is there when one ends without an error
\* is what it asked for, whatever other threads do.
SetNotMixed ==
    [][\A h \in Handlers :
          EndSet(h) /\ Done(h) =>
              \A j \in JointIds : request[h].targets[j] \in {Absent, Angle(targets[j])}]_vars

\* A reset that was acknowledged is not lost, whenever it comes in: the loop still
\* has the request before it, or is about to carry it out.
ResetNotLost == resetDue => resetBlock \/ (doResetBlock /\ simStage = "step")

\* A reset that was acknowledged is carried out.
ResetServed == resetDue ~> ~ resetDue

\* When clients are done, the servos' references come to the targets and stay there,
\* whichever handlers threw and however long the turns of the loop take.
TargetsReached == <>[](ref = targets)

\* "right-drag: pan the camera view" (control_ui.py:18).
RightDragPans == panned ~> lookatMoved
==============================================================================
