------------------------- MODULE EepromDriverProofs --------------------------
(***************************************************************************)
(* What TLAPS proves of EepromDriver, for every value of its constants.    *)
(***************************************************************************)
EXTENDS EepromDriver, SequenceTheorems, TLAPS

(***************************************************************************)
(* The scripts.                                                            *)
(***************************************************************************)
\* freeze_calibration makes thirteen calls.
LEMMA FreezeLength == FreezeCalls \in Seq(Call) /\ Len(FreezeCalls) = 13
<1> USE DEF Call, Modes, Commands, Registers, Plain, BestEffort, Verified
<1>1. \A p \in 1 .. 13 : FreezeCalls[p] \in Call
  <2> TAKE p \in 1 .. 13
  <2>1. CASE p \in 2 .. 10
    BY <2>1 DEF FreezeCalls, FreezeOrder
  <2>2. CASE p \notin 2 .. 10
    BY <2>2 DEF FreezeCalls
  <2> QED BY <2>1, <2>2
<1>2. FreezeCalls \in Seq(Call)
  BY <1>1 DEF FreezeCalls
<1> QED BY <1>2 DEF FreezeCalls

\* Every call of every script is a call.
LEMMA ScriptCalls ==
    ASSUME NEW o \in Operation
    PROVE  /\ Len(Script(o)) \in Nat
           /\ 1 <= Len(Script(o)) /\ Len(Script(o)) <= 13
           /\ \A p \in 1 .. Len(Script(o)) : Script(o)[p] \in Call
<1> USE DEF Operation, Kinds, Call, Modes, Commands, Registers, Plain, BestEffort, Verified
<1>1. CASE o.kind = "raw"
  BY <1>1 DEF Script
<1>2. CASE o.kind = "write_eeprom"
  BY <1>2 DEF Script, WriteEepromCalls
<1>3. CASE o.kind = "write_eeprom_verified"
  BY <1>3 DEF Script
<1>4. CASE o.kind = "reset_calibration"
  BY <1>4 DEF Script, ResetCalls
<1>5. CASE o.kind = "freeze_calibration"
  <2>1. Script(o) = FreezeCalls
    BY <1>5 DEF Script
  <2>2. \A p \in 1 .. 13 : FreezeCalls[p] \in Call
    BY FreezeLength, ElementOfSeq
  <2> HIDE DEF Call
  <2> QED BY <2>1, <2>2, FreezeLength
<1> QED BY <1>1, <1>2, <1>3, <1>4, <1>5

\* A request in progress is a request to the operation's servo.
LEMMA RequestInProgress ==
    ASSUME TypeOK, stage # "idle"
    PROVE  /\ op \in Operations /\ op \in Operation
           /\ CurrentCall \in Call
           /\ CurrentRequest \in Request
<1>1. op \in Operations /\ op \in Operation
  BY OperationsAssumption DEF TypeOK
<1>2. CurrentCall \in Call
  BY <1>1, ScriptCalls DEF TypeOK, CurrentCall
<1>3. op.motor \in Motors /\ op.val \in Images
  BY <1>1 DEF Operation
<1>4. CurrentCall.cmd \in Commands /\ CurrentCall.reg \in Registers
  BY <1>2 DEF Call
<1>5. VerifySteps[step] \in Commands
  BY DEF TypeOK, VerifySteps, ReadBack, Commands
<1> QED BY <1>1, <1>2, <1>3, <1>4, <1>5 DEF CurrentRequest, Request

(***************************************************************************)
(* Types.                                                                  *)
(***************************************************************************)
\* Executing a request keeps the servo's state well typed.
LEMMA ExecuteType ==
    ASSUME DeviceTypeOK, NEW q \in Request, Execute(q) \/ CommitLost(q) \/ UNCHANGED deviceVars
    PROVE  DeviceTypeOK'
<1> USE DEF DeviceTypeOK, deviceVars
<1>q. q.motor \in Motors /\ q.reg \in Registers /\ q.val \in Images
  BY DEF Request
<1>1. CASE Passive(q) \/ UNCHANGED deviceVars
  BY <1>1 DEF Passive
<1>2. CASE SetLock(q)
  BY <1>2, <1>q DEF SetLock
<1>3. CASE Stage(q)
  BY <1>3, <1>q DEF Stage
<1>4. CASE Commit(q) \/ CommitLost(q)
  <2>1. pending' \in [Motors -> [reg : Registers, val : Images] \cup {NoWrite}]
    BY <1>4, <1>q DEF Commit, CommitLost
  <2>2. unlocked' \in [Motors -> BOOLEAN]
    BY <1>4 DEF Commit, CommitLost
  <2>3. eeprom' \in [Motors -> [Registers -> Images]]
    <3>1. CASE eeprom' = eeprom
      BY <3>1
    <3>2. CASE eeprom' # eeprom
      <4> DEFINE p == pending[q.motor]
      <4>1. p \in [reg : Registers, val : Images]
        BY <3>2, <1>4, <1>q DEF Commit, CommitLost
      <4>2. eeprom' = [eeprom EXCEPT ![q.motor][p.reg] = p.val]
        BY <3>2, <1>4 DEF Commit, CommitLost
      <4> QED BY <4>1, <4>2, <1>q
    <3> QED BY <3>1, <3>2
  <2> QED BY <2>1, <2>2, <2>3
<1>5. CASE FactoryReset(q)
  BY <1>5, <1>q, ImagesAssumption DEF FactoryReset
<1> QED BY <1>1, <1>2, <1>3, <1>4, <1>5 DEF Execute

\* The fates of a request keep the line well typed.
LEMMA TransmitType ==
    ASSUME DeviceTypeOK, LinkTypeOK, NEW q \in Request, Transmit(q)
    PROVE  DeviceTypeOK' /\ LinkTypeOK'
<1>1. DeviceTypeOK'
  BY ExecuteType DEF Transmit, Answered, RequestLost, ReplyLost, ReplyBad, AnsweredUncommitted
<1>2. ReplyTo(q, TRUE) \in Reply /\ ReplyTo(q, FALSE) \in Reply
  <2>1. eeprom[q.motor][q.reg] \in Images /\ Zero \in Images
    BY ImagesAssumption DEF DeviceTypeOK, Request
  <2> QED BY <2>1 DEF ReplyTo, Reply
<1>3. \/ line' = line
      \/ line' = Append(line, ReplyTo(q, TRUE))
      \/ line' = Append(line, ReplyTo(q, FALSE))
  BY DEF Transmit, Answered, RequestLost, ReplyLost, ReplyBad, AnsweredUncommitted
<1>4. line' \in Seq(Reply)
  <2>1. \A r \in Reply : Append(line, r) \in Seq(Reply)
    BY AppendProperties DEF LinkTypeOK
  <2> QED BY <1>2, <1>3, <2>1 DEF LinkTypeOK
<1>5. answered' \in BOOLEAN
  BY DEF LinkTypeOK, Transmit, Answered, RequestLost, ReplyLost, ReplyBad, AnsweredUncommitted
<1>6. faults' = faults \/ (faults < MaxFaults /\ faults' = faults + 1)
  BY DEF Transmit, Answered, RequestLost, ReplyLost, ReplyBad, AnsweredUncommitted, Fault
<1>7. faults' \in 0 .. MaxFaults
  BY <1>6, BoundsAssumption DEF LinkTypeOK
<1> QED BY <1>1, <1>4, <1>5, <1>7 DEF LinkTypeOK

\* Taking the first reply, or letting the wait expire, keeps the link well typed.
LEMMA EndOfWaitType ==
    ASSUME LinkTypeOK, TakeReply \/ WaitExpires
    PROVE  LinkTypeOK'
<1>1. CASE TakeReply
  <2>1. line # << >> => Tail(line) \in Seq(Reply)
    BY HeadTailProperties DEF LinkTypeOK
  <2> QED BY <1>1, <2>1 DEF TakeReply, LinkTypeOK
<1>2. CASE WaitExpires
  <2>1. faults' = faults \/ (faults < MaxFaults /\ faults' = faults + 1)
    BY <1>2 DEF WaitExpires, Fault
  <2>2. faults' \in 0 .. MaxFaults
    BY <2>1, BoundsAssumption DEF LinkTypeOK
  <2> QED BY <1>2, <2>2 DEF WaitExpires, LinkTypeOK
<1> QED BY <1>1, <1>2

\* Discarding a prefix of the line keeps it well typed.
LEMMA SuffixType ==
    ASSUME NEW s \in Seq(Reply), NEW n \in 0 .. Len(s)
    PROVE  /\ SubSeq(s, n + 1, Len(s)) \in Seq(Reply)
           /\ Len(SubSeq(s, n + 1, Len(s))) = Len(s) - n
           /\ \A i \in 1 .. Len(s) - n : SubSeq(s, n + 1, Len(s))[i] = s[i + n]
<1>1. Len(s) \in Nat /\ n \in Nat /\ n <= Len(s)
  BY LenProperties
<1>2. CASE n < Len(s)
  <2>1. n + 1 \in 1 .. Len(s) + 1 /\ Len(s) \in n .. Len(s)
    BY <1>1, <1>2
  <2> QED BY <1>1, <2>1, SubSeqProperties
<1>3. CASE n = Len(s)
  <2>1. n + 1 \in 1 .. Len(s) + 1 /\ Len(s) \in n .. Len(s)
    BY <1>1, <1>3
  <2> QED BY <1>1, <1>3, <2>1, SubSeqProperties
<1> QED BY <1>1, <1>2, <1>3

\* The part of TypeOK that belongs to the operation in progress.
HostTypeOK ==
    /\ op \in Operations \cup {NoOperation}
    /\ stage \in {"idle", "send", "await", "drain"}
    /\ step \in 1 .. ReadBack
    /\ attempt \in 1 .. MaxRetries
    /\ ok \in BOOLEAN
    /\ quiet \in BOOLEAN
    /\ out \in {"none", "ok", "unverified", "err", "crashed"}
    /\ pos \in 1 .. 13
    /\ stage # "idle" => op # NoOperation /\ pos <= Len(Script(op))

LEMMA NextCallType ==
    ASSUME HostTypeOK, stage # "idle", NextCall(TRUE) \/ NextCall(FALSE), quiet' \in BOOLEAN
    PROVE  HostTypeOK'
<1>1. op \in Operation
  BY OperationsAssumption DEF HostTypeOK
<1>2. Len(Script(op)) \in Nat /\ Len(Script(op)) <= 13
  BY <1>1, ScriptCalls
<1>3. CASE LastCall
  BY <1>3 DEF HostTypeOK, NextCall, Finish
<1>4. CASE ~ LastCall
  <2>1. pos' = pos + 1 /\ pos + 1 <= Len(Script(op))
    BY <1>2, <1>4 DEF NextCall, LastCall, HostTypeOK
  <2>2. step' = 1 /\ attempt' = 1 /\ stage' = "send" /\ op' = op /\ out' = out
    BY <1>4 DEF NextCall
  <2>3. ok' \in BOOLEAN
    BY DEF NextCall, HostTypeOK
  <2>4. Script(op') = Script(op) /\ Script(op)' = Script(op)
    BY <2>2
  <2>5. pos' \in 1 .. 13 /\ pos' <= Len(Script(op)) /\ op # NoOperation
    BY <1>2, <2>1 DEF HostTypeOK
  <2> QED BY <2>2, <2>3, <2>4, <2>5 DEF HostTypeOK, ReadBack, MaxRetries
<1> QED BY <1>3, <1>4

LEMMA NextAttemptType ==
    ASSUME HostTypeOK, stage # "idle", NextAttempt, quiet' \in BOOLEAN
    PROVE  HostTypeOK'
<1>1. CASE attempt < MaxRetries
  BY <1>1 DEF NextAttempt, HostTypeOK, ReadBack, MaxRetries
<1>2. CASE ~ (attempt < MaxRetries)
  BY <1>2, NextCallType DEF NextAttempt
<1> QED BY <1>1, <1>2

LEMMA FailType ==
    ASSUME HostTypeOK, stage # "idle", Fail
    PROVE  HostTypeOK'
<1>1. CASE NextCall(TRUE) /\ quiet' = FALSE
  BY <1>1, NextCallType
<1>2. CASE /\ stage' = "drain"
           /\ UNCHANGED << op, pos, step, attempt, ok, quiet, out >>
  BY <1>2 DEF HostTypeOK
<1>3. CASE Finish("err") /\ UNCHANGED << ok, quiet >>
  BY <1>3 DEF Finish, HostTypeOK
<1> QED BY <1>1, <1>2, <1>3 DEF Fail

LEMMA TypeOKParts == TypeOK <=> DeviceTypeOK /\ LinkTypeOK /\ HostTypeOK
BY DEF TypeOK, HostTypeOK

LEMMA InitTypeOK == Init => TypeOK
<1> SUFFICES ASSUME Init PROVE TypeOK
  OBVIOUS
<1>1. DeviceTypeOK
  BY DEF Init, DeviceInit, DeviceTypeOK
<1>2. LinkTypeOK
  <2>1. line = << >> /\ answered = FALSE /\ faults = 0
    BY DEF Init, LinkInit
  <2>2. line \in Seq(Reply)
    BY <2>1, EmptySeq
  <2>3. faults \in 0 .. MaxFaults
    BY <2>1, BoundsAssumption
  <2> QED BY <2>1, <2>2, <2>3 DEF LinkTypeOK
<1>3. HostTypeOK
  BY DEF Init, HostTypeOK, ReadBack, MaxRetries
<1> QED BY <1>1, <1>2, <1>3, TypeOKParts

LEMMA NextTypeOK == TypeOK /\ [Next]_vars => TypeOK'
<1> SUFFICES ASSUME TypeOK, [Next]_vars PROVE TypeOK'
  OBVIOUS
<1>t. DeviceTypeOK /\ LinkTypeOK /\ HostTypeOK
  BY TypeOKParts
<1> SUFFICES DeviceTypeOK' /\ LinkTypeOK' /\ HostTypeOK'
  BY DEF TypeOK, HostTypeOK
<1>1. ASSUME NEW o \in Operations, Start(o)
      PROVE  DeviceTypeOK' /\ LinkTypeOK' /\ HostTypeOK'
  <2>1. DeviceTypeOK' /\ LinkTypeOK'
    BY <1>1, <1>t DEF Start, deviceVars, linkVars, DeviceTypeOK, LinkTypeOK
  <2>2. o \in Operation /\ 1 <= Len(Script(o))
    BY OperationsAssumption, ScriptCalls
  <2>3. o # NoOperation
    BY <2>2 DEF Operation, NoOperation, Kinds
  <2>4. Script(op') = Script(o)
    BY <1>1 DEF Start
  <2>5. HostTypeOK'
    BY <1>1, <2>2, <2>3, <2>4 DEF Start, HostTypeOK, ReadBack, MaxRetries
  <2> QED BY <2>1, <2>5
<1>2. CASE Send
  <2>1. DeviceTypeOK' /\ LinkTypeOK'
    BY <1>2, <1>t, RequestInProgress, TransmitType DEF Send
  <2>2. HostTypeOK'
    BY <1>2, <1>t DEF Send, HostTypeOK
  <2> QED BY <2>1, <2>2
<1>3. CASE ReceiveOk
  <2>1. DeviceTypeOK' /\ LinkTypeOK'
    BY <1>3, <1>t, EndOfWaitType DEF ReceiveOk, TakeReply, deviceVars, DeviceTypeOK
  <2>2. quiet' \in BOOLEAN /\ stage # "idle"
    BY <1>3, <1>t DEF ReceiveOk, HostTypeOK
  <2>3. CASE AdvanceStep /\ step < ReadBack
    <3>1. step + 1 \in 1 .. ReadBack
      BY <2>3, <1>t DEF HostTypeOK, ReadBack
    <3> QED BY <1>3, <2>1, <2>3, <1>t, <3>1 DEF AdvanceStep, ReceiveOk, HostTypeOK
  <2>4. CASE NextCall(TRUE)
    BY <2>1, <2>2, <2>4, <1>t, NextCallType
  <2>5. CASE NextAttempt
    BY <2>1, <2>2, <2>5, <1>t, NextAttemptType
  <2> QED BY <1>3, <2>3, <2>4, <2>5 DEF ReceiveOk
<1>4. CASE ReceiveErr
  <2>1. DeviceTypeOK' /\ LinkTypeOK'
    BY <1>4, <1>t, EndOfWaitType DEF ReceiveErr, TakeReply, deviceVars, DeviceTypeOK
  <2>2. HostTypeOK'
    BY <1>4, <1>t, FailType DEF ReceiveErr
  <2> QED BY <2>1, <2>2
<1>5. CASE Timeout
  <2>1. DeviceTypeOK' /\ LinkTypeOK'
    BY <1>5, <1>t, EndOfWaitType DEF Timeout, WaitExpires, deviceVars, DeviceTypeOK
  <2>2. HostTypeOK'
    BY <1>5, <1>t, FailType DEF Timeout
  <2> QED BY <2>1, <2>2
<1>6. CASE Drain
  <2>1. DeviceTypeOK' /\ LinkTypeOK'
    BY <1>6, <1>t, SuffixType
       DEF Drain, DiscardArrived, deviceVars, DeviceTypeOK, LinkTypeOK
  <2>2. HostTypeOK'
    <3>1. quiet' \in BOOLEAN /\ stage # "idle"
      BY <1>6, <1>t DEF Drain, HostTypeOK
    <3> QED BY <3>1, <1>6, <1>t, NextAttemptType DEF Drain
  <2> QED BY <2>1, <2>2
<1>7. CASE Crash
  <2>1. DeviceTypeOK'
    BY <1>7, <1>t DEF Crash, deviceVars, DeviceTypeOK
  <2>2. LinkTypeOK'
    <3>1. line' \in Seq(Reply)
      BY <1>7, <1>t, SuffixType DEF Crash, LinkTypeOK
    <3>2. faults' \in 0 .. MaxFaults
      BY <1>7, <1>t, BoundsAssumption DEF Crash, Fault, LinkTypeOK
    <3> QED BY <1>7, <3>1, <3>2 DEF Crash, LinkTypeOK
  <2>3. HostTypeOK'
    BY <1>7, <1>t DEF Crash, HostTypeOK
  <2> QED BY <2>1, <2>2, <2>3
<1>8. CASE UNCHANGED vars
  BY <1>8, <1>t
     DEF vars, deviceVars, linkVars, hostVars, DeviceTypeOK, LinkTypeOK, HostTypeOK
<1> QED
  BY <1>1, <1>2, <1>3, <1>4, <1>5, <1>6, <1>7, <1>8
     DEF Next, HostStep, StartRaw, StartWriteEeprom, StartWriteEepromVerified,
         StartResetCalibration, StartFreezeCalibration

\* The state of the driver, the line and the servos stays well typed.
THEOREM TypeCorrect == Spec => []TypeOK
BY InitTypeOK, NextTypeOK, PTL DEF Spec

(***************************************************************************)
(* The inductive invariant.  It needs the line to hold fewer overdue       *)
(* replies than a verified write has steps.                                *)
(***************************************************************************)
\* The calls of each script, as far as the invariant tells them apart.
LEMMA ScriptShapes ==
    ASSUME NEW o \in Operation, NEW p \in 1 .. 13, p <= Len(Script(o))
    PROVE  /\ o.kind = "raw" =>
                 Len(Script(o)) = 1 /\ Script(o)[p].mode = "plain"
           /\ o.kind = "write_eeprom" =>
                 /\ Len(Script(o)) = 4 /\ Script(o)[p].mode = "plain"
                 /\ Script(o)[p].cmd \in {"Unlock", "RegWrite", "Action", "Lock"}
                 /\ Script(o)[p].reg = o.reg
                 /\ Script(o)[p].cmd = "RegWrite" <=> p = 2
                 /\ Script(o)[p].cmd = "Action" <=> p = 3
                 /\ p = 4 => Script(o)[p].cmd = "Lock"
           /\ o.kind = "write_eeprom_verified" =>
                 Len(Script(o)) = 1 /\ Script(o)[p] = Verified(o.reg)
           /\ o.kind = "reset_calibration" =>
                 /\ Len(Script(o)) = 4
                 /\ p # 3 => Script(o)[p].mode = "plain"
                 /\ p = 3 => Script(o)[p] = Verified("Offset")
                 /\ p = 4 => Script(o)[p].cmd = "Lock"
                 /\ Script(o)[p].cmd \in {"Unlock", "Reset", "Lock"}
           /\ o.kind = "freeze_calibration" =>
                 /\ Len(Script(o)) = 13
                 /\ p \in {1, 12, 13} => Script(o)[p].mode = "plain"
                 /\ p \in 2 .. 10 => Script(o)[p] = Verified(FreezeOrder[p - 1])
                 /\ p = 11 => Script(o)[p] = BestEffort("WriteRam", "Offset")
                 /\ p = 1 => Script(o)[p].cmd = "Unlock"
                 /\ p = 12 => Script(o)[p].cmd = "Lock"
                 /\ p = 13 => Script(o)[p].cmd = "Action"
<1> USE DEF Operation, Kinds, Call, Modes, Commands, Registers, Plain, BestEffort, Verified
<1>1. CASE o.kind = "raw"
  BY <1>1 DEF Script
<1>2. CASE o.kind = "write_eeprom"
  BY <1>2 DEF Script, WriteEepromCalls
<1>3. CASE o.kind = "write_eeprom_verified"
  BY <1>3 DEF Script
<1>4. CASE o.kind = "reset_calibration"
  BY <1>4 DEF Script, ResetCalls
<1>5. CASE o.kind = "freeze_calibration"
  <2>1. Script(o) = FreezeCalls
    BY <1>5 DEF Script
  <2>2. /\ p \in 2 .. 10 => FreezeCalls[p] = Verified(FreezeOrder[p - 1])
        /\ p = 1 => FreezeCalls[p] = Plain("Unlock", "Offset")
        /\ p = 11 => FreezeCalls[p] = BestEffort("WriteRam", "Offset")
        /\ p = 12 => FreezeCalls[p] = Plain("Lock", "Offset")
        /\ p = 13 => FreezeCalls[p] = Plain("Action", "Offset")
    BY DEF FreezeCalls
  <2>3. Len(FreezeCalls) = 13
    BY <2>1, ScriptCalls, FreezeLength
  <2> QED BY <1>5, <2>1, <2>2, <2>3
<1> QED BY <1>1, <1>2, <1>3, <1>4, <1>5

\* The length of a reply tells a register's contents from an acknowledgement.
LEMMA LengthTellsReads ==
    ASSUME NEW q, NEW reply, Accepts(q, reply)
    PROVE  q.cmd = "Read" <=> reply.answers.cmd = "Read"
<1>1. \A r : Width(r) # 0
  BY DEF Width
<1> QED BY <1>1 DEF Accepts, SameLength, DataLength

\* An overdue acknowledgement is all that can pass for a reply of its kind:
\* while there is none, an accepted acknowledgement is the awaited one.
LEMMA OwnAcknowledgement ==
    ASSUME TypeOK, OwnReply, InStep, stage = "await", line # << >>,
           Accepts(CurrentRequest, Head(line)), CurrentRequest.cmd # "Read",
           quiet \/ (Freezing /\ ok /\ pos = 3)
    PROVE  answered /\ Len(line) = 1 /\ Head(line).answers = CurrentRequest
<1>1. line \in Seq(Reply) /\ Len(line) \in Nat /\ Len(line) >= 1 /\ Head(line) = line[1]
  BY HeadTailProperties, LenProperties DEF TypeOK, LinkTypeOK
<1>2. line[1].answers.cmd # "Read"
  BY <1>1, LengthTellsReads
<1>3. 1 \in 1 .. Len(line) /\ Active
  BY <1>1 DEF Active
<1>4. Own(1)
  BY <1>2, <1>3 DEF InStep
<1>5. answered /\ 1 = Len(line)
  BY <1>4 DEF Own
<1> QED BY <1>1, <1>5 DEF OwnReply

\* The reply that a read-back accepts is its own.
LEMMA OwnReadBack ==
    ASSUME TypeOK, OwnReply, NoOldReadBack, stage = "await", line # << >>,
           Accepts(CurrentRequest, Head(line)), ReadingBack
    PROVE  /\ answered /\ Len(line) = 1
           /\ Head(line).data = eeprom[op.motor][CurrentCall.reg]
<1>1. line \in Seq(Reply) /\ Len(line) \in Nat /\ Len(line) >= 1 /\ Head(line) = line[1]
  BY HeadTailProperties, LenProperties DEF TypeOK, LinkTypeOK
<1>2. CurrentRequest.cmd = "Read"
  BY DEF CurrentRequest, ReadingBack, VerifySteps, ReadBack
<1>3. line[1].answers.cmd = "Read"
  BY <1>1, <1>2, LengthTellsReads
<1>4. 1 \in 1 .. Len(line)
  BY <1>1
<1>5. Own(1) \/ 1 <= ReadBack - step
  BY <1>3, <1>4 DEF NoOldReadBack, Verifying, Active, ReadingBack
<1>6. answered /\ 1 = Len(line)
  BY <1>5 DEF Own, ReadingBack, ReadBack
<1> QED BY <1>1, <1>2, <1>6 DEF OwnReply

\* Taking the only reply empties the line; taking any shortens it by one.
LEMMA TailFacts ==
    ASSUME TypeOK, line # << >>
    PROVE  /\ Len(line) \in Nat /\ Len(line) >= 1
           /\ Tail(line) \in Seq(Reply)
           /\ Len(Tail(line)) = Len(line) - 1
           /\ \A i \in 1 .. Len(line) - 1 : i + 1 \in 1 .. Len(line) /\ Tail(line)[i] = line[i + 1]
<1>1. line \in Seq(Reply)
  BY DEF TypeOK, LinkTypeOK
<1> QED BY <1>1, HeadTailProperties, LenProperties

\* Leaving a call: what its end must have established for the next one.
LEMMA NextCallKeeps ==
    ASSUME MaxStale < ReadBack, IInv, TypeOK', stage # "idle",
           NEW good \in BOOLEAN,
           ok' = (ok /\ good), NextCall(good),
           UNCHANGED deviceVars, ~ answered', Len(line') <= MaxStale,
           quiet' => quiet,
           quiet' \/ (op.kind = "freeze_calibration" /\ pos = 2 /\ ok') =>
               \A i \in 1 .. Len(line') : line'[i].answers.cmd = "Read",
           CurrentCall.mode = "verified" => step = ReadBack,
           CurrentCall.mode = "verified" /\ good =>
               eeprom[op.motor][CurrentCall.reg] = op.val,
           CurrentCall.mode = "plain" /\ CurrentCall.cmd = "Lock" /\ quiet' =>
               ~ unlocked[op.motor],
           CurrentCall.mode = "plain" /\ CurrentCall.cmd = "RegWrite" /\ quiet' =>
               pending[op.motor] = [reg |-> CurrentCall.reg, val |-> op.val]
    PROVE  IInv'
<1>o. op \in Operation /\ op \in Operations
  BY RequestInProgress DEF IInv
<1>p. pos \in 1 .. 13 /\ pos <= Len(Script(op)) /\ pos \in Nat
  BY DEF IInv, TypeOK
<1>s. CurrentCall = Script(op)[pos] /\ Len(Script(op)) \in Nat
  BY <1>o, ScriptCalls DEF CurrentCall
<1>d. eeprom' = eeprom /\ unlocked' = unlocked /\ pending' = pending
  BY DEF deviceVars
<1>e. op' = op
  BY DEF NextCall, Finish
<1>1. CASE LastCall
  <2>1. stage' = "idle" /\ pos' = pos /\ step' = step /\ out' \in {"ok", "unverified"}
        /\ (out' = "ok" => ok /\ good)
    BY <1>1 DEF NextCall, Finish
  <2>2. LineBound'
    BY <2>1 DEF LineBound
  <2>3. OwnReply'
    BY DEF OwnReply
  <2>4. /\ NoOldReadBack' /\ InStep' /\ RawAlone' /\ VerifiedSoFar'
        /\ OwnPending' /\ StagedOwn' /\ DrainAfterReadBack'
    BY <2>1 DEF NoOldReadBack, InStep, RawAlone, StagedOwn, VerifiedSoFar, OwnPending, DrainAfterReadBack,
                Verifying, Active, Freezing
  <2>5. LockHeld'
    BY <2>1 DEF LockHeld, Verifying, Active, Freezing
  <2>6. VerifiedSound'
    <3> SUFFICES ASSUME ok, good, op.kind \in VerifyingKinds, NEW r \in Promised(op)
                 PROVE  eeprom[op.motor][r] = op.val
      BY <1>d, <1>e, <2>1 DEF VerifiedSound, Returned
    <3>1. CASE op.kind = "write_eeprom_verified"
      <4>1. CurrentCall = Verified(op.reg)
        BY <3>1, <1>o, <1>p, <1>s, ScriptShapes
      <4>2. r = CurrentCall.reg /\ CurrentCall.mode = "verified"
        BY <3>1, <4>1 DEF Promised, Verified
      <4> QED BY <4>2
    <3>2. CASE op.kind = "reset_calibration"
      <4>1. pos = 4
        BY <3>2, <1>1, <1>o, <1>p, ScriptShapes DEF LastCall
      <4> QED BY <3>2, <4>1 DEF IInv, VerifiedSoFar, Active, Promised
    <3>3. CASE op.kind = "freeze_calibration"
      <4>1. pos = 13
        BY <3>3, <1>1, <1>o, <1>p, ScriptShapes DEF LastCall
      <4>2. \A p \in 2 .. 10 : eeprom[op.motor][FreezeOrder[p - 1]] = op.val
        BY <3>3, <4>1 DEF IInv, VerifiedSoFar, Active
      <4>3. \E p \in 2 .. 10 : r = FreezeOrder[p - 1]
        <5>1. r \in Registers
          BY <3>3 DEF Promised
        <5>2. /\ FreezeOrder[2 - 1] = "Mode" /\ FreezeOrder[3 - 1] = "PCoef"
              /\ FreezeOrder[4 - 1] = "ICoef" /\ FreezeOrder[5 - 1] = "DCoef"
              /\ FreezeOrder[6 - 1] = "ReturnDelay" /\ FreezeOrder[7 - 1] = "MaxTorque"
              /\ FreezeOrder[8 - 1] = "ProtectionCurrent"
              /\ FreezeOrder[9 - 1] = "OverloadTorque" /\ FreezeOrder[10 - 1] = "Offset"
          BY DEF FreezeOrder
        <5> QED BY <5>1, <5>2 DEF Registers
      <4> QED BY <4>2, <4>3
    <3> QED BY <3>1, <3>2, <3>3 DEF VerifyingKinds
  <2>7. LockedWhenOk'
    <3> SUFFICES ASSUME op.kind # "raw", quiet'
                 PROVE  ~ unlocked[op.motor]
      BY <1>d, <1>e DEF LockedWhenOk, Returned
    <3>1. CASE op.kind = "write_eeprom"
      <4>1. CurrentCall.mode = "plain" /\ CurrentCall.cmd = "Lock"
        BY <3>1, <1>1, <1>o, <1>p, <1>s, ScriptShapes DEF LastCall
      <4> QED BY <4>1
    <3>2. CASE op.kind = "write_eeprom_verified"
      <4>1. CurrentCall = Verified(op.reg)
        BY <3>2, <1>o, <1>p, <1>s, ScriptShapes
      <4>2. CurrentCall.mode = "verified"
        BY <4>1 DEF Verified
      <4> QED BY <4>2 DEF IInv, LockHeld, Verifying, Active
    <3>3. CASE op.kind = "reset_calibration"
      <4>1. pos = 4
        BY <3>3, <1>1, <1>o, <1>p, ScriptShapes DEF LastCall
      <4>2. CurrentCall.mode = "plain" /\ CurrentCall.cmd = "Lock"
        BY <3>3, <4>1, <1>o, <1>p, <1>s, ScriptShapes
      <4> QED BY <4>2
    <3>4. CASE op.kind = "freeze_calibration"
      <4>1. pos = 13
        BY <3>4, <1>1, <1>o, <1>p, ScriptShapes DEF LastCall
      <4> QED BY <3>4, <4>1 DEF IInv, LockHeld, Freezing, Active
    <3> QED BY <1>o, <3>1, <3>2, <3>3, <3>4 DEF Operation, Kinds
  <2> QED BY <2>2, <2>3, <2>4, <2>5, <2>6, <2>7 DEF IInv
<1>2. CASE ~ LastCall
  <2>1. stage' = "send" /\ pos' = pos + 1 /\ step' = 1 /\ attempt' = 1
    BY <1>2 DEF NextCall
  <2>2. LineBound'
    BY <2>1 DEF LineBound
  <2>3. OwnReply' /\ DrainAfterReadBack'
    BY <2>1 DEF OwnReply, DrainAfterReadBack
  <2>4. NoOldReadBack'
    <3>1. \A i \in 1 .. Len(line') : i <= ReadBack - 1
      <4>1. Len(line') \in Nat
        BY LenProperties DEF TypeOK, LinkTypeOK
      <4> QED BY <4>1, BoundsAssumption DEF ReadBack
    <3> QED BY <2>1, <3>1 DEF NoOldReadBack
  <2>5. InStep' /\ RawAlone'
    <3>1. InStep'
      BY <2>1, <1>e, <1>p DEF InStep, Freezing, Active
    <3>2. op.kind # "raw"
      BY <1>2, <1>o, <1>p, ScriptShapes DEF LastCall
    <3> QED BY <3>1, <3>2, <1>e DEF RawAlone
  <2>6. OwnPending'
    <3> SUFFICES ASSUME Freezing', ok', pos' > 3, pending'[op'.motor] # NoWrite
                 PROVE  pending[op.motor].val = op.val
      BY <1>d, <1>e, <2>1 DEF OwnPending
    <3>0. op.kind = "freeze_calibration" /\ ok /\ pos + 1 > 3 /\ pending[op.motor] # NoWrite
      BY <1>d, <1>e, <2>1 DEF Freezing
    <3>1. pos = 3 => CurrentCall = Verified(FreezeOrder[3 - 1])
      BY <3>0, <1>o, <1>p, <1>s, ScriptShapes
    <3>2. pos = 3 => step = ReadBack
      BY <3>1 DEF Verified
    <3>3. pos > 3 \/ (pos = 3 /\ step > 2)
      BY <3>0, <3>2, <1>p DEF ReadBack
    <3> QED BY <3>0, <3>3 DEF IInv, OwnPending, Freezing, Active
  <2>10. StagedOwn'
    <3>1. ASSUME op.kind = "write_eeprom", pos + 1 = 3, quiet'
          PROVE  pending[op.motor] = [reg |-> CurrentCall'.reg, val |-> op.val]
      <4>0. Len(Script(op)) = 4
        BY <3>1, <1>o, <1>p, ScriptShapes
      <4>1. pos = 2 /\ pos + 1 \in 1 .. 13 /\ pos + 1 <= Len(Script(op))
        BY <3>1, <1>p, <4>0
      <4>2. CurrentCall' = Script(op)[pos + 1]
        BY <1>e, <2>1 DEF CurrentCall
      <4>3. CurrentCall'.reg = op.reg
        BY <3>1, <1>o, <4>1, <4>2, ScriptShapes
      <4>4. CurrentCall.mode = "plain" /\ CurrentCall.cmd = "RegWrite" /\ CurrentCall.reg = op.reg
        BY <3>1, <1>o, <1>p, <1>s, <4>1, ScriptShapes
      <4> QED BY <3>1, <4>3, <4>4
    <3>2. ASSUME op.kind = "freeze_calibration", pos + 1 > 10, quiet'
          PROVE  pending[op.motor] = NoWrite
      <4>1. CASE pos = 10
        <5>1. CurrentCall = Verified(FreezeOrder[10 - 1])
          BY <3>2, <4>1, <1>o, <1>p, <1>s, ScriptShapes
        <5>2. CurrentCall.mode = "verified" /\ step > 3
          BY <5>1 DEF Verified, ReadBack
        <5> QED BY <3>2, <5>2 DEF IInv, StagedOwn, Verifying, Active
      <4>2. CASE pos > 10
        BY <3>2, <4>2 DEF IInv, StagedOwn, Freezing, Active
      <4> QED BY <3>2, <1>p, <4>1, <4>2
    <3> QED BY <1>d, <1>e, <2>1, <3>1, <3>2 DEF StagedOwn, Verifying, Freezing
  <2>7. LockHeld'
    <3> SUFFICES ASSUME quiet', op.kind = "freeze_calibration", pos + 1 = 13
                 PROVE  ~ unlocked[op.motor]
      BY <1>d, <1>e, <2>1 DEF LockHeld, Freezing, Active, ReadBack
    <3>1. pos = 12
      BY <1>p
    <3>2. CurrentCall.mode = "plain" /\ CurrentCall.cmd = "Lock"
      BY <3>1, <1>o, <1>p, <1>s, ScriptShapes
    <3> QED BY <3>2
  <2>8. VerifiedSoFar'
    <3> SUFFICES ASSUME ok, good
                 PROVE  /\ op.kind = "reset_calibration" /\ pos + 1 = 4 =>
                              eeprom[op.motor]["Offset"] = op.val
                        /\ op.kind = "freeze_calibration" =>
                              \A p \in 2 .. 10 : p < pos + 1 =>
                                  eeprom[op.motor][FreezeOrder[p - 1]] = op.val
      BY <1>d, <1>e, <2>1 DEF VerifiedSoFar
    <3>1. ASSUME op.kind = "reset_calibration", pos + 1 = 4
          PROVE  eeprom[op.motor]["Offset"] = op.val
      <4>1. pos = 3
        BY <3>1, <1>p
      <4>2. CurrentCall = Verified("Offset")
        BY <3>1, <4>1, <1>o, <1>p, <1>s, ScriptShapes
      <4>3. CurrentCall.mode = "verified" /\ CurrentCall.reg = "Offset"
        BY <4>2 DEF Verified
      <4> QED BY <4>3
    <3>2. ASSUME op.kind = "freeze_calibration", NEW p \in 2 .. 10, p < pos + 1
          PROVE  eeprom[op.motor][FreezeOrder[p - 1]] = op.val
      <4>1. CASE p < pos
        BY <3>2, <4>1 DEF IInv, VerifiedSoFar, Active
      <4>2. CASE p = pos
        <5>1. CurrentCall = Verified(FreezeOrder[p - 1])
          BY <3>2, <4>2, <1>o, <1>p, <1>s, ScriptShapes
        <5>2. CurrentCall.mode = "verified" /\ CurrentCall.reg = FreezeOrder[p - 1]
          BY <5>1 DEF Verified
        <5> QED BY <5>2
      <4> QED BY <3>2, <4>1, <4>2, <1>p
    <3> QED BY <3>1, <3>2
  <2>9. VerifiedSound' /\ LockedWhenOk'
    BY <2>1 DEF VerifiedSound, LockedWhenOk, Returned
  <2> QED BY <2>2, <2>3, <2>4, <2>5, <2>6, <2>7, <2>8, <2>9, <2>10 DEF IInv
<1> QED BY <1>1, <1>2

\* A raw command is not a verified write.
LEMMA NotRaw ==
    ASSUME TypeOK, stage # "idle", CurrentCall.mode = "verified"
    PROVE  op.kind # "raw"
<1>1. op \in Operation /\ pos \in 1 .. 13 /\ pos <= Len(Script(op))
  BY RequestInProgress DEF TypeOK
<1> QED BY <1>1, ScriptShapes DEF CurrentCall

\* Trying a verified write again, or giving it up.
LEMMA NextAttemptKeeps ==
    ASSUME MaxStale < ReadBack, IInv, TypeOK', stage # "idle", ReadingBack,
           NextAttempt,
           UNCHANGED deviceVars, quiet' = quiet, ~ answered', Len(line') <= MaxStale,
           quiet \/ (Freezing /\ ok /\ pos = 3) =>
               \A i \in 1 .. Len(line') : line'[i].answers.cmd = "Read"
    PROVE  IInv'
<1>1. CASE attempt < MaxRetries
  <2>1. /\ attempt' = attempt + 1 /\ step' = 1 /\ stage' = "send"
        /\ UNCHANGED << op, pos, ok, out >>
    BY <1>1 DEF NextAttempt
  <2>d. eeprom' = eeprom /\ unlocked' = unlocked /\ pending' = pending
    BY DEF deviceVars
  <2>2. LineBound'
    BY <2>1 DEF LineBound
  <2>3. OwnReply' /\ DrainAfterReadBack'
    BY <2>1 DEF OwnReply, DrainAfterReadBack
  <2>4. NoOldReadBack'
    <3>1. Len(line') \in Nat
      BY LenProperties DEF TypeOK, LinkTypeOK
    <3>2. \A i \in 1 .. Len(line') : i <= ReadBack - 1
      BY <3>1, BoundsAssumption DEF ReadBack
    <3> QED BY <2>1, <3>2 DEF NoOldReadBack
  <2>5. InStep' /\ RawAlone'
    <3>1. InStep'
      BY <2>1 DEF InStep, Freezing, Active
    <3>2. RawAlone'
      BY <2>1, NotRaw DEF IInv, RawAlone, ReadingBack
    <3> QED BY <3>1, <3>2
  <2>6. OwnPending'
    <3> SUFFICES ASSUME Freezing', ok', pos' >= 3, pending'[op'.motor] # NoWrite
                 PROVE  pending[op.motor].val = op.val
      <4>1. pos' \in Nat
        BY DEF TypeOK
      <4> QED BY <2>1, <2>d, <4>1 DEF OwnPending
    <3>1. Freezing /\ ok /\ pending[op.motor] # NoWrite /\ pos >= 3 /\ pos \in Nat
      BY <2>1, <2>d DEF Freezing, Active, IInv, TypeOK
    <3>2. pos > 3 \/ (pos = 3 /\ step > 2)
      BY <3>1 DEF ReadingBack, ReadBack
    <3> QED BY <3>1, <3>2 DEF IInv, OwnPending
  <2>10. StagedOwn'
    <3>1. pending[op.motor] = NoWrite \/ ~ quiet
      BY DEF IInv, StagedOwn, Verifying, Active, ReadingBack, ReadBack
    <3> QED BY <2>1, <2>d, <3>1 DEF StagedOwn
  <2>7. LockHeld'
    <3>1. CurrentCall' = CurrentCall
      BY <2>1 DEF CurrentCall
    <3>2. Freezing' => pos' # 13
      <4> SUFFICES ASSUME Freezing, pos = 13 PROVE FALSE
        BY <2>1 DEF Freezing, Active
      <4>1. op \in Operation
        BY RequestInProgress DEF IInv
      <4>2. pos \in 1 .. 13 /\ pos <= Len(Script(op))
        BY DEF IInv, TypeOK
      <4>3. CurrentCall.mode = "plain"
        BY <4>1, <4>2, ScriptShapes DEF CurrentCall, Freezing
      <4> QED BY <4>3 DEF ReadingBack
    <3> QED BY <2>1, <3>2 DEF LockHeld, ReadBack
  <2>8. VerifiedSoFar'
    BY <2>1, <2>d DEF IInv, VerifiedSoFar, Active
  <2>9. VerifiedSound' /\ LockedWhenOk'
    BY <2>1 DEF VerifiedSound, LockedWhenOk, Returned
  <2> QED BY <2>2, <2>3, <2>4, <2>5, <2>6, <2>7, <2>8, <2>9, <2>10 DEF IInv
<1>2. CASE ~ (attempt < MaxRetries)
  <2>1. NextCall(FALSE)
    BY <1>2 DEF NextAttempt
  <2>2. ok' = (ok /\ FALSE)
    BY <2>1 DEF NextCall
  <2>3. CurrentCall.mode = "verified" /\ step = ReadBack
    BY DEF ReadingBack
  <2> QED BY <2>1, <2>2, <2>3, NextCallKeeps
<1> QED BY <1>1, <1>2

\* Ending an operation with an error.
LEMMA FinishErrKeeps ==
    ASSUME IInv, TypeOK', Finish("err"), ~ answered', Len(line') <= MaxStale
    PROVE  IInv'
<1>1. stage' = "idle" /\ out' = "err"
  BY DEF Finish
<1>2. LineBound' /\ OwnReply' /\ NoOldReadBack' /\ DrainAfterReadBack' /\ InStep' /\ RawAlone'
  BY <1>1 DEF LineBound, OwnReply, NoOldReadBack, DrainAfterReadBack, InStep, RawAlone, Verifying, Active
<1>3. OwnPending' /\ StagedOwn' /\ LockHeld' /\ VerifiedSoFar'
  BY <1>1 DEF OwnPending, StagedOwn, LockHeld, VerifiedSoFar, Freezing, Verifying, Active
<1>4. VerifiedSound' /\ LockedWhenOk'
  BY <1>1 DEF VerifiedSound, LockedWhenOk, Returned
<1> QED BY <1>2, <1>3, <1>4 DEF IInv

\* A call that fails.
LEMMA FailKeeps ==
    ASSUME MaxStale < ReadBack, IInv, TypeOK', stage = "await", Fail,
           UNCHANGED deviceVars, ~ answered', Len(line') <= MaxStale,
           ReadingBack /\ (quiet \/ (Freezing /\ ok /\ pos = 3)) =>
               \A i \in 1 .. Len(line') : line'[i].answers.cmd = "Read"
    PROVE  IInv'
<1>1. CASE CurrentCall.mode = "best_effort" /\ NextCall(TRUE) /\ quiet' = FALSE
  <2>1. ok' = (ok /\ TRUE)
    BY <1>1 DEF NextCall
  <2>2. ~ (op.kind = "freeze_calibration" /\ pos = 2)
    <3> SUFFICES ASSUME op.kind = "freeze_calibration", pos = 2 PROVE FALSE
      OBVIOUS
    <3>1. op \in Operation /\ pos \in 1 .. 13 /\ pos <= Len(Script(op))
      BY RequestInProgress DEF IInv, TypeOK
    <3>2. CurrentCall = Verified(FreezeOrder[2 - 1])
      BY <3>1, ScriptShapes DEF CurrentCall
    <3> QED BY <1>1, <3>2 DEF Verified
  <2> QED BY <1>1, <2>1, <2>2, NextCallKeeps
<1>2. CASE /\ ReadingBack
           /\ stage' = "drain"
           /\ UNCHANGED << op, pos, step, attempt, ok, quiet, out >>
  <2>d. eeprom' = eeprom /\ unlocked' = unlocked /\ pending' = pending
    BY DEF deviceVars
  <2>1. CurrentCall' = CurrentCall
    BY <1>2 DEF CurrentCall
  <2>2. LineBound' /\ OwnReply' /\ NoOldReadBack' /\ DrainAfterReadBack'
    BY <1>2, <2>1
       DEF LineBound, OwnReply, NoOldReadBack, DrainAfterReadBack, ReadingBack
  <2>3. InStep' /\ RawAlone'
    <3>1. InStep'
      BY <1>2 DEF InStep, Freezing, Active
    <3>2. RawAlone'
      BY <1>2, NotRaw DEF IInv, RawAlone, ReadingBack
    <3> QED BY <3>1, <3>2
  <2>4. OwnPending' /\ StagedOwn'
    <3>1. OwnPending'
      BY <1>2, <2>d DEF IInv, OwnPending, Freezing, Active
    <3>2. pending[op.motor] = NoWrite \/ ~ quiet
      BY <1>2 DEF IInv, StagedOwn, Verifying, Active, ReadingBack, ReadBack
    <3> QED BY <1>2, <2>d, <3>1, <3>2 DEF StagedOwn
  <2>5. LockHeld'
    BY <1>2, <2>1, <2>d DEF IInv, LockHeld, Freezing, Verifying, Active
  <2>6. VerifiedSoFar'
    BY <1>2, <2>d DEF IInv, VerifiedSoFar, Active
  <2>7. VerifiedSound' /\ LockedWhenOk'
    BY <1>2 DEF VerifiedSound, LockedWhenOk, Returned
  <2> QED BY <2>2, <2>3, <2>4, <2>5, <2>6, <2>7 DEF IInv
<1>3. CASE Finish("err")
  BY <1>3, FinishErrKeeps
<1> QED BY <1>1, <1>2, <1>3 DEF Fail

\* Starting an operation.
LEMMA StartKeeps ==
    ASSUME MaxStale < ReadBack, IInv, TypeOK', NEW o \in Operations, Start(o)
    PROVE  IInv'
<1>1. /\ stage = "idle" /\ stage' = "send" /\ op' = o
      /\ pos' = 1 /\ step' = 1 /\ attempt' = 1
      /\ line' = line /\ answered' = answered /\ quiet' = (line = << >>)
  BY DEF Start, linkVars
<1>2. ~ answered' /\ Len(line') <= MaxStale
  BY <1>1 DEF IInv, OwnReply, LineBound
<1>3. LineBound' /\ OwnReply' /\ DrainAfterReadBack'
  BY <1>1, <1>2 DEF LineBound, OwnReply, DrainAfterReadBack
<1>4. NoOldReadBack'
  <2>1. Len(line') \in Nat
    BY LenProperties DEF TypeOK, LinkTypeOK
  <2>2. \A i \in 1 .. Len(line') : i <= ReadBack - 1
    BY <1>2, <2>1, BoundsAssumption DEF ReadBack
  <2> QED BY <1>1, <2>2 DEF NoOldReadBack
<1>5. InStep' /\ RawAlone'
  <2>1. quiet' => line' = << >>
    BY <1>1
  <2>2. line' = << >> => 1 .. Len(line') = {}
    BY EmptySeq
  <2>3. InStep'
    BY <1>1, <2>1, <2>2 DEF InStep, Freezing, Active
  <2>4. op'.kind = "raw" => CurrentCall'.mode = "plain"
    <3>1. o \in Operation /\ 1 <= Len(Script(o))
      BY OperationsAssumption, ScriptCalls
    <3> QED BY <1>1, <3>1, ScriptShapes DEF CurrentCall
  <2> QED BY <2>1, <2>2, <2>3, <2>4 DEF RawAlone
<1>6. OwnPending' /\ StagedOwn' /\ LockHeld' /\ VerifiedSoFar'
  BY <1>1 DEF OwnPending, StagedOwn, LockHeld, VerifiedSoFar, ReadBack, Verifying, Freezing
<1>7. VerifiedSound' /\ LockedWhenOk'
  BY <1>1 DEF VerifiedSound, LockedWhenOk, Returned
<1> QED BY <1>3, <1>4, <1>5, <1>6, <1>7 DEF IInv

\* Outside raw commands, only a read-back reads.
LEMMA OnlyRawReads ==
    ASSUME TypeOK, stage # "idle", CurrentRequest.cmd = "Read", ~ ReadingBack
    PROVE  op.kind = "raw"
<1>0. op \in Operation /\ pos \in 1 .. 13 /\ pos <= Len(Script(op)) /\ step \in 1 .. ReadBack
  BY RequestInProgress DEF TypeOK
<1>1. CurrentCall = Script(op)[pos]
  BY DEF CurrentCall
<1>2. CurrentCall.mode # "verified" /\ CurrentCall.cmd = "Read"
  BY <1>0 DEF CurrentRequest, ReadingBack, VerifySteps, ReadBack
<1>3. op.kind # "write_eeprom" /\ op.kind # "reset_calibration"
  BY <1>0, <1>1, <1>2, ScriptShapes
<1>4. op.kind # "write_eeprom_verified"
  <2>1. op.kind = "write_eeprom_verified" => CurrentCall = Verified(op.reg)
    BY <1>0, <1>1, ScriptShapes
  <2> QED BY <1>2, <2>1 DEF Verified
<1>5. op.kind # "freeze_calibration"
  <2> SUFFICES ASSUME op.kind = "freeze_calibration" PROVE FALSE
    OBVIOUS
  <2>1. CASE pos \in 2 .. 10
    <3>1. CurrentCall = Verified(FreezeOrder[pos - 1])
      BY <1>0, <1>1, <2>1, ScriptShapes
    <3> QED BY <1>2, <3>1 DEF Verified
  <2>2. CASE pos = 11
    <3>1. CurrentCall = BestEffort("WriteRam", "Offset")
      BY <1>0, <1>1, <2>2, ScriptShapes
    <3> QED BY <1>2, <3>1 DEF BestEffort
  <2>3. CASE pos \in {1, 12, 13}
    BY <1>0, <1>1, <1>2, <2>3, ScriptShapes
  <2>4. pos \in 2 .. 10 \/ pos = 11 \/ pos \in {1, 12, 13}
    BY <1>0
  <2> QED BY <2>1, <2>2, <2>3, <2>4
<1> QED BY <1>0, <1>3, <1>4, <1>5 DEF Operation, Kinds

\* A reply that is accepted.
LEMMA ReceiveOkKeeps ==
    ASSUME MaxStale < ReadBack, IInv, TypeOK', ReceiveOk
    PROVE  IInv'
<1>0. /\ TypeOK /\ OwnReply /\ NoOldReadBack /\ InStep /\ LineBound
      /\ stage = "await" /\ line # << >> /\ Accepts(CurrentRequest, Head(line))
      /\ line' = Tail(line) /\ ~ answered' /\ UNCHANGED deviceVars /\ quiet' = quiet
  BY DEF IInv, ReceiveOk, TakeReply
<1>d. eeprom' = eeprom /\ unlocked' = unlocked /\ pending' = pending
  BY <1>0 DEF deviceVars
<1>o. op \in Operation /\ pos \in 1 .. 13 /\ pos <= Len(Script(op))
  BY <1>0, RequestInProgress DEF TypeOK
<1>l. Len(line') <= MaxStale
  BY <1>0, TailFacts, BoundsAssumption DEF LineBound
<1>e. Len(line) = 1 => line' = << >> /\ \A i \in 1 .. Len(line') : FALSE
  <2>1. Len(line) = 1 => Len(line') = 0
    BY <1>0, TailFacts
  <2>2. line' \in Seq(Reply)
    BY DEF TypeOK, LinkTypeOK
  <2> QED BY <2>1, <2>2, EmptySeq
<1>1. CASE CurrentCall.mode # "verified" /\ NextCall(TRUE)
  <2>1. ok' = (ok /\ TRUE)
    BY <1>1 DEF NextCall
  <2>2. CurrentRequest.cmd = CurrentCall.cmd
    BY <1>1 DEF CurrentRequest
  <2>3. ~ (op.kind = "freeze_calibration" /\ pos = 2)
    <3> SUFFICES ASSUME op.kind = "freeze_calibration", pos = 2 PROVE FALSE
      OBVIOUS
    <3>1. CurrentCall = Verified(FreezeOrder[2 - 1])
      BY <1>o, ScriptShapes DEF CurrentCall
    <3> QED BY <1>1, <3>1 DEF Verified
  <2>4. CASE CurrentRequest.cmd # "Read"
    <3>1. quiet => Len(line) = 1 /\ answered
      BY <1>0, <2>4, OwnAcknowledgement
    <3>2. CurrentCall.cmd = "Lock" /\ quiet => ~ unlocked[op.motor]
      BY <1>0, <2>2, <3>1 DEF OwnReply
    <3>3. CurrentCall.cmd = "RegWrite" /\ quiet =>
              pending[op.motor] = [reg |-> CurrentCall.reg, val |-> op.val]
      BY <1>0, <2>2, <3>1 DEF OwnReply
    <3> QED BY <1>0, <1>1, <1>l, <1>e, <2>1, <2>3, <3>1, <3>2, <3>3, NextCallKeeps
  <2>5. CASE CurrentRequest.cmd = "Read"
    <3>1. op.kind = "raw"
      BY <1>0, <1>1, <2>5, OnlyRawReads DEF ReadingBack
    <3>2. LastCall
      BY <3>1, <1>o, ScriptShapes DEF LastCall
    <3>3. stage' = "idle" /\ op' = op /\ op.kind = "raw"
      BY <1>1, <3>1, <3>2 DEF NextCall, Finish
    <3>4. LineBound' /\ OwnReply' /\ NoOldReadBack' /\ DrainAfterReadBack' /\ InStep' /\ RawAlone'
      BY <1>0, <1>l, <3>3
         DEF LineBound, OwnReply, NoOldReadBack, DrainAfterReadBack, InStep, RawAlone, Verifying, Active
    <3>5. OwnPending' /\ StagedOwn' /\ LockHeld' /\ VerifiedSoFar'
      BY <3>3 DEF OwnPending, StagedOwn, LockHeld, VerifiedSoFar, Freezing, Verifying, Active
    <3>6. VerifiedSound' /\ LockedWhenOk'
      BY <3>3 DEF VerifiedSound, LockedWhenOk, VerifyingKinds
    <3> QED BY <3>4, <3>5, <3>6 DEF IInv
  <2> QED BY <2>4, <2>5
<1>2. CASE CurrentCall.mode = "verified" /\ step < ReadBack /\ AdvanceStep
  <2>1. /\ step' = step + 1 /\ stage' = "send"
        /\ UNCHANGED << op, pos, attempt, ok, out >>
    BY <1>2 DEF AdvanceStep
  <2>2. CurrentRequest.cmd = VerifySteps[step] /\ step \in 1 .. 4
    BY <1>0, <1>2 DEF CurrentRequest, TypeOK, ReadBack
  <2>3. CurrentRequest.cmd # "Read"
    BY <2>2 DEF VerifySteps
  <2>4. CurrentCall' = CurrentCall
    BY <2>1 DEF CurrentCall
  <2>5. quiet \/ (Freezing /\ ok /\ pos = 3) => answered /\ Len(line) = 1
    BY <1>0, <2>3, OwnAcknowledgement
  <2>6. LineBound' /\ OwnReply' /\ DrainAfterReadBack'
    BY <1>0, <1>l, <2>1 DEF LineBound, OwnReply, DrainAfterReadBack
  <2>7. NoOldReadBack'
    <3> SUFFICES ASSUME NEW i \in 1 .. Len(line'), line'[i].answers.cmd = "Read"
                 PROVE  i <= ReadBack - step'
      BY DEF NoOldReadBack
    <3>1. i \in 1 .. Len(line) - 1 /\ i + 1 \in 1 .. Len(line) /\ line'[i] = line[i + 1]
      BY <1>0, TailFacts
    <3>2. Own(i + 1) \/ i + 1 <= ReadBack - step
      BY <1>0, <1>2, <3>1 DEF NoOldReadBack, Verifying, Active
    <3>3. ~ Own(i + 1)
      BY <1>0, <2>3, <3>1 DEF Own, OwnReply
    <3> QED BY <2>1, <2>2, <3>1, <3>2, <3>3 DEF ReadBack
  <2>8. InStep' /\ RawAlone'
    <3>1. InStep'
      BY <1>0, <1>e, <2>1, <2>5 DEF InStep, Freezing, Active
    <3>2. RawAlone'
      BY <1>0, <1>2, <2>1, NotRaw DEF RawAlone
    <3> QED BY <3>1, <3>2
  <2>9. OwnPending'
    <3> SUFFICES ASSUME Freezing, ok, pos > 3 \/ (pos = 3 /\ (attempt > 1 \/ step + 1 > 2)),
                        pending[op.motor] # NoWrite
                 PROVE  pending[op.motor].val = op.val
      BY <1>0, <1>d, <2>1 DEF OwnPending, Freezing, Active
    <3>1. CASE pos > 3 \/ (pos = 3 /\ (attempt > 1 \/ step > 2))
      BY <3>1 DEF IInv, OwnPending
    <3>2. CASE pos = 3 /\ step = 2
      <4>1. CurrentRequest.cmd = "RegWrite" /\ answered
        BY <2>2, <2>5, <3>2 DEF VerifySteps
      <4> QED BY <1>0, <4>1 DEF OwnReply
    <3> QED BY <2>2, <3>1, <3>2
  <2>13. StagedOwn'
    <3>1. ASSUME quiet, step + 1 = 3
          PROVE  pending[op.motor] = [reg |-> CurrentCall.reg, val |-> op.val]
      <4>1. CurrentRequest.cmd = "RegWrite" /\ answered
        BY <2>2, <2>5, <3>1 DEF VerifySteps
      <4> QED BY <1>0, <4>1 DEF OwnReply
    <3>2. ASSUME quiet, step + 1 > 3
          PROVE  pending[op.motor] = NoWrite
      <4>1. CASE step = 3
        <5>1. CurrentRequest.cmd = "Action" /\ answered
          BY <2>2, <2>5, <3>2, <4>1 DEF VerifySteps
        <5> QED BY <1>0, <5>1 DEF OwnReply
      <4>2. CASE step > 3
        BY <1>0, <1>2, <3>2, <4>2 DEF IInv, StagedOwn, Verifying, Active
      <4> QED BY <2>2, <3>2, <4>1, <4>2
    <3>3. op.kind # "write_eeprom"
      BY <1>o, <1>2, ScriptShapes DEF CurrentCall
    <3>4. Freezing /\ quiet /\ pos > 10 => pending[op.motor] = NoWrite
      BY DEF IInv, StagedOwn, Freezing
    <3> QED BY <1>0, <1>d, <2>1, <2>4, <3>1, <3>2, <3>3, <3>4
            DEF StagedOwn, Freezing, Verifying, Active
  <2>10. LockHeld'
    <3>1. Freezing' /\ pos' = 13 => Freezing /\ pos = 13
      BY <1>0, <2>1 DEF Freezing, Active
    <3>2. quiet' /\ step' = ReadBack => ~ unlocked[op.motor]
      <4> SUFFICES ASSUME quiet, step + 1 = 5 PROVE ~ unlocked[op.motor]
        BY <1>0, <2>1 DEF ReadBack
      <4>1. CurrentRequest.cmd = "Lock" /\ answered
        BY <2>2, <2>5 DEF VerifySteps
      <4> QED BY <1>0, <4>1 DEF OwnReply
    <3> QED BY <1>0, <1>d, <2>1, <3>1, <3>2 DEF IInv, LockHeld
  <2>11. VerifiedSoFar'
    BY <1>0, <1>d, <2>1 DEF IInv, VerifiedSoFar, Active
  <2>12. VerifiedSound' /\ LockedWhenOk'
    BY <2>1 DEF VerifiedSound, LockedWhenOk, Returned
  <2> QED BY <2>6, <2>7, <2>8, <2>9, <2>10, <2>11, <2>12, <2>13 DEF IInv
<1>3. CASE ReadingBack
  <2>1. Len(line) = 1 /\ Head(line).data = eeprom[op.motor][CurrentCall.reg]
    BY <1>0, <1>3, OwnReadBack
  <2>2. CASE ReadbackMatches(Head(line)) /\ NextCall(TRUE)
    <3>1. eeprom[op.motor][CurrentCall.reg] = op.val
      BY <2>1, <2>2 DEF ReadbackMatches
    <3>2. ok' = (ok /\ TRUE)
      BY <2>2 DEF NextCall
    <3>3. CurrentCall.mode = "verified" /\ step = ReadBack
      BY <1>3 DEF ReadingBack
    <3> QED BY <1>0, <1>l, <1>e, <2>1, <2>2, <3>1, <3>2, <3>3, NextCallKeeps
  <2>3. CASE NextAttempt
    BY <1>0, <1>3, <1>l, <1>e, <2>1, <2>3, NextAttemptKeeps
  <2>4. CASE CurrentCall.mode # "verified"
    BY <1>3, <2>4 DEF ReadingBack
  <2>5. CASE step < ReadBack
    BY <1>3, <2>5 DEF ReadingBack, ReadBack
  <2> QED BY <2>2, <2>3, <2>4, <2>5 DEF ReceiveOk
<1> QED BY <1>1, <1>2, <1>3 DEF ReceiveOk

\* A reply that is refused.
LEMMA ReceiveErrKeeps ==
    ASSUME MaxStale < ReadBack, IInv, TypeOK', ReceiveErr
    PROVE  IInv'
<1>0. /\ TypeOK /\ OwnReply /\ InStep /\ LineBound /\ stage = "await" /\ line # << >>
      /\ line' = Tail(line) /\ ~ answered' /\ UNCHANGED deviceVars /\ Fail
  BY DEF IInv, ReceiveErr, TakeReply
<1>1. Len(line') <= MaxStale
  BY <1>0, TailFacts, BoundsAssumption DEF LineBound
<1>2. ASSUME ReadingBack, quiet \/ (Freezing /\ ok /\ pos = 3), NEW i \in 1 .. Len(line')
      PROVE  line'[i].answers.cmd = "Read"
  <2>1. i + 1 \in 1 .. Len(line) /\ line'[i] = line[i + 1]
    BY <1>0, TailFacts
  <2>2. line[i + 1].answers.cmd = "Read" \/ Own(i + 1)
    BY <1>0, <1>2, <2>1 DEF InStep, Active
  <2>3. CurrentRequest.cmd = "Read"
    BY <1>2 DEF CurrentRequest, ReadingBack, VerifySteps, ReadBack
  <2>4. Own(i + 1) => line[i + 1].answers.cmd = "Read"
    BY <1>0, <2>3 DEF Own, OwnReply
  <2> QED BY <2>1, <2>2, <2>4
<1> QED BY <1>0, <1>1, <1>2, FailKeeps

\* A wait that expires.
LEMMA TimeoutKeeps ==
    ASSUME MaxStale < ReadBack, IInv, TypeOK', Timeout
    PROVE  IInv'
<1>0. /\ TypeOK /\ OwnReply /\ InStep /\ LineBound /\ stage = "await"
      /\ line' = line /\ ~ answered' /\ UNCHANGED deviceVars /\ Fail
  BY DEF IInv, Timeout, WaitExpires
<1>1. Len(line') <= MaxStale
  BY <1>0 DEF Timeout, WaitExpires, LineBound
<1>2. ASSUME ReadingBack, quiet \/ (Freezing /\ ok /\ pos = 3), NEW i \in 1 .. Len(line')
      PROVE  line'[i].answers.cmd = "Read"
  <2>1. line[i].answers.cmd = "Read" \/ Own(i)
    BY <1>0, <1>2 DEF InStep, Active
  <2>2. CurrentRequest.cmd = "Read"
    BY <1>2 DEF CurrentRequest, ReadingBack, VerifySteps, ReadBack
  <2>3. Own(i) => line[i].answers.cmd = "Read"
    BY <1>0, <2>2 DEF Own, OwnReply
  <2> QED BY <1>0, <2>1, <2>3
<1> QED BY <1>0, <1>1, <1>2, FailKeeps

\* Draining the line.
LEMMA DrainKeeps ==
    ASSUME MaxStale < ReadBack, IInv, TypeOK', Drain
    PROVE  IInv'
<1>0. /\ TypeOK /\ InStep /\ stage = "drain" /\ ReadingBack /\ NextAttempt
      /\ ~ answered /\ ~ answered' /\ UNCHANGED deviceVars /\ quiet' = quiet
      /\ Len(line) <= MaxStale
  BY DEF IInv, DrainAfterReadBack, OwnReply, LineBound, Drain, DiscardArrived
<1>1. PICK n \in 0 .. Len(line) : line' = SubSeq(line, n + 1, Len(line))
  BY DEF Drain, DiscardArrived
<1>2. line \in Seq(Reply) /\ Len(line) \in Nat
  BY <1>0, LenProperties DEF TypeOK, LinkTypeOK
<1>3. Len(line') = Len(line) - n /\ \A i \in 1 .. Len(line) - n : line'[i] = line[i + n]
  BY <1>1, <1>2, SuffixType
<1>4. Len(line') <= MaxStale
  BY <1>0, <1>2, <1>3, BoundsAssumption
<1>5. ASSUME quiet \/ (Freezing /\ ok /\ pos = 3), NEW i \in 1 .. Len(line')
      PROVE  line'[i].answers.cmd = "Read"
  <2>1. i + n \in 1 .. Len(line) /\ line'[i] = line[i + n]
    BY <1>2, <1>3
  <2> QED BY <1>0, <1>5, <2>1 DEF InStep, Active, Own
<1> QED BY <1>0, <1>4, <1>5, NextAttemptKeeps

\* The death of the process.
LEMMA CrashKeeps ==
    ASSUME IInv, TypeOK', Crash
    PROVE  IInv'
<1>1. stage' = "idle" /\ out' = "crashed" /\ ~ answered'
  BY DEF Crash
<1>2. Len(line') <= MaxStale
  <2>1. PICK n \in 0 .. Len(line) :
            line' = SubSeq(line, n + 1, Len(line)) /\ Len(line) - n <= MaxStale
    BY DEF Crash
  <2>2. line \in Seq(Reply)
    BY DEF IInv, TypeOK, LinkTypeOK
  <2> QED BY <2>1, <2>2, SuffixType
<1>3. LineBound' /\ OwnReply' /\ NoOldReadBack' /\ DrainAfterReadBack' /\ InStep' /\ RawAlone'
  BY <1>1, <1>2
     DEF LineBound, OwnReply, NoOldReadBack, DrainAfterReadBack, InStep, RawAlone, Verifying, Active
<1>4. OwnPending' /\ StagedOwn' /\ LockHeld' /\ VerifiedSoFar'
  BY <1>1 DEF OwnPending, StagedOwn, LockHeld, VerifiedSoFar, Freezing, Verifying, Active
<1>5. VerifiedSound' /\ LockedWhenOk'
  BY <1>1 DEF VerifiedSound, LockedWhenOk, Returned
<1> QED BY <1>3, <1>4, <1>5 DEF IInv

\* What sending a request does to the line: nothing, or one more reply, to it.
LEMMA TransmitLine ==
    ASSUME LinkTypeOK, DeviceTypeOK, NEW q \in Request, Transmit(q), ~ answered
    PROVE  \/ line' = line /\ ~ answered'
           \/ /\ answered'
              /\ Len(line) \in Nat /\ Len(line') = Len(line) + 1
              /\ \A i \in 1 .. Len(line) : line'[i] = line[i]
              /\ line'[Len(line')].answers = q
              /\ q.cmd = "Read" => line'[Len(line')].data = eeprom[q.motor][q.reg]
<1>1. CASE line' = line /\ ~ answered'
  BY <1>1
<1>2. ASSUME NEW good \in BOOLEAN, line' = Append(line, ReplyTo(q, good)), answered'
      PROVE  /\ answered'
             /\ Len(line) \in Nat /\ Len(line') = Len(line) + 1
             /\ \A i \in 1 .. Len(line) : line'[i] = line[i]
             /\ line'[Len(line')].answers = q
             /\ q.cmd = "Read" => line'[Len(line')].data = eeprom[q.motor][q.reg]
  <2> DEFINE r == ReplyTo(q, good)
  <2>1. eeprom[q.motor][q.reg] \in Images /\ Zero \in Images
    BY ImagesAssumption DEF DeviceTypeOK, Request
  <2>2. r \in Reply
    BY <2>1 DEF ReplyTo, Reply
  <2>3. r.answers = q /\ (q.cmd = "Read" => r.data = eeprom[q.motor][q.reg])
    BY DEF ReplyTo
  <2>4. line \in Seq(Reply) /\ line' = Append(line, r)
    BY <1>2 DEF LinkTypeOK
  <2> HIDE DEF r
  <2>5. /\ Len(line) \in Nat /\ Len(line') = Len(line) + 1
        /\ \A i \in 1 .. Len(line) : line'[i] = line[i]
        /\ line'[Len(line) + 1] = r
    BY <2>2, <2>4, AppendProperties, LenProperties
  <2> QED BY <1>2, <2>3, <2>5
<1>3. \/ line' = line /\ ~ answered'
      \/ line' = Append(line, ReplyTo(q, TRUE)) /\ answered'
      \/ line' = Append(line, ReplyTo(q, FALSE)) /\ answered'
  BY DEF Transmit, Answered, RequestLost, ReplyLost, ReplyBad, AnsweredUncommitted
<1> QED BY <1>1, <1>2, <1>3

\* What it does to the servo: at most what the request says.
LEMMA TransmitDevice ==
    ASSUME DeviceTypeOK, NEW q \in Request, Transmit(q)
    PROVE  /\ q.cmd # "Action" /\ q.cmd # "Reset" => eeprom' = eeprom
           /\ q.cmd = "Action" =>
                 \A r \in Registers :
                     \/ eeprom'[q.motor][r] = eeprom[q.motor][r]
                     \/ /\ pending[q.motor] # NoWrite
                        /\ eeprom'[q.motor][r] = pending[q.motor].val
           /\ \/ pending'[q.motor] = pending[q.motor]
              \/ pending'[q.motor] = NoWrite
              \/ pending'[q.motor] = [reg |-> q.reg, val |-> q.val]
           /\ q.cmd = "RegWrite" /\ answered' =>
                 pending'[q.motor] = [reg |-> q.reg, val |-> q.val]
           /\ q.cmd = "Action" /\ answered' => pending'[q.motor] = NoWrite
           /\ q.cmd \notin {"RegWrite", "Action", "Reset"} => pending' = pending
           /\ q.cmd = "Action" =>
                 \/ pending'[q.motor] = pending[q.motor] 
                 \/ pending'[q.motor] = NoWrite
           /\ q.cmd \notin {"Unlock", "Lock", "Reset"} => unlocked' = unlocked
           /\ q.cmd = "Lock" /\ answered' => ~ unlocked'[q.motor]
<1>q. q.motor \in Motors /\ q.reg \in Registers
  BY DEF Request
<1>0. \/ UNCHANGED deviceVars /\ ~ answered'
      \/ Execute(q) \/ CommitLost(q)
  BY DEF Transmit, Answered, RequestLost, ReplyLost, ReplyBad, AnsweredUncommitted
<1>1. CASE UNCHANGED deviceVars /\ ~ answered'
  BY <1>1 DEF deviceVars
<1>2. CASE Passive(q)
  BY <1>2 DEF Passive, deviceVars
<1>3. CASE SetLock(q)
  BY <1>3, <1>q DEF SetLock, DeviceTypeOK
<1>4. CASE Stage(q)
  BY <1>4, <1>q DEF Stage, DeviceTypeOK
<1>5. CASE Commit(q)
  <2>1. q.cmd = "Action" /\ unlocked' = unlocked /\ pending'[q.motor] = NoWrite
    BY <1>5, <1>q DEF Commit, DeviceTypeOK
  <2>2. ASSUME NEW r \in Registers, eeprom'[q.motor][r] # eeprom[q.motor][r]
        PROVE  pending[q.motor] # NoWrite /\ eeprom'[q.motor][r] = pending[q.motor].val
    <3>1. /\ pending[q.motor] # NoWrite
          /\ eeprom' = [eeprom EXCEPT ![q.motor][pending[q.motor].reg] = pending[q.motor].val]
      BY <1>5, <2>2 DEF Commit
    <3> QED BY <3>1, <2>2, <1>q DEF DeviceTypeOK
  <2> QED BY <2>1, <2>2
<1>6. CASE FactoryReset(q)
  BY <1>6, <1>q DEF FactoryReset, DeviceTypeOK
<1>7. CASE CommitLost(q)
  BY <1>7, <1>q DEF CommitLost, DeviceTypeOK
<1> QED BY <1>0, <1>1, <1>2, <1>3, <1>4, <1>5, <1>6, <1>7 DEF Execute

\* Sending a request.
LEMMA SendKeeps ==
    ASSUME IInv, TypeOK', Send
    PROVE  IInv'
<1> DEFINE q == CurrentRequest
<1>0. /\ TypeOK /\ DeviceTypeOK /\ LinkTypeOK /\ stage = "send" /\ stage' = "await"
      /\ UNCHANGED << op, pos, step, attempt, ok, quiet, out >>
      /\ Transmit(q) /\ ~ answered /\ Len(line) <= MaxStale
  BY DEF IInv, TypeOK, OwnReply, LineBound, Send
<1>1. q \in Request /\ op \in Operation /\ CurrentCall \in Call
  BY <1>0, RequestInProgress
<1>2. q.motor = op.motor /\ q.val = op.val /\ q.reg = CurrentCall.reg
  BY DEF CurrentRequest
<1>3. CurrentCall' = CurrentCall /\ CurrentRequest' = q
  BY <1>0 DEF CurrentCall, CurrentRequest
<1>4. \/ line' = line /\ ~ answered'
      \/ /\ answered'
         /\ Len(line) \in Nat /\ Len(line') = Len(line) + 1
         /\ \A i \in 1 .. Len(line) : line'[i] = line[i]
         /\ line'[Len(line')].answers = q
         /\ q.cmd = "Read" => line'[Len(line')].data = eeprom[q.motor][q.reg]
  BY <1>0, <1>1, TransmitLine
<1>5. /\ q.cmd # "Action" /\ q.cmd # "Reset" => eeprom' = eeprom
      /\ q.cmd = "Action" =>
            \A r \in Registers :
                \/ eeprom'[q.motor][r] = eeprom[q.motor][r]
                \/ /\ pending[q.motor] # NoWrite
                   /\ eeprom'[q.motor][r] = pending[q.motor].val
      /\ \/ pending'[q.motor] = pending[q.motor]
         \/ pending'[q.motor] = NoWrite
         \/ pending'[q.motor] = [reg |-> q.reg, val |-> q.val]
      /\ q.cmd = "RegWrite" /\ answered' =>
            pending'[q.motor] = [reg |-> q.reg, val |-> q.val]
      /\ q.cmd = "Action" /\ answered' => pending'[q.motor] = NoWrite
      /\ q.cmd \notin {"RegWrite", "Action", "Reset"} => pending' = pending
      /\ q.cmd = "Action" =>
            \/ pending'[q.motor] = pending[q.motor]
            \/ pending'[q.motor] = NoWrite
      /\ q.cmd \notin {"Unlock", "Lock", "Reset"} => unlocked' = unlocked
      /\ q.cmd = "Lock" /\ answered' => ~ unlocked'[q.motor]
  BY <1>0, <1>1, TransmitDevice
<1>6. ASSUME CurrentCall.mode = "verified" PROVE q.cmd = VerifySteps[step]
  BY <1>6 DEF CurrentRequest
<1>7. ASSUME CurrentCall.mode # "verified" PROVE q.cmd = CurrentCall.cmd
  BY <1>7 DEF CurrentRequest
<1>p. pos \in 1 .. 13 /\ pos <= Len(Script(op)) /\ CurrentCall = Script(op)[pos]
      /\ step \in 1 .. ReadBack
  BY <1>0 DEF TypeOK, CurrentCall
<1> HIDE DEF q
<1>8. LineBound'
  BY <1>0, <1>4, BoundsAssumption DEF LineBound
<1>9. OwnReply'
  <2> SUFFICES ASSUME answered'
               PROVE  /\ line' # << >>
                      /\ line'[Len(line')].answers = q
                      /\ q.cmd = "Read" =>
                            line'[Len(line')].data = eeprom'[op.motor][CurrentCall.reg]
                      /\ q.cmd = "RegWrite" =>
                            pending'[op.motor] = [reg |-> CurrentCall.reg, val |-> op.val]
                      /\ q.cmd = "Action" => pending'[op.motor] = NoWrite
                      /\ q.cmd = "Lock" => ~ unlocked'[op.motor]
    BY <1>0, <1>3 DEF OwnReply
  <2>1. line' # << >>
    <3>1. Len(line') # 0
      BY <1>4
    <3> QED BY <3>1, EmptySeq
  <2>2. q.cmd = "Read" => eeprom' = eeprom
    BY <1>5
  <2> QED BY <1>2, <1>4, <1>5, <2>1, <2>2
<1>10. DrainAfterReadBack'
  BY <1>0 DEF DrainAfterReadBack
<1>11. NoOldReadBack'
  <2> SUFFICES ASSUME Verifying, NEW i \in 1 .. Len(line'),
                      line'[i].answers.cmd = "Read", ~ (answered' /\ i = Len(line'))
               PROVE  i <= ReadBack - step
    BY <1>0, <1>3 DEF NoOldReadBack, Own, Verifying, Active
  <2>1. i \in 1 .. Len(line) /\ line'[i] = line[i]
    BY <1>4
  <2> QED BY <1>0, <2>1 DEF IInv, NoOldReadBack, Own
<1>12. InStep'
  <2> SUFFICES ASSUME quiet \/ (Freezing /\ ok /\ pos = 3), NEW i \in 1 .. Len(line'),
                      ~ (answered' /\ i = Len(line'))
               PROVE  line'[i].answers.cmd = "Read"
    BY <1>0 DEF InStep, Own, Freezing, Active
  <2>1. i \in 1 .. Len(line) /\ line'[i] = line[i]
    BY <1>4
  <2> QED BY <1>0, <2>1 DEF IInv, InStep, Own, Active
<1>17. RawAlone'
  <2> SUFFICES ASSUME quiet, op.kind = "raw"
               PROVE  /\ CurrentCall.mode = "plain"
                      /\ \A i \in 1 .. Len(line') : answered' /\ i = Len(line')
    BY <1>0, <1>3 DEF RawAlone, Own
  <2>1. CurrentCall.mode = "plain" /\ \A i \in 1 .. Len(line) : FALSE
    BY <1>0 DEF IInv, RawAlone, Own, Active
  <2> QED BY <1>4, <2>1
<1>13. OwnPending'
  <2> SUFFICES ASSUME Freezing, ok, pos > 3 \/ (pos = 3 /\ (attempt > 1 \/ step > 2)),
                      pending'[op.motor] # NoWrite
               PROVE  pending'[op.motor].val = op.val
    BY <1>0 DEF OwnPending, Freezing, Active
  <2>1. CASE pending'[op.motor] = pending[op.motor]
    BY <2>1 DEF IInv, OwnPending
  <2>2. CASE pending'[op.motor] = [reg |-> q.reg, val |-> q.val]
    BY <1>2, <2>2
  <2> QED BY <1>2, <1>5, <2>1, <2>2
<1>18. StagedOwn'
  <2>1. ASSUME quiet, Verifying, step = 3
        PROVE  pending'[op.motor] \in {NoWrite, [reg |-> CurrentCall.reg, val |-> op.val]}
    <3>1. q.cmd = "Action"
      BY <1>6, <2>1 DEF Verifying, VerifySteps
    <3> QED BY <1>0, <1>2, <1>5, <2>1, <3>1 DEF IInv, StagedOwn, Active
  <2>2. ASSUME quiet, op.kind = "write_eeprom", pos = 3
        PROVE  pending'[op.motor] \in {NoWrite, [reg |-> CurrentCall.reg, val |-> op.val]}
    <3>1. CurrentCall.cmd = "Action" /\ CurrentCall.mode = "plain"
      BY <1>1, <1>p, <2>2, ScriptShapes
    <3>2. q.cmd = "Action"
      BY <1>7, <3>1
    <3> QED BY <1>0, <1>2, <1>5, <2>2, <3>2 DEF IInv, StagedOwn, Active
  <2>3. ASSUME quiet, Verifying, step > 3
        PROVE  pending'[op.motor] = NoWrite
    <3>1. q.cmd \in {"Lock", "Read"}
      BY <1>6, <1>p, <2>3 DEF Verifying, VerifySteps, ReadBack
    <3> QED BY <1>0, <1>5, <2>3, <3>1 DEF IInv, StagedOwn, Active
  <2>4. ASSUME quiet, Freezing, pos > 10
        PROVE  pending'[op.motor] = NoWrite
    <3>1. q.cmd \in {"WriteRam", "Lock", "Action"}
      <4>1. CASE pos = 11
        <5>1. CurrentCall = BestEffort("WriteRam", "Offset")
          BY <1>1, <1>p, <2>4, <4>1, ScriptShapes DEF Freezing
        <5>2. q.cmd = "WriteRam"
          BY <1>7, <5>1 DEF BestEffort
        <5> QED BY <5>2
      <4>2. CASE pos \in {12, 13}
        <5>1. CurrentCall.mode = "plain" /\ CurrentCall.cmd \in {"Lock", "Action"}
          BY <1>1, <1>p, <2>4, <4>2, ScriptShapes DEF Freezing
        <5> QED BY <1>7, <5>1
      <4> QED BY <1>p, <2>4, <4>1, <4>2
    <3>2. pending[op.motor] = NoWrite
      BY <1>0, <2>4 DEF IInv, StagedOwn, Active
    <3> QED BY <1>2, <1>5, <3>1, <3>2
  <2> QED BY <1>0, <1>3, <2>1, <2>2, <2>3, <2>4 DEF StagedOwn, Verifying, Freezing, Active
<1>14. LockHeld'
  <2>1. ASSUME Verifying, step = ReadBack PROVE unlocked' = unlocked
    <3>1. q.cmd = "Read"
      BY <1>6, <2>1 DEF Verifying, VerifySteps, ReadBack
    <3> QED BY <1>5, <3>1
  <2>2. ASSUME Freezing, pos = 13 PROVE unlocked' = unlocked
    <3>1. CurrentCall.cmd = "Action" /\ CurrentCall.mode = "plain"
      BY <1>1, <1>p, <2>2, ScriptShapes DEF Freezing
    <3>2. q.cmd = "Action"
      BY <1>7, <3>1
    <3> QED BY <1>5, <3>2
  <2> QED BY <1>0, <1>3, <2>1, <2>2 DEF IInv, LockHeld, Verifying, Freezing, Active
<1>15. VerifiedSoFar'
  <2>1. ASSUME op.kind = "reset_calibration", pos = 4, ok
        PROVE  eeprom'[op.motor]["Offset"] = op.val
    <3>1. CurrentCall.mode = "plain" /\ CurrentCall.cmd = "Lock"
      BY <1>1, <1>p, <2>1, ScriptShapes
    <3>2. q.cmd = "Lock"
      BY <1>7, <3>1
    <3>3. eeprom' = eeprom
      BY <1>5, <3>2
    <3> QED BY <1>0, <2>1, <3>3 DEF IInv, VerifiedSoFar, Active
  <2>2. ASSUME op.kind = "freeze_calibration", ok, NEW p \in 2 .. 10, p < pos
        PROVE  eeprom'[op.motor][FreezeOrder[p - 1]] = op.val
    <3>1. eeprom[op.motor][FreezeOrder[p - 1]] = op.val
      BY <1>0, <2>2 DEF IInv, VerifiedSoFar, Active
    <3>2. FreezeOrder[p - 1] \in Registers
      BY DEF FreezeOrder, Registers
    <3>3. q.cmd # "Reset"
      <4>1. CASE pos \in 2 .. 10
        <5>1. CurrentCall = Verified(FreezeOrder[pos - 1])
          BY <1>1, <1>p, <2>2, <4>1, ScriptShapes
        <5>2. q.cmd = VerifySteps[step]
          BY <1>6, <5>1 DEF Verified
        <5> QED BY <1>p, <5>2 DEF VerifySteps, ReadBack
      <4>2. CASE pos = 11
        <5>1. CurrentCall = BestEffort("WriteRam", "Offset")
          BY <1>1, <1>p, <2>2, <4>2, ScriptShapes
        <5>2. q.cmd = "WriteRam"
          BY <1>7, <5>1 DEF BestEffort
        <5> QED BY <5>2
      <4>3. CASE pos \in {12, 13}
        <5>1. CurrentCall.mode = "plain" /\ CurrentCall.cmd \in {"Lock", "Action"}
          BY <1>1, <1>p, <2>2, <4>3, ScriptShapes
        <5> QED BY <1>7, <5>1
      <4> QED BY <1>p, <2>2, <4>1, <4>2, <4>3
    <3>4. CASE q.cmd # "Action"
      BY <1>5, <3>1, <3>3, <3>4
    <3>5. CASE q.cmd = "Action"
      <4>1. pos > 3 \/ (pos = 3 /\ step > 2)
        <5>1. CASE pos > 3
          BY <5>1
        <5>2. CASE pos = 3
          <6>1. CurrentCall = Verified(FreezeOrder[3 - 1])
            BY <1>1, <1>p, <2>2, <5>2, ScriptShapes
          <6>2. q.cmd = VerifySteps[step]
            BY <1>6, <6>1 DEF Verified
          <6> QED BY <1>p, <3>5, <5>2, <6>2 DEF VerifySteps, ReadBack
        <5> QED BY <1>p, <2>2, <5>1, <5>2
      <4>2. pending[op.motor] # NoWrite => pending[op.motor].val = op.val
        BY <1>0, <2>2, <4>1 DEF IInv, OwnPending, Freezing, Active
      <4> QED BY <1>2, <1>5, <3>1, <3>2, <3>5, <4>2
    <3> QED BY <3>4, <3>5
  <2> QED BY <1>0, <2>1, <2>2 DEF VerifiedSoFar
<1>16. VerifiedSound' /\ LockedWhenOk'
  BY <1>0 DEF VerifiedSound, LockedWhenOk, Returned
<1> QED
  BY <1>8, <1>9, <1>10, <1>11, <1>12, <1>13, <1>14, <1>15, <1>16, <1>17, <1>18 DEF IInv

LEMMA InitIInv == Init => IInv
<1> SUFFICES ASSUME Init PROVE IInv
  OBVIOUS
<1>1. line = << >> /\ Len(line) = 0 /\ answered = FALSE /\ stage = "idle" /\ out = "none"
  BY EmptySeq DEF Init, LinkInit
<1>2. LineBound
  BY <1>1, BoundsAssumption DEF LineBound
<1>3. OwnReply /\ NoOldReadBack /\ DrainAfterReadBack /\ InStep /\ RawAlone
  BY <1>1 DEF OwnReply, NoOldReadBack, DrainAfterReadBack, InStep, RawAlone, Verifying, Active
<1>4. OwnPending /\ StagedOwn /\ LockHeld /\ VerifiedSoFar
  BY <1>1 DEF OwnPending, StagedOwn, LockHeld, VerifiedSoFar, Freezing, Verifying, Active
<1>5. VerifiedSound /\ LockedWhenOk
  BY <1>1 DEF VerifiedSound, LockedWhenOk, Returned
<1> QED BY <1>2, <1>3, <1>4, <1>5, InitTypeOK DEF IInv

LEMMA NextIInv ==
    ASSUME MaxStale < ReadBack
    PROVE  IInv /\ [Next]_vars => IInv'
<1> SUFFICES ASSUME IInv, [Next]_vars PROVE IInv'
  OBVIOUS
<1>t. TypeOK'
  BY NextTypeOK DEF IInv
<1>1. ASSUME NEW o \in Operations, Start(o) PROVE IInv'
  BY <1>t, <1>1, StartKeeps
<1>2. CASE Send
  BY <1>t, <1>2, SendKeeps
<1>3. CASE ReceiveOk
  BY <1>t, <1>3, ReceiveOkKeeps
<1>4. CASE ReceiveErr
  BY <1>t, <1>4, ReceiveErrKeeps
<1>5. CASE Timeout
  BY <1>t, <1>5, TimeoutKeeps
<1>6. CASE Drain
  BY <1>t, <1>6, DrainKeeps
<1>7. CASE Crash
  BY <1>t, <1>7, CrashKeeps
<1>8. CASE UNCHANGED vars
  BY <1>t, <1>8
     DEF vars, deviceVars, linkVars, hostVars, IInv, LineBound, OwnReply, NoOldReadBack,
         DrainAfterReadBack, InStep, RawAlone, OwnPending, StagedOwn, LockHeld, VerifiedSoFar, VerifiedSound,
         LockedWhenOk, Own, Active, Verifying, Freezing, Returned, CurrentCall,
         CurrentRequest, ReadingBack
<1> QED
  BY <1>1, <1>2, <1>3, <1>4, <1>5, <1>6, <1>7, <1>8
     DEF Next, HostStep, StartRaw, StartWriteEeprom, StartWriteEepromVerified,
         StartResetCalibration, StartFreezeCalibration

\* The inductive invariant holds of every behaviour, as long as fewer replies
\* can be overdue than a verified write has steps.
THEOREM Invariance ==
    ASSUME MaxStale < ReadBack
    PROVE  Spec => []IInv
BY InitIInv, NextIInv, PTL DEF Spec

\* Ok(true) of write_eeprom_verified, reset_calibration and freeze_calibration
\* is never wrong, for any servos, contents, operations and faults.
THEOREM VerifiedSoundHolds ==
    ASSUME MaxStale < ReadBack
    PROVE  Spec => []VerifiedSound
<1>1. IInv => VerifiedSound
  BY DEF IInv
<1> QED BY <1>1, Invariance, PTL

\* An EEPROM operation that returns Ok with no acknowledgement overdue leaves
\* the EEPROM locked.
THEOREM LockedWhenOkHolds ==
    ASSUME MaxStale < ReadBack
    PROVE  Spec => []LockedWhenOk
<1>1. IInv => LockedWhenOk
  BY DEF IInv
<1> QED BY <1>1, Invariance, PTL

\* With no acknowledgement overdue, a reply that is accepted answers the request
\* the driver has just sent.
THEOREM AcceptedIsGenuineHolds ==
    ASSUME MaxStale < ReadBack
    PROVE  Spec => AcceptedIsGenuine
<1>1. ASSUME IInv, ReceiveOk, quiet
      PROVE  answered /\ Head(line).answers = CurrentRequest
  <2>0. /\ TypeOK /\ OwnReply /\ NoOldReadBack /\ InStep /\ RawAlone
        /\ stage = "await" /\ line # << >> /\ Accepts(CurrentRequest, Head(line))
    BY <1>1 DEF IInv, ReceiveOk
  <2>h. Head(line) = line[1] /\ Len(line) \in Nat /\ Len(line) >= 1
    BY <2>0, HeadTailProperties, LenProperties DEF TypeOK, LinkTypeOK
  <2>1. CASE CurrentRequest.cmd # "Read"
    BY <1>1, <2>0, <2>1, OwnAcknowledgement
  <2>2. CASE ReadingBack
    BY <2>0, <2>2, <2>h, OwnReadBack DEF OwnReply
  <2>3. CASE CurrentRequest.cmd = "Read" /\ ~ ReadingBack
    <3>1. op.kind = "raw"
      BY <2>0, <2>3, OnlyRawReads
    <3>2. Own(1)
      BY <1>1, <2>0, <2>h, <3>1 DEF RawAlone, Active
    <3> QED BY <2>0, <2>h, <3>2 DEF Own, OwnReply
  <2> QED BY <2>1, <2>2, <2>3
<1>2. IInv /\ [Next]_vars =>
          [ReceiveOk /\ quiet => answered /\ Head(line).answers = CurrentRequest]_vars
  BY <1>1
<1> QED BY <1>2, Invariance, PTL DEF Spec, AcceptedIsGenuine

\* When a quiet operation sends ACTION, nothing but its own write is staged.
LEMMA StagedAtAction ==
    ASSUME IInv, stage = "send", quiet, op.kind # "raw", CurrentRequest.cmd = "Action"
    PROVE  pending[op.motor] \in {NoWrite, [reg |-> CurrentCall.reg, val |-> op.val]}
<1>0. /\ op \in Operation /\ pos \in 1 .. 13 /\ pos <= Len(Script(op))
      /\ step \in 1 .. ReadBack /\ CurrentCall = Script(op)[pos] /\ Active
  BY RequestInProgress DEF IInv, TypeOK, CurrentCall, Active
<1>1. CASE CurrentCall.mode = "verified"
  <2>1. step = 3
    BY <1>0, <1>1 DEF CurrentRequest, VerifySteps, ReadBack
  <2> QED BY <1>0, <1>1, <2>1 DEF IInv, StagedOwn, Verifying
<1>2. CASE CurrentCall.mode # "verified"
  <2>1. CurrentCall.cmd = "Action"
    BY <1>2 DEF CurrentRequest
  <2>2. CASE op.kind = "write_eeprom"
    <3>1. pos = 3
      BY <1>0, <2>1, <2>2, ScriptShapes
    <3> QED BY <1>0, <2>2, <3>1 DEF IInv, StagedOwn
  <2>3. CASE op.kind = "write_eeprom_verified"
    <3>1. CurrentCall = Verified(op.reg)
      BY <1>0, <2>3, ScriptShapes
    <3> QED BY <1>2, <3>1 DEF Verified
  <2>4. CASE op.kind = "reset_calibration"
    BY <1>0, <2>1, <2>4, ScriptShapes
  <2>5. CASE op.kind = "freeze_calibration"
    <3>1. pos > 10
      <4>1. CASE pos \in 2 .. 10
        <5>1. CurrentCall = Verified(FreezeOrder[pos - 1])
          BY <1>0, <2>5, <4>1, ScriptShapes
        <5> QED BY <1>2, <5>1 DEF Verified
      <4>2. CASE pos = 1
        BY <1>0, <2>1, <2>5, <4>2, ScriptShapes
      <4> QED BY <1>0, <4>1, <4>2
    <3> QED BY <1>0, <2>5, <3>1 DEF IInv, StagedOwn, Freezing
  <2> QED BY <1>0, <2>2, <2>3, <2>4, <2>5 DEF Operation, Kinds
<1> QED BY <1>1, <1>2

\* An operation that starts with no acknowledgement overdue commits only its own
\* writes, never one that an earlier operation left staged.
THEOREM NoForeignCommitHolds ==
    ASSUME MaxStale < ReadBack
    PROVE  Spec => NoForeignCommit
<1>1. ASSUME IInv, [Next]_vars, quiet, stage = "send", op.kind # "raw",
             CurrentRequest.cmd # "Reset",
             NEW m \in Motors, NEW r \in Registers, eeprom'[m][r] # eeprom[m][r]
      PROVE  m = op.motor /\ r = CurrentCall.reg /\ eeprom'[m][r] = op.val
  <2> DEFINE q == CurrentRequest
  <2>0. TypeOK /\ DeviceTypeOK /\ q \in Request /\ q.motor = op.motor /\ q.motor \in Motors
    BY <1>1, RequestInProgress DEF IInv, TypeOK, CurrentRequest, Request
  <2>1. Send
    <3>1. ~ (UNCHANGED eeprom)
      BY <1>1
    <3>2. ~ Crash /\ ~ ReceiveOk /\ ~ ReceiveErr /\ ~ Timeout /\ ~ Drain
      BY <1>1, <3>1 DEF Crash, ReceiveOk, ReceiveErr, Timeout, Drain, deviceVars
    <3>3. \A o \in Operations : ~ Start(o)
      BY <1>1 DEF Start
    <3>4. ~ (UNCHANGED vars)
      BY <3>1 DEF vars, deviceVars
    <3> QED
      BY <1>1, <3>2, <3>3, <3>4
         DEF Next, HostStep, StartRaw, StartWriteEeprom, StartWriteEepromVerified,
             StartResetCalibration, StartFreezeCalibration
  <2>2. Execute(q) \/ CommitLost(q) \/ UNCHANGED deviceVars
    BY <2>1 DEF Send, Transmit, Answered, RequestLost, ReplyLost, ReplyBad,
                AnsweredUncommitted
  <2>3. Commit(q)
    BY <1>1, <2>2
       DEF Execute, Passive, SetLock, Stage, FactoryReset, CommitLost, deviceVars
  <2>4. q.cmd = "Action"
    BY <2>3 DEF Commit
  <2>5. pending[op.motor] \in {NoWrite, [reg |-> CurrentCall.reg, val |-> op.val]}
    BY <1>1, <2>4, StagedAtAction
  <2>6. /\ pending[op.motor] # NoWrite
        /\ eeprom' = [eeprom EXCEPT ![op.motor][pending[op.motor].reg] = pending[op.motor].val]
    BY <1>1, <2>0, <2>3 DEF Commit
  <2>7. eeprom' = [eeprom EXCEPT ![op.motor][CurrentCall.reg] = op.val]
    <3> DEFINE own == [reg |-> CurrentCall.reg, val |-> op.val]
    <3>1. pending[op.motor] = own
      BY <2>5, <2>6
    <3>2. own.reg = CurrentCall.reg /\ own.val = op.val
      OBVIOUS
    <3> HIDE DEF own
    <3> QED BY <2>6, <3>1, <3>2
  <2> HIDE DEF q
  <2> QED BY <1>1, <2>0, <2>7 DEF DeviceTypeOK
<1>2. IInv /\ [Next]_vars =>
        [quiet /\ stage = "send" /\ op.kind # "raw" /\ CurrentRequest.cmd # "Reset" =>
            \A m \in Motors, r \in Registers :
                eeprom'[m][r] # eeprom[m][r] =>
                    m = op.motor /\ r = CurrentCall.reg /\ eeprom'[m][r] = op.val]_vars
  BY <1>1
<1> QED BY <1>2, Invariance, PTL DEF Spec, NoForeignCommit

(***************************************************************************)
(* The operations implement the abstract store.                            *)
(***************************************************************************)
LEMMA StoreInit == Init => Store!Init
<1>1. NoOperation \notin Operations
  BY OperationsAssumption DEF NoOperation, Operation, Kinds
<1>2. ASSUME Init PROVE eeprom \in [Motors -> [Registers -> Images]]
  BY <1>2 DEF Init, DeviceInit
<1> QED BY <1>1, <1>2 DEF Init, Store!Init

\* A request changes the servo it is for, and no other.
LEMMA OneServo ==
    ASSUME DeviceTypeOK, NEW q \in Request, Transmit(q), NEW m \in Motors, m # q.motor
    PROVE  eeprom'[m] = eeprom[m]
<1>1. Execute(q) \/ CommitLost(q) \/ UNCHANGED deviceVars
  BY DEF Transmit, Answered, RequestLost, ReplyLost, ReplyBad, AnsweredUncommitted
<1>2. CASE Commit(q)
  BY <1>2 DEF Commit, DeviceTypeOK
<1>3. CASE FactoryReset(q)
  BY <1>3 DEF FactoryReset, DeviceTypeOK
<1> QED BY <1>1, <1>2, <1>3 DEF Execute, Passive, SetLock, Stage, CommitLost, deviceVars

\* What a step of an operation in progress may look like to its caller.
GoesOn == stage' # "idle" /\ out' = out
GivesBack == stage' = "idle" /\ out' \in {"ok", "unverified", "err"}

LEMMA NextCallSeen ==
    ASSUME NEW good \in BOOLEAN, NextCall(good)
    PROVE  op' = op /\ (GoesOn \/ GivesBack)
BY DEF NextCall, Finish, GoesOn, GivesBack

LEMMA NextAttemptSeen ==
    ASSUME NextAttempt
    PROVE  op' = op /\ (GoesOn \/ GivesBack)
BY NextCallSeen DEF NextAttempt, GoesOn

LEMMA FailSeen ==
    ASSUME Fail
    PROVE  op' = op /\ (GoesOn \/ GivesBack)
BY NextCallSeen DEF Fail, Finish, GoesOn, GivesBack

LEMMA ReceiptSeen ==
    ASSUME ReceiveOk \/ ReceiveErr \/ Timeout \/ Drain
    PROVE  /\ op' = op /\ eeprom' = eeprom /\ stage # "idle"
           /\ GoesOn \/ GivesBack
<1>1. CASE ReceiveOk
  <2>1. (GoesOn \/ GivesBack) /\ op' = op
    BY <1>1, NextCallSeen, NextAttemptSeen DEF ReceiveOk, AdvanceStep, GoesOn
  <2> QED BY <1>1, <2>1 DEF ReceiveOk, TakeReply, deviceVars
<1>2. CASE ReceiveErr
  BY <1>2, FailSeen DEF ReceiveErr, TakeReply, deviceVars
<1>3. CASE Timeout
  BY <1>3, FailSeen DEF Timeout, WaitExpires, deviceVars
<1>4. CASE Drain
  BY <1>4, NextAttemptSeen DEF Drain, DiscardArrived, deviceVars
<1> QED BY <1>1, <1>2, <1>3, <1>4

LEMMA StoreStep == IInv /\ IInv' /\ [Next]_vars => [Store!Next]_(Store!vars)
<1> SUFFICES ASSUME IInv, IInv', [Next]_vars
             PROVE  Store!Next \/ UNCHANGED Store!vars
  OBVIOUS
<1>0. TypeOK /\ TypeOK' /\ VerifiedSound'
  BY DEF IInv
<1>1. ASSUME NEW o \in Operations, Start(o) PROVE Store!Next
  BY <1>1 DEF Start, deviceVars, Store!Next, Store!Begin
<1>2. CASE Send
  <2>1. DeviceTypeOK /\ CurrentRequest \in Request /\ CurrentRequest.motor = op.motor
        /\ op # NoOperation
    BY <1>0, <1>2, RequestInProgress DEF TypeOK, Send, CurrentRequest
  <2>2. Transmit(CurrentRequest) /\ stage # "idle" /\ stage' # "idle"
        /\ UNCHANGED << op, out >>
    BY <1>2 DEF Send
  <2>3. eeprom' \in [Motors -> [Registers -> Images]]
    BY <1>0 DEF TypeOK, DeviceTypeOK
  <2>4. \A m \in Motors : m # op.motor => eeprom'[m] = eeprom[m]
    BY <2>1, <2>2, OneServo
  <2> QED BY <2>2, <2>3, <2>4 DEF Store!Next, Store!Program
<1>3. CASE ReceiveOk \/ ReceiveErr \/ Timeout \/ Drain
  <2>1. op' = op /\ eeprom' = eeprom /\ stage # "idle" /\ (GoesOn \/ GivesBack)
    BY <1>3, ReceiptSeen
  <2>2. CASE GoesOn
    BY <2>1, <2>2 DEF GoesOn, Store!vars
  <2>3. CASE GivesBack
    <3>1. CASE out' = "ok"
      <4>1. op \in Operations
        BY <1>0, <2>1 DEF TypeOK
      <4>2. ASSUME NEW r \in Promised(op) PROVE eeprom[op.motor][r] = op.val
        <5>1. op.kind \in VerifyingKinds
          BY <4>2 DEF Promised, VerifyingKinds
        <5> QED BY <1>0, <2>1, <2>3, <3>1, <4>2, <5>1
                DEF VerifiedSound, Returned, GivesBack
      <4>3. Store!Holds
        BY <4>1, <4>2 DEF Store!Holds
      <4> QED BY <2>1, <2>3, <3>1, <4>3 DEF GivesBack, Store!Next, Store!Return
    <3>2. CASE out' # "ok"
      BY <2>1, <2>3, <3>2 DEF GivesBack, Store!Next, Store!Return
    <3> QED BY <3>1, <3>2
  <2> QED BY <2>1, <2>2, <2>3
<1>4. CASE Crash
  BY <1>4 DEF Crash, deviceVars, Store!Next, Store!Return
<1>5. CASE UNCHANGED vars
  BY <1>5 DEF vars, deviceVars, hostVars, Store!vars
<1> QED
  BY <1>1, <1>2, <1>3, <1>4, <1>5
     DEF Next, HostStep, StartRaw, StartWriteEeprom, StartWriteEepromVerified,
         StartResetCalibration, StartFreezeCalibration

\* driver.rs implements VerifiedStore: the line, the retries and the lock are details.
THEOREM StoreKeptHolds ==
    ASSUME MaxStale < ReadBack
    PROVE  Spec => StoreKept
<1>1. Spec => []IInv
  BY Invariance
<1> QED BY <1>1, StoreInit, StoreStep, PTL DEF Spec, StoreKept, Store!Spec
==============================================================================
