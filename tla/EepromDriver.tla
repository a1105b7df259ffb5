---------------------------- MODULE EepromDriver -----------------------------
(***************************************************************************)
(* driver.rs: the operations that program a servo's EEPROM over a link     *)
(* that loses, damages and delays replies.                                 *)
(*                                                                         *)
(* An operation is a script of calls.  A call sends one request and waits  *)
(* for its reply; an error ends the operation at once (the ? of the code), *)
(* except in a best-effort call and in the read-back of a verified write,  *)
(* which drains the line and tries the whole write again.                  *)
(***************************************************************************)
EXTENDS PacketLink

CONSTANT Operations   \* the operations the caller may ask for

(***************************************************************************)
(* Operations and their scripts.                                           *)
(***************************************************************************)
Kinds == {"raw", "write_eeprom", "write_eeprom_verified", "reset_calibration",
          "freeze_calibration"}

\* cmd is what a raw operation sends and reg what it, or a single write,
\* addresses.  val is the image written; for freeze_calibration it stands for
\* the contents meant for each of the nine registers.
Operation == [kind : Kinds, cmd : Commands, motor : Motors, reg : Registers, val : Images]

NoOperation == [kind |-> "none"]

ASSUME OperationsAssumption ==
    /\ Operations \subseteq Operation
    /\ \A o \in Operations : o.kind = "reset_calibration" => o.reg = "Offset" /\ o.val = Zero

Modes == {"plain", "best_effort", "verified"}
Call == [mode : Modes, cmd : Commands, reg : Registers]

Plain(cmd, reg) == [mode |-> "plain", cmd |-> cmd, reg |-> reg]
BestEffort(cmd, reg) == [mode |-> "best_effort", cmd |-> cmd, reg |-> reg]
Verified(reg) == [mode |-> "verified", cmd |-> "Unlock", reg |-> reg]

\* Variant: the EEPROM is left unlocked.
WriteEepromCallsUnlocked(reg) ==
    << Plain("Unlock", reg), Plain("RegWrite", reg), Plain("Action", reg) >>

\* unlock -> reg_write -> action -> lock
WriteEepromCalls(reg) ==
    << Plain("Unlock", reg), Plain("RegWrite", reg), Plain("Action", reg), Plain("Lock", reg) >>

ResetCalls ==
    << Plain("Unlock", "Offset"), Plain("Reset", "Offset"), Verified("Offset"),
       Plain("Lock", "Offset") >>

\* Variant: the final action takes the place of the final lock.
FreezeCallsUnlocked ==
    [p \in 1 .. 13 |->
        CASE p = 1       -> Plain("Unlock", "Offset")
          [] p \in 2..10 -> Verified(FreezeOrder[p - 1])
          [] p = 11      -> BestEffort("WriteRam", "Offset")
          [] p = 12      -> Plain("Unlock", "Offset")
          [] p = 13      -> Plain("Action", "Offset")]

FreezeCalls ==
    [p \in 1 .. 13 |->
        CASE p = 1       -> Plain("Unlock", "Offset")
          [] p \in 2..10 -> Verified(FreezeOrder[p - 1])
          [] p = 11      -> BestEffort("WriteRam", "Offset")
          [] p = 12      -> Plain("Lock", "Offset")
          [] p = 13      -> Plain("Action", "Offset")]

Script(o) ==
    CASE o.kind = "raw"                   -> << Plain(o.cmd, o.reg) >>
      [] o.kind = "write_eeprom"          -> WriteEepromCalls(o.reg)
      [] o.kind = "write_eeprom_verified" -> << Verified(o.reg) >>
      [] o.kind = "reset_calibration"     -> ResetCalls
      [] o.kind = "freeze_calibration"    -> FreezeCalls

\* Variant: the write is committed before it is staged.
VerifyStepsSwapped == << "Unlock", "Action", "RegWrite", "Lock", "Read" >>

\* A verified write: write_eeprom's four requests, then the read-back.
VerifySteps == << "Unlock", "RegWrite", "Action", "Lock", "Read" >>
ReadBack == 5

MaxRetries == 5

(***************************************************************************)
(* State of the operation in progress.                                     *)
(***************************************************************************)
VARIABLES op,        \* the operation, or NoOperation before the first
          pos,       \* the call of its script
          step,      \* the step of a verified write (1 in other calls)
          attempt,   \* write_eeprom_verified's attempt
          stage,     \* idle, send, await or drain
          ok,        \* the code's `ok': no verified write gave up
          quiet,     \* no acknowledgement was overdue when the operation
                     \* started, or left so by a best-effort call (history)
          out        \* how the last operation ended

hostVars == << op, pos, step, attempt, stage, ok, quiet, out >>
vars == << deviceVars, linkVars, hostVars >>

CurrentCall == Script(op)[pos]

CurrentRequest ==
    [cmd   |-> IF CurrentCall.mode = "verified" THEN VerifySteps[step] ELSE CurrentCall.cmd,
     motor |-> op.motor,
     reg   |-> CurrentCall.reg,
     val   |-> op.val]

LastCall == pos = Len(Script(op))

TypeOK ==
    /\ DeviceTypeOK
    /\ LinkTypeOK
    /\ op \in Operations \cup {NoOperation}
    /\ stage \in {"idle", "send", "await", "drain"}
    /\ step \in 1 .. ReadBack
    /\ attempt \in 1 .. MaxRetries
    /\ ok \in BOOLEAN
    /\ quiet \in BOOLEAN
    /\ out \in {"none", "ok", "unverified", "err", "crashed"}
    /\ pos \in 1 .. 13
    /\ stage # "idle" => op # NoOperation /\ pos <= Len(Script(op))

Init ==
    /\ DeviceInit
    /\ LinkInit
    /\ op = NoOperation
    /\ pos = 1 /\ step = 1 /\ attempt = 1
    /\ stage = "idle"
    /\ ok = TRUE
    /\ quiet = TRUE
    /\ out = "none"

(***************************************************************************)
(* The caller.                                                             *)
(***************************************************************************)
Start(o) ==
    /\ stage = "idle"
    /\ op' = o
    /\ pos' = 1 /\ step' = 1 /\ attempt' = 1
    /\ stage' = "send"
    /\ ok' = TRUE
    /\ quiet' = (line = << >>)
    /\ out' = "none"
    /\ UNCHANGED << deviceVars, linkVars >>

StartRaw == \E o \in Operations : o.kind = "raw" /\ Start(o)
StartWriteEeprom == \E o \in Operations : o.kind = "write_eeprom" /\ Start(o)
StartWriteEepromVerified ==
    \E o \in Operations : o.kind = "write_eeprom_verified" /\ Start(o)
StartResetCalibration == \E o \in Operations : o.kind = "reset_calibration" /\ Start(o)
StartFreezeCalibration == \E o \in Operations : o.kind = "freeze_calibration" /\ Start(o)

(***************************************************************************)
(* The steps of an operation.                                              *)
(***************************************************************************)
Finish(result) ==
    /\ stage' = "idle"
    /\ out' = result
    /\ UNCHANGED << op, pos, step, attempt >>

\* Variant: `ok = ...' for `ok &= ...', which forgets an earlier failure.
NextCallForgetful(good) ==
    /\ ok' = good
    /\ IF LastCall
       THEN Finish(IF good THEN "ok" ELSE "unverified")
       ELSE /\ pos' = pos + 1
            /\ step' = 1 /\ attempt' = 1
            /\ stage' = "send"
            /\ UNCHANGED << op, out >>

\* The call returned: on to the next one, with `good' folded into `ok'.
NextCall(good) ==
    /\ ok' = (ok /\ good)
    /\ IF LastCall
       THEN Finish(IF ok /\ good THEN "ok" ELSE "unverified")
       ELSE /\ pos' = pos + 1
            /\ step' = 1 /\ attempt' = 1
            /\ stage' = "send"
            /\ UNCHANGED << op, out >>

\* Variant: a retry that is not counted.
NextAttemptUncounted ==
    /\ step' = 1
    /\ stage' = "send"
    /\ UNCHANGED << op, pos, attempt, ok, out >>

\* write_eeprom_verified's loop: the whole write again, or give up.
NextAttempt ==
    IF attempt < MaxRetries
    THEN /\ attempt' = attempt + 1
         /\ step' = 1
         /\ stage' = "send"
         /\ UNCHANGED << op, pos, ok, out >>
    ELSE NextCall(FALSE)

Send ==
    /\ stage = "send"
    /\ Transmit(CurrentRequest)
    /\ stage' = "await"
    /\ UNCHANGED << op, pos, step, attempt, ok, quiet, out >>

AdvanceStep ==
    /\ step' = step + 1
    /\ stage' = "send"
    /\ UNCHANGED << op, pos, attempt, ok, out >>

ReadingBack == CurrentCall.mode = "verified" /\ step = ReadBack

\* Variant: reading something back is enough.
ReadbackUnchecked(reply) == TRUE

\* The read-back compares what it was given with what it wrote.
ReadbackMatches(reply) == reply.data = op.val

ReceiveOk ==
    /\ stage = "await"
    /\ line # << >>
    /\ Accepts(CurrentRequest, Head(line))
    /\ TakeReply
    /\ \/ CurrentCall.mode # "verified" /\ NextCall(TRUE)
       \/ CurrentCall.mode = "verified" /\ step < ReadBack /\ AdvanceStep
       \/ ReadingBack /\ ReadbackMatches(Head(line)) /\ NextCall(TRUE)
       \/ ReadingBack /\ ~ ReadbackMatches(Head(line)) /\ NextAttempt
    /\ UNCHANGED quiet

\* An error: a reply that async_read refuses, or none in time.  After a
\* best-effort call that fails its acknowledgement may still come.
Fail ==
    \/ /\ CurrentCall.mode = "best_effort"
       /\ NextCall(TRUE)
       /\ quiet' = FALSE
    \/ /\ ReadingBack
       /\ stage' = "drain"
       /\ UNCHANGED << op, pos, step, attempt, ok, quiet, out >>
    \/ /\ CurrentCall.mode # "best_effort"
       /\ ~ ReadingBack
       /\ Finish("err")
       /\ UNCHANGED << ok, quiet >>

ReceiveErr ==
    /\ stage = "await"
    /\ line # << >>
    /\ ~ Accepts(CurrentRequest, Head(line))
    /\ TakeReply
    /\ Fail

Timeout ==
    /\ stage = "await"
    /\ WaitExpires
    /\ Fail

Drain ==
    /\ stage = "drain"
    /\ DiscardArrived
    /\ NextAttempt
    /\ UNCHANGED quiet

\* The process dies.  The servo keeps its state and the next process opens
\* the port with any part of the line still to come.
Crash ==
    /\ stage # "idle"
    /\ Fault
    /\ stage' = "idle"
    /\ out' = "crashed"
    /\ answered' = FALSE
    /\ \E n \in 0 .. Len(line) :
          line' = SubSeq(line, n + 1, Len(line)) /\ Len(line) - n <= MaxStale
    /\ UNCHANGED << deviceVars, op, pos, step, attempt, ok, quiet >>

HostStep == Send \/ ReceiveOk \/ ReceiveErr \/ Timeout \/ Drain

Next ==
    \/ StartRaw \/ StartWriteEeprom \/ StartWriteEepromVerified
    \/ StartResetCalibration \/ StartFreezeCalibration
    \/ HostStep \/ Crash

Spec == Init /\ [][Next]_vars

\* Every host step is a timer that fires or a reply that tokio delivers.
FairSpec == Spec /\ WF_vars(HostStep)

(***************************************************************************)
(* Properties.                                                             *)
(***************************************************************************)
VerifyingKinds == {"write_eeprom_verified", "reset_calibration", "freeze_calibration"}

\* The registers an operation vouches for when it returns Ok(true).
Promised(o) ==
    CASE o.kind = "write_eeprom_verified" -> {o.reg}
      [] o.kind = "reset_calibration"     -> {"Offset"}
      [] o.kind = "freeze_calibration"    -> Registers
      [] OTHER                            -> {}

Returned(results) == stage = "idle" /\ out \in results

\* Ok(true) is never wrong: every register the operation vouches for holds what
\* it wrote, whatever was lost, damaged or overdue (driver.rs 173-263), as long
\* as fewer than five replies are overdue at once.
VerifiedSound ==
    Returned({"ok"}) /\ op.kind \in VerifyingKinds =>
        \A r \in Promised(op) : eeprom[op.motor][r] = op.val

\* An EEPROM operation that returns Ok leaves the EEPROM locked, unless an
\* overdue acknowledgement could pass for the one of its lock request.
LockedWhenOk ==
    Returned({"ok", "unverified"}) /\ op.kind # "raw" /\ quiet => ~ unlocked[op.motor]

\* With no acknowledgement overdue, every reply the driver accepts is the
\* reply to the request it has just sent (packet.rs carries no way to tell).
AcceptedIsGenuine ==
    [][ReceiveOk /\ quiet => answered /\ Head(line).answers = CurrentRequest]_vars

\* An operation that meets no overdue acknowledgement commits nothing but its
\* own writes: a write staged by an earlier, failed operation is never carried
\* into EEPROM by the ACTION of a later one.
NoForeignCommit ==
    [][quiet /\ stage = "send" /\ op.kind # "raw" /\ CurrentRequest.cmd # "Reset" =>
          \A m \in Motors, r \in Registers :
              eeprom'[m][r] # eeprom[m][r] =>
                  m = op.motor /\ r = CurrentCall.reg /\ eeprom'[m][r] = op.val]_vars

(***************************************************************************)
(* The inductive invariant behind VerifiedSound, LockedWhenOk and          *)
(* AcceptedIsGenuine.                                                      *)
(***************************************************************************)
Active == stage # "idle"
Verifying == Active /\ CurrentCall.mode = "verified"
Freezing == Active /\ op.kind = "freeze_calibration"

\* Reply i answers the request in progress; every other one is overdue.
Own(i) == answered /\ i = Len(line)

LineBound ==
    /\ stage = "await" /\ answered => Len(line) <= MaxStale + 1
    /\ ~ (stage = "await" /\ answered) => Len(line) <= MaxStale

\* What an answered request has done by the time its reply is on the line.
OwnReply ==
    answered =>
        /\ stage = "await"
        /\ line # << >>
        /\ line[Len(line)].answers = CurrentRequest
        /\ CurrentRequest.cmd = "Read" =>
              line[Len(line)].data = eeprom[op.motor][CurrentCall.reg]
        /\ CurrentRequest.cmd = "RegWrite" =>
              pending[op.motor] = [reg |-> CurrentCall.reg, val |-> op.val]
        /\ CurrentRequest.cmd = "Action" => pending[op.motor] = NoWrite
        /\ CurrentRequest.cmd = "Lock" => ~ unlocked[op.motor]

\* Each of the four steps before the read-back takes one reply off the line, and
\* fails if it is a register's: fewer than five overdue replies are used up.
NoOldReadBack ==
    Verifying /\ stage # "drain" =>
        \A i \in 1 .. Len(line) :
            line[i].answers.cmd = "Read" => Own(i) \/ i <= ReadBack - step

\* Only a failed read-back drains.
DrainAfterReadBack == stage = "drain" => ReadingBack

\* No acknowledgement is overdue: after a quiet start, and in the call of a
\* freeze that follows its first verified write.
InStep ==
    Active /\ (quiet \/ (Freezing /\ ok /\ pos = 3)) =>
        \A i \in 1 .. Len(line) : line[i].answers.cmd = "Read" \/ Own(i)

\* A quiet raw command has the line to itself.
RawAlone ==
    Active /\ quiet /\ op.kind = "raw" =>
        CurrentCall.mode = "plain" /\ \A i \in 1 .. Len(line) : Own(i)

\* From the second verified write of a freeze on, a staged write is one of its own.
OwnPending ==
    Freezing /\ ok /\ (pos > 3 \/ (pos = 3 /\ (attempt > 1 \/ step > 2)))
        /\ pending[op.motor] # NoWrite =>
            pending[op.motor].val = op.val

\* In a quiet operation nothing but its own write is staged when it sends ACTION,
\* and nothing is once the ACTION is acknowledged.
StagedOwn ==
    Active /\ quiet =>
        /\ (Verifying /\ step = 3) \/ (op.kind = "write_eeprom" /\ pos = 3) =>
              pending[op.motor] \in {NoWrite, [reg |-> CurrentCall.reg, val |-> op.val]}
        /\ (Verifying /\ step > 3) \/ (Freezing /\ pos > 10) =>
              pending[op.motor] = NoWrite

LockHeld ==
    quiet /\ ((Verifying /\ step = ReadBack) \/ (Freezing /\ pos = 13)) =>
        ~ unlocked[op.motor]

VerifiedSoFar ==
    Active /\ ok =>
        /\ op.kind = "reset_calibration" /\ pos = 4 =>
              eeprom[op.motor]["Offset"] = op.val
        /\ op.kind = "freeze_calibration" =>
              \A p \in 2 .. 10 : p < pos => eeprom[op.motor][FreezeOrder[p - 1]] = op.val

IInv ==
    /\ TypeOK
    /\ LineBound /\ OwnReply /\ NoOldReadBack /\ DrainAfterReadBack /\ InStep /\ RawAlone
    /\ OwnPending /\ StagedOwn /\ LockHeld /\ VerifiedSoFar
    /\ VerifiedSound /\ LockedWhenOk

\* The operations are the abstract store's: one servo is changed, Ok(true) is
\* returned with every register it vouches for in place, and between two operations
\* nothing is written, whatever is overdue on the line (driver.rs 165-263).
Store == INSTANCE VerifiedStore
            WITH contents <- eeprom,
                 busy     <- stage # "idle",
                 Vouched  <- [o \in Operations |-> Promised(o)]
StoreKept == Store!Spec

\* Every operation returns: retries and waits are bounded.
Terminates == stage # "idle" ~> stage = "idle"

\* write_eeprom is "unlock -> reg_write -> action -> lock" (driver.rs:165): when
\* it has returned, the EEPROM is locked again.
LockedOnReturn ==
    Returned({"ok", "unverified", "err"}) /\ op.kind # "raw" => ~ unlocked[op.motor]
==============================================================================
