# Verification of the ST3215 servo driver, its calibration and its simulator UI

This directory holds TLA+ models of the code of this repository, the TLC runs
that check them on small instances, and proofs, checked by TLAPS, of what
matters most for every value of the constants. Paths below are relative to
`src/st3215/src` unless they say otherwise; `PROJECT.json` names, for every
definition that models code, the lines it stands for.

## 1. The system

Eight ST3215 bus servos, each with its own EEPROM, hang on one half-duplex
serial line. A Rust crate drives them, calibrates the arm that is built from
them, and is exported to Python. Beside it there is a MuJoCo simulation of the
arm with a web UI.

| Part | Code | State it keeps | Operations |
|---|---|---|---|
| Servo | not in the repository | EEPROM registers, Lock, the staged write, torque, goal | PING, READ, WRITE, REG_WRITE, ACTION, RESET |
| Packet protocol | `protocol/packet.rs` | nothing but the bytes on the line | `async_readwrite`: write a request, search the header, read, check id, checksum, fault flags and length |
| Driver | `driver.rs` | the port | raw commands, reads, RAM helpers, `write_eeprom`, `write_eeprom_verified`, `reset_calibration`, `freeze_calibration`, `drain`, `scan` |
| Units | `protocol/units.rs` | none | registers to positions, velocities, fractions |
| Arc | `calibrate.rs` | none | `calculate_arc`: recorded positions to the arc they lie on |
| Calibrator | `auto_calibrate/calibrator.rs` | positions recorded per motor, the stop flag | `prepare_motor`, `find_min`, `find_max`, `shift`, `go_to_float_position`, `save_calibration`, on `wait_for_stall` and `check_stop` |
| Sequence | `auto_calibrate/elrobot.rs` | where it is | `auto_calibrate_elrobot`: 58 steps over eight motors |
| Python binding | `py.rs` | driver, runtime, stop flag | blocking wrappers, `stop_calibration` |
| Web UI | `src/elrobot/simulation/control_ui.py` | `SharedState` under one lock | `/set`, `/cam`, `/reset_block`, `/state`, `/viewport`, streams; the simulation loop; the page's script |
| Servo reference | `src/elrobot/simulation/controller.py` | reference per joint | rate limit, deadband, jaw mimic |
| Model builder, scripts, assets | rest of `src/elrobot`, `src/pgripper` | none | text in, text out; drawing; data |

**Interactions.** The sequence calls the calibrator, which calls the driver,
which exchanges packets with a servo; everything is awaited in order in one task.
What runs beside it: whoever sets the stop flag, other Python threads, the servo,
and bytes that are still on their way. The UI's parts meet in `SharedState`: one handler thread
per HTTP request, and the simulation loop.

**What is hard.** Replies do not say what they answer, so after a timeout
the driver may be one reply behind. EEPROM writes take four requests, each of which may fail.
A staged write outlives the operation that staged it. A stop may come in the
middle of anything. The waits depend on a motor that may swing, creep, fault
or never move. Positions live on a circle, and the interesting arcs cross its
zero. `/set` writes joint by joint and may throw in between. `PROJECT.json`
lists these hazards one by one, each with its line and the properties that
watch it.

**What makes each part correct.**

- *Driver*: Ok(true) means that the registers hold what was written; Ok means
  that the lock is closed again; a reply is used only for its own request; no
  operation commits another one's write; every operation returns; seen from
  outside it is a store.
- *Packets and reads*: requests say how long they are; what a read returns is in
  one of the motor's registers; a scan reports no motor that is not there.
- *Arc*: no recorded position is left out; the arc that was swept is recovered
  and not its complement; midpoint, offset and goals lie on it.
- *Sweeps*: the offset that a primitive writes leaves it the whole of its way,
  whatever was read and whatever offset it replaces; the goals cover that way
  and end in time; a sweep ends at its limit and what it records are encoder
  positions (as the code stands it does neither, section 5).
- *Stall detection*: bounded, not fooled by a slow start, ends in one of three
  ways.
- *Calibration*: a stop ends motion and the run and leaves the arm limp (unless it
  comes after the last wait, section 5); the arm is held where it must be; Ok
  covers every motor.
- *UI*: nobody sees half a `/set`; no reset is lost; the servos' references
  come to the targets.

## 2. The modules

| Module | Models | State and actions |
|---|---|---|
| `ServoDevice` | the servo as the driver uses it | `eeprom`, `unlocked`, `pending`; one action per command |
| `PacketLink` (extends it) | `packet.rs` and the bus, in whole packets | `line`: replies in transit, in order; `Transmit` is a request with its fate, `TakeReply`, `WaitExpires`, `DiscardArrived` are the ends of a wait |
| `EepromDriver` (extends it) | the operations of `driver.rs` that write EEPROM | an operation is a script of calls; `pos`, `step`, `attempt` and `ok` are the code's program counter, retry counter and `ok &=`; `Start*`, `Send`, `ReceiveOk`, `ReceiveErr`, `Timeout`, `Drain`, `Crash` |
| `VerifiedStore` | abstract: what those operations promise | `contents`, the operation and its outcome; `Begin`, `Program`, `Return` |
| `EepromDriverProofs` | | the theorems about `EepromDriver`, its refinement of `VerifiedStore` too |
| `PacketBytes` | `packet.rs` byte by byte | operators only: `ToBytes`, and `AsyncRead`, which says what a wait makes of the bytes that reach it and how many it uses |
| `MotorUnits` | `units.rs` | operators only |
| `MotorReads` (extends both) | the reads, `scan`, `drain`, long writes and `sync_write` of `driver.rs` | `line`: bytes that earlier replies left behind; one action per call, one per ping of a scan |
| `MotorReadsProofs` | | the theorems about it, and lemmas about checksums, packets and joined sequences |
| `EncoderArc` | `calibrate.rs`, the arithmetic of `calibrator.rs` and `freeze_calibration` | operators only |
| `EncoderArcProofs` | | lemmas about those operators, for every resolution |
| `TravelArc` (extends it) | what is done with a motor's recorded positions | `readings`, `command`; `Sample`, `Stray`, `Save`, `GoToFloatPosition`, `NextSweep` |
| `TravelArcProofs` | | the theorems about it, on the lemmas of `EncoderArcProofs` |
| `EncoderFrame` (extends `EncoderArc`) | the offsets and goals of `find_min`, `find_max` and `shift`, what they read, and where they take a joint | the joint's travel and position, `offset`, the records, the primitive in progress; one action per primitive begun and per turn of its loop |
| `EncoderFrameProofs` | | the theorems about it, on the same lemmas |
| `StallWait` | abstract: what a wait promises | `stop`, `recorded`, `torque`, `result` |
| `StallDetector` | `wait_for_stall`; implements `StallWait` | `start`, `reads`, `stableCount` are the code's counters; `CheckStop`, `Read`, `Recover`, `ReadError` are one turn of the loop |
| `StallDetectorProofs` | | the theorems about it, the refinement too |
| `AutoCalibration` | `elrobot.rs` on the primitives of `calibrator.rs` | `at` is the step of the sequence, `stage` the place in a primitive; `torque`, `recorded`, `frozen`; one action per await that matters; `asked` and `late` are history: where in a run a stop came, and how many goals after it |
| `AutoCalibrationProofs` | | the theorems about it |
| `PyBinding` (extends `AutoCalibration`) | `py.rs` around a calibration | `gil`, the interpreter's lock, and `method`, what each Python thread has called; `Call`, `Enter`, `Calibrate`, `Leave` |
| `ControlUi` | `control_ui.py` and the reference of `controller.py` | `SharedState`, its lock, `request` and `next` per handler thread, the loop's stage, `ref`; one action per critical section, `/set`'s split by joint |
| `ControlUiProofs` | | the theorems about it |

The `MC*` modules give TLC its instances. Definitions called a *variant* in a
comment are faulty versions of the definition they stand before; they show that
the properties notice such faults, and nothing else uses them.

**How they fit together.** The same code is modelled at two grains where one
would be too coarse or too large. `PacketLink` has whole packets, so that
`EepromDriver` can go through long operations; `PacketBytes` has the bytes, so
that one can see what a piece of a late reply does to the next read.
`AutoCalibration` has torque, stops, faults and the order of the steps, and
takes a sweep as "goals until a stall"; `EncoderFrame` has the positions, and
takes no stops or faults. `AutoCalibration` stands on what `StallWait` promises,
and `StallDetector` keeps that promise. A verified write is one result in both
(written, given up, failed), which is what `VerifiedStore` says it is.

### What is assumed of what is not in the repository

- *The servo.* It executes requests in the order in which they come. REG_WRITE
  stages one write. ACTION applies it, or loses it when the EEPROM is locked.
  RESET restores all nine registers and drops the staged write, and may or may
  not close the lock. Giving a servo a goal position switches its torque on; the
  sequence itself relies on that, as it moves motor 8 first and never enables
  it. A goal is a displayed position, the encoder's less the offset, and the
  servo goes there without crossing the end of the displayed range, up to a
  small error (`Slack`) or to the joint's limit.
- *The bus.* Requests and replies are lost, come damaged or with fault flags, or
  later than the time-out, but never overtake each other. Under `PacketLink` a
  fragment is the same as a lost reply, because `async_read` searches for the next
  header; `MotorReads` has the fragments and looks at what that search does.
- *The caller.* One operation at a time (`&mut self`), any order, any mix.

### Choices a reader should know

- A register's contents are an abstract image. In `freeze_calibration` one
  image stands for the nine values. That makes a stale read of
  *another* register look like the right one, which the code's values
  would not: the model accepts more than the code, and `VerifiedSound` holds all the same.
- `read_position` always returns 0 as the code stands (finding `saved_arc`).
  `EncoderFrame` has that function, `ReadPosition`, between the servo's display and
  everything that is read: the offsets that are chosen, the limits that are
  looked for, the positions that are recorded. `StallDetector`, `TravelArc` and
  `AutoCalibration` leave open what is read: 0 for ever is one of their
  behaviours, and what they promise holds of it and of the code with the read put
  right.
- In `EncoderFrame` a joint has no obstacle but its two limits. A wait that reads 0 ends
  after its hundred reads with the motor anywhere between where it was and where
  its goal leads; between two primitives it is limp or still on its way, and may be
  anywhere. The servo may start with any offset of `OldOffsets`, as `prepare_motor`
  does not look at whether its reset took.
- In `MotorReads` a request and the wait for its reply are one step; the part
  of the bytes that arrives in time is chosen, and the rest waits on the line.
- In `ControlUi` the lock is a variable only where a critical section takes
  several steps (`/set`, which may throw); a section that is over in one step
  requires the lock to be free. A `/cam` of another client may carry a `lookat`, or
  a value that `float()` refuses. Video, viewport, joint angles on their way back
  and the end of the program are left out. Targets are numbers: a NaN, which
  `json.loads` accepts, would stay in the reference for ever.

## 3. The runs

| Run | Instance | Shows |
|---|---|---|
| `driver` | one servo, three registers two of which are worn, all of `freeze_calibration`'s thirteen calls beside the other operations and three raw commands; 2 faults, 2 overdue replies | `VerifiedSound`, `LockedWhenOk`, `AcceptedIsGenuine`, `NoForeignCommit`; `StoreKept`: `EepromDriver` implements `VerifiedStore`; `Terminates`; and that `IInv`, the invariant of the proofs, holds, `TypeOK` among its conjuncts |
| `unlocked_on_error` | as `driver` | finding: the lock stays open after an error |
| `reads` | two servos, words on both sides of the sign bit and with 255 as either byte, noise that looks like a header, writes up to the fullest packet, limits on both sides of a turn and of the 4 % margin; 2 faults | `RequestWellFormed`, `LoadIsRead`, `ScanFindsMotors`, `StateDecoded`, `OnArcNormalized` |
| `arc` | a circle of 12 positions, every set of readings on it, steps of 1 and 2, floats 0, 1, 50, 95 and 100 % | `ArcCoversReadings`, `SweepRecovered`, `MidpointCentred`, `SavedCentred`, `GoalOnArc` |
| `sweep` | a circle of 16 positions, every travel and every place of it, every starting point and old offset, two primitives in any order | `RoomAhead`, `GoalsFitWay` |
| `saved_arc` | as `sweep`, offsets reset | finding: the arc that is saved after both sweeps is not one of encoder positions of the joint |
| `stall` | positions on both sides of the displacement limit, velocities on the threshold; 2 reads at speed, 1 fault | `ReadsBounded`, `NoEarlyStall`, `WaitEnds`, and `PromiseKept`: `StallDetector` implements `StallWait` |
| `calibration` | the code's own eight motors and 58 steps, runs repeated, 3 faults, a stop at any moment | `StopHaltsMotion`, `StopHeeded`, `OkSavesEveryMotor`, `FloatHasPositions`, `CarriersHold`, `StopEnds` |
| `stop_ignored` | the same without faults | finding: a stop during the save leaves the motors holding |
| `py_stop` | two Python threads, no faults | finding: `stop_calibration` waits for the run it should stop |
| `ui` | two joints, two handler threads, two requests, values that are no numbers, a moving mouse | `NoTornTargets`, `SetNotMixed`, `ResetNotLost`, `ResetServed`, `TargetsReached` |
| `ui_pan` | one request | finding: a right-drag never pans |

**Bounds, and why they are enough.**

- `MaxFaults` and `MaxStale` (`EepromDriver`): two overdue replies put the
  driver out of step with the line and let a late acknowledgement meet a late
  read. The theorems cover any number of servos, faults and images, and up to four
  overdue replies: a verified write has five steps, and with five overdue replies
  (and six faults) TLC does find `VerifiedSound` violated. So the assumption of
  the theorems is tight. Operations in a behaviour are not bounded.
- `MaxFaults` (`MotorReads`): one fault leaves a piece on the line, the next one
  completes or damages what the following read makes of it.
- `MaxId` (`MotorReads`): with two servos a scan can miss one, see one twice or
  take one's reply for the other's.
- `Half`, `SafeOffset`, `CalibrationStep`, `Slack` (`EncoderFrame`): in the
  proportions of the code, so that a sweep takes up to four goals and the clamp
  of the offset bites. With `OldOffsets` every value of the register, a pass may
  follow on any offset; `MaxPasses` is two so that it also follows on one that
  another primitive wrote.
- `Half` and `MaxStep` (`TravelArc`): proved for all values; the instance is
  large enough for arcs of every length over every place of the zero.
- `MaxFast`, `MaxServoFaults` (`StallDetector`): reads at speed are what makes a
  wait long; the safety properties are proved for every number of them. The
  code's own limits (3, 4, 5, 10 and 100) are used.
- `MaxFaults` (`AutoCalibration`): a motor is recovered off, the next fault ends
  the run, a third comes in the next run; properties relate at most two of them.
- `MaxRequests`, `MaxSteps` (`ControlUi`): tearing, mixing and losing take two
  requests and the loop, which is not bounded. Two joints can be torn. A turn of
  up to two physics steps may fall short of a target three units away.

**Deadlock.** `stall`, the runs of `EncoderFrame` and the `ui` runs set
`CHECK_DEADLOCK FALSE`: a wait is over when it has returned, two primitives are
all there are, and a page may have used up its requests.

**Fairness.**

- `EepromDriver`: weak fairness of the host's steps. Each is a timer that
  fires or bytes that tokio delivers; nothing is assumed of the servo or of the
  caller, and nothing of faults.
- `AutoCalibration`: weak fairness of the steps whose calls return (which
  `Terminates` shows of them) and of `check_stop`, which every turn of a wait
  reaches within its 10 ms timer. A wait is *not* assumed to end: the motor may
  go on moving, or its fault may stay.
- `PyBinding`: the same of the calibration, weak fairness of giving the
  interpreter's lock back, and strong fairness of taking it: a thread that finds
  it free again and again is let in at last, as CPython's waiters are.
- `StallDetector`: weak fairness of the loop; reads at speed and servo faults
  are finite in number, since a fault that stays is waited for without end.
- `ControlUi`: weak fairness of each thread. That is enough with a lock
  because requests are finite in number.

## 4. The proofs

**`EepromDriverProofs`**, under `MaxStale < 5` (fewer replies overdue than a
verified write has steps), for any set of servos, images, worn registers,
operations and any number of faults: `TypeCorrect`, `VerifiedSoundHolds`,
`LockedWhenOkHolds`, `AcceptedIsGenuineHolds`, `NoForeignCommitHolds`, and
`StoreKeptHolds`: every step of the driver is a step of `VerifiedStore` or
changes nothing there.

The argument is one inductive invariant, `IInv`, in `EepromDriver` where `driver`
checks it. The properties are not inductive by themselves: whether a read-back
can be trusted depends on what may still be on the line.

- `NoOldReadBack`, the heart of it: in a verified write at step *s*, a reply to
  a read can only be among the first 5 - *s* on the line, or be the request's
  own. Each of the four steps before the read-back takes one reply off the line and
  fails if it has a register's length; so when the read-back comes, nothing is
  left in front of it that could pass for it. The assumption on `MaxStale` is
  what starts this off.
- `InStep`: with no acknowledgement overdue (at a quiet start, and in a freeze
  after its first verified write) nothing on the line can pass for an
  acknowledgement but the request's own. It gives `AcceptedIsGenuine`, and
  with `LockHeld` it gives `LockedWhenOk`.
- `StagedOwn`, `OwnPending`: what is staged when ACTION is sent is the
  operation's own write. They give `NoForeignCommit`, and they keep a late
  ACTION of a freeze from changing a register that was already verified.
- `VerifiedSoFar`: the registers that have been verified hold their values; it
  turns into `VerifiedSound` when the operation returns, and that is what lets
  `VerifiedStore` return Ok(true).
- `LineBound`, `OwnReply`, `DrainAfterReadBack`, `RawAlone`: what the others need of the line.

**`TravelArcProofs`**, for every resolution, step and float position:
`TypeCorrect`, `ArcCoversReadingsHolds`, `SweepRecoveredHolds`,
`MidpointCentredHolds`, `SavedCentredHolds`, `GoalOnArcHolds`. Least and
greatest readings exist by the least-number principle. Around the
largest gap no reading lies in the gap, so the arc that leaves it out covers
the rest. For `SweepRecovered` the invariant says that readings of a sweep are at
most `MaxStep` apart and include both its ends; so the unswept part is the only
gap that is larger than `MaxStep`, and it is more than three times as large as any other.

**`StallDetectorProofs`**, for any positions and velocities and any number of
reads at speed and of faults: `TypeCorrect`, `ReadsBoundedHolds`,
`NoEarlyStallHolds`, and `PromiseHolds`, the refinement of `StallWait`. The
invariant bounds the reads by the counters: a read is at speed, or it raises
`stable_count`, or it is one of the first that are skipped, so four reads for each
one at speed and four more are all there can be before `stable_count` is at its limit.

**`EncoderFrameProofs`**, for every resolution, margin, step and error of the
servo, every travel of a joint, every old offset and any number of primitives
in any order: `TypeCorrect`, `RoomAheadHolds`, `GoalsFitWayHolds`. Nothing in
them uses that a read gives 0 (`ReadsInRange` says that it is in range), so
they stay true when that is put right.

- `RoomAhead`: the position that was read, less the new offset, is `start` but for
  whole turns and at most one step (`OffsetPlaces`). There is such a step at half a
  turn from `start`, where the offset is clamped, and it is *away* from the end
  towards which the primitive goes: the display does not wrap on the way.
- `GoalsFitWay` counts goals, and says nothing of targets; the invariant `Covered`
  does: after *n* goals the pass has gone *n* steps on its way, cut at its end, and
  the goal before was short of the end. `LeavesInTime` says that a loop of `find_min`
  or `find_max` that goes on has way left, and that a shift that is over has none.

That a sweep reaches its limit is not claimed, since it need not (`saved_arc`).

**`MotorReadsProofs`**, for every bus of up to 253 servos (254 is the broadcast
id), every RAM, noise, list of positions and number of faults: `TypeCorrect`,
`RequestWellFormedHolds`, `StateDecodedHolds`, `OnArcNormalizedHolds`,
`ScanFindsMotorsHolds` and `CleanReadsExactHolds`; for every noise but two
byte values, `LoadIsReadHolds`.

- A request is well formed when `data_len` counts its parameters and they are 253
  at most (`Proper`, `RequestBytes`); each call is shown to make such a request, the
  longest SYNC_WRITE too. That the checksum comes out needs the sum of a
  sequence with one more byte, and the length of a SYNC_WRITE the length of a
  flattened sequence. Both are defined by recursive functions; the
  proofs take a least index at which the claim fails (`LeastNumber`,
  `Totals`, `SumIsTotal`, `FlattenLength`).
- A read takes no more bytes off the line than there are (`ReadUses`), wherever
  it finds a header. That is what keeps the line a sequence of bytes.
- `ReplyIsRead`: the status packet of a servo, alone and undamaged, is read as its
  data, whatever that is. Pinged one after the other on an empty line (`CleanScan`,
  the invariant), the motors found are those present up to the one that comes
  next; and a read returns its own register's bytes (`ReadsExactly`).
- That a scan reports no motor that is absent, *whatever* arrives, is the invariant
  `FoundPresent`. A ping takes six bytes for an answer (`PingTakes`): two headers,
  the id, length 2, no flags and the checksum that goes with the id. The line is
  `Genuine` when these stand on it only with the id of a motor that is there; for
  the induction it must not end in the first five of them with another id, either,
  or the next reply's first byte could complete them. Every reply keeps this up,
  whole or with one byte lost, changed or put before it
  (`WholeReply`, `ByteLost`, `ByteChanged`, `NoiseBefore`), so do two stretches
  that follow each other (`JoinGenuine`, because a reply opens with a header byte)
  and what is left when bytes are taken (`RestGenuine`). A changed id is caught
  by the checksum; a changed length or a lost byte of a longer reply leaves the
  id of its sender.
- That what `read_load` returns was in a register of the motor it was asked of
  has an invariant of the same kind, `Sound(line)`. A read of a word takes eight
  bytes for an answer (`PacketTakes`, `WordTakes`). Wherever these begin on the
  line with a right checksum, the word in them was sent; where they stand but for
  the checksum, it is so for every byte that a reply can open with (`Openings`:
  255 and the noise), because the next reply may put it there; and the line never
  ends inside such a word. One changed byte changes the checksum (`ChangeShows`). One lost
  byte makes the checksum the high byte, and the sum it now needs is the
  lost byte itself (`LostIsChecksum`): hence the exception in `LoadIsRead`, which
  no stronger property could do without.
  The theorem has one hypothesis, `QuietNoise`: noise holds neither 4, the length
  byte of an answer with a word, nor 0, the flags byte of one without flags. The
  code does nothing about either and TLC shows that both are needed. With noise 4 a reply
  of one byte whose length became 4 is a word, with its checksum as high byte.
  With noise 0 and 255, motors 124 and 129 and four faults, a late answer of 124
  has its flags changed to 255 and its first four bytes taken by a `drain`; what is
  left, `255 255 124 4`, noise 0 and a late reply of 129 continue to an answer of
  124 with the word 65535, which is in no register.

**`AutoCalibrationProofs`**, for any number of faults: `TypeCorrect`,
`StopHaltsMotionHolds`, `StopHeededHolds`, `CarriersHoldHolds`,
`OkSavesEveryMotorHolds`, `FloatHasPositionsHolds`. Every step of the sequence that
looks at the stop flag has at least one goal position to send (a lemma about the
58 steps); the goal position that goes out after a stop request is followed by a
wait, which begins with `check_stop`. For `StopHeeded` the invariant follows a
request that came while a `check_stop` was ahead: until one sees it, the run is
in a primitive before or in its wait, or such a step is still to come, so the sequence
cannot run out. When one sees it, either all motors are switched off or the run
ends with the error that kept it from that. `CarriersHold`,
`OkSavesEveryMotor` and `FloatHasPositions` rest on a second invariant,
`RunInv`. It speaks of the steps that are over: a motor that its last step
switched on is on (`Held`), a primitive that has run has recorded its motor
(`Recorded`), a motor that was swept and had its turn is frozen (`Frozen`). What
that means at a given step follows from the 58 steps alone, which lemmas about
the sequence evaluate.

**`ControlUiProofs`**, for any number of handler threads, joints, angles and
requests: `TypeCorrect`, `NoTornTargetsHolds`, `ResetNotLostHolds`,
`SetNotMixedHolds`. Whoever is inside a `/set` owns the lock, so there is one
such handler at most (`HolderWrites`); what it has written so far is what it was
asked for (`WrittenAsAsked`); with the lock free the targets are those that a
`/set` left (`SettledWhenFree`).

**Only model-checked.** Liveness (`Terminates`, `StopEnds`, `WaitEnds`,
`ResetServed`, `TargetsReached`), which is out of this prover's reach. Every
invariant, action property and refinement that a passing run checks is a theorem.

## 5. What the code does otherwise than it says

Six disagreements in five runs, each of whose one property states the sentence in
question; `PROJECT.json` quotes the sentences.

- `unlocked_on_error` (`driver.rs:166`): an error after the unlock leaves the
  EEPROM unlocked.
- `saved_arc`, first (`driver.rs:118`): `read_position`, `read_velocity` and
  `read_current` return 0 whatever the servo says. So `find_min` never sees a limit
  and `find_max` takes its first goal for one; the sweeps need not reach the
  limits, and only 0 is recorded.
- `saved_arc`, second (`calibrator.rs:120`): what is recorded are displayed
  positions under whatever offset is in force, and not encoder positions. The
  property stays violated with `ReadPosition(shown) == shown`: the records of the two
  sweeps then lie in different frames.
- `stop_ignored` (`calibrator.rs:323`): after the wait for the last goal the stop flag
  is not looked at; a stop that comes then lets the run end with Ok and the
  motors hold, although `elrobot.rs:14-15`, `src/st3215/README.md:80-81` and
  `py.rs:186` promise that a stop switches all of them off.
- `py_stop` (`py.rs:181`): `stop_calibration` cannot run while a calibration does.
  As every wait is over after a hundred reads at this commit, it takes a servo
  fault that stays (`calibrator.rs:151-156`) to make the run endless; otherwise the
  stop comes when the calibration is over.
- `ui_pan` (`control_ui.py:348`): the mouse handler throws before it sends.

What the models also show, where the code and its docs promise nothing else:

- When switching off the motors fails at one of them, those behind it go on
  holding, and the run ends with that error.
- `save_calibration` drops the bool of `freeze_calibration`: a run is Ok
  although a motor was not saved.
- One late reply makes a scan miss every motor after it, as every ping is then
  answered by the reply to the one before.
- When a byte of a word is lost from a late reply and the next reply begins with
  an equal one (255, the header, or a noise byte before it), that is a right
  checksum for the rest: the word's other byte comes as the low byte of a wrong
  value (the exception in `LoadIsRead`).
- Noise of 0 or 4 can make a word that no register held (section 4).
- Only the read-back of a verified write is retried; a lost reply to one of the
  four requests before it ends the operation at the first attempt.

## 6. Not modelled

- *MuJoCo model builder, simulation scripts, example, presets, device names,
  meshes*: text in and text out, drawing, calls in a row, constants. They keep no
  state that could go wrong in an order nobody tested.
- *Of `control_ui.py`*: the video stream, `/frame` and `/viewport`, which copy one
  field each, and the page's drawing.
- *Of `controller.py`*: the deadband and the mirrored jaws, which shape one
  floating-point output and keep no state.
- *RAM registers* are not kept from call to call: nothing reads back what the
  code writes there but the torque, which `AutoCalibration` has.
- *Floating point*: fractions are pairs of integers in `MotorUnits`, angles are
  whole steps in `ControlUi`.

## 7. What could come next

- The end of a calibration as one statement: what `AutoCalibration`
  knows of the steps together with what `EncoderFrame` knows of each sweep.
- `LoadIsRead` under noise of 0 and 4: which words such a line can make.
