------------------------------ MODULE MotorReads ------------------------------
(***************************************************************************)
(* The reads and the scan of driver.rs over a serial line of bytes, and    *)
(* what units.rs makes of a servo's registers.                             *)
(*                                                                         *)
(* A request and the wait for its reply are one step: the line carries     *)
(* what earlier replies left behind and then this reply, some of it        *)
(* perhaps lost, changed or preceded by noise; a first part of that        *)
(* arrives before the timers fire, the rest is there for the next call.    *)
(***************************************************************************)
EXTENDS MotorUnits, PacketBytes

CONSTANTS MaxId,       \* the highest id on the bus, and max_id of a scan; 254 is everybody's
          Rams,        \* each servo's RAM: the bytes at 0 .. RamEnd - 1
          Noise,       \* bytes that faults put on the line
          Lengths,     \* of the data of writes; 252 fill a packet
          Positions,   \* positions and limits handed to normalize_motor_position
          MaxFaults    \* faults in a behaviour (a bound)

ASSUME ReadsAssumption ==
    /\ MaxId \in 1 .. 253
    /\ Noise \subseteq 0 .. 255 /\ Lengths \subseteq 0 .. 252
    /\ Positions \subseteq 0 .. 4095 /\ MaxFaults \in Nat

ASSUME RamsAssumption == Rams \in [1 .. MaxId -> [1 .. RamEnd -> 0 .. 255]]

Motors == 1 .. MaxId

VARIABLES present,           \* the servos that are there
          line,              \* bytes sent by servos that the host has not taken yet
          wire,              \* the last packet that the host sent
          scanning, found,   \* the id that scan pings next, 0 for none; the ids found
          answer,            \* what the last call returned
          faults             \* faults so far

scanVars == << scanning, found >>
vars == << present, line, wire, scanVars, answer, faults >>

NoAnswer == [kind |-> "none"]

Byte == 0 .. 255

TypeOK ==
    /\ present \subseteq Motors
    /\ line \in Seq(Byte) /\ wire \in Seq(Byte)
    /\ scanning \in {0} \cup Motors /\ found \in Seq(Motors)
    /\ faults \in 0 .. MaxFaults

Init ==
    /\ present \in SUBSET Motors
    /\ line = << >> /\ wire = << >> /\ scanning = 0 /\ found = << >>
    /\ answer = NoAnswer /\ faults = 0

(***************************************************************************)
(* The servos and the line.                                                *)
(***************************************************************************)
Data(q) ==
    IF q.cmd = "Read" THEN SubSeq(Rams[q.motor], q.params[1] + 1, q.params[1] + q.params[2])
    ELSE << >>

Damaged(reply) ==
    {<< >>}
    \cup { RemoveAt(reply, i) : i \in DOMAIN reply }
    \cup (UNION { { ReplaceAt(reply, i, b) : b \in Noise } : i \in DOMAIN reply })
    \cup { << b >> \o reply : b \in Noise }

\* What a servo's reply comes to on the line, and how many faults that is.
Replies(q) ==
    IF q.motor \notin present THEN {[bytes |-> << >>, cost |-> 0]}
    ELSE {[bytes |-> StatusPacket(q.motor, 0, Data(q)), cost |-> 0],
          [bytes |-> StatusPacket(q.motor, 32, Data(q)), cost |-> 1]}
         \cup { [bytes |-> b, cost |-> 1] : b \in Damaged(StatusPacket(q.motor, 0, Data(q))) }

\* The reply to q comes behind what is on the line, and the first n bytes arrive before
\* the timers fire.  (Bytes that a read does not come to may as well have arrived; late
\* bytes are a fault.)
Arrivals(q) ==
    (UNION { { [bytes |-> line \o reply.bytes, n |-> n, faults |-> faults + reply.cost] :
                 n \in 0 .. Len(line) + Len(reply.bytes) } :
             reply \in { r \in Replies(q) : faults + r.cost < MaxFaults } })
    \cup
    { [bytes |-> line \o reply.bytes, n |-> Len(line) + Len(reply.bytes),
       faults |-> faults + reply.cost] :
        reply \in { r \in Replies(q) : faults + r.cost = MaxFaults } }

Outcome(q, a) == AsyncRead(q, SubSeq(a.bytes, 1, a.n))

\* async_readwrite
Exchange(q, a, read) ==
    LET late == a.n < Len(a.bytes)
    IN  /\ late => read.error = "Timeout"
        /\ faults' = IF late THEN a.faults + 1 ELSE a.faults
        /\ line' = SubSeq(a.bytes, read.used + 1, Len(a.bytes))
        /\ wire' = ToBytes(q)

(***************************************************************************)
(* Calls.                                                                  *)
(***************************************************************************)
Free == scanning = 0 /\ UNCHANGED << present, scanVars >>

Answer(kind, motor, value) == [kind |-> kind, motor |-> motor, value |-> value]

\* What each read makes of its bytes: position, velocity and current go through units.rs.
Value(kind, data) ==
    CASE kind = "position" -> GetMotorPosition(data)
      [] kind = "velocity" -> GetMotorVelocity(data)
      [] kind = "current"  -> GetMotorCurrent(data)
      [] kind = "load"     -> data[1] + 256 * data[2]
      [] kind = "moving"   -> data[1] # 0
      [] kind \in {"voltage", "temperature"} -> data[1]

ReadRegister(kind, motor, register, length) ==
    LET q == Read(motor, Address[register], length)
    IN  /\ Free
        /\ \E a \in Arrivals(q) : LET read == Outcome(q, a) IN
            /\ Exchange(q, a, read)
            /\ answer' = IF read.ok THEN Answer(kind, motor, Value(kind, read.data))
                         ELSE [kind |-> "error", error |-> read.error]

ReadPosition(m) == ReadRegister("position", m, "PresentPosition", 2)
ReadVelocity(m) == ReadRegister("velocity", m, "PresentSpeed", 2)
ReadCurrent(m) == ReadRegister("current", m, "PresentCurrent", 2)
ReadLoad(m) == ReadRegister("load", m, "PresentLoad", 2)
ReadVoltage(m) == ReadRegister("voltage", m, "PresentVoltage", 1)
ReadTemperature(m) == ReadRegister("temperature", m, "PresentTemperature", 1)
IsMoving(m) == ReadRegister("moving", m, "Moving", 1)

Zeros(n) == [i \in 1 .. n |-> 0]

\* Asked first only, to keep the instance small; so are SyncWriteAll and Normalize.
WriteLong(cmd, m, n) ==
    /\ Free /\ answer = NoAnswer
    /\ LET q == Write(cmd, m, 40, Zeros(n))
       IN  \E a \in Arrivals(q) : LET read == Outcome(q, a) IN
            /\ Exchange(q, a, read)
            /\ answer' = [kind |-> "status", error |-> read.error]

\* SYNC_WRITE is sent, nothing is read.
SyncWriteAll(n) ==
    /\ Free /\ answer = NoAnswer
    /\ wire' = ToBytes(SyncWrite(40, [m \in Motors |-> [id |-> m, bytes |-> Zeros(n)]]))
    /\ answer' = [kind |-> "sent"]
    /\ UNCHANGED << line, faults >>

\* A read that fails inside write_eeprom_verified drains the line.
Drain ==
    /\ Free
    /\ \E n \in 0 .. Len(line) : line' = SubSeq(line, n + 1, Len(line))
    /\ UNCHANGED << wire, answer, faults >>

BeginScan ==
    /\ scanning = 0 /\ scanning' = 1 /\ found' = << >>
    /\ answer' = [kind |-> "scan", clean |-> line = << >>, since |-> faults]
    /\ UNCHANGED << present, line, wire, faults >>

After(motor) == IF motor = MaxId THEN 0 ELSE motor + 1

\* Variant: a scan ends with the first motor that does not answer.
ScanGivesUp(read) ==
    /\ found' = IF read.ok THEN Append(found, scanning) ELSE found
    /\ scanning' = IF read.ok THEN After(scanning) ELSE 0

Scanned(read) ==
    /\ found' = IF read.ok THEN Append(found, scanning) ELSE found
    /\ scanning' = After(scanning)

ScanNext ==
    /\ scanning # 0
    /\ LET q == Bare("Ping", scanning)
       IN  \E a \in Arrivals(q) : LET read == Outcome(q, a) IN
            Exchange(q, a, read) /\ Scanned(read)
    /\ UNCHANGED << present, answer >>

(***************************************************************************)
(* Calls that ask no servo.                                                *)
(***************************************************************************)
Offline == Free /\ UNCHANGED << line, wire, faults >>

\* A caller that has read the whole RAM of a motor extracts from that.
DecodeState(m) ==
    /\ Offline
    /\ answer' = [kind |-> "state", motor |-> m,
                  position |-> GetMotorPosition(Rams[m]), goal |-> GetMotorGoalPosition(Rams[m]),
                  velocity |-> GetMotorVelocity(Rams[m]), current |-> GetMotorCurrent(Rams[m]),
                  error |-> IsMotorError(Rams[m]), torque |-> IsTorqueEnabled(Rams[m])]

Normalize ==
    /\ Offline /\ answer = NoAnswer
    /\ \E value, min, max \in Positions : \E f \in Normalized(value, min, max) :
          answer' = [kind |-> "fraction", value |-> value, min |-> min, max |-> max,
                     result |-> f]

Next ==
    \/ \E m \in Motors :
          \/ ReadPosition(m) \/ ReadVelocity(m) \/ ReadCurrent(m) \/ ReadLoad(m)
          \/ ReadVoltage(m) \/ ReadTemperature(m) \/ IsMoving(m) \/ DecodeState(m)
          \/ \E cmd \in {"Write", "RegWrite"} : \E n \in Lengths : WriteLong(cmd, m, n)
    \/ \E n \in Lengths : (n + 1) * MaxId <= 251 /\ SyncWriteAll(n)
    \/ Drain \/ BeginScan \/ ScanNext \/ Normalize

Spec == Init /\ [][Next]_vars

(***************************************************************************)
(* Properties.                                                             *)
(***************************************************************************)
\* The length byte of a request says how long it is and its checksum is right, up to the
\* fullest packets (packet.rs 39-53, 69-103).
RequestWellFormed ==
    wire # << >> => /\ wire[4] = Len(wire) - 4
                    /\ Sum(SubSeq(wire, 3, Len(wire))) % 256 = 255

Word(ram, address) == ram[address + 1] + 256 * ram[address + 2]

TwoByteRegisters == {"PresentPosition", "PresentSpeed", "PresentLoad", "PresentCurrent"}

\* What a reply on the line can begin with.
Openings == {Header} \cup Noise

\* What read_load returns is in one of the motor's registers: late replies, pieces of
\* replies and noise that looks like a header make no value of their own
\* (packet.rs 254-368).  Noise that can stand for another byte of a reply, its length 4 or
\* its error 0, can.  The exception: when a byte of a word is lost from a late reply and
\* the next reply begins with an equal one (255, or noise), that is a right checksum for
\* the rest, and the word's other byte comes as the low byte.
LoadIsRead ==
    answer.kind = "load" =>
        \E r \in TwoByteRegisters :
            LET word == Word(Rams[answer.motor], Address[r])
                low == word % 256
                high == word \div 256
            IN  \/ answer.value = word
                \/ low \in Openings /\ answer.value % 256 = high
                \/ high \in Openings /\ answer.value % 256 = low

\* A scan reports no motor that is not there, whatever arrives; one that starts with an
\* empty line and meets no fault finds every motor, once and in order (driver.rs 285-294).
ScanFindsMotors ==
    LET reported == { found[i] : i \in DOMAIN found }
    IN  /\ reported \subseteq present
        /\ answer.kind = "scan" /\ answer.clean /\ answer.since = faults /\ scanning = 0 =>
            /\ reported = present
            /\ \A i, j \in DOMAIN found : i < j => found[i] < found[j]

\* The servo's sign-and-magnitude position, as an integer.
Signed(w) == IF w >= 32768 THEN - (w - 32768) ELSE w

\* From a whole RAM every register is extracted as it is, positions are the signed ones
\* on a circle of 4096, and the error and torque flags say whether their own registers
\* are not zero (units.rs 6-49, 99-115).
StateDecoded ==
    answer.kind = "state" =>
        LET ram == Rams[answer.motor]
            reg(r) == Word(ram, Address[r])
            flag(r) == ram[Address[r] + 1] # 0
        IN  /\ answer.position = Signed(reg("PresentPosition")) % 4096
            /\ answer.goal = Signed(reg("GoalPosition")) % 4096
            /\ answer.velocity = reg("PresentSpeed")
            /\ answer.current = reg("PresentCurrent")
            /\ answer.error = flag("Status") /\ answer.torque = flag("TorqueEnable")

OnArc(p, min, max) == IF min <= max THEN min <= p /\ p <= max ELSE min <= p \/ p <= max

\* A position on the arc is normalized to the part of the arc that lies before it,
\* across the encoder's zero as well: 0 at min, 1 at max (units.rs 52-97).
OnArcNormalized ==
    answer.kind = "fraction" /\ answer.min # answer.max
        /\ OnArc(answer.value, answer.min, answer.max) =>
            answer.result = Fraction((answer.value - answer.min) % 4096,
                                     (answer.max - answer.min) % 4096)
===============================================================================
