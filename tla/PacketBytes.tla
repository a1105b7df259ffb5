----------------------------- MODULE PacketBytes -----------------------------
(***************************************************************************)
(* packet.rs byte by byte: how a request is laid out (to_bytes), and what  *)
(* async_read makes of the bytes that reach it before its timers fire.     *)
(***************************************************************************)
EXTENDS Integers, Sequences, SequencesExt

Header == 255
BroadcastId == 254

\* ST3215Request: the parameter bytes, and what data_len says that they are.
Command == [Ping |-> 1, Read |-> 2, Write |-> 3, RegWrite |-> 4, Action |-> 5, Reset |-> 6,
            SyncWrite |-> 131]

Request(cmd, motor, params, dataLen) ==
    [cmd |-> cmd, motor |-> motor, params |-> params, dataLen |-> dataLen]

Bare(cmd, motor) == Request(cmd, motor, << >>, 0)
Read(motor, address, length) == Request("Read", motor, << address, length >>, 2)
Write(cmd, motor, address, data) == Request(cmd, motor, << address >> \o data, Len(data) + 1)

\* Every motor's data is taken to be as long as the first one's.
SyncWrite(address, data) ==
    IF data = << >> THEN Bare("SyncWrite", BroadcastId)
    ELSE LET each == Len(data[1].bytes)
             entries == [i \in DOMAIN data |-> << data[i].id >> \o data[i].bytes]
         IN  Request("SyncWrite", BroadcastId,
                     << address, each % 256 >> \o FlattenSeq(entries),
                     2 + (each + 1) * Len(data))

Sum(bytes) ==
    LET n == Len(bytes)
        sum[i \in 0 .. n] ==     \* to each j, the sum of bytes[i + 1] .. bytes[j], by halves
            [j \in 0 .. n |->
                IF j <= i THEN 0 ELSE IF j = i + 1 THEN bytes[j]
                ELSE sum[i][(i + j) \div 2] + sum[(i + j) \div 2][j]]
    IN  sum[0][n]

\* Variant: the sum is not cut to a byte.
CalculateChecksumUncut(bytes) == 255 - Sum(bytes)

CalculateChecksum(bytes) == 255 - (Sum(bytes) % 256)

\* Variant: the length byte does not count the command.
LengthByteShort(q) == (q.dataLen + 1) % 256

\* u8 arithmetic.  A debug build panics where this one wraps.
LengthByte(q) == (q.dataLen + 2) % 256

ToBytes(q) ==
    LET body == << q.motor, LengthByte(q), Command[q.cmd] >> \o q.params
    IN  << Header, Header >> \o body \o << CalculateChecksum(body) >>

(***************************************************************************)
(* Status packets, as servos send them.                                    *)
(***************************************************************************)
StatusPacket(motor, flags, data) ==
    LET body == << motor, Len(data) + 2, flags >> \o data
    IN  << Header, Header >> \o body \o << CalculateChecksum(body) >>

(***************************************************************************)
(* async_read.  An outcome says how many bytes were taken off the line: a  *)
(* timer that fires takes all that were there.                             *)
(***************************************************************************)
Failed(error, used) == [ok |-> FALSE, error |-> error, data |-> << >>, used |-> used]
Ok(data, used) == [ok |-> TRUE, error |-> "none", data |-> data, used |-> used]

\* The position after the first two header bytes in a row, or 0.
AfterHeader(bytes) ==
    LET Starts == { i \in 1 .. Len(bytes) - 1 : bytes[i] = Header /\ bytes[i + 1] = Header }
    IN  IF Starts = {} THEN 0 ELSE 2 + CHOOSE i \in Starts : \A j \in Starts : i <= j

\* Variant: the checksum is not looked at.
ChecksumUnlooked(packet) == TRUE

\* packet: id, length, error, data, checksum.
ChecksumRight(packet) ==
    Last(packet) = CalculateChecksum(Front(packet))

\* A broadcast request takes the reply of any motor.
IdRight(q, packet) == packet[1] = q.motor \/ q.motor = BroadcastId

\* ServoError::from_bits is Some of any byte but 0.
FromBits(flags) == flags # 0

\* parse_data
ExpectedLength(q) == IF q.cmd = "Read" THEN q.params[2] ELSE 0

ReadPacket(q, packet, used) ==
    LET data == SubSeq(packet, 4, Len(packet) - 1)
    IN  IF ~ IdRight(q, packet) THEN Failed("MotorIdMismatch", used)
        ELSE IF ~ ChecksumRight(packet) THEN Failed("ChecksumError", used)
        ELSE IF FromBits(packet[3]) THEN Failed("Servo", used)
        ELSE IF Len(data) # ExpectedLength(q) THEN Failed("InvalidData", used)
        ELSE Ok(data, used)

AsyncRead(q, bytes) ==
    LET start == AfterHeader(bytes)
        \* id, length, error and as many bytes again as the length byte asks for
        end == IF bytes[start + 1] >= 2 THEN start + 1 + bytes[start + 1] ELSE start + 2
    IN  IF start = 0 \/ Len(bytes) < start + 2 THEN Failed("Timeout", Len(bytes))
        ELSE IF bytes[start + 1] < 2 THEN Failed("Io", start + 2)
        ELSE IF Len(bytes) < end THEN Failed("Timeout", Len(bytes))
        ELSE ReadPacket(q, SubSeq(bytes, start, end), end)
===============================================================================
