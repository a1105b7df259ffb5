------------------------------ MODULE MotorUnits ------------------------------
(***************************************************************************)
(* units.rs: what the driver makes of a servo's registers.  The get_motor  *)
(* functions take the bytes of a servo's whole RAM and look registers up   *)
(* by address in them.                                                     *)
(***************************************************************************)
EXTENDS Integers, Sequences

\* Register addresses (memory.rs).
Address == [TorqueEnable |-> 40, GoalPosition |-> 42, PresentPosition |-> 56,
            PresentSpeed |-> 58, PresentLoad |-> 60,
            PresentVoltage |-> 62, PresentTemperature |-> 63, Status |-> 65,
            Moving |-> 66, PresentCurrent |-> 69]

RamEnd == 71

(***************************************************************************)
(* Extraction.                                                             *)
(***************************************************************************)
WordAt(state, address) ==
    IF Len(state) < address + 2 THEN 0
    ELSE state[address + 1] + 256 * state[address + 2]

\* Variant: the magnitude of a negative position is taken for the position.
NormalPositionUnsigned(w) == w % 4096

\* Sign and magnitude to 12 bits, bit by bit.
NormalPosition(w) ==
    IF w >= 32768 THEN (4096 - (w % 4096)) % 4096 ELSE w % 4096

GetMotorPosition(state) == NormalPosition(WordAt(state, Address.PresentPosition))
GetMotorGoalPosition(state) == NormalPosition(WordAt(state, Address.GoalPosition))
GetMotorVelocity(state) == WordAt(state, Address.PresentSpeed)
GetMotorCurrent(state)  == WordAt(state, Address.PresentCurrent)

\* Too short a state is an error, and a motor without torque.
IsMotorError(state) == Len(state) < Address.Status + 1 \/ state[Address.Status + 1] # 0

IsTorqueEnabled(state) ==
    Len(state) >= Address.TorqueEnable + 1 /\ state[Address.TorqueEnable + 1] # 0

(***************************************************************************)
(* normalize_motor_position.  A fraction, or the panic of a debug build    *)
(* when a u16 subtraction underflows (a release build wraps).              *)
(***************************************************************************)
Fraction(num, den) == [num |-> num, den |-> den]
Panic == [num |-> -1, den |-> 1]

MotorRange(min, max) == IF max > min THEN max - min ELSE 4096 + max - min

\* delta < range * 0.04
Near(delta, min, max) == 25 * delta < MotorRange(min, max)

\* u16 subtraction.
Minus(x, y) == IF x >= y THEN {x - y} ELSE {x - y + 65536, -1}

Quotient(n, den) == IF n = -1 THEN Panic ELSE Fraction(n, den)

BelowMin(value, min, max) ==
    \/ max > min /\ value < min /\ Near(min - value, min, max)
    \/ /\ max < min /\ max < value /\ value < min
       /\ min - value <= value - max
       /\ Near(min - value, min, max)

AboveMax(value, min, max) ==
    \/ max > min /\ value > max /\ Near(value - max, min, max)
    \/ /\ max < min /\ max < value /\ value < min
       /\ value - max < min - value
       /\ Near(value - max, min, max)

\* Variant: no turn is added on the far side of the encoder's zero.
AlongUnwrapped(value, min, max) == Minus(value, min)

Along(value, min, max) ==
    IF max > min \/ value >= min THEN Minus(value, min) ELSE {4096 + value - min}

\* What normalize_motor_position may return.
Normalized(value, min, max) ==
    IF min = max \/ BelowMin(value, min, max) THEN {Fraction(0, 1)}
    ELSE IF AboveMax(value, min, max) THEN {Fraction(1, 1)}
    ELSE { Quotient(n, MotorRange(min, max)) : n \in Along(value, min, max) }
===============================================================================
