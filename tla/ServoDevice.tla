----------------------------- MODULE ServoDevice -----------------------------
(***************************************************************************)
(* The part of an ST3215 servo the driver relies on when it programs       *)
(* EEPROM: the non-volatile registers, the Lock flag that protects them,   *)
(* and the register write that REG_WRITE stages and ACTION commits.        *)
(* The firmware is not in the repository: this module is what the driver   *)
(* (driver.rs) takes it to do.  A register's contents are an abstract      *)
(* image; only equality of images matters to the driver.                   *)
(***************************************************************************)
EXTENDS Naturals, Sequences

CONSTANTS Motors,     \* servo ids on the bus
          Images,     \* abstract register contents
          Factory,    \* contents of every register after a RESET
          Zero,       \* the bytes [0, 0]
          Worn        \* registers whose cells may fail to take a write

ASSUME ImagesAssumption == {Factory, Zero} \subseteq Images

\* The EEPROM registers the driver programs, in the order freeze_calibration
\* writes them.
FreezeOrder == << "Mode", "PCoef", "ICoef", "DCoef", "ReturnDelay", "MaxTorque",
                  "ProtectionCurrent", "OverloadTorque", "Offset" >>

Registers == { "Mode", "PCoef", "ICoef", "DCoef", "ReturnDelay", "MaxTorque",
               "ProtectionCurrent", "OverloadTorque", "Offset" }

ASSUME WornAssumption == Worn \subseteq Registers

\* Bytes of a register (memory.rs, eeprom_register! table).
Width(reg) == IF reg \in {"MaxTorque", "ProtectionCurrent", "Offset"} THEN 2 ELSE 1

\* Unlock and Lock are WRITEs of 0 and 1 to the Lock register; WriteRam is a
\* WRITE to any other RAM register, which leaves the EEPROM alone.
Commands == { "Ping", "Read", "Unlock", "Lock", "WriteRam", "RegWrite", "Action", "Reset" }

Request == [cmd : Commands, motor : Motors, reg : Registers, val : Images]

NoWrite == [reg |-> "None", val |-> "None"]

VARIABLES eeprom,     \* register contents of every servo
          unlocked,   \* servos whose EEPROM accepts writes
          pending     \* the write staged by REG_WRITE, if any

deviceVars == << eeprom, unlocked, pending >>

DeviceTypeOK ==
    /\ eeprom \in [Motors -> [Registers -> Images]]
    /\ unlocked \in [Motors -> BOOLEAN]
    /\ pending \in [Motors -> [reg : Registers, val : Images] \cup {NoWrite}]

\* A servo may come with any contents; ours hold one image everywhere.
DeviceInit ==
    /\ \E image \in Images : eeprom = [m \in Motors |-> [r \in Registers |-> image]]
    /\ unlocked = [m \in Motors |-> FALSE]
    /\ pending = [m \in Motors |-> NoWrite]

\* The servo executes request q.
Passive(q) ==
    /\ q.cmd \in {"Ping", "Read", "WriteRam"}
    /\ UNCHANGED deviceVars

SetLock(q) ==
    /\ q.cmd \in {"Unlock", "Lock"}
    /\ unlocked' = [unlocked EXCEPT ![q.motor] = (q.cmd = "Unlock")]
    /\ UNCHANGED << eeprom, pending >>

Stage(q) ==
    /\ q.cmd = "RegWrite"
    /\ pending' = [pending EXCEPT ![q.motor] = [reg |-> q.reg, val |-> q.val]]
    /\ UNCHANGED << eeprom, unlocked >>

\* ACTION applies the staged write; a locked EEPROM refuses it.
Commit(q) ==
    /\ q.cmd = "Action"
    /\ LET p == pending[q.motor]
       IN  eeprom' = IF p # NoWrite /\ unlocked[q.motor]
                     THEN [eeprom EXCEPT ![q.motor][p.reg] = p.val]
                     ELSE eeprom
    /\ pending' = [pending EXCEPT ![q.motor] = NoWrite]
    /\ UNCHANGED unlocked

\* Whether RESET also locks the EEPROM is the firmware's choice.
FactoryReset(q) ==
    /\ q.cmd = "Reset"
    /\ eeprom' = [eeprom EXCEPT ![q.motor] = [r \in Registers |-> Factory]]
    /\ \E keep \in BOOLEAN :
          unlocked' = [unlocked EXCEPT ![q.motor] = keep /\ @]
    /\ pending' = [pending EXCEPT ![q.motor] = NoWrite]

Execute(q) ==
    Passive(q) \/ SetLock(q) \/ Stage(q) \/ Commit(q) \/ FactoryReset(q)

\* A worn cell does not take the committed write, once or every time: what
\* reading back is there for.
CommitLost(q) ==
    /\ q.cmd = "Action"
    /\ pending[q.motor].reg \in Worn
    /\ pending' = [pending EXCEPT ![q.motor] = NoWrite]
    /\ UNCHANGED << eeprom, unlocked >>
==============================================================================
