--------------------------- MODULE MCEepromDriver ----------------------------
(***************************************************************************)
(* Instances of EepromDriver for TLC.                                      *)
(***************************************************************************)
EXTENDS EepromDriver

MCImages == {"factory", "zero", "new"}

Op(kind, cmd, motor, reg, val) ==
    [kind |-> kind, cmd |-> cmd, motor |-> motor, reg |-> reg, val |-> val]

\* Every operation, and the raw commands that leave a reply overdue or a write staged.
AllOps ==
    { Op("raw", "Ping", 1, "Offset", "new"), Op("raw", "Read", 1, "Offset", "new"),
      Op("raw", "RegWrite", 1, "Mode", "factory"),
      Op("write_eeprom", "Ping", 1, "Offset", "new"),
      Op("write_eeprom_verified", "Ping", 1, "Mode", "new"),
      Op("reset_calibration", "Ping", 1, "Offset", "zero"),
      Op("freeze_calibration", "Ping", 1, "Offset", "new") }
==============================================================================
