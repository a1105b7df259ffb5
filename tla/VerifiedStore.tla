---------------------------- MODULE VerifiedStore ----------------------------
(***************************************************************************)
(* What the EEPROM operations of driver.rs promise their caller, with the  *)
(* line, the lock, the retries and the staged writes left out: an          *)
(* operation changes one servo only, any way it likes while it runs, and   *)
(* it says Ok(true) when every register it vouches for holds what it was   *)
(* told to write, and then nothing changes until the next one begins.      *)
(***************************************************************************)
CONSTANTS Motors, Registers, Images,
          Operations,   \* records with a motor and the contents val to write
          Vouched       \* by operation: the registers its Ok(true) is about

VARIABLES contents,     \* of every register of every servo
          op,           \* the operation in progress or the last one
          busy,
          out           \* how the last operation ended

vars == << contents, op, busy, out >>

Init ==
    /\ contents \in [Motors -> [Registers -> Images]]
    /\ op \notin Operations
    /\ busy = FALSE
    /\ out = "none"

Begin ==
    /\ ~ busy
    /\ op' \in Operations
    /\ busy' = TRUE
    /\ out' = "none"
    /\ UNCHANGED contents

Program ==
    /\ busy
    /\ contents' \in [Motors -> [Registers -> Images]]
    /\ \A m \in Motors : m # op.motor => contents'[m] = contents[m]
    /\ UNCHANGED << op, busy, out >>

Holds == \A r \in Vouched[op] : contents[op.motor][r] = op.val

Return ==
    /\ busy
    /\ busy' = FALSE
    /\ \/ out' = "ok" /\ Holds
       \/ out' \in {"unverified", "err", "crashed"}
    /\ UNCHANGED << contents, op >>

Next == Begin \/ Program \/ Return

Spec == Init /\ [][Next]_vars
==============================================================================
