---------------------------- MODULE MCEncoderFrame ----------------------------
(***************************************************************************)
(* An encoder of 16 positions (a code position is 256 of them), one scaled *)
(* position of slack, a quarter turn as the step, so that a sweep of the   *)
(* whole range takes four goals as in the code.                            *)
(***************************************************************************)
EXTENDS EncoderFrame

MCShifts == {-7, 4}

\* Every value of the register.
MCOffsets == 1 - Half .. Half - 1
===============================================================================
