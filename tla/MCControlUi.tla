----------------------------- MODULE MCControlUi -----------------------------
(***************************************************************************)
(* ControlUi for TLC: two joints, so that a /set can be torn, two handler  *)
(* threads, so that requests overlap.                                      *)
(***************************************************************************)
EXTENDS ControlUi

MCJoints == << "rev_motor_01", "rev_motor_02" >>
==============================================================================
