-------------------------- MODULE MCAutoCalibration --------------------------
(***************************************************************************)
(* AutoCalibration for TLC: the eight motors of the code and a bound on    *)
(* the faults.                                                             *)
(***************************************************************************)
EXTENDS AutoCalibration
==============================================================================
