--------------------------- MODULE MCStallDetector ---------------------------
(***************************************************************************)
(* Instances of StallDetector for TLC: two positions on each side of the   *)
(* displacement limit, a slow and a fast velocity on the threshold.        *)
(***************************************************************************)
EXTENDS StallDetector

MCPositions == {0, 4, 5, 9}
MCVelocities == {9, 10}
==============================================================================
