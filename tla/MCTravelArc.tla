----------------------------- MODULE MCTravelArc -----------------------------
(***************************************************************************)
(* TravelArc for TLC: the ends of the arc, and the float positions that    *)
(* elrobot.rs asks for.                                                    *)
(***************************************************************************)
EXTENDS TravelArc

MCPercents == {0, 1, 50, 95, 100}
==============================================================================
