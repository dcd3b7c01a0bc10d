----------------------------- MODULE MCSeatSync -----------------------------
(***************************************************************************)
(* Instances of SeatSync for TLC.                                          *)
(***************************************************************************)
EXTENDS SeatSync, TLC

TwoSizes == 5..6
ThreeSizes == 4..6

Symmetry == Permutations(Workers)
=============================================================================
