---------------------------- MODULE MCLaneCommit ----------------------------
(***************************************************************************)
(* Small instances of LaneCommit.                                          *)
(***************************************************************************)
EXTENDS LaneCommit, TLC

Symmetry == Permutations(Requests)
=============================================================================
