------------------------------- MODULE MCLab -------------------------------
(***************************************************************************)
(* TLC instance of Lab: two drivers of one state directory, of the same    *)
(* RouterOS version or of two.                                             *)
(***************************************************************************)
EXTENDS Lab, TLC

MCHomes == {[state |-> "a", ros |-> 1], [state |-> "a", ros |-> 2]}

Alike == Permutations(Drivers)
=============================================================================
