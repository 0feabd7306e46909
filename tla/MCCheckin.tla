------------------------------ MODULE MCCheckin ------------------------------
(* TLC instance of Checkin. *)
EXTENDS Checkin, TLC
Symmetry == Permutations(Callers) \union Permutations(Viewers)
===============================================================================
