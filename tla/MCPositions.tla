---------------------------- MODULE MCPositions ----------------------------
(* A few order requests, alike but for their names, for TLC.              *)
EXTENDS Positions, TLC

Symmetry == Permutations(Requests)
=============================================================================
