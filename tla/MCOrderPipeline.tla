-------------------------- MODULE MCOrderPipeline --------------------------
(* The order pipeline on small sets of orders and venues, for TLC. *)
EXTENDS OrderPipeline, TLC

Symmetry == Permutations(Orders)
=============================================================================
