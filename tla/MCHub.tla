-------------------------------- MODULE MCHub --------------------------------
(* The hub with a dashboard of positions and one of orders, for TLC. *)
EXTENDS Hub

CONSTANTS dash, orders

MCStream == [c \in Clients |-> IF c = dash THEN "positions" ELSE "orders"]
=============================================================================
