--------------------------- MODULE MCAlpacaAdapter ---------------------------
(* The Alpaca adapter with a few requests and an order, for TLC. *)
EXTENDS AlpacaAdapter

MCLots == [o \in Orders |-> 2]
MCAlpacaId == [o \in Orders |-> "Alpaca's"]
=============================================================================
