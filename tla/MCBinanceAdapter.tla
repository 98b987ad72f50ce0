-------------------------- MODULE MCBinanceAdapter --------------------------
(* The Binance adapter with a few requests and orders, for TLC. *)
EXTENDS BinanceAdapter, TLC

CONSTANTS o1, o2

MCNumber == [o \in Orders |-> 1]
MCSymbol == [o \in Orders |-> IF o = o1 THEN "BTCUSDT" ELSE "ETHUSDT"]
MCLots   == [o \in Orders |-> IF o = o1 THEN 1 ELSE 0]

Symmetry == Permutations(Connects) \cup Permutations(Disconnects)
=============================================================================
