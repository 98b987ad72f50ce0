------------------------------ MODULE MCRouting ------------------------------
(* The router with three venues and four offers, for TLC. *)
EXTENDS Routing

Offer(bid, ask, depth, latency, fillRate) ==
  [bid |-> bid, ask |-> ask, depth |-> depth, latency |-> latency, fillRate |-> fillRate]

MCQuotes == {Offer(1, 2, 2, 1, 1), Offer(1, 2, 1, 1, 2), Offer(1, 2, 1, 2, 2),
             Offer(2, 4, 1, 1, 1)}
=============================================================================
