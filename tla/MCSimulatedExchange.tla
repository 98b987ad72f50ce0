------------------------- MODULE MCSimulatedExchange -------------------------
(* The simulated exchange with a limit order, another order and two prices. *)
EXTENDS SimulatedExchange

CONSTANTS buy, other

MCType  == [o \in Orders |-> IF o = other THEN "market" ELSE "limit"]
MCSide  == [o \in Orders |-> "buy"]
MCLimit == [o \in Orders |-> 1]
=============================================================================
