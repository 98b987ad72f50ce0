--------------------------- MODULE OrderLifecycle ---------------------------
(***************************************************************************)
(* What the gateway promises a client who polls the orders table: a row is *)
(* created New, may be given a venue while it is New, moves forward        *)
(* through the status machine, never loses filled quantity, and is final   *)
(* once it is Filled, Canceled or Rejected.  Of an order in doubt, which a  *)
(* venue may have although the gateway was told it has not, it promises    *)
(* less: its filled quantity and its status may be taken back, but the row *)
(* does not pass from a fill to a rejection or the other way.              *)
(***************************************************************************)
EXTENDS Order

CONSTANT Orders

VARIABLES rows,     \* the orders table
          doubtful  \* the orders in doubt

\* The statuses a row may show after s; a partial fill may be followed by
\* another, and a poll may miss the statuses in between.
Later(s) ==
  CASE s = "New"             -> {"Acknowledged", "Rejected"}
    [] s = "Acknowledged"    -> {"PartiallyFilled", "Filled", "Rejected"}
    [] s = "PartiallyFilled" -> {"PartiallyFilled", "Filled"}
    [] OTHER                 -> {}

Init == rows = [o \in Orders |-> NoOrder]

Create(o) ==
  /\ rows[o] = NoOrder
  /\ rows'[o] = NewOrder(rows'[o].qty, rows'[o].venue)
  /\ rows'[o].qty > 0
  /\ rows' = [rows EXCEPT ![o] = rows'[o]]

AssignVenue(o) ==
  /\ rows[o].status = "New"
  /\ rows' = [rows EXCEPT ![o].venue = rows'[o].venue]

Advance(o) ==
  /\ rows'[o].status \in Later(rows[o].status)
  /\ rows'[o].filled \in rows[o].filled .. rows[o].qty
  /\ rows'[o].status = "Filled" <=> rows'[o].filled = rows[o].qty
  /\ rows' = [rows EXCEPT ![o].status = rows'[o].status,
                          ![o].filled = rows'[o].filled,
                          ![o].venue = IF rows[o].status = "New" THEN rows'[o].venue ELSE @]

\* Once a fill of an order in doubt was counted, the row may forget it again.
Revise(o) ==
  /\ o \in doubtful
  /\ rows[o].status \in {"Acknowledged", "PartiallyFilled", "Filled"}
  /\ rows'[o].status \in {"PartiallyFilled", "Filled"}
  /\ rows'[o].filled \in 0 .. rows[o].qty
  /\ rows' = [rows EXCEPT ![o].status = rows'[o].status,
                          ![o].filled = rows'[o].filled]

Next == \E o \in Orders : Create(o) \/ AssignVenue(o) \/ Advance(o) \/ Revise(o)

Spec == Init /\ [][Next]_rows
=============================================================================
