------------------------------- MODULE Order -------------------------------
(***************************************************************************)
(* The order record of gateway/internal/domain/order.go: its status        *)
(* machine and the two operations that change it.  Prices are left out;    *)
(* quantities are naturals.                                                *)
(***************************************************************************)
EXTENDS Naturals

CONSTANT Venues,      \* venue identifiers (adapter.LiquidityProvider.VenueID)
         NoVenue      \* the empty VenueID of an order without a preference

ASSUME VenueAssumption == NoVenue \notin Venues

Statuses == {"New", "Acknowledged", "PartiallyFilled",
             "Filled", "Canceled", "Rejected"}

\* Mutant: an order that has a fill can still be rejected.
LaxTransitions ==
  [s \in Statuses |->
     CASE s = "New"             -> {"Acknowledged", "Rejected"}
       [] s = "Acknowledged"    -> {"PartiallyFilled", "Canceled", "Rejected"}
       [] s = "PartiallyFilled" -> {"Filled", "Canceled", "Rejected"}
       [] OTHER                 -> {}]

\* The status machine that ApplyTransition consults.
ValidTransitions ==
  [s \in Statuses |->
     CASE s = "New"             -> {"Acknowledged", "Rejected"}
       [] s = "Acknowledged"    -> {"PartiallyFilled", "Canceled", "Rejected"}
       [] s = "PartiallyFilled" -> {"Filled", "Canceled"}
       [] OTHER                 -> {}]

\* "None" is the status of an order record that does not exist.
OrderRecord == [status : Statuses \cup {"None"}, qty : Nat, filled : Nat,
                venue : Venues \cup {NoVenue}]

NoOrder == [status |-> "None", qty |-> 0, filled |-> 0, venue |-> NoVenue]

\* What Submit stores: a New order of quantity q, with the client's venue.
NewOrder(q, v) == [status |-> "New", qty |-> q, filled |-> 0, venue |-> v]

CanTransition(ord, s) == ord.status # "None" /\ s \in ValidTransitions[ord.status]

\* ApplyTransition as its callers use it, the error ignored: the order moves
\* to s if the machine allows it and is left alone otherwise.
Transition(ord, s) == IF CanTransition(ord, s) THEN [ord EXCEPT !.status = s] ELSE ord

\* Mutant: only a filled or canceled order cannot be filled.
CanFillUnlessDone(ord, q) == /\ ord.status \notin {"None", "Filled", "Canceled"}
                             /\ q <= ord.qty - ord.filled

\* The two error returns of ApplyFill: status not fillable, and overfill.
CanFill(ord, q) == /\ ord.status \in {"Acknowledged", "PartiallyFilled"}
                   /\ q <= ord.qty - ord.filled

\* Mutant: the status is decided before the fill is added.
ApplyFillLate(ord, q) ==
  [ord EXCEPT !.filled = ord.filled + q,
              !.status = IF ord.filled = ord.qty THEN "Filled" ELSE "PartiallyFilled"]

\* The order after ApplyFill of quantity q.
ApplyFill(ord, q) ==
  [ord EXCEPT !.filled = ord.filled + q,
              !.status = IF ord.filled + q = ord.qty THEN "Filled" ELSE "PartiallyFilled"]
=============================================================================
