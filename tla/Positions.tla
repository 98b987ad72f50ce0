------------------------------ MODULE Positions ------------------------------
(***************************************************************************)
(* One position and the four who keep it: the REST handler that lets a     *)
(* sell request pass only against what is held; the fill collector and the *)
(* pricer, which each read the gateway's row with its average cost and     *)
(* profit and write the whole of it back, without a lock; and the risk     *)
(* engine, whose portfolio is built from the log of fill events.           *)
(*                                                                         *)
(* How a fill gets to the collector, and what happens to its order, is the *)
(* module OrderPipeline.  Money is counted in the unit to which the        *)
(* average cost is rounded (in the code: 10^-16).                          *)
(***************************************************************************)
EXTENDS Decimals, Sequences

CONSTANTS
  Requests,     \* the order requests that may come
  Quantities,   \* of an order
  Prices,
  Cycle,        \* how the instrument settles: "T0" or "T2"
  Faults,       \* the calls that may fail
  Pricing,      \* whether there is market data
  MaxFills,     \* bound on the fills
  MaxConnects   \* bound on the connections of the risk engine's consumer

ASSUME PositionsAssumption ==
  /\ Quantities \subseteq Nat \ {0} /\ Prices \subseteq Nat \ {0}
  /\ Cycle \in {"T0", "T2"}
  /\ Faults \subseteq {"CreateFill", "UpdateOrder", "GetPosition", "UpsertPosition", "Publish"}
  /\ Pricing \in BOOLEAN
  /\ MaxFills \in Nat /\ MaxConnects \in Nat

NoOrder == [at |-> "none", side |-> "buy", left |-> 0]

\* n and cash are no columns of the table, they are for the properties: how many
\* fills are in the row, and what these brought in, less what they cost.
NoRow == [qty |-> 0, avg |-> 0, realized |-> 0, mark |-> 0, unrealized |-> 0, n |-> 0, cash |-> 0]

Idle == [at |-> "idle", side |-> "buy", qty |-> 0, price |-> 0, copy |-> NoRow]

VARIABLES
  req,        \* each request with the order it becomes
  row,        \* the row of the position
  collector,  \* the fill it is at, and the row as it will write it
  pricer,     \* the row as it will write it
  fills,      \* how many fills were written to the row
  log,        \* the topic order-lifecycle, fill events only
  engine,     \* the risk engine: its process and its portfolio
  raced,      \* two sell orders were under way together
  lost,       \* what the row lost: fills that were "dropped", or "overwritten"
  disturbed   \* why the portfolio may not be what the log says

gateway == <<row, collector, pricer, fills, lost>>
vars == <<req, gateway, log, engine, raced, disturbed>>

Init ==
  /\ req = [r \in Requests |-> NoOrder]
  /\ row = NoRow /\ collector = Idle /\ pricer = NoRow
  /\ fills = 0 /\ log = <<>>
  /\ engine = [next |-> 1, connects |-> 0, qty |-> 0, cash |-> 0, available |-> 0, unsettled |-> 0]
  /\ raced = FALSE /\ lost = {} /\ disturbed = {}

Signed(side, q) == IF side = "buy" THEN q ELSE -q
Abs(n) == IF n < 0 THEN -n ELSE n

-----------------------------------------------------------------------------
(* Requests.                                                               *)

\* Mutant: the quantity is not compared.
SomeHeld(side, q) == side = "sell" => row.qty > 0

Covered(side, q) == side = "sell" => row.qty > 0 /\ q <= row.qty

\* Sell orders under way: from the comparison until the last of their fills is
\* in the row.
Selling == {r \in Requests : req[r].at \in {"open", "booking"} /\ req[r].side = "sell"}

\* The request is compared with the position and becomes an order; nothing of
\* the position is reserved for it.  What is between the comparison and the
\* venue only delays its fills.
CreateOrder(r, side, q) ==
  /\ req[r].at = "none"
  /\ Covered(side, q)
  /\ req' = [req EXCEPT ![r] = [at |-> "open", side |-> side, left |-> q]]
  /\ raced' = (raced \/ (side = "sell" /\ Selling # {}))
  /\ UNCHANGED <<gateway, log, engine, disturbed>>

\* The order is turned down, or the venue is done with it before it is filled.
Expire(r) ==
  /\ req[r].at = "open"
  /\ req' = [req EXCEPT ![r].at = "done"]
  /\ UNCHANGED <<gateway, log, engine, raced, disturbed>>

-----------------------------------------------------------------------------
(* The arithmetic of a row p.                                              *)

\* Mutant: every buy increases the position.
LongOnly(p, side) == p.qty = 0 \/ side = "buy"

Increasing(p, side) == p.qty = 0 \/ (IF side = "buy" THEN p.qty > 0 ELSE p.qty < 0)

\* On the way up the average follows, on the way down profit is realised.
ApplyFill(p, side, q, price) ==
  LET more == [p EXCEPT !.qty = @ + Signed(side, q),
                        !.n = @ + 1, !.cash = @ - Signed(side, q) * price]
  IN IF Increasing(p, side)
     THEN [more EXCEPT !.avg = Rounded(p.avg * Abs(p.qty) + price * q, Abs(p.qty) + q)]
     ELSE [more EXCEPT !.realized = @ + q * (IF p.qty > 0 THEN price - p.avg ELSE p.avg - price)]

UpdateMarketPrice(p, price) ==
  [p EXCEPT !.mark = price, !.unrealized = (price - p.avg) * p.qty]

-----------------------------------------------------------------------------
(* The fill collector, one fill at a time.                                 *)

\* What is left of the order once the collector has done with one of its fills.
Resume(r) == req' = [req EXCEPT ![r].at = IF req[r].left = 0 THEN "done" ELSE "open"]

\* A fill of the order comes and is applied to it in memory.
TakeFill(r, q) ==
  /\ collector.at = "idle" /\ fills < MaxFills
  /\ req[r].at = "open" /\ q <= req[r].left

\* Then a call fails before the position is looked at: the fill is dropped.
DropFill(r, q) ==
  /\ TakeFill(r, q)
  /\ Faults \cap {"CreateFill", "UpdateOrder"} # {}
  /\ req' = [req EXCEPT ![r] = [at |-> IF q = @.left THEN "done" ELSE "open",
                                side |-> @.side, left |-> @.left - q]]
  /\ lost' = lost \cup {"dropped"}
  /\ UNCHANGED <<row, collector, pricer, fills, log, engine, raced, disturbed>>

\* Or the row is read.  Every error of GetPosition means that there is no row;
\* the first fill of a row is its market price too.
ReadRow(r, q, price) ==
  /\ TakeFill(r, q)
  /\ req' = [req EXCEPT ![r] = [at |-> "booking", side |-> @.side, left |-> @.left - q]]
  /\ \E found \in {row.n > 0} \cup (IF "GetPosition" \in Faults THEN {FALSE} ELSE {}) :
       LET read == IF found THEN row ELSE [NoRow EXCEPT !.mark = price]
       IN collector' = [at |-> "read", side |-> req[r].side, qty |-> q, price |-> price,
                        copy |-> UpdateMarketPrice(ApplyFill(read, req[r].side, q, price), read.mark)]
  /\ UNCHANGED <<row, pricer, fills, lost, log, engine, raced, disturbed>>

\* The whole row is replaced by p, which should have m fills: with those that
\* came in since it was read.
Write(p, m) ==
  /\ row' = p
  /\ lost' = IF p.n < m THEN lost \cup {"overwritten"} ELSE lost

WriteFill(r) ==
  /\ collector.at = "read" /\ req[r].at = "booking"
  /\ Resume(r)
  /\ \/ /\ Write(collector.copy, row.n + 1)
        /\ fills' = fills + 1
        /\ collector' = [collector EXCEPT !.at = "written"]
     \/ /\ "UpsertPosition" \in Faults
        /\ collector' = Idle
        /\ lost' = lost \cup {"dropped"}
        /\ UNCHANGED <<row, fills>>
  /\ UNCHANGED <<pricer, log, engine, raced, disturbed>>

\* The first n events of the fills that were booked are in the log, once each.
Whole(n) == Len(log) = n /\ \A k \in 1 .. n : log[k].n = k

LogWhole == Whole(fills)

\* The producer delivers an event, gives up on it, or repeats one whose
\* acknowledgement was lost; one such failure is enough here.
Publish(event) ==
  \E copies \in IF "Publish" \in Faults /\ Whole(event.n - 1) THEN 0 .. 2 ELSE {1} :
    log' = log \o [k \in 1 .. copies |-> event]

AnnounceFill ==
  /\ collector.at = "written"
  /\ Publish([n |-> fills, side |-> collector.side, qty |-> collector.qty,
              price |-> collector.price])
  /\ collector' = Idle
  /\ UNCHANGED <<req, row, pricer, fills, lost, engine, raced, disturbed>>

-----------------------------------------------------------------------------
(* The pricer, one price at a time.                                        *)

\* A snapshot comes, and there is a row.
ReadPrice(price) ==
  /\ Pricing /\ pricer = NoRow /\ row.n > 0
  /\ pricer' = UpdateMarketPrice(row, price)
  /\ UNCHANGED <<req, row, collector, fills, lost, log, engine, raced, disturbed>>

WritePrice ==
  /\ pricer.n > 0
  /\ \/ Write(pricer, row.n)
     \/ "UpsertPosition" \in Faults /\ UNCHANGED <<row, lost>>
  /\ pricer' = NoRow
  /\ UNCHANGED <<req, collector, fills, log, engine, raced, disturbed>>

-----------------------------------------------------------------------------
(* The risk engine.  Money starts at 0 here, with the default cash there.  *)

\* Mutant: a settled sale does not free committed cash.
BookedOnce(e, side, cost) ==
  IF side = "buy" THEN [e EXCEPT !.available = @ - cost, !.unsettled = @ + cost]
  ELSE [e EXCEPT !.unsettled = @ - cost, !.cash = @ + cost]

\* Cash and what is committed of it, by the cycle of the instrument.
Booked(e, side, cost) ==
  CASE side = "buy" /\ Cycle = "T0" ->
         [e EXCEPT !.cash = @ - cost, !.available = @ - cost]
    [] side = "sell" /\ Cycle = "T0" ->
         [e EXCEPT !.cash = @ + cost, !.available = @ + cost]
    [] side = "buy" /\ Cycle = "T2" ->
         [e EXCEPT !.available = @ - cost, !.unsettled = @ + cost]
    [] side = "sell" /\ Cycle = "T2" ->
         [e EXCEPT !.available = @ + cost, !.unsettled = @ - cost, !.cash = @ + cost]

\* The process starts, also after it stopped or died: a position that is held
\* is taken from the table with its cost, unless the database fails, and the
\* consumer will read the log from the beginning.
StartEngine ==
  /\ engine.connects < MaxConnects
  /\ \E loads \in {row.qty > 0, FALSE} :
       LET fresh == [next |-> 1, connects |-> engine.connects + 1,
                     qty |-> 0, cash |-> 0, available |-> 0, unsettled |-> 0]
       IN /\ engine' = IF loads THEN Booked([fresh EXCEPT !.qty = row.qty], "buy", row.qty * row.avg)
                       ELSE fresh
          /\ disturbed' = IF loads THEN {"loaded"} ELSE {}
  /\ UNCHANGED <<req, gateway, log, raced>>

\* The consumer lost its connection and assigns itself offset 0 again.
Reconnect ==
  /\ engine.connects \in 1 .. MaxConnects - 1
  /\ engine' = [engine EXCEPT !.next = 1, !.connects = @ + 1]
  /\ disturbed' = IF engine.next > 1 THEN disturbed \cup {"read again"} ELSE disturbed
  /\ UNCHANGED <<req, gateway, log, raced>>

CanApply(event) == event.side = "buy" \/ event.qty <= engine.qty

\* A sale of more than the portfolio has changes nothing, and is passed over.
Consume ==
  /\ engine.connects > 0 /\ engine.next <= Len(log)
  /\ LET event == log[engine.next]
         cost  == event.qty * event.price
         ahead == [engine EXCEPT !.next = @ + 1]
     IN \/ /\ CanApply(event)
           /\ engine' = Booked([ahead EXCEPT !.qty = @ + Signed(event.side, event.qty)],
                               event.side, cost)
           /\ UNCHANGED disturbed
        \/ /\ ~CanApply(event)
           /\ engine' = ahead
           /\ disturbed' = disturbed \cup {"passed over"}
  /\ UNCHANGED <<req, gateway, log, raced>>

Next ==
  \/ \E r \in Requests :
       \/ \E side \in Sides, q \in Quantities : CreateOrder(r, side, q)
       \/ Expire(r)
       \/ \E q \in Quantities : DropFill(r, q) \/ \E price \in Prices : ReadRow(r, q, price)
       \/ WriteFill(r)
  \/ AnnounceFill
  \/ \E price \in Prices : ReadPrice(price)
  \/ WritePrice
  \/ StartEngine \/ Reconnect \/ Consume

Spec == Init /\ [][Next]_vars

-----------------------------------------------------------------------------
(* Properties.                                                             *)

\* Whatever the collector and the pricer overwrite and whatever fails: profit,
\* realised or not, is what the fills in the row brought in and what is held is
\* worth at the price in the row, also for a position that went short or
\* crossed zero; the average may be off by half a unit for each share, at each
\* fill.
PnlConserved ==
  2 * Abs(row.realized + row.unrealized - (row.cash + row.qty * row.mark))
    <= row.n * row.n * CHOOSE q \in Quantities : \A p \in Quantities : p <= q

\* The gate looks at the position and nothing is reserved: the position can
\* become short, but only if two sell orders were under way at once, the
\* booking of their fills included, or the row has lost a fill.
ShortOnlyAfterRace == row.qty < 0 => raced \/ lost # {}

\* A portfolio that has read the whole log, each event in it once, holds what
\* the gateway's row says and has paid what was paid, whether fills were dropped
\* or not; unless the row was overwritten, a row was loaded before the log was
\* read, the log was read again over what was read before, or a sale of more
\* than the portfolio holds was passed over.
Agrees == engine.qty = row.qty /\ engine.available = row.cash

AllConsumed == engine.connects > 0 /\ LogWhole /\ engine.next > Len(log)

EngineAgrees == AllConsumed /\ disturbed = {} /\ "overwritten" \notin lost => Agrees

\* The same without the exception for a row that was loaded, as the docstring of
\* hydrate.py has it: the consumer "only processes *new* events".
LoadedEngineAgrees == AllConsumed /\ disturbed \subseteq {"loaded"} /\ lost = {} => engine.qty = row.qty

\* Only a position that is not there yet is created: a row keeps the fills in it.
RowKeepsFills == [][row'.n >= row.n]_vars

\* A fill that takes a position over to the other side closes what was held and
\* opens the rest: what is held then was bought, or sold, at the price of the
\* fill.
CrossingStartsAnew == [][row.qty * row'.qty < 0 => row'.avg = collector.price]_vars
=============================================================================
